---------------------------------- MODULE Lists ----------------------------------
(***************************************************************************)
(* Lists made from sets.  An order is a set of pairs, and an element stands *)
(* behind all those that come before it: a definition that can be reasoned *)
(* about, where SelectSeq and SortSeq have none a prover can expand.       *)
(***************************************************************************)
EXTENDS Integers, FiniteSets

Below(x, S, R) == {y \in S : <<y, x>> \in R}

\* The elements of S in the order R, a set of pairs.
Ordered(S, R) ==
    [k \in 1 .. Cardinality(S) |-> CHOOSE x \in S : Cardinality(Below(x, S, R)) = k - 1]

Increasing(I) == Ordered(I, {p \in I \X I : p[1] < p[2]})

\* What a list has at the places I, in the order it has it.
Kept(list, I) == [k \in 1 .. Cardinality(I) |-> list[Increasing(I)[k]]]
================================================================================
