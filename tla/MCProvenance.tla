------------------------------ MODULE MCProvenance ------------------------------
(***************************************************************************)
(* Instances of Provenance for TLC.                                        *)
(***************************************************************************)
EXTENDS Provenance, TLC

CONSTANTS near, nested

MCSiblings == <<near, nested>>
MCSymmetry == Permutations(Runners) \cup Permutations(Dirs) \cup Permutations(Files)
                  \cup Permutations(Contents)
================================================================================
