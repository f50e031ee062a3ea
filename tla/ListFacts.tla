--------------------------------- MODULE ListFacts --------------------------------
(***************************************************************************)
(* Facts about the sequence and set operators the models share, for proofs.*)
(***************************************************************************)
EXTENDS Lists, SequencesExt, SequenceTheorems, FiniteSetTheorems, TLAPS

LEMMA FirstNumbers ==
    ASSUME NEW n \in Nat
    PROVE  IsFiniteSet(1 .. n) /\ Cardinality(1 .. n) = n
BY FS_Interval

\* A set of numbers that is not empty has a least one.
LEMMA LeastNumber ==
    ASSUME NEW T \in SUBSET Nat, T # {}
    PROVE  \E m \in T : \A k \in T : m <= k
<1> DEFINE R == OpToRel(<, Nat)
<1>1. PICK m \in T : \A k \in T : <<k, m>> \notin R
  BY NatLessThanWellFounded, WFMin
<1>2. \A k \in T : ~(k < m)
  BY <1>1 DEF OpToRel
<1> QED
  BY <1>2

StrictlyOrders(R, S) ==
    /\ \A x \in S : <<x, x>> \notin R
    /\ \A x, y, z \in S : <<x, y>> \in R /\ <<y, z>> \in R => <<x, z>> \in R
    /\ \A x, y \in S : x = y \/ <<x, y>> \in R \/ <<y, x>> \in R

\* A strict order of a finite set has a minimal element.
LEMMA MinimalElement ==
    ASSUME NEW S, IsFiniteSet(S), S # {}, NEW R,
           \A x \in S : <<x, x>> \notin R,
           \A x, y, z \in S : <<x, y>> \in R /\ <<y, z>> \in R => <<x, z>> \in R
    PROVE  \E x \in S : \A y \in S : <<y, x>> \notin R
<1> DEFINE Those(x) == Below(x, S, R)
           All == {Those(x) : x \in S}
           Smaller == StrictSubsetOrdering(S)
<1>1. IsWellFoundedOn(Smaller, FiniteSubsetsOf(S))
  BY FS_StrictSubsetOrderingWellFounded
<1>2. All \subseteq FiniteSubsetsOf(S) /\ All # {}
  <2>1. \A T \in SUBSET S : IsFiniteSet(T)
    BY FS_Subset
  <2>2. \A x \in S : Those(x) \in SUBSET S
    BY DEF Below
  <2> HIDE DEF Those
  <2> QED
    BY <2>1, <2>2, S # {} DEF FiniteSubsetsOf
<1>3. PICK least \in All : \A other \in All : <<other, least>> \notin Smaller
  BY <1>1, <1>2, WFMin
<1>4. PICK x \in S : least = Those(x)
  BY <1>3
<1>5. ASSUME NEW y \in S, <<y, x>> \in R PROVE FALSE
  <2>1. \A z \in Those(y) : z \in Those(x)
    BY <1>5 DEF Below
  <2>2. y \in Those(x) /\ y \notin Those(y)
    BY <1>5 DEF Below
  <2>3. <<Those(y), Those(x)>> \in Smaller
    BY <2>1, <2>2 DEF StrictSubsetOrdering, Below
  <2> QED
    BY <1>3, <1>4, <2>3
<1> QED
  BY <1>5

\* A set of places in a list has a last one.
LEMMA LastPlace ==
    ASSUME NEW n \in Nat, NEW I \in SUBSET (1 .. n), I # {}
    PROVE  Max(I) \in I /\ \A j \in I : j <= Max(I)
<1> DEFINE R == {p \in I \X I : p[1] > p[2]}
<1>1. IsFiniteSet(I)
  <2>1. IsFiniteSet(1 .. n)
    BY FS_Interval
  <2> QED
    BY <2>1, FS_Subset
<1>2. \A i \in I : i \in Int
  OBVIOUS
<1>3. \A i, j \in I : <<i, j>> \in R <=> i > j
  OBVIOUS
<1> HIDE DEF R
<1>4. PICK i \in I : \A j \in I : <<j, i>> \notin R
  <2>1. \A x \in I : <<x, x>> \notin R
    BY <1>2, <1>3
  <2>2. \A x, y, z \in I : <<x, y>> \in R /\ <<y, z>> \in R => <<x, z>> \in R
    BY <1>2, <1>3
  <2> QED
    BY <1>1, <2>1, <2>2, MinimalElement
<1>5. \A j \in I : ~(j > i)
  BY <1>3, <1>4
<1>6. \A j \in I : i >= j
  BY <1>2, <1>5
<1> QED
  BY <1>6 DEF Max

\* SetToSeq lists every element of a finite set exactly once.
LEMMA SetToSeqLists ==
    ASSUME NEW S, IsFiniteSet(S)
    PROVE  /\ Cardinality(S) \in Nat
           /\ SetToSeq(S) \in [1 .. Cardinality(S) -> S]
           /\ \A i, j \in 1 .. Cardinality(S) : SetToSeq(S)[i] = SetToSeq(S)[j] => i = j
           /\ \A x \in S : \E i \in 1 .. Cardinality(S) : SetToSeq(S)[i] = x
<1> DEFINE n == Cardinality(S)
<1>1. n \in Nat /\ ExistsBijection(1 .. n, S)
  BY FS_CardinalityType
<1>2. \E f \in [1 .. n -> S] : IsInjective(f)
  BY <1>1 DEF ExistsBijection, Bijection, Injection
<1>3. SetToSeq(S) \in [1 .. n -> S] /\ IsInjective(SetToSeq(S))
  BY <1>2 DEF SetToSeq
<1>4. SetToSeq(S) \in Injection(1 .. n, S)
  BY <1>3 DEF Injection
<1>5. IsFiniteSet(1 .. n) /\ Cardinality(1 .. n) = n
  BY <1>1, FS_Interval
<1>6. SetToSeq(S) \in Surjection(1 .. n, S)
  BY <1>4, <1>5, FS_Injection
<1> QED
  BY <1>1, <1>3, <1>6 DEF IsInjective, Surjection


\* The elements of a list are finitely many.
LEMMA ListIsFinite ==
    ASSUME NEW s, NEW n \in Nat, DOMAIN s = 1 .. n
    PROVE  IsFiniteSet(ToSet([i \in DOMAIN s |-> s[i]]))
<1> DEFINE f == [i \in DOMAIN s |-> s[i]]
<1>1. f \in Surjection(1 .. n, ToSet(f))
  BY DEF Surjection, ToSet
<1>2. IsFiniteSet(1 .. n)
  BY FS_Interval
<1> QED
  BY <1>1, <1>2, FS_Surjection

\* The number of elements before one of a strictly ordered finite set: no two
\* have the same, and each number below the size of the set is that of one.
LEMMA RankIsABijection ==
    ASSUME NEW S, IsFiniteSet(S), NEW R,
           StrictlyOrders(R, S)
    PROVE  LET Rank(x) == Cardinality(Below(x, S, R))
           IN  /\ \A x \in S : Rank(x) \in 0 .. Cardinality(S) - 1
               /\ \A x, y \in S : <<x, y>> \in R => Rank(x) < Rank(y)
               /\ \A x, y \in S : Rank(x) = Rank(y) => x = y
               /\ \A k \in 1 .. Cardinality(S) : \E x \in S : Rank(x) = k - 1
<1> DEFINE Those(x) == Below(x, S, R)
           Rank(x) == Cardinality(Those(x))
           n == Cardinality(S)
<1>1. n \in Nat /\ \A x \in S : IsFiniteSet(Those(x)) /\ Rank(x) \in Nat
  BY FS_CardinalityType, FS_Subset DEF Below
<1>2. ASSUME NEW x \in S PROVE Rank(x) < n
  <2>1. Those(x) \in SUBSET S /\ Those(x) # S
    BY DEF Below, StrictlyOrders
  <2>2. Rank(x) <= n /\ (n = Rank(x) => S = Those(x))
    BY <2>1, FS_Subset
  <2> QED
    BY <1>1, <2>1, <2>2
<1>3. ASSUME NEW x \in S, NEW y \in S, <<x, y>> \in R PROVE Rank(x) < Rank(y)
  <2>1. Those(x) \in SUBSET Those(y) /\ x \in Those(y) /\ x \notin Those(x)
    BY <1>3 DEF Below, StrictlyOrders
  <2>2. IsFiniteSet(Those(y))
    BY <1>1
  <2> HIDE DEF Those
  <2>3. Cardinality(Those(x)) <= Cardinality(Those(y))
        /\ (Cardinality(Those(y)) = Cardinality(Those(x)) => Those(y) = Those(x))
    BY <2>1, <2>2, FS_Subset
  <2>4. Those(x) # Those(y)
    BY <2>1
  <2> QED
    BY <1>1, <2>3, <2>4
<1> HIDE DEF Those
<1>4. \A x, y \in S : Rank(x) = Rank(y) => x = y
  <2>1. \A x \in S : Rank(x) \in Nat
    BY <1>1
  <2>2. \A x, y \in S : <<x, y>> \in R => Rank(x) < Rank(y)
    BY <1>3
  <2> HIDE DEF Rank
  <2>3. ASSUME NEW x \in S, NEW y \in S, Rank(x) = Rank(y), x # y PROVE FALSE
    <3>1. <<x, y>> \in R \/ <<y, x>> \in R
      BY <2>3 DEF StrictlyOrders
    <3>2. ~(Rank(x) < Rank(y)) /\ ~(Rank(y) < Rank(x))
      BY <2>1, <2>3
    <3> QED
      BY <2>2, <3>1, <3>2
  <2> QED
    BY <2>3
<1>5. \A x \in S : Rank(x) \in 0 .. n - 1
  <2> HIDE DEF Rank, n
  <2> QED
    BY <1>1, <1>2
<1>6. ASSUME NEW k \in 1 .. n PROVE \E x \in S : Rank(x) = k - 1
  <2> HIDE DEF Rank
  <2> DEFINE f == [x \in S |-> Rank(x) + 1]
  <2> USE DEF n
  <2>1. f \in Injection(S, 1 .. n)
    <3> HIDE DEF n
    <3>1. \A x \in S : Rank(x) + 1 \in 1 .. n
      BY <1>1, <1>5
    <3>2. \A x, y \in S : f[x] = f[y] => x = y
      BY <1>4, <1>5, <1>1
    <3> QED
      BY <3>1, <3>2 DEF Injection, IsInjective
  <2>2. IsFiniteSet(1 .. n) /\ Cardinality(1 .. n) = n
    BY <1>1, FS_Interval
  <2> HIDE DEF f
  <2>3. f \in Surjection(S, 1 .. n)
    BY <2>1, <2>2, FS_Injection
  <2>4. PICK x \in S : f[x] = k
    BY <1>6, <2>3 DEF Surjection
  <2>5. Rank(x) \in Nat
    BY <1>1
  <2> QED
    BY <2>4, <2>5, <1>1 DEF f
<1> QED
  BY <1>3, <1>4, <1>5, <1>6 DEF Those

\* Ordered lists every element of a strictly ordered finite set once, in order.
LEMMA OrderedLists ==
    ASSUME NEW S, IsFiniteSet(S), NEW R,
           StrictlyOrders(R, S)
    PROVE  /\ Cardinality(S) \in Nat
           /\ Ordered(S, R) \in [1 .. Cardinality(S) -> S]
           /\ \A k \in 1 .. Cardinality(S), x \in S :
                 Ordered(S, R)[k] = x <=> Cardinality(Below(x, S, R)) = k - 1
           /\ \A i, j \in 1 .. Cardinality(S) : Ordered(S, R)[i] = Ordered(S, R)[j] => i = j
           /\ \A x \in S : \E k \in 1 .. Cardinality(S) : Ordered(S, R)[k] = x
<1> DEFINE Rank(x) == Cardinality(Below(x, S, R))
           n == Cardinality(S)
           list == Ordered(S, R)
<1>1. n \in Nat
  BY FS_CardinalityType
<1>2. /\ \A x \in S : Rank(x) \in 0 .. n - 1
      /\ \A x, y \in S : Rank(x) = Rank(y) => x = y
      /\ \A k \in 1 .. n : \E x \in S : Rank(x) = k - 1
  BY RankIsABijection
<1>3. list = [k \in 1 .. n |-> CHOOSE x \in S : Rank(x) = k - 1]
  BY DEF Ordered
<1> HIDE DEF Rank, n, list
<1>4. \A k \in 1 .. n : list[k] \in S /\ Rank(list[k]) = k - 1
  BY <1>2, <1>3
<1>5. list \in [1 .. n -> S]
  BY <1>3, <1>4
<1>6. ASSUME NEW k \in 1 .. n, NEW x \in S PROVE list[k] = x <=> Rank(x) = k - 1
  BY <1>2, <1>4
<1>7. ASSUME NEW i \in 1 .. n, NEW j \in 1 .. n, list[i] = list[j] PROVE i = j
  <2>1. i - 1 = j - 1
    BY <1>4, <1>7
  <2> QED
    BY <1>1, <2>1
<1>8. ASSUME NEW x \in S PROVE \E k \in 1 .. n : list[k] = x
  <2>1. Rank(x) \in Int /\ Rank(x) + 1 \in 1 .. n /\ Rank(x) = Rank(x) + 1 - 1
    BY <1>1, <1>2
  <2> QED
    BY <1>6, <2>1
<1> QED
  BY <1>1, <1>5, <1>6, <1>7, <1>8 DEF Rank, n, list

\* A set of places in increasing order.
LEMMA IncreasingLists ==
    ASSUME NEW n \in Nat, NEW I \in SUBSET (1 .. n)
    PROVE  /\ Cardinality(I) \in 0 .. n
           /\ Increasing(I) \in [1 .. Cardinality(I) -> I]
           /\ \A i, j \in 1 .. Cardinality(I) : Increasing(I)[i] = Increasing(I)[j] => i = j
           /\ \A x \in I : \E k \in 1 .. Cardinality(I) : Increasing(I)[k] = x
<1> DEFINE R == {p \in I \X I : p[1] < p[2]}
<1>1. IsFiniteSet(I) /\ Cardinality(I) \in Nat /\ Cardinality(I) <= n
  <2>1. IsFiniteSet(1 .. n) /\ Cardinality(1 .. n) = n
    BY FS_Interval
  <2> QED
    BY <2>1, FS_Subset, FS_CardinalityType
<1>2. \A x, y \in I : <<x, y>> \in R <=> x < y
  OBVIOUS
<1>3. \A x \in I : x \in Int
  OBVIOUS
<1> HIDE DEF R
<1>4. StrictlyOrders(R, I)
  BY <1>2, <1>3 DEF StrictlyOrders
<1>5. Increasing(I) = Ordered(I, R)
  BY DEF Increasing, R
<1> QED
  BY <1>1, <1>4, <1>5, OrderedLists

\* What is kept of a list: one element for each of the places.
LEMMA KeptKeeps ==
    ASSUME NEW list, NEW n \in Nat, NEW I \in SUBSET (1 .. n)
    PROVE  /\ DOMAIN Kept(list, I) = 1 .. Cardinality(I)
           /\ Len(Kept(list, I)) = Cardinality(I)
           /\ \A k \in 1 .. Cardinality(I) :
                 /\ Increasing(I)[k] \in I
                 /\ Kept(list, I)[k] = list[Increasing(I)[k]]
           /\ \A i \in I : \E k \in 1 .. Cardinality(I) :
                 Increasing(I)[k] = i /\ Kept(list, I)[k] = list[i]
<1>1. Cardinality(I) \in Nat
  BY IncreasingLists
<1>2. Kept(list, I) = [k \in 1 .. Cardinality(I) |-> list[Increasing(I)[k]]]
  BY DEF Kept
<1>3. Len(Kept(list, I)) = Cardinality(I)
  BY <1>1, <1>2
<1>4. /\ Increasing(I) \in [1 .. Cardinality(I) -> I]
      /\ \A x \in I : \E k \in 1 .. Cardinality(I) : Increasing(I)[k] = x
  BY IncreasingLists
<1>5. \A k \in 1 .. Cardinality(I) :
         Increasing(I)[k] \in I /\ Kept(list, I)[k] = list[Increasing(I)[k]]
  BY <1>2, <1>4
<1>6. DOMAIN Kept(list, I) = 1 .. Cardinality(I)
  BY <1>2
<1> QED
  BY <1>3, <1>4, <1>5, <1>6

\* The elements of s are those that list has at the places I, each place once.
Picks(s, list, I) ==
    \E at \in [1 .. Len(s) -> I] :
        /\ \A i, j \in 1 .. Len(s) : at[i] = at[j] => i = j
        /\ \A x \in I : \E k \in 1 .. Len(s) : at[k] = x
        /\ \A k \in 1 .. Len(s) : s[k] = list[at[k]]

LEMMA KeptPicks ==
    ASSUME NEW A, NEW list \in Seq(A), NEW I \in SUBSET DOMAIN list
    PROVE  Kept(list, I) \in Seq(A) /\ Picks(Kept(list, I), list, I)
<1> DEFINE n == Len(list)
           s == Kept(list, I)
           at == Increasing(I)
<1>1. n \in Nat /\ DOMAIN list = 1 .. n /\ \A i \in 1 .. n : list[i] \in A
  BY ElementOfSeq
<1>2. I \in SUBSET (1 .. n)
  BY <1>1
<1> HIDE DEF n
<1>3. /\ Cardinality(I) \in Nat
      /\ at \in [1 .. Cardinality(I) -> I]
      /\ \A i, j \in 1 .. Cardinality(I) : at[i] = at[j] => i = j
      /\ \A x \in I : \E k \in 1 .. Cardinality(I) : at[k] = x
  BY <1>1, <1>2, IncreasingLists
<1>4. /\ Len(s) = Cardinality(I)
      /\ \A k \in 1 .. Cardinality(I) : s[k] = list[at[k]]
  BY <1>1, <1>2, KeptKeeps
<1> HIDE DEF at
<1>5. s = [k \in 1 .. Cardinality(I) |-> list[at[k]]]
  BY DEF Kept, at
<1> HIDE DEF s
<1>6. \A k \in 1 .. Cardinality(I) : list[at[k]] \in A
  BY <1>1, <1>2, <1>3
<1>7. s \in Seq(A)
  BY <1>3, <1>5, <1>6
<1>8. Picks(s, list, I)
  BY <1>3, <1>4 DEF Picks
<1> QED
  BY <1>7, <1>8 DEF s

\* Two picks from different places, one after the other.
LEMMA PicksJoin ==
    ASSUME NEW A, NEW s \in Seq(A), NEW t \in Seq(A), NEW list, NEW I, NEW J,
           Picks(s, list, I), Picks(t, list, J), I \cap J = {}
    PROVE  s \o t \in Seq(A) /\ Picks(s \o t, list, I \cup J)
<1> DEFINE p == Len(s)
           q == Len(t)
           both == s \o t
<1>1. /\ p \in Nat /\ q \in Nat
      /\ both \in Seq(A) /\ Len(both) = p + q
      /\ \A k \in 1 .. p : both[k] = s[k]
      /\ \A k \in p + 1 .. p + q : both[k] = t[k - p]
  BY ConcatProperties
<1>2. PICK f \in [1 .. p -> I] :
         /\ \A i, j \in 1 .. p : f[i] = f[j] => i = j
         /\ \A x \in I : \E k \in 1 .. p : f[k] = x
         /\ \A k \in 1 .. p : s[k] = list[f[k]]
  BY DEF Picks
<1>3. PICK g \in [1 .. q -> J] :
         /\ \A i, j \in 1 .. q : g[i] = g[j] => i = j
         /\ \A x \in J : \E k \in 1 .. q : g[k] = x
         /\ \A k \in 1 .. q : t[k] = list[g[k]]
  BY DEF Picks
<1> DEFINE at == [k \in 1 .. p + q |-> IF k <= p THEN f[k] ELSE g[k - p]]
<1> HIDE DEF p, q, both
<1>4. /\ \A k \in 1 .. p : k \in 1 .. p + q /\ at[k] = f[k] /\ at[k] \in I
      /\ \A k \in p + 1 .. p + q :
            k \in 1 .. p + q /\ at[k] = g[k - p] /\ at[k] \in J /\ k - p \in 1 .. q
  BY <1>1
<1>5. \A k \in 1 .. p + q : k \in 1 .. p \/ k \in p + 1 .. p + q
  BY <1>1
<1>6. at \in [1 .. p + q -> I \cup J]
  <2>1. \A k \in 1 .. p + q : at[k] \in I \cup J
    BY <1>4, <1>5
  <2> QED
    BY <2>1
<1> HIDE DEF at
<1>7. ASSUME NEW i \in 1 .. p + q, NEW j \in 1 .. p + q, at[i] = at[j] PROVE i = j
  <2>1. CASE i \in 1 .. p /\ j \in 1 .. p
    BY <1>2, <1>4, <1>7, <2>1
  <2>2. CASE i \in p + 1 .. p + q /\ j \in p + 1 .. p + q
    <3>1. g[i - p] = g[j - p] /\ i - p \in 1 .. q /\ j - p \in 1 .. q
      BY <1>4, <1>7, <2>2
    <3>2. i - p = j - p
      BY <1>3, <3>1
    <3> QED
      BY <1>1, <3>2
  <2>3. ~(i \in 1 .. p /\ j \in p + 1 .. p + q) /\ ~(j \in 1 .. p /\ i \in p + 1 .. p + q)
    BY <1>4, <1>7
  <2>4. /\ i \in 1 .. p \/ i \in p + 1 .. p + q
        /\ j \in 1 .. p \/ j \in p + 1 .. p + q
    BY <1>5
  <2> QED
    BY <2>1, <2>2, <2>3, <2>4
<1>8. ASSUME NEW x \in I \cup J PROVE \E k \in 1 .. p + q : at[k] = x
  <2>1. CASE x \in I
    BY <1>2, <1>4, <2>1
  <2>2. CASE x \in J
    <3>1. PICK k \in 1 .. q : g[k] = x
      BY <1>3, <2>2
    <3> DEFINE l == k + p
    <3>2. l \in p + 1 .. p + q /\ l - p = k
      BY <1>1
    <3> HIDE DEF l
    <3>3. l \in 1 .. p + q /\ at[l] = g[k]
      BY <1>4, <3>2
    <3> QED
      BY <3>1, <3>3
  <2> QED
    BY <2>1, <2>2
<1>9. ASSUME NEW k \in 1 .. p + q PROVE both[k] = list[at[k]]
  <2>1. CASE k \in 1 .. p
    BY <1>1, <1>2, <1>4, <2>1
  <2>2. CASE k \in p + 1 .. p + q
    <3>1. /\ k - p \in 1 .. q /\ at[k] = g[k - p] /\ both[k] = t[k - p]
      BY <1>1, <1>4, <2>2
    <3> QED
      BY <1>3, <3>1
  <2> QED
    BY <1>5, <2>1, <2>2
<1>10. Picks(both, list, I \cup J)
  <2> DEFINE n == p + q
  <2>1. Len(both) = n
    BY <1>1
  <2>2. /\ at \in [1 .. n -> I \cup J]
        /\ \A i, j \in 1 .. n : at[i] = at[j] => i = j
        /\ \A x \in I \cup J : \E k \in 1 .. n : at[k] = x
        /\ \A k \in 1 .. n : both[k] = list[at[k]]
    BY <1>6, <1>7, <1>8, <1>9
  <2> HIDE DEF n
  <2>3. Picks(both, list, I \cup J) <=>
           \E to \in [1 .. n -> I \cup J] :
              /\ \A i, j \in 1 .. n : to[i] = to[j] => i = j
              /\ \A x \in I \cup J : \E k \in 1 .. n : to[k] = x
              /\ \A k \in 1 .. n : both[k] = list[to[k]]
    BY <2>1 DEF Picks
  <2> QED
    BY <2>2, <2>3
<1> QED
  BY <1>1, <1>10 DEF both

\* What can be appended to one by one can be flattened: the function that
\* FlattenSeq chooses exists.
LEMMA FlattenSeqUnfolds ==
    ASSUME NEW A, NEW seqs \in Seq(Seq(A)), Len(seqs) # 0
    PROVE  \E f : /\ DOMAIN f = 1 .. Len(seqs) /\ FlattenSeq(seqs) = f[Len(seqs)]
                  /\ f[1] = seqs[1]
                  /\ \A i \in 2 .. Len(seqs) : f[i] = f[i - 1] \o seqs[i]
<1> DEFINE n == Len(seqs)
           Next(g, i) == IF i = 1 THEN seqs[i] ELSE g[i - 1] \o seqs[i]
           Upto(m) == {g \in [1 .. m -> Seq(A)] : \A i \in 1 .. m : g[i] = Next(g, i)}
           T == {m \in 1 .. n : Upto(m) = {}}
<1>1. n \in Nat /\ n >= 1 /\ \A i \in 1 .. n : seqs[i] \in Seq(A)
  OBVIOUS
<1>2. T = {}
  <2> SUFFICES ASSUME T # {} PROVE FALSE
    OBVIOUS
  <2>1. PICK m \in T : \A k \in T : m <= k
    <3>1. T \in SUBSET Nat
      BY <1>1
    <3> HIDE DEF T
    <3> QED
      BY <3>1, LeastNumber
  <2>2. m \in 1 .. n /\ Upto(m) = {}
    BY <2>1
  <2>3. CASE m = 1
    <3> DEFINE g == [i \in 1 .. 1 |-> seqs[1]]
    <3>1. g \in [1 .. m -> Seq(A)] /\ \A i \in 1 .. m : g[i] = Next(g, i)
      BY <1>1, <2>3
    <3> QED
      BY <2>2, <3>1
  <2>4. CASE m # 1
    <3>1. m - 1 \in 1 .. n /\ m - 1 \notin T
      <4>1. ~(m <= m - 1)
        BY <1>1, <2>2
      <4>2. m - 1 \in 1 .. n
        BY <1>1, <2>2, <2>4
      <4> HIDE DEF T
      <4> QED
        BY <4>1, <4>2, <2>1
    <3>2. PICK g \in [1 .. m - 1 -> Seq(A)] : \A i \in 1 .. m - 1 : g[i] = Next(g, i)
      BY <3>1
    <3> DEFINE h == [i \in 1 .. m |-> IF i < m THEN g[i] ELSE g[m - 1] \o seqs[m]]
    <3>3. g[m - 1] \o seqs[m] \in Seq(A)
      <4>1. g[m - 1] \in Seq(A) /\ seqs[m] \in Seq(A)
        BY <1>1, <2>2, <3>1, <3>2
      <4> QED
        BY <4>1, ConcatProperties
    <3>4. h \in [1 .. m -> Seq(A)]
      <4>1. ASSUME NEW i \in 1 .. m, i < m PROVE i \in 1 .. m - 1
        BY <4>1, <2>2, <1>1
      <4> QED
        BY <3>2, <3>3, <4>1
    <3>5. ASSUME NEW i \in 1 .. m PROVE h[i] = Next(h, i)
      <4>1. CASE i = m
        <5>1. h[i] = g[m - 1] \o seqs[m]
          <6>1. ~(i < m)
            BY <4>1, <1>1, <2>2
          <6> QED
            BY <4>1, <6>1
        <5>2. h[i - 1] = g[m - 1]
          BY <4>1, <1>1, <2>2, <2>4
        <5> HIDE DEF h
        <5> QED
          BY <4>1, <5>1, <5>2, <2>4
      <4>2. CASE i # m
        <5>1. i \in 1 .. m - 1 /\ i < m /\ i - 1 < m
          BY <4>2, <1>1, <2>2
        <5>2. h[i] = Next(g, i)
          BY <3>2, <5>1
        <5>3. CASE i = 1
          BY <5>2, <5>3
        <5>4. CASE i # 1
          <6>1. h[i - 1] = g[i - 1]
            BY <5>1, <5>4, <1>1, <2>2
          <6> HIDE DEF h
          <6> QED
            BY <5>2, <5>4, <6>1
        <5> QED
          BY <5>3, <5>4
      <4> QED
        BY <4>1, <4>2
    <3>6. h \in Upto(m)
      <4> HIDE DEF h, Next
      <4> QED
        BY <3>4, <3>5
    <3> QED
      BY <2>2, <3>6
  <2> QED
    BY <2>3, <2>4
<1>3. PICK g \in [1 .. n -> Seq(A)] : \A i \in 1 .. n : g[i] = Next(g, i)
  <2>1. n \in 1 .. n /\ n \notin T
    <3> HIDE DEF T
    <3> QED
      BY <1>1, <1>2
  <2>2. Upto(n) # {}
    BY <2>1
  <2> QED
    BY <2>2
<1> DEFINE f == CHOOSE f : f = [i \in 1 .. n |-> IF i = 1 THEN seqs[i] ELSE f[i - 1] \o seqs[i]]
<1>4. g = [i \in 1 .. n |-> IF i = 1 THEN seqs[i] ELSE g[i - 1] \o seqs[i]]
  BY <1>3
<1>5. f = [i \in 1 .. n |-> IF i = 1 THEN seqs[i] ELSE f[i - 1] \o seqs[i]]
  <2> HIDE DEF n
  <2> QED
    BY <1>4
<1>6. FlattenSeq(seqs) = f[n]
  BY DEF FlattenSeq
<1> HIDE DEF f
<1>7. DOMAIN f = 1 .. n /\ \A i \in 1 .. n : f[i] = Next(f, i)
  BY <1>5
<1>8. f[1] = seqs[1]
  <2>1. 1 \in 1 .. n
    BY <1>1
  <2> HIDE DEF n
  <2> QED
    BY <1>7, <2>1
<1>9. \A i \in 2 .. n : f[i] = f[i - 1] \o seqs[i]
  <2>1. \A i \in 2 .. n : i \in 1 .. n /\ i # 1
    BY <1>1
  <2> HIDE DEF n
  <2> QED
    BY <1>7, <2>1
<1> QED
  BY <1>6, <1>7, <1>8, <1>9

\* at[k] is where element k of a list comes from: at[k][1] is one of the first m
\* lists of seqs, at[k][2] a place in it, and no place is missed or used twice.
AreThePlaces(at, list, seqs, m) ==
    /\ DOMAIN at = 1 .. Len(list)
    /\ \A k \in 1 .. Len(list) :
          /\ at[k] = <<at[k][1], at[k][2]>>
          /\ at[k][1] \in 1 .. m /\ at[k][2] \in 1 .. Len(seqs[at[k][1]])
          /\ list[k] = seqs[at[k][1]][at[k][2]]
    /\ \A k, l \in 1 .. Len(list) : at[k] = at[l] => k = l
    /\ \A i \in 1 .. m : \A j \in 1 .. Len(seqs[i]) :
          \E k \in 1 .. Len(list) : at[k] = <<i, j>>

LEMMA PlacesOfConcat ==
    ASSUME NEW A, NEW list \in Seq(A), NEW seqs, NEW m \in Nat, m > 1,
           seqs[m] \in Seq(A), NEW at, AreThePlaces(at, list, seqs, m - 1)
    PROVE  \E to : AreThePlaces(to, list \o seqs[m], seqs, m)
<1> DEFINE p == Len(list)
           q == Len(seqs[m])
           both == list \o seqs[m]
           to == [k \in 1 .. p + q |-> IF k <= p THEN at[k] ELSE <<m, k - p>>]
<1>1. /\ p \in Nat /\ q \in Nat
      /\ Len(both) = p + q
      /\ \A k \in 1 .. p : both[k] = list[k]
      /\ \A k \in p + 1 .. p + q : both[k] = seqs[m][k - p]
  BY ConcatProperties
<1>2. /\ \A k \in 1 .. p : k \in 1 .. p + q /\ to[k] = at[k]
      /\ \A k \in p + 1 .. p + q :
            /\ k \in 1 .. p + q /\ to[k] = <<m, k - p>>
            /\ to[k][1] = m /\ to[k][2] = k - p /\ k - p \in 1 .. q
  BY <1>1
<1>3. \A k \in 1 .. p + q : k \in 1 .. p \/ k \in p + 1 .. p + q
  BY <1>1
<1>4. DOMAIN to = 1 .. p + q
  OBVIOUS
<1> HIDE DEF to, both
<1>5. ASSUME NEW k \in 1 .. p
      PROVE  /\ at[k] = <<at[k][1], at[k][2]>>
             /\ at[k][1] \in 1 .. m - 1 /\ at[k][2] \in 1 .. Len(seqs[at[k][1]])
             /\ list[k] = seqs[at[k][1]][at[k][2]]
  BY DEF AreThePlaces
<1>6. ASSUME NEW k \in 1 .. p + q
      PROVE  /\ to[k] = <<to[k][1], to[k][2]>>
             /\ to[k][1] \in 1 .. m /\ to[k][2] \in 1 .. Len(seqs[to[k][1]])
             /\ both[k] = seqs[to[k][1]][to[k][2]]
  <2>1. CASE k \in 1 .. p
    <3>1. to[k] = at[k] /\ both[k] = list[k]
      BY <1>1, <1>2, <2>1
    <3>2. at[k][1] \in 1 .. m - 1 /\ \A i \in 1 .. m - 1 : i \in 1 .. m
      BY <1>5, <2>1
    <3> QED
      BY <1>5, <2>1, <3>1, <3>2
  <2>2. CASE k \in p + 1 .. p + q
    <3>1. /\ to[k] = <<m, k - p>> /\ to[k][1] = m /\ to[k][2] = k - p
          /\ k - p \in 1 .. q /\ both[k] = seqs[m][k - p]
      BY <1>1, <1>2, <2>2
    <3>2. m \in 1 .. m
      OBVIOUS
    <3> QED
      BY <3>1, <3>2
  <2> QED
    BY <1>3, <2>1, <2>2
<1>7. ASSUME NEW k \in 1 .. p + q, NEW l \in 1 .. p + q, to[k] = to[l] PROVE k = l
  <2>1. CASE k \in 1 .. p /\ l \in 1 .. p
    BY <1>2, <1>7, <2>1 DEF AreThePlaces
  <2>2. CASE k \in p + 1 .. p + q /\ l \in p + 1 .. p + q
    <3>1. k - p = l - p
      BY <1>2, <1>7, <2>2
    <3> QED
      BY <1>1, <3>1
  <2>3. \A i \in 1 .. p, j \in p + 1 .. p + q : to[i][1] # to[j][1]
    BY <1>2, <1>5
  <2>4. to[k][1] = to[l][1]
    BY <1>7
  <2>5. ~(k \in 1 .. p /\ l \in p + 1 .. p + q) /\ ~(l \in 1 .. p /\ k \in p + 1 .. p + q)
    BY <2>3, <2>4
  <2>6. /\ k \in 1 .. p \/ k \in p + 1 .. p + q
        /\ l \in 1 .. p \/ l \in p + 1 .. p + q
    BY <1>3
  <2> QED
    BY <2>1, <2>2, <2>5, <2>6
<1>8. ASSUME NEW i \in 1 .. m, NEW j \in 1 .. Len(seqs[i])
      PROVE  \E k \in 1 .. p + q : to[k] = <<i, j>>
  <2>1. CASE i = m
    <3>1. p + j \in p + 1 .. p + q /\ p + j - p = j
      BY <1>1, <1>8, <2>1
    <3> QED
      BY <1>2, <2>1, <3>1
  <2>2. CASE i # m
    <3>1. i \in 1 .. m - 1
      BY <2>2
    <3>2. PICK k \in 1 .. p : at[k] = <<i, j>>
      BY <3>1, <1>8 DEF AreThePlaces
    <3> QED
      BY <1>2, <3>2
  <2> QED
    BY <2>1, <2>2
<1> HIDE DEF p, q
<1>9. AreThePlaces(to, both, seqs, m)
  <2> DEFINE N == Len(both)
  <2>1. N = p + q /\ DOMAIN to = 1 .. N
    BY <1>1, <1>4
  <2> HIDE DEF N
  <2>2. \A k \in 1 .. N :
           /\ to[k] = <<to[k][1], to[k][2]>>
           /\ to[k][1] \in 1 .. m /\ to[k][2] \in 1 .. Len(seqs[to[k][1]])
           /\ both[k] = seqs[to[k][1]][to[k][2]]
    BY <1>6, <2>1
  <2>3. /\ \A k, l \in 1 .. N : to[k] = to[l] => k = l
        /\ \A i \in 1 .. m : \A j \in 1 .. Len(seqs[i]) : \E k \in 1 .. N : to[k] = <<i, j>>
    BY <1>7, <1>8, <2>1
  <2> QED
    BY <2>1, <2>2, <2>3 DEF AreThePlaces, N
<1> QED
  BY <1>9 DEF both

\* A flattened list has an element for each place in each of the lists.
LEMMA FlattenSeqPlaces ==
    ASSUME NEW A, NEW seqs \in Seq(Seq(A))
    PROVE  /\ FlattenSeq(seqs) \in Seq(A)
           /\ \E at : AreThePlaces(at, FlattenSeq(seqs), seqs, Len(seqs))
<1> DEFINE n == Len(seqs)
<1>0. n \in Nat /\ \A i \in 1 .. n : seqs[i] \in Seq(A)
  OBVIOUS
<1>1. CASE n = 0
  <2>1. FlattenSeq(seqs) = seqs /\ seqs = <<>>
    BY <1>1, EmptySeq DEF FlattenSeq
  <2>2. AreThePlaces(<<>>, <<>>, seqs, 0)
    BY DEF AreThePlaces
  <2> QED
    BY <1>1, <2>1, <2>2
<1>2. CASE n # 0
  <2>1. PICK f : /\ DOMAIN f = 1 .. n /\ FlattenSeq(seqs) = f[n]
                 /\ f[1] = seqs[1]
                 /\ \A i \in 2 .. n : f[i] = f[i - 1] \o seqs[i]
    BY <1>2, FlattenSeqUnfolds
  <2> DEFINE Good(i) == f[i] \in Seq(A) /\ \E at : AreThePlaces(at, f[i], seqs, i)
             T == {i \in 1 .. n : ~Good(i)}
  <2>2. T = {}
    <3> SUFFICES ASSUME T # {} PROVE FALSE
      OBVIOUS
    <3>1. PICK m \in T : \A k \in T : m <= k
      <4>1. T \in SUBSET Nat
        BY <1>0
      <4> HIDE DEF T
      <4> QED
        BY <4>1, LeastNumber
    <3>2. m \in 1 .. n /\ ~Good(m)
      BY <3>1
    <3>3. CASE m = 1
      <4> DEFINE at == [k \in 1 .. Len(seqs[1]) |-> <<1, k>>]
      <4>1. seqs[1] \in Seq(A) /\ Len(seqs[1]) \in Nat
        BY <1>0, <3>2, <3>3
      <4>2. /\ DOMAIN at = 1 .. Len(seqs[1])
            /\ \A k \in 1 .. Len(seqs[1]) :
                  at[k] = <<1, k>> /\ at[k][1] = 1 /\ at[k][2] = k
        OBVIOUS
      <4> HIDE DEF at, T, Good
      <4>3. AreThePlaces(at, seqs[1], seqs, 1)
        <5>1. \A i \in 1 .. 1 : i = 1
          OBVIOUS
        <5>2. \A i \in 1 .. 1 : \A j \in 1 .. Len(seqs[i]) :
                 \E k \in 1 .. Len(seqs[1]) : at[k] = <<i, j>>
          BY <4>2, <5>1
        <5>3. \A k \in 1 .. Len(seqs[1]) :
                 /\ at[k] = <<at[k][1], at[k][2]>>
                 /\ at[k][1] \in 1 .. 1 /\ at[k][2] \in 1 .. Len(seqs[at[k][1]])
                 /\ seqs[1][k] = seqs[at[k][1]][at[k][2]]
          BY <4>2
        <5>4. \A k, l \in 1 .. Len(seqs[1]) : at[k] = at[l] => k = l
          BY <4>2
        <5> QED
          BY <4>2, <5>2, <5>3, <5>4 DEF AreThePlaces
      <4> QED
        BY <2>1, <3>2, <3>3, <4>1, <4>3 DEF Good
    <3>4. CASE m # 1
      <4>1. m - 1 \in 1 .. n /\ m \in 2 .. n
        BY <1>0, <3>2, <3>4
      <4>2. Good(m - 1)
        <5>1. ~(m <= m - 1)
          BY <4>1
        <5>2. m - 1 \notin T
          <6> HIDE DEF T
          <6> QED
            BY <3>1, <5>1
        <5> QED
          BY <4>1, <5>2
      <4>3. PICK at : AreThePlaces(at, f[m - 1], seqs, m - 1)
        BY <4>2
      <4>4. f[m - 1] \in Seq(A) /\ seqs[m] \in Seq(A) /\ f[m] = f[m - 1] \o seqs[m]
        BY <1>0, <2>1, <4>1, <4>2
      <4> HIDE DEF Good, T
      <4>5. \E to : AreThePlaces(to, f[m], seqs, m)
        BY <4>1, <4>3, <4>4, PlacesOfConcat
      <4>6. f[m] \in Seq(A)
        BY <4>4, ConcatProperties
      <4> QED
        BY <3>2, <4>5, <4>6 DEF Good
    <3> QED
      BY <3>3, <3>4
  <2>3. n \in 1 .. n /\ n \notin T
    <3> HIDE DEF T
    <3> QED
      BY <1>0, <1>2, <2>2
  <2> QED
    BY <2>1, <2>3
<1> QED
  BY <1>1, <1>2
================================================================================
