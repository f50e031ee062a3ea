----------------------------- MODULE ComparisonProofs -----------------------------
(***************************************************************************)
(* Proofs about the report, for any rows of any run, in four parts: the    *)
(* rules of comparison, applied to lists of any length; the order in which *)
(* reconcile_results puts the rows; the cells of one workload; and the     *)
(* invariants of the report, which follow from what these say of a report  *)
(* that is, row by row, a function of the reconciled evidence.             *)
(***************************************************************************)
EXTENDS Comparison, ListFacts

--------------------------------------------------------------------------------
(***************************************************************************)
(* The rules of comparison.                                                *)
(***************************************************************************)
\* Two rows, as a list.
LEMMA PairAsList ==
    ASSUME NEW a, NEW b
    PROVE  /\ Len(<<a, b>>) = 2 /\ <<a, b>>[1] = a /\ <<a, b>>[2] = b
           /\ 1 .. Len(<<a, b>>) = {1, 2} /\ 2 .. Len(<<a, b>>) = {2}
OBVIOUS

LEMMA PairOfCells ==
    ASSUME NEW a, NEW b
    PROVE  /\ CompatibleEnvironments(<<a, b>>) <=>
                 /\ HostsAgree(a, b) /\ a.debug = b.debug
                 /\ a.gpu # NoDevice /\ b.gpu # NoDevice
                       => GpuCompatibilityKey(a) = GpuCompatibilityKey(b)
           /\ CompatibleContracts(<<a, b>>) <=>
                 \/ ~Heterogeneous(a) /\ ~Heterogeneous(b)
                 \/ /\ Heterogeneous(a) /\ Heterogeneous(b)
                    /\ \A d \in RatioDimensions : a.exec[d] = b.exec[d]
                    /\ a.exec.streams > 0 /\ b.exec.streams > 0
                          => a.exec.streams = b.exec.streams
<1> DEFINE both == <<a, b>>
<1>1. /\ Len(both) = 2 /\ both[1] = a /\ both[2] = b
      /\ 1 .. Len(both) = {1, 2} /\ 2 .. Len(both) = {2}
  BY PairAsList
<1> HIDE DEF both
<1>2. CompatibleEnvironments(both) <=>
         /\ HostsAgree(a, b) /\ a.debug = b.debug
         /\ a.gpu # NoDevice /\ b.gpu # NoDevice
               => GpuCompatibilityKey(a) = GpuCompatibilityKey(b)
  BY <1>1 DEF CompatibleEnvironments
<1>3. CompatibleContracts(both) <=>
         \/ ~Heterogeneous(a) /\ ~Heterogeneous(b)
         \/ /\ Heterogeneous(a) /\ Heterogeneous(b)
            /\ \A d \in RatioDimensions : a.exec[d] = b.exec[d]
            /\ a.exec.streams > 0 /\ b.exec.streams > 0
                  => a.exec.streams = b.exec.streams
  BY <1>1 DEF CompatibleContracts
<1> QED
  BY <1>2, <1>3 DEF both

\* A valid row that uses streams names the device it used.
LEMMA StreamsNeedDevice ==
    ASSUME NEW r, ValidResult(r), Heterogeneous(r), r.exec.streams > 0
    PROVE  r.gpu # NoDevice
<1>1. ValidExecution(r)
  BY DEF ValidResult
<1>2. r.exec.scope \in GpuScopes
  BY <1>1 DEF ValidExecution
<1> QED
  BY <1>1, <1>2 DEF ValidExecution, ValidDevice

(***************************************************************************)
(* The two rules of the report, applied to two valid measurements of one   *)
(* workload, decide as the contract's own rule does (ratio_compatible),    *)
(* with the host, the build and the device compared besides.               *)
(***************************************************************************)
THEOREM ReportAgreesWithContract ==
    ASSUME NEW a, NEW b, ValidResult(a), ValidResult(b), Supported(a), Supported(b),
           a.workload = b.workload
    PROVE  Comparable(<<a, b>>) <=> MayCompare(a, b)
<1>1. Heterogeneous(a) /\ a.exec.streams > 0 => a.gpu # NoDevice
  BY StreamsNeedDevice
<1>2. Heterogeneous(b) /\ b.exec.streams > 0 => b.gpu # NoDevice
  BY StreamsNeedDevice
<1>3. \A r \in {a, b} : r.gpu # NoDevice => GpuCompatibilityKey(r) = r.gpu.uuid
  BY DEF GpuCompatibilityKey
<1> QED
  BY <1>1, <1>2, <1>3, PairOfCells DEF Comparable, MayCompare, RatioCompatible

(***************************************************************************)
(* Where all pairs of a list have a ratio, the list has a winner.          *)
(***************************************************************************)
THEOREM PairsMakeTheList ==
    ASSUME NEW list, Len(list) \in Nat, Len(list) >= 2,
           \A i, j \in 1 .. Len(list) : i < j => Comparable(<<list[i], list[j]>>)
    PROVE  Comparable(list)
<1> DEFINE n == Len(list)
<1>1. 1 \in 1 .. n /\ \A i \in 2 .. n : i \in 1 .. n
  OBVIOUS
<1>2. ASSUME NEW i \in 1 .. n, NEW j \in 1 .. n, i < j
      PROVE  /\ HostsAgree(list[i], list[j]) /\ list[i].debug = list[j].debug
             /\ list[i].gpu # NoDevice /\ list[j].gpu # NoDevice
                   => GpuCompatibilityKey(list[i]) = GpuCompatibilityKey(list[j])
             /\ \/ ~Heterogeneous(list[i]) /\ ~Heterogeneous(list[j])
                \/ /\ Heterogeneous(list[i]) /\ Heterogeneous(list[j])
                   /\ \A d \in RatioDimensions : list[i].exec[d] = list[j].exec[d]
                   /\ list[i].exec.streams > 0 /\ list[j].exec.streams > 0
                         => list[i].exec.streams = list[j].exec.streams
  <2>1. Comparable(<<list[i], list[j]>>)
    BY <1>2
  <2> HIDE DEF n
  <2> QED
    BY <2>1, PairOfCells DEF Comparable
<1>3. CompatibleEnvironments(list)
  <2>1. \A i \in 2 .. n : 1 < i
    OBVIOUS
  <2>2. \A i \in 2 .. n : HostsAgree(list[1], list[i])
    BY <1>1, <1>2, <2>1
  <2>3. \A i, j \in 1 .. n : i < j \/ j < i \/ i = j
    OBVIOUS
  <2>4. \A i, j \in 1 .. n :
           /\ list[i].debug = list[j].debug
           /\ list[i].gpu # NoDevice /\ list[j].gpu # NoDevice
                 => GpuCompatibilityKey(list[i]) = GpuCompatibilityKey(list[j])
    BY <1>2, <2>3
  <2> QED
    BY <2>2, <2>4 DEF CompatibleEnvironments
<1>4. \A i \in 1 .. n : i = 1 \/ (i \in 2 .. n /\ 1 < i)
  OBVIOUS
<1>5. CASE Heterogeneous(list[1])
  <2>1. \A i \in 1 .. n : Heterogeneous(list[i])
    BY <1>1, <1>2, <1>4, <1>5
  <2>2. CompatibleContracts(list)
    <3>1. \A i \in 2 .. n, d \in RatioDimensions : list[1].exec[d] = list[i].exec[d]
      BY <1>1, <1>2, <1>4, <2>1
    <3>2. \A i, j \in 1 .. n : i < j \/ j < i \/ i = j
      OBVIOUS
    <3>3. \A i, j \in 1 .. n :
             list[i].exec.streams > 0 /\ list[j].exec.streams > 0
             => list[i].exec.streams = list[j].exec.streams
      BY <1>2, <2>1, <3>2
    <3> QED
      BY <2>1, <3>1, <3>3 DEF CompatibleContracts
  <2> QED
    BY <1>3, <2>2 DEF Comparable
<1>6. CASE ~Heterogeneous(list[1])
  <2>1. \A i \in 1 .. n : ~Heterogeneous(list[i])
    BY <1>1, <1>2, <1>4, <1>6
  <2>2. CompatibleContracts(list)
    BY <2>1 DEF CompatibleContracts
  <2> QED
    BY <1>3, <2>2 DEF Comparable
<1> QED
  BY <1>5, <1>6

(***************************************************************************)
(* Conversely, where the list has a winner a pair goes without a ratio for *)
(* one reason only: their hosts disagree over a key the first measurement  *)
(* leaves open (_compatible_environments compares every host with the      *)
(* first one only).                                                        *)
(***************************************************************************)
THEOREM OnlyOpenKeysDivide ==
    ASSUME NEW list, Len(list) \in Nat, Comparable(list),
           NEW i \in 1 .. Len(list), NEW j \in 1 .. Len(list),
           ~Comparable(<<list[i], list[j]>>)
    PROVE  \E k \in HostKeys : list[1].host[k] = Unknown /\ Disputed(list[i], list[j], k)
<1> DEFINE n == Len(list)
<1>1. CompatibleEnvironments(list) /\ CompatibleContracts(list) /\ n >= 2
  BY DEF Comparable, CompatibleContracts
<1>2. /\ list[i].debug = list[j].debug
      /\ list[i].gpu # NoDevice /\ list[j].gpu # NoDevice
            => GpuCompatibilityKey(list[i]) = GpuCompatibilityKey(list[j])
  BY <1>1 DEF CompatibleEnvironments
<1>3. ~HostsAgree(list[i], list[j])
  <2>1. CASE \A m \in 1 .. n : ~Heterogeneous(list[m])
    BY <1>2, <2>1, PairOfCells DEF Comparable
  <2>2. CASE /\ \A m \in 1 .. n : Heterogeneous(list[m])
             /\ \A m \in 2 .. n, d \in RatioDimensions : list[1].exec[d] = list[m].exec[d]
             /\ \A l, m \in 1 .. n :
                   list[l].exec.streams > 0 /\ list[m].exec.streams > 0
                   => list[l].exec.streams = list[m].exec.streams
    <3>1. \A d \in RatioDimensions, m \in 1 .. n : list[m].exec[d] = list[1].exec[d]
      BY <2>2
    <3> QED
      BY <1>2, <2>2, <3>1, PairOfCells DEF Comparable
  <2> QED
    BY <1>1, <2>1, <2>2 DEF CompatibleContracts
<1>4. PICK k \in HostKeys : Disputed(list[i], list[j], k)
  BY <1>3 DEF HostsAgree, Disputed
<1>5. ASSUME list[1].host[k] # Unknown, NEW m \in 1 .. n, list[m].host[k] # Unknown
      PROVE  list[m].host[k] = list[1].host[k]
  <2>1. m = 1 \/ m \in 2 .. n
    OBVIOUS
  <2> QED
    BY <1>1, <1>5, <2>1 DEF CompatibleEnvironments, HostsAgree
<1> QED
  BY <1>4, <1>5 DEF Disputed

\* Every key of the row's host is declared.
Declared(r) == \A k \in HostKeys : r.host[k] # Unknown

(***************************************************************************)
(* So it is enough that the first measurement declares its host in full:   *)
(* then a winner is named only where all pairs have a ratio.               *)
(***************************************************************************)
THEOREM DeclaredHostsAreEnough ==
    ASSUME NEW list, Len(list) \in Nat, Comparable(list), Declared(list[1])
    PROVE  \A i, j \in 1 .. Len(list) : Comparable(<<list[i], list[j]>>)
BY OnlyOpenKeysDivide DEF Declared

(***************************************************************************)
(* Two measurements the contract lets compare stand on the same side of    *)
(* the device's boundary: they use one timer, and time on the device alone *)
(* is set against the like (validate_result with RATIO_DIMENSIONS).        *)
(***************************************************************************)
THEOREM RatiosKeepTheBoundary ==
    ASSUME NEW a, NEW b, RatioCompatible(a, b)
    PROVE  /\ a.exec.timer = b.exec.timer
           /\ a.exec.residency = "device" <=> b.exec.residency = "device"
<1>1. /\ ValidExecution(a) /\ ValidExecution(b)
      /\ a.exec.comparison = b.exec.comparison
  BY DEF RatioCompatible, ValidResult, RatioDimensions
<1>2. \A r \in {a, b} :
         /\ r.exec.scope \in Scopes
         /\ r.exec.timer = ScopeRule[r.exec.scope].timer
         /\ r.exec.comparison = ScopeRule[r.exec.scope].comparison
         /\ r.exec.residency = ScopeRule[r.exec.scope].residency
  BY <1>1 DEF ValidExecution
<1>3. \A s, t \in Scopes :
         ScopeRule[s].comparison = ScopeRule[t].comparison =>
            /\ ScopeRule[s].timer = ScopeRule[t].timer
            /\ ScopeRule[s].residency = "device" <=> ScopeRule[t].residency = "device"
  BY DEF Scopes, ScopeRule
<1> QED
  BY <1>1, <1>2, <1>3

--------------------------------------------------------------------------------
(***************************************************************************)
(* The order of reconcile_results.                                         *)
(***************************************************************************)

\* What the rows of a run look like when their hosts are merged.
RunRows == {Merged(r) : r \in UNION Rows}

LEMMA RunRowsAreTyped ==
    /\ \A r \in RunRows :
          /\ r.family \in Families /\ r.time \in Nat /\ r.ops \in Nat
          /\ TextRank(MeasurementIdentity(r)) \in Nat
    /\ \A a, b \in RunRows :
          TextRank(MeasurementIdentity(a)) = TextRank(MeasurementIdentity(b))
          => MeasurementIdentity(a) = MeasurementIdentity(b)
<1>1. ASSUME NEW q \in UNION Rows
      PROVE  /\ Merged(q).family \in Families /\ Merged(q).time \in Nat /\ Merged(q).ops \in Nat
             /\ MeasurementIdentity(Merged(q)) = MeasurementIdentity(q)
  <2>1. RowFields \subseteq DOMAIN q /\ q.family \in Families /\ q.time \in Nat /\ q.ops \in Nat
    BY RowsAssumption
  <2>2. /\ Merged(q).family = q.family /\ Merged(q).time = q.time /\ Merged(q).ops = q.ops
        /\ Merged(q).exec = q.exec /\ Merged(q).cpu = q.cpu /\ Merged(q).gpu = q.gpu
    BY <2>1 DEF Merged, RowFields
  <2> QED
    BY <2>1, <2>2 DEF MeasurementIdentity, Heterogeneous
<1> DEFINE Identities == {MeasurementIdentity(r) : r \in UNION Rows}
<1>2. \A a, b \in Identities : TextRank(a) \in Nat /\ (TextRank(a) = TextRank(b) => a = b)
  BY RowsAssumption
<1>3. \A r \in RunRows : MeasurementIdentity(r) \in Identities
  BY <1>1 DEF RunRows
<1>4. \A r \in RunRows : r.family \in Families /\ r.time \in Nat /\ r.ops \in Nat
  BY <1>1 DEF RunRows
<1> HIDE DEF Identities
<1> QED
  BY <1>2, <1>3, <1>4

\* A member of a list has a place of its own in it.
LEMMA PositionInList ==
    ASSUME NEW S, NEW seq, Enumerates(seq, S)
    PROVE  /\ \A x \in S : Position(seq, x) \in Nat
           /\ \A x, y \in S : Position(seq, x) = Position(seq, y) => x = y
<1>1. \A i \in DOMAIN seq : i \in Nat
  BY DEF Enumerates
<1>2. \A x \in S : Position(seq, x) \in DOMAIN seq /\ seq[Position(seq, x)] = x
  BY DEF Enumerates, Position
<1> QED
  BY <1>1, <1>2

\* The rows that reconcile_results may sort: valid, of known workloads.
Sortable(r) == r \in RunRows /\ ValidResult(r) /\ r.workload \in Workloads

LEMMA SortKeys ==
    ASSUME NEW r, Sortable(r)
    PROVE  /\ Position(SortedIds, r.workload) \in Nat
           /\ Position(BundleOrder, r.family) \in Nat
           /\ ScopeRank(r) \in Int
           /\ TextRank(MeasurementIdentity(r)) \in Nat
<1>1. r.family \in Families /\ TextRank(MeasurementIdentity(r)) \in Nat
  BY RunRowsAreTyped DEF Sortable
<1>2. Position(SortedIds, r.workload) \in Nat /\ Position(BundleOrder, r.family) \in Nat
  BY <1>1, PositionInList, ComparisonAssumption DEF Sortable
<1>3. ScopeRank(r) \in Int
  <2>1. CASE Heterogeneous(r)
    <3>1. r.exec.scope \in Scopes
      BY <2>1 DEF Sortable, ValidResult, ValidExecution
    <3>2. \A s \in Scopes : ScopeRule[s].rank \in Int
      BY DEF Scopes, ScopeRule
    <3> QED
      BY <2>1, <3>1, <3>2 DEF ScopeRank
  <2>2. CASE ~Heterogeneous(r)
    BY <2>2 DEF ScopeRank
  <2> QED
    BY <2>1, <2>2
<1> QED
  BY <1>1, <1>2, <1>3

\* Rows are compared by four keys, one after the other; equal keys are those of
\* rows that measure one workload by one family in one configuration.
LEMMA SortsBeforeOrders ==
    /\ \A a : Sortable(a) => ~SortsBefore(a, a)
    /\ \A a, b, c : Sortable(a) /\ Sortable(b) /\ Sortable(c)
                    /\ SortsBefore(a, b) /\ SortsBefore(b, c) => SortsBefore(a, c)
    /\ \A a, b : Sortable(a) /\ Sortable(b) =>
                    ReconcileKey(a) = ReconcileKey(b) \/ SortsBefore(a, b) \/ SortsBefore(b, a)
<1> DEFINE W(r) == Position(SortedIds, r.workload)
           F(r) == Position(BundleOrder, r.family)
           S(r) == ScopeRank(r)
           T(r) == TextRank(MeasurementIdentity(r))
           Less(a, b) == \/ W(a) < W(b)
                         \/ /\ W(a) = W(b)
                            /\ \/ F(a) < F(b)
                               \/ /\ F(a) = F(b)
                                  /\ S(a) < S(b) \/ (S(a) = S(b) /\ T(a) < T(b))
<1>1. \A r : Sortable(r) => W(r) \in Nat /\ F(r) \in Nat /\ S(r) \in Int /\ T(r) \in Nat
  BY SortKeys
<1>2. \A a, b : Sortable(a) /\ Sortable(b) =>
         /\ W(a) = W(b) <=> a.workload = b.workload
         /\ F(a) = F(b) <=> a.family = b.family
         /\ T(a) = T(b) => MeasurementIdentity(a) = MeasurementIdentity(b)
  <2>1. \A r : Sortable(r) => r.workload \in Workloads /\ r.family \in Families /\ r \in RunRows
    BY RunRowsAreTyped DEF Sortable
  <2>2. \A x, y \in Workloads : Position(SortedIds, x) = Position(SortedIds, y) => x = y
    BY PositionInList, ComparisonAssumption
  <2>3. \A x, y \in Families : Position(BundleOrder, x) = Position(BundleOrder, y) => x = y
    BY PositionInList, ComparisonAssumption
  <2> QED
    BY <2>1, <2>2, <2>3, RunRowsAreTyped
<1>3. \A a, b : Sortable(a) /\ Sortable(b) => (SortsBefore(a, b) <=> Less(a, b))
  BY <1>2 DEF SortsBefore, Precedes
<1>4. \A a, b : Sortable(a) /\ Sortable(b)
                 /\ W(a) = W(b) /\ F(a) = F(b) /\ T(a) = T(b) => ReconcileKey(a) = ReconcileKey(b)
  BY <1>2 DEF ReconcileKey
<1> HIDE DEF W, F, S, T
<1>5. \A a : Sortable(a) => ~Less(a, a)
  BY <1>1
<1>6. \A a, b, c : Sortable(a) /\ Sortable(b) /\ Sortable(c) /\ Less(a, b) /\ Less(b, c) => Less(a, c)
  BY <1>1
<1>7. \A a, b : Sortable(a) /\ Sortable(b) =>
         Less(a, b) \/ Less(b, a) \/ (W(a) = W(b) /\ F(a) = F(b) /\ T(a) = T(b))
  BY <1>1
<1> HIDE DEF Less
<1> QED
  BY <1>3, <1>4, <1>5, <1>6, <1>7

LEMMA SortOrderIsStrict ==
    ASSUME NEW rows \in Seq(RunRows), Reconcilable(rows)
    PROVE  /\ \A i, j \in DOMAIN rows :
                 <<i, j>> \in SortOrder(rows) <=> SortsBefore(rows[i], rows[j])
           /\ StrictlyOrders(SortOrder(rows), DOMAIN rows)
<1> DEFINE D == DOMAIN rows
           R == SortOrder(rows)
<1>1. \A i \in D : i \in Int
  OBVIOUS
<1>2. \A i \in D : Sortable(rows[i])
  <2>1. \A i \in D : rows[i] \in RunRows
    OBVIOUS
  <2> QED
    BY <2>1 DEF Reconcilable, Sortable
<1>3. \A i, j \in D : ReconcileKey(rows[i]) = ReconcileKey(rows[j]) => i = j
  BY DEF Reconcilable, DistinctKeys
<1>4. \A i, j \in D : <<i, j>> \in R <=>
         \/ SortsBefore(rows[i], rows[j])
         \/ ~SortsBefore(rows[j], rows[i]) /\ i < j
  BY DEF SortOrder
<1> HIDE DEF D, R
<1>5. /\ \A i \in D : ~SortsBefore(rows[i], rows[i])
      /\ \A i, j, k \in D : SortsBefore(rows[i], rows[j]) /\ SortsBefore(rows[j], rows[k])
                            => SortsBefore(rows[i], rows[k])
      /\ \A i, j \in D : i = j \/ SortsBefore(rows[i], rows[j]) \/ SortsBefore(rows[j], rows[i])
  BY <1>2, <1>3, SortsBeforeOrders
<1>6. \A i, j \in D : <<i, j>> \in R <=> SortsBefore(rows[i], rows[j])
  <2>1. \A i, j \in D : ~(SortsBefore(rows[i], rows[j]) /\ SortsBefore(rows[j], rows[i]))
    BY <1>5
  <2>2. \A i, j \in D : i < j => i # j
    BY <1>1
  <2> HIDE DEF Sortable
  <2> QED
    BY <1>4, <1>5, <2>1, <2>2
<1>7. StrictlyOrders(R, D)
  BY <1>5, <1>6 DEF StrictlyOrders
<1> QED
  BY <1>6, <1>7 DEF D, R

\* to is a permutation of 1 .. n
Permutes(to, n) ==
    /\ to \in [1 .. n -> 1 .. n]
    /\ \A i, j \in 1 .. n : to[i] = to[j] => i = j
    /\ \A i \in 1 .. n : \E k \in 1 .. n : to[k] = i

\* Reconciling loses no row and adds none.
LEMMA ReconciledPermutes ==
    ASSUME NEW rows \in Seq(RunRows), Reconcilable(rows)
    PROVE  /\ Permutes(Ordered(DOMAIN rows, SortOrder(rows)), Len(rows))
           /\ Reconciled(rows) =
                 [k \in 1 .. Len(rows) |-> rows[Ordered(DOMAIN rows, SortOrder(rows))[k]]]
           /\ Reconciled(rows) \in Seq(RunRows) /\ Len(Reconciled(rows)) = Len(rows)
<1> DEFINE n == Len(rows)
           order == Ordered(DOMAIN rows, SortOrder(rows))
<1>1. n \in Nat /\ DOMAIN rows = 1 .. n /\ \A i \in 1 .. n : rows[i] \in RunRows
  OBVIOUS
<1>2. IsFiniteSet(1 .. n) /\ Cardinality(1 .. n) = n
  BY <1>1, FirstNumbers
<1>3. StrictlyOrders(SortOrder(rows), 1 .. n)
  BY <1>1, SortOrderIsStrict
<1>4. Permutes(order, n)
  <2> HIDE DEF n
  <2> DEFINE D == 1 .. n
             R == SortOrder(rows)
  <2>1. order = Ordered(D, R)
    BY <1>1
  <2>2. IsFiniteSet(D) /\ Cardinality(D) = n /\ StrictlyOrders(R, D)
    BY <1>2, <1>3
  <2> HIDE DEF order, D, R
  <2>3. /\ order \in [1 .. n -> D]
        /\ \A i, j \in 1 .. n : order[i] = order[j] => i = j
        /\ \A x \in D : \E k \in 1 .. n : order[k] = x
    BY <2>1, <2>2, OrderedLists
  <2> QED
    BY <2>3 DEF Permutes, D
<1>5. Reconciled(rows) = [k \in 1 .. n |-> rows[order[k]]]
  BY DEF Reconciled
<1> HIDE DEF n, order
<1>6. Reconciled(rows) \in [1 .. n -> RunRows]
  BY <1>1, <1>4, <1>5 DEF Permutes
<1>7. Reconciled(rows) \in Seq(RunRows) /\ Len(Reconciled(rows)) = n
  BY <1>1, <1>6
<1> QED
  BY <1>4, <1>5, <1>7 DEF n, order

\* The same rows in another order are reconciled to the same list: where a row
\* comes to stand is the number of rows that sort before it.
THEOREM ReconciledIgnoresOrder ==
    ASSUME NEW rows \in Seq(RunRows), Reconcilable(rows),
           NEW to, Permutes(to, Len(rows)),
           NEW others \in Seq(RunRows), Len(others) = Len(rows),
           \A i \in 1 .. Len(rows) : others[i] = rows[to[i]]
    PROVE  Reconciled(others) = Reconciled(rows)
<1> DEFINE n == Len(rows)
           R == SortOrder(rows)
           Q == SortOrder(others)
           order == Ordered(1 .. n, R)
           again == Ordered(1 .. n, Q)
<1>1. n \in Nat /\ DOMAIN rows = 1 .. n /\ DOMAIN others = 1 .. n
  OBVIOUS
<1>2. Reconcilable(others)
  <2>1. \A i \in 1 .. n : to[i] \in 1 .. n
    BY DEF Permutes
  <2>2. \A i \in DOMAIN others : ValidResult(others[i]) /\ others[i].workload \in Workloads
                                     /\ BoundToWorkload(others[i])
    BY <1>1, <2>1 DEF Reconcilable
  <2>3. DistinctKeys(others)
    <3>1. \A i, j \in 1 .. n : ReconcileKey(rows[i]) = ReconcileKey(rows[j]) => i = j
      BY <1>1 DEF Reconcilable, DistinctKeys
    <3>2. \A i, j \in 1 .. n : to[i] = to[j] => i = j
      BY DEF Permutes
    <3> HIDE DEF n
    <3>3. \A i, j \in 1 .. n : ReconcileKey(others[i]) = ReconcileKey(others[j]) => i = j
      BY <2>1, <3>1, <3>2 DEF n
    <3> QED
      BY <1>1, <3>3 DEF DistinctKeys
  <2> QED
    BY <2>2, <2>3 DEF Reconcilable
<1>3. IsFiniteSet(1 .. n) /\ Cardinality(1 .. n) = n
  BY <1>1, FirstNumbers
<1>4. StrictlyOrders(R, 1 .. n) /\ StrictlyOrders(Q, 1 .. n)
  BY <1>1, <1>2, SortOrderIsStrict
<1>5. \A i, j \in 1 .. n : <<i, j>> \in Q <=> <<to[i], to[j]>> \in R
  <2>1. \A i, j \in 1 .. n : <<i, j>> \in Q <=> SortsBefore(others[i], others[j])
    BY <1>1, <1>2, SortOrderIsStrict
  <2>2. \A i, j \in 1 .. n : <<i, j>> \in R <=> SortsBefore(rows[i], rows[j])
    BY <1>1, SortOrderIsStrict
  <2>3. \A i \in 1 .. n : to[i] \in 1 .. n
    BY DEF Permutes
  <2> HIDE DEF Q, R, n
  <2> QED
    BY <2>1, <2>2, <2>3 DEF n
<1>6. Permutes(to, n)
  OBVIOUS
<1> HIDE DEF n, R, Q
<1>7. ASSUME NEW x \in 1 .. n
      PROVE  Cardinality(Below(x, 1 .. n, Q)) = Cardinality(Below(to[x], 1 .. n, R))
  <2> DEFINE A == Below(x, 1 .. n, Q)
             B == Below(to[x], 1 .. n, R)
             f == [y \in A |-> to[y]]
  <2>1. A \in SUBSET (1 .. n) /\ IsFiniteSet(A)
    BY <1>3, FS_Subset DEF Below
  <2>2. \A y \in A : to[y] \in B
    BY <1>5, <1>6, <1>7 DEF Below, Permutes
  <2>3. \A y, z \in A : to[y] = to[z] => y = z
    BY <1>6, <2>1 DEF Permutes
  <2>4. \A z \in B : \E y \in A : to[y] = z
    BY <1>5, <1>6, <1>7 DEF Below, Permutes
  <2> HIDE DEF A, B
  <2>5. f \in Bijection(A, B)
    BY <2>2, <2>3, <2>4 DEF Bijection, Injection, Surjection, IsInjective
  <2>6. Cardinality(B) = Cardinality(A)
    BY <2>1, <2>5, FS_Bijection DEF ExistsBijection
  <2> QED
    BY <2>6 DEF A, B
<1>8. /\ order \in [1 .. n -> 1 .. n] /\ again \in [1 .. n -> 1 .. n]
      /\ \A k, x \in 1 .. n : order[k] = x <=> Cardinality(Below(x, 1 .. n, R)) = k - 1
      /\ \A k, x \in 1 .. n : again[k] = x <=> Cardinality(Below(x, 1 .. n, Q)) = k - 1
  <2> DEFINE D == 1 .. n
  <2>1. IsFiniteSet(D) /\ Cardinality(D) = n /\ StrictlyOrders(R, D) /\ StrictlyOrders(Q, D)
    BY <1>3, <1>4
  <2>2. order = Ordered(D, R) /\ again = Ordered(D, Q)
    OBVIOUS
  <2> HIDE DEF order, again, D
  <2>3. /\ order \in [1 .. n -> D]
        /\ \A k \in 1 .. n, x \in D : order[k] = x <=> Cardinality(Below(x, D, R)) = k - 1
    BY <2>1, <2>2, OrderedLists
  <2>4. /\ again \in [1 .. n -> D]
        /\ \A k \in 1 .. n, x \in D : again[k] = x <=> Cardinality(Below(x, D, Q)) = k - 1
    BY <2>1, <2>2, OrderedLists
  <2> QED
    BY <2>3, <2>4 DEF D
<1> HIDE DEF order, again
<1>9. \A k \in 1 .. n : order[k] = to[again[k]]
  <2> SUFFICES ASSUME NEW k \in 1 .. n PROVE order[k] = to[again[k]]
    OBVIOUS
  <2> DEFINE x == again[k]
             y == to[x]
  <2>1. x \in 1 .. n /\ y \in 1 .. n
    BY <1>6, <1>8 DEF Permutes
  <2>2. Cardinality(Below(x, 1 .. n, Q)) = k - 1
    BY <1>8, <2>1
  <2>3. Cardinality(Below(y, 1 .. n, R)) = k - 1
    BY <1>7, <2>1, <2>2
  <2> HIDE DEF y
  <2>4. order[k] = y
    BY <1>8, <2>1, <2>3
  <2> QED
    BY <2>4 DEF y
<1>10. \A k \in 1 .. n : others[again[k]] = rows[order[k]]
  <2> SUFFICES ASSUME NEW k \in 1 .. n PROVE others[again[k]] = rows[order[k]]
    OBVIOUS
  <2>1. again[k] \in 1 .. n
    BY <1>8
  <2>2. order[k] = to[again[k]]
    BY <1>9
  <2>3. others[again[k]] = rows[to[again[k]]]
    BY <2>1 DEF n
  <2> QED
    BY <2>2, <2>3
<1>11. /\ Reconciled(rows) = [k \in 1 .. n |-> rows[order[k]]]
       /\ Reconciled(others) = [k \in 1 .. n |-> others[again[k]]]
  BY <1>1 DEF Reconciled, order, again, R, Q, n
<1> QED
  BY <1>10, <1>11

--------------------------------------------------------------------------------
(***************************************************************************)
(* The cells of a workload.                                                *)
(***************************************************************************)

\* at[k] tells where cell k comes from: a family, and a place among its rows of
\* the workload, or 1 if it has none.  Every such place has a cell, and one only.
LaidOut(cs, at, rows, w) ==
    /\ Len(cs) \in Nat /\ DOMAIN cs = 1 .. Len(cs)
    /\ \A k \in 1 .. Len(cs) :
          LET f == at[k][1]
              j == at[k][2]
          IN  /\ f \in Families
              /\ PlacesOf(rows, f, w) = {} => cs[k] = BlockedCell(f) /\ j = 1
              /\ PlacesOf(rows, f, w) # {} =>
                    /\ j \in 1 .. Cardinality(PlacesOf(rows, f, w))
                    /\ cs[k] = Cell(RowsOf(rows, f, w), j)
    /\ \A k, l \in 1 .. Len(cs) : at[k][1] = at[l][1] /\ at[k][2] = at[l][2] => k = l
    /\ \A f \in Families :
          LET I == PlacesOf(rows, f, w)
          IN  /\ I = {} => \E k \in 1 .. Len(cs) : at[k][1] = f
              /\ \A j \in 1 .. Cardinality(I) :
                    \E k \in 1 .. Len(cs) : at[k][1] = f /\ at[k][2] = j

\* The rows of a family about a workload, one for each place it has in the list.
LEMMA RowsOfFamily ==
    ASSUME NEW rows, NEW n \in Nat, DOMAIN rows = 1 .. n, NEW f, NEW w
    PROVE  LET I == PlacesOf(rows, f, w)
               its == RowsOf(rows, f, w)
           IN  /\ I \in SUBSET (1 .. n) /\ Cardinality(I) \in Nat
               /\ I = {} <=> Cardinality(I) = 0
               /\ its = <<>> <=> I = {}
               /\ Len(its) = Cardinality(I) /\ DOMAIN its = 1 .. Cardinality(I)
               /\ Increasing(I) \in [1 .. Cardinality(I) -> I]
               /\ \A j, l \in 1 .. Cardinality(I) : Increasing(I)[j] = Increasing(I)[l] => j = l
               /\ \A i \in I : \E j \in 1 .. Cardinality(I) : Increasing(I)[j] = i
               /\ \A j \in 1 .. Cardinality(I) :
                     /\ its[j] = rows[Increasing(I)[j]]
                     /\ its[j].family = f /\ its[j].workload = w
<1> DEFINE I == PlacesOf(rows, f, w)
           its == RowsOf(rows, f, w)
<1>1. I \in SUBSET (1 .. n) /\ \A i \in I : rows[i].family = f /\ rows[i].workload = w
  BY DEF PlacesOf
<1>2. its = Kept(rows, I)
  BY DEF RowsOf
<1> HIDE DEF I, its
<1>3. IsFiniteSet(I) /\ Cardinality(I) \in Nat
  BY <1>1, FirstNumbers, FS_Subset, FS_CardinalityType
<1>4. I = {} <=> Cardinality(I) = 0
  BY <1>3, FS_EmptySet
<1>5. /\ Increasing(I) \in [1 .. Cardinality(I) -> I]
      /\ \A j, l \in 1 .. Cardinality(I) : Increasing(I)[j] = Increasing(I)[l] => j = l
      /\ \A i \in I : \E j \in 1 .. Cardinality(I) : Increasing(I)[j] = i
  BY <1>1, IncreasingLists
<1>6. /\ its = [j \in 1 .. Cardinality(I) |-> rows[Increasing(I)[j]]]
      /\ Len(its) = Cardinality(I) /\ DOMAIN its = 1 .. Cardinality(I)
  <2>1. its = [j \in 1 .. Cardinality(I) |-> rows[Increasing(I)[j]]]
    BY <1>2 DEF Kept
  <2>2. Len(its) = Cardinality(I) /\ DOMAIN its = 1 .. Cardinality(I)
    BY <1>1, <1>2, KeptKeeps
  <2> QED
    BY <2>1, <2>2
<1>7. its = <<>> <=> I = {}
  <2>1. ASSUME Cardinality(I) = 0 PROVE its = <<>>
    BY <1>6, <2>1
  <2>2. ASSUME its = <<>> PROVE Cardinality(I) = 0
    BY <1>6, <2>2
  <2> QED
    BY <1>4, <2>1, <2>2
<1>8. ASSUME NEW j \in 1 .. Cardinality(I)
      PROVE  its[j] = rows[Increasing(I)[j]] /\ its[j].family = f /\ its[j].workload = w
  BY <1>1, <1>5, <1>6
<1> QED
  BY <1>1, <1>3, <1>4, <1>5, <1>6, <1>7, <1>8 DEF I, its

LEMMA CellsAreLaidOut ==
    ASSUME NEW rows, NEW n \in Nat, DOMAIN rows = 1 .. n, NEW w
    PROVE  \E at : LaidOut(WorkloadCells(rows, w), at, rows, w)
<1> DEFINE Its(f) == RowsOf(rows, f, w)
           I(f) == PlacesOf(rows, f, w)
           m == Len(Implementations)
           seqs == [i \in DOMAIN Implementations |-> FamilyCells(Its(Implementations[i]), Implementations[i])]
           A == {FamilyCells(Its(f), f)[j] : f \in Families, j \in Nat}
           cs == FlattenSeq(seqs)
<1>1. /\ m \in Nat /\ DOMAIN Implementations = 1 .. m
      /\ \A i \in 1 .. m : Implementations[i] \in Families
      /\ \A f \in Families : \E i \in 1 .. m : Implementations[i] = f
      /\ \A i, j \in 1 .. m : Implementations[i] = Implementations[j] => i = j
  <2>1. Enumerates(Implementations, Families)
    BY ComparisonAssumption
  <2> HIDE DEF m
  <2>2. Implementations \in Seq(Families) /\ \A i \in DOMAIN Implementations : Implementations[i] \in Families
    BY <2>1 DEF Enumerates
  <2>3. m \in Nat /\ DOMAIN Implementations = 1 .. m
    BY <2>2 DEF m
  <2> QED
    BY <2>1, <2>2, <2>3 DEF Enumerates
<1>2. ASSUME NEW f \in Families
      PROVE  /\ I(f) = {} => FamilyCells(Its(f), f) = <<BlockedCell(f)>>
             /\ I(f) # {} => FamilyCells(Its(f), f) =
                                [j \in 1 .. Cardinality(I(f)) |-> Cell(Its(f), j)]
             /\ Cardinality(I(f)) \in Nat /\ (I(f) = {} <=> Cardinality(I(f)) = 0)
  <2>1. /\ Cardinality(I(f)) \in Nat /\ (I(f) = {} <=> Cardinality(I(f)) = 0)
        /\ Its(f) = <<>> <=> I(f) = {}
        /\ Len(Its(f)) = Cardinality(I(f))
    BY RowsOfFamily
  <2> HIDE DEF Its, I
  <2> QED
    BY <2>1 DEF FamilyCells
<1>3. ASSUME NEW f \in Families
      PROVE  /\ FamilyCells(Its(f), f) \in Seq(A)
             /\ I(f) = {} => Len(FamilyCells(Its(f), f)) = 1
             /\ I(f) # {} => Len(FamilyCells(Its(f), f)) = Cardinality(I(f))
  <2> DEFINE c == FamilyCells(Its(f), f)
  <2>1. \E k \in Nat :
           /\ DOMAIN c = 1 .. k /\ c = [j \in 1 .. k |-> c[j]]
           /\ I(f) = {} => k = 1
           /\ I(f) # {} => k = Cardinality(I(f))
    <3> HIDE DEF Its, I
    <3>1. CASE I(f) = {}
      <4>1. DOMAIN c = 1 .. 1 /\ c = [j \in 1 .. 1 |-> c[j]]
        BY <1>2, <3>1
      <4> QED
        BY <3>1, <4>1
    <3>2. CASE I(f) # {}
      <4>1. DOMAIN c = 1 .. Cardinality(I(f)) /\ c = [j \in 1 .. Cardinality(I(f)) |-> c[j]]
        BY <1>2, <3>2
      <4> QED
        BY <1>2, <3>2, <4>1
    <3> QED
      BY <3>1, <3>2
  <2>2. PICK k \in Nat :
           /\ DOMAIN c = 1 .. k /\ c = [j \in 1 .. k |-> c[j]]
           /\ I(f) = {} => k = 1
           /\ I(f) # {} => k = Cardinality(I(f))
    BY <2>1
  <2>3. \A j \in 1 .. k : j \in Nat /\ c[j] \in A
    OBVIOUS
  <2> HIDE DEF c, A, I
  <2>4. c \in [1 .. k -> A]
    BY <2>2, <2>3
  <2>5. c \in Seq(A) /\ Len(c) = k
    BY <2>4
  <2> QED
    BY <2>2, <2>5 DEF c
<1>4. seqs \in Seq(Seq(A)) /\ Len(seqs) = m
  <2> HIDE DEF A
  <2>1. seqs \in [1 .. m -> Seq(A)]
    BY <1>1, <1>3
  <2> HIDE DEF seqs
  <2> QED
    BY <1>1, <2>1
<1>5. cs \in Seq(A) /\ \E from : AreThePlaces(from, cs, seqs, m)
  <2> HIDE DEF A, seqs
  <2> QED
    BY <1>4, FlattenSeqPlaces
<1>6. PICK from : AreThePlaces(from, cs, seqs, m)
  BY <1>5
<1> DEFINE at == [k \in 1 .. Len(cs) |-> <<Implementations[from[k][1]], from[k][2]>>]
<1>7. Len(cs) \in Nat /\ DOMAIN cs = 1 .. Len(cs)
  <2> HIDE DEF A, cs
  <2> QED
    BY <1>5
<1>8. ASSUME NEW k \in 1 .. Len(cs)
      PROVE  /\ from[k] = <<from[k][1], from[k][2]>>
             /\ from[k][1] \in 1 .. m /\ from[k][2] \in 1 .. Len(seqs[from[k][1]])
             /\ cs[k] = seqs[from[k][1]][from[k][2]]
  BY <1>6 DEF AreThePlaces
<1>9. \A i \in 1 .. m : seqs[i] = FamilyCells(Its(Implementations[i]), Implementations[i])
  BY <1>1
<1>10. \A k \in 1 .. Len(cs) : at[k][1] = Implementations[from[k][1]] /\ at[k][2] = from[k][2]
  OBVIOUS
<1> HIDE DEF at, cs, seqs, m, Its, I, A
<1>11. ASSUME NEW k \in 1 .. Len(cs)
       PROVE  /\ at[k][1] \in Families
              /\ I(at[k][1]) = {} => cs[k] = BlockedCell(at[k][1]) /\ at[k][2] = 1
              /\ I(at[k][1]) # {} => /\ at[k][2] \in 1 .. Cardinality(I(at[k][1]))
                                    /\ cs[k] = Cell(Its(at[k][1]), at[k][2])
  <2> DEFINE f == at[k][1]
             j == at[k][2]
  <2>1. /\ f \in Families /\ cs[k] = FamilyCells(Its(f), f)[j]
        /\ j \in 1 .. Len(FamilyCells(Its(f), f))
    BY <1>1, <1>8, <1>9, <1>10
  <2> HIDE DEF f, j
  <2>2. CASE I(f) = {}
    <3>1. FamilyCells(Its(f), f) = <<BlockedCell(f)>> /\ j \in 1 .. 1
      BY <1>2, <1>3, <2>1, <2>2
    <3>2. j = 1
      BY <3>1
    <3> QED
      BY <2>1, <2>2, <3>1, <3>2 DEF f, j
  <2>3. CASE I(f) # {}
    <3>1. j \in 1 .. Cardinality(I(f)) /\ cs[k] = Cell(Its(f), j)
      BY <1>2, <1>3, <2>1, <2>3
    <3> QED
      BY <2>1, <2>3, <3>1 DEF f, j
  <2> QED
    BY <2>2, <2>3
<1>12. ASSUME NEW k \in 1 .. Len(cs), NEW l \in 1 .. Len(cs), at[k][1] = at[l][1], at[k][2] = at[l][2]
       PROVE  k = l
  <2>1. from[k][1] = from[l][1] /\ from[k][2] = from[l][2]
    BY <1>1, <1>8, <1>10, <1>12
  <2>2. from[k] = from[l]
    BY <1>8, <2>1
  <2> QED
    BY <1>6, <2>2 DEF AreThePlaces
<1>13. ASSUME NEW f \in Families, NEW j \in 1 .. Len(FamilyCells(Its(f), f))
       PROVE  \E k \in 1 .. Len(cs) : at[k][1] = f /\ at[k][2] = j
  <2>1. PICK i \in 1 .. m : Implementations[i] = f
    BY <1>1
  <2>2. PICK k \in 1 .. Len(cs) : from[k] = <<i, j>>
    BY <1>6, <1>9, <1>13, <2>1 DEF AreThePlaces
  <2> QED
    BY <1>10, <2>1, <2>2
<1>14. ASSUME NEW f \in Families
       PROVE  /\ I(f) = {} => \E k \in 1 .. Len(cs) : at[k][1] = f
              /\ \A j \in 1 .. Cardinality(I(f)) :
                    \E k \in 1 .. Len(cs) : at[k][1] = f /\ at[k][2] = j
  <2>1. CASE I(f) = {}
    <3>1. Len(FamilyCells(Its(f), f)) = 1 /\ Cardinality(I(f)) = 0
      BY <1>2, <1>3, <2>1
    <3>2. 1 \in 1 .. Len(FamilyCells(Its(f), f)) /\ 1 .. Cardinality(I(f)) = {}
      BY <3>1
    <3> QED
      BY <1>13, <2>1, <3>2
  <2>2. CASE I(f) # {}
    <3>1. Len(FamilyCells(Its(f), f)) = Cardinality(I(f))
      BY <1>3, <2>2
    <3> QED
      BY <1>13, <2>2, <3>1
  <2> QED
    BY <2>1, <2>2
<1>15. WorkloadCells(rows, w) = cs
  BY DEF WorkloadCells, cs, seqs, Its
<1>16. LaidOut(cs, at, rows, w)
  BY <1>7, <1>11, <1>12, <1>14 DEF LaidOut, I, Its
<1> QED
  BY <1>15, <1>16

\* The measurements of a workload are rows about it that are supported, no row
\* more than once.
LEMMA MeasuredRows ==
    ASSUME NEW rows, NEW n \in Nat, DOMAIN rows = 1 .. n, NEW w
    PROVE  LET list == Measured(WorkloadCells(rows, w))
           IN  /\ Len(list) \in 0 .. n /\ DOMAIN list = 1 .. Len(list)
               /\ \A i \in 1 .. Len(list) : \E q \in 1 .. n :
                     list[i] = rows[q] /\ rows[q].workload = w /\ Supported(rows[q])
<1> DEFINE cs == WorkloadCells(rows, w)
           S == Shown(cs)
           list == Measured(cs)
           I(f) == PlacesOf(rows, f, w)
<1>1. PICK at : LaidOut(cs, at, rows, w)
  BY CellsAreLaidOut
<1> DEFINE F(k) == at[k][1]
           J(k) == at[k][2]
           Q(k) == Increasing(I(F(k)))[J(k)]
<1>2. Len(cs) \in Nat /\ DOMAIN cs = 1 .. Len(cs)
  BY <1>1 DEF LaidOut
<1>3. ASSUME NEW k \in S
      PROVE  /\ k \in 1 .. Len(cs) /\ F(k) \in Families
             /\ J(k) \in 1 .. Cardinality(I(F(k)))
             /\ cs[k] = Cell(RowsOf(rows, F(k), w), J(k))
  <2>1. k \in 1 .. Len(cs) /\ cs[k].status = "supported"
    BY <1>2 DEF Shown
  <2>2. cs[k] # BlockedCell(F(k))
    BY <2>1 DEF BlockedCell
  <2> HIDE DEF cs
  <2> QED
    BY <1>1, <2>1, <2>2 DEF LaidOut
<1>4. ASSUME NEW f \in Families
      PROVE  /\ I(f) \in SUBSET (1 .. n)
             /\ Increasing(I(f)) \in [1 .. Cardinality(I(f)) -> I(f)]
             /\ \A j, l \in 1 .. Cardinality(I(f)) :
                   Increasing(I(f))[j] = Increasing(I(f))[l] => j = l
             /\ \A j \in 1 .. Cardinality(I(f)) :
                   /\ RowsOf(rows, f, w)[j] = rows[Increasing(I(f))[j]]
                   /\ RowsOf(rows, f, w)[j].family = f /\ RowsOf(rows, f, w)[j].workload = w
  BY RowsOfFamily
<1> HIDE DEF I
<1>5. ASSUME NEW k \in S
      PROVE  /\ Q(k) \in 1 .. n /\ cs[k].row = rows[Q(k)]
             /\ rows[Q(k)].family = F(k) /\ rows[Q(k)].workload = w
             /\ rows[Q(k)].status = "supported"
  <2>1. cs[k].status = "supported"
    BY DEF Shown
  <2> HIDE DEF cs, S, F, J
  <2> DEFINE f == F(k)
             j == J(k)
             its == RowsOf(rows, f, w)
  <2>2. f \in Families /\ j \in 1 .. Cardinality(I(f)) /\ cs[k] = Cell(its, j)
    BY <1>3
  <2>3. /\ I(f) \in SUBSET (1 .. n)
        /\ Increasing(I(f)) \in [1 .. Cardinality(I(f)) -> I(f)]
        /\ its[j] = rows[Increasing(I(f))[j]] /\ its[j].family = f /\ its[j].workload = w
    BY <1>4, <2>2
  <2> HIDE DEF f, j, its
  <2>4. cs[k].row = its[j] /\ cs[k].status = its[j].status
    BY <2>2 DEF Cell
  <2>5. Increasing(I(f))[j] \in 1 .. n
    BY <2>2, <2>3
  <2>6. Q(k) = Increasing(I(f))[j] /\ F(k) = f
    BY DEF f, j
  <2> HIDE DEF Q
  <2> QED
    BY <2>1, <2>3, <2>4, <2>5, <2>6
<1>6. ASSUME NEW k \in S, NEW l \in S, Q(k) = Q(l)
      PROVE  k = l
  <2>1. F(k) = F(l)
    BY <1>5, <1>6
  <2>2. J(k) = J(l)
    <3> HIDE DEF F, J, S
    <3> QED
      BY <1>3, <1>4, <1>6, <2>1
  <2> QED
    BY <1>1, <1>3, <2>1, <2>2 DEF LaidOut
<1>7. S \in SUBSET (1 .. Len(cs))
  BY <1>2 DEF Shown
<1>8. IsFiniteSet(1 .. n) /\ Cardinality(1 .. n) = n
  BY FirstNumbers
<1> HIDE DEF Q, S, F, J
<1>9. Cardinality(S) \in 0 .. n
  <2> DEFINE g == [k \in S |-> Q(k)]
  <2>1. g \in Injection(S, 1 .. n)
    BY <1>5, <1>6 DEF Injection, IsInjective
  <2>2. IsFiniteSet(S) /\ Cardinality(S) <= Cardinality(1 .. n)
    BY <1>8, <2>1, FS_Injection
  <2> QED
    BY <1>8, <2>2, FS_CardinalityType
<1>10. list = [k \in 1 .. Cardinality(S) |-> Kept(cs, S)[k].row]
  BY DEF Measured, S
<1>11. \A k \in 1 .. Cardinality(S) : Increasing(S)[k] \in S /\ Kept(cs, S)[k] = cs[Increasing(S)[k]]
  BY <1>2, <1>7, KeptKeeps
<1> HIDE DEF list, cs
<1>12. Len(list) = Cardinality(S) /\ DOMAIN list = 1 .. Cardinality(S)
  BY <1>9, <1>10
<1>13. ASSUME NEW i \in 1 .. Cardinality(S)
       PROVE  \E q \in 1 .. n : list[i] = rows[q] /\ rows[q].workload = w /\ Supported(rows[q])
  <2>1. Increasing(S)[i] \in S /\ list[i] = cs[Increasing(S)[i]].row
    BY <1>10, <1>11
  <2> QED
    BY <1>5, <2>1 DEF Supported
<1> QED
  BY <1>9, <1>12, <1>13 DEF list, cs

\* The row's device, where it has execution metadata, has a text.
HasText(r) == Heterogeneous(r) => IsText(Text(r))

\* The row's label is free of ordinals but for the one the report may give it.
Plain(r) == ~(Heterogeneous(r) /\ Len(Text(r)) > 1)

LEMMA ValidRowsHaveText ==
    ASSUME NEW r \in RunRows, ValidResult(r)
    PROVE  HasText(r)
<1>1. PICK q \in UNION Rows : r = Merged(q)
  BY DEF RunRows
<1>2. /\ RowFields \subseteq DOMAIN q
      /\ q.cpu # NoDevice => IsText(q.cpu.simd)
      /\ q.gpu # NoDevice => IsText(q.gpu.uuid)
  BY RowsAssumption
<1>3. r.cpu = q.cpu /\ r.gpu = q.gpu
  BY <1>1, <1>2 DEF Merged, RowFields
<1>4. Heterogeneous(r) => r.cpu # NoDevice \/ r.gpu # NoDevice
  BY DEF ValidResult, ValidExecution, ValidDevice
<1> QED
  BY <1>2, <1>3, <1>4 DEF HasText, Text

\* A text put behind four parts.
LEMMA PartsBeforeText ==
    ASSUME NEW a, NEW b, NEW c, NEW d, NEW t, IsText(t)
    PROVE  LET l == <<a, b, c, d>> \o t
           IN  /\ \E S : l \in Seq(S)
               /\ l[1] = a /\ Len(l) = 4 + Len(t) /\ Len(t) \in Nat \ {0}
<1> DEFINE front == <<a, b, c, d>>
           l == front \o t
           S == {a, b, c, d} \cup {t[i] : i \in 1 .. Len(t)}
<1>1. Len(t) \in Nat \ {0} /\ t = [i \in 1 .. Len(t) |-> t[i]]
  BY DEF IsText
<1>2. t \in Seq(S)
  <2>1. \A i \in 1 .. Len(t) : t[i] \in S
    OBVIOUS
  <2>2. [i \in 1 .. Len(t) |-> t[i]] \in [1 .. Len(t) -> S]
    BY <2>1
  <2> HIDE DEF S
  <2>3. t \in [1 .. Len(t) -> S]
    BY <1>1, <2>2
  <2> QED
    BY <1>1, <2>3
<1>3. a \in S /\ b \in S /\ c \in S /\ d \in S
  OBVIOUS
<1> HIDE DEF S
<1>4. front \in Seq(S) /\ Len(front) = 4 /\ front[1] = a
  BY <1>3
<1> HIDE DEF front
<1>5. /\ front \o t \in Seq(S) /\ Len(front \o t) = 4 + Len(t)
      /\ (front \o t)[1] = front[1]
  <2>1. /\ front \o t \in Seq(S) /\ Len(front \o t) = Len(front) + Len(t)
        /\ \A i \in 1 .. Len(front) + Len(t) :
              (front \o t)[i] = IF i <= Len(front) THEN front[i] ELSE t[i - Len(front)]
    BY <1>2, <1>4, ConcatProperties
  <2>2. 1 \in 1 .. Len(front) + Len(t) /\ 1 <= Len(front)
    BY <1>1, <1>4
  <2> QED
    BY <1>4, <2>1, <2>2
<1> QED
  BY <1>1, <1>4, <1>5 DEF front

\* A base label begins with the family, and is one part or, of a plain row, five.
LEMMA LabelShapes ==
    ASSUME NEW r, HasText(r)
    PROVE  \E S : /\ BaseLabel(r) \in Seq(S)
                  /\ Len(BaseLabel(r)) \in Nat \ {0} /\ BaseLabel(r)[1] = r.family
                  /\ Plain(r) => Len(BaseLabel(r)) \in {1, 5}
<1> DEFINE b == BaseLabel(r)
<1>1. CASE ~Heterogeneous(r)
  <2>1. b = <<r.family>>
    BY <1>1 DEF BaseLabel
  <2> HIDE DEF b
  <2>2. b \in Seq({r.family}) /\ Len(b) = 1 /\ b[1] = r.family
    BY <2>1
  <2> QED
    BY <2>2 DEF b
<1>2. CASE Heterogeneous(r)
  <2>1. IsText(Text(r))
    BY <1>2 DEF HasText
  <2>2. PICK c, d : b = <<r.family, r.exec.scope, c, d>> \o Text(r)
    BY <1>2 DEF BaseLabel
  <2> DEFINE t == Text(r)
             f == r.family
             scope == r.exec.scope
  <2>3. IsText(t) /\ b = <<f, scope, c, d>> \o t
    BY <2>1, <2>2
  <2>4. Plain(r) => ~(Len(t) > 1)
    BY <1>2 DEF Plain
  <2> HIDE DEF b, t, f, scope
  <2>5. PICK S : b \in Seq(S) /\ b[1] = f /\ Len(b) = 4 + Len(t) /\ Len(t) \in Nat \ {0}
    BY <2>3, PartsBeforeText
  <2>6. Len(b) \in Nat \ {0} /\ (Plain(r) => Len(b) \in {1, 5})
    BY <2>4, <2>5
  <2> QED
    BY <2>5, <2>6 DEF b, f
<1> QED
  BY <1>1, <1>2

\* A numbered label has the base label's parts and the number.
LEMMA NumberedLabels ==
    ASSUME NEW r, NEW c, HasText(r)
    PROVE  /\ Len(Append(BaseLabel(r), c)) = Len(BaseLabel(r)) + 1
           /\ \A i \in 1 .. Len(BaseLabel(r)) : Append(BaseLabel(r), c)[i] = BaseLabel(r)[i]
           /\ \A q, d : HasText(q) /\ Append(BaseLabel(r), c) = Append(BaseLabel(q), d)
                           => BaseLabel(r) = BaseLabel(q) /\ c = d
<1>1. PICK S : BaseLabel(r) \in Seq(S)
  BY LabelShapes
<1>2. BaseLabel(r) \in Seq(S \cup {c}) /\ c \in S \cup {c}
  <2> HIDE DEF BaseLabel
  <2> QED
    BY <1>1
<1>3. ASSUME NEW q, NEW d, HasText(q), Append(BaseLabel(r), c) = Append(BaseLabel(q), d)
      PROVE  BaseLabel(r) = BaseLabel(q) /\ c = d
  <2>1. PICK T : BaseLabel(q) \in Seq(T)
    BY <1>3, LabelShapes
  <2> DEFINE U == S \cup T \cup {c, d}
  <2>2. BaseLabel(r) \in Seq(U) /\ BaseLabel(q) \in Seq(U) /\ c \in U /\ d \in U
    BY <1>1, <2>1
  <2> HIDE DEF U
  <2> QED
    BY <1>3, <2>2, AppendInjective
<1> QED
  BY <1>2, <1>3, AppendProperties

\* The plain rows of a list have labels of their own, and a label begins with the
\* family.
LEMMA LabelsOfRows ==
    ASSUME NEW its, NEW n \in Nat, DOMAIN its = 1 .. n, \A i \in 1 .. n : HasText(its[i])
    PROVE  /\ \A i \in 1 .. n : Label(its, i)[1] = its[i].family
           /\ \A i, j \in 1 .. n : Plain(its[i]) /\ Plain(its[j])
                 /\ Label(its, i) = Label(its, j) => i = j
<1> DEFINE Base(i) == BaseLabel(its[i])
           Same(i) == {k \in DOMAIN its : BaseLabel(its[k]) = Base(i)}
           Upto(i) == {k \in Same(i) : k <= i}
<1>1. \A i \in 1 .. n : Label(its, i) = IF Cardinality(Same(i)) = 1 THEN Base(i)
                                        ELSE Append(Base(i), Cardinality(Upto(i)))
  BY DEF Label
<1>2. \A i \in 1 .. n : /\ Len(Base(i)) \in Nat \ {0} /\ Base(i)[1] = its[i].family
                        /\ Plain(its[i]) => Len(Base(i)) \in {1, 5}
  BY LabelShapes
<1>3. \A i \in 1 .. n : \A c :
         /\ Len(Append(Base(i), c)) = Len(Base(i)) + 1
         /\ \A k \in 1 .. Len(Base(i)) : Append(Base(i), c)[k] = Base(i)[k]
  BY NumberedLabels
<1>3a. \A i, j \in 1 .. n : \A c, d :
          Append(Base(i), c) = Append(Base(j), d) => Base(i) = Base(j) /\ c = d
  BY NumberedLabels
<1>4. \A i, j \in 1 .. n : \A c : Plain(its[i]) /\ Plain(its[j]) => Base(j) # Append(Base(i), c)
  <2> SUFFICES ASSUME NEW i \in 1 .. n, NEW j \in 1 .. n, NEW c,
                      Plain(its[i]), Plain(its[j]), Base(j) = Append(Base(i), c)
               PROVE  FALSE
    OBVIOUS
  <2> HIDE DEF Base
  <2>1. Len(Base(j)) = Len(Base(i)) + 1
    BY <1>3
  <2>2. Len(Base(i)) \in {1, 5} /\ Len(Base(j)) \in {1, 5}
    BY <1>2
  <2>3. \A x, y \in {1, 5} : y # x + 1
    OBVIOUS
  <2> QED
    BY <2>1, <2>2, <2>3
<1>5. ASSUME NEW i \in 1 .. n
      PROVE  i \in Same(i) /\ Same(i) \in SUBSET (1 .. n)
  OBVIOUS
<1>6. ASSUME NEW i \in 1 .. n, NEW j \in 1 .. n, Base(i) = Base(j)
      PROVE  Same(i) = Same(j)
  BY <1>6
<1>7. ASSUME NEW i \in 1 .. n, NEW j \in 1 .. n, Base(i) = Base(j), i < j
      PROVE  Cardinality(Same(i)) # 1 /\ Cardinality(Upto(i)) # Cardinality(Upto(j))
  <2>1. IsFiniteSet(1 .. n)
    BY FirstNumbers
  <2>2. Same(i) = Same(j)
    BY <1>6, <1>7
  <2> HIDE DEF Base
  <2>3. i \in Same(i) /\ j \in Same(i) /\ i # j /\ IsFiniteSet(Same(i))
    BY <1>5, <1>7, <2>1, <2>2, FS_Subset
  <2> HIDE DEF Same
  <2>4. Cardinality(Same(i)) # 1
    BY <2>3, FS_Singleton
  <2>5. IsFiniteSet(Upto(j))
    <3>1. Upto(j) \in SUBSET Same(i)
      BY <2>2
    <3> QED
      BY <2>3, <3>1, FS_Subset
  <2>6. Upto(i) \in SUBSET Upto(j)
    BY <1>5, <1>7, <2>2
  <2>7. j \in Upto(j) /\ j \notin Upto(i)
    BY <1>7, <2>2, <2>3
  <2> HIDE DEF Upto
  <2>8. Cardinality(Upto(i)) # Cardinality(Upto(j))
    BY <2>5, <2>6, <2>7, FS_Subset
  <2> QED
    BY <2>4, <2>8
<1>8. ASSUME NEW i \in 1 .. n
      PROVE  Label(its, i)[1] = its[i].family
  <2> HIDE DEF Base, Same, Upto
  <2>1. 1 \in 1 .. Len(Base(i))
    BY <1>2
  <2>2. \A c : Append(Base(i), c)[1] = Base(i)[1]
    BY <1>3, <2>1
  <2>3. Label(its, i) = Base(i) \/ \E c : Label(its, i) = Append(Base(i), c)
    BY <1>1
  <2> QED
    BY <1>2, <2>2, <2>3
<1>9. ASSUME NEW i \in 1 .. n, NEW j \in 1 .. n, Label(its, i) = Label(its, j), i < j,
             Plain(its[i]), Plain(its[j])
      PROVE  FALSE
  <2> DEFINE One(k) == Cardinality(Same(k)) = 1
             c == Cardinality(Upto(i))
             d == Cardinality(Upto(j))
  <2> HIDE DEF Base, Same, Upto
  <2>1. CASE One(i) /\ One(j)
    BY <1>1, <1>7, <1>9, <2>1
  <2>2. CASE ~One(i) /\ ~One(j)
    <3>1. Append(Base(i), c) = Append(Base(j), d)
      BY <1>1, <1>9, <2>2
    <3> HIDE DEF c, d
    <3>2. Base(i) = Base(j) /\ c = d
      BY <1>3a, <3>1
    <3> QED
      BY <1>7, <1>9, <3>2 DEF c, d
  <2>3. CASE One(i) /\ ~One(j)
    BY <1>1, <1>4, <1>9, <2>3
  <2>4. CASE ~One(i) /\ One(j)
    BY <1>1, <1>4, <1>9, <2>4
  <2> QED
    BY <2>1, <2>2, <2>3, <2>4
<1> QED
  <2>1. \A i, j \in 1 .. n : i < j \/ j < i \/ i = j
    OBVIOUS
  <2>2. \A i, j \in 1 .. n : Plain(its[i]) /\ Plain(its[j])
           /\ Label(its, i) = Label(its, j) => ~(i < j)
    BY <1>9
  <2> QED
    BY <1>8, <2>1, <2>2

\* No two cells of a workload have one label, unless a text ends in an ordinal.
LEMMA CellLabels ==
    ASSUME NEW rows, NEW n \in Nat, DOMAIN rows = 1 .. n, NEW w,
           \A q \in 1 .. n : HasText(rows[q])
    PROVE  LET cs == WorkloadCells(rows, w)
           IN  \A k, l \in DOMAIN cs : cs[k].label = cs[l].label =>
                  k = l \/ EndsInOrdinal(cs[k]) \/ EndsInOrdinal(cs[l])
<1> DEFINE cs == WorkloadCells(rows, w)
           I(f) == PlacesOf(rows, f, w)
           Its(f) == RowsOf(rows, f, w)
<1>1. PICK at : LaidOut(cs, at, rows, w)
  BY CellsAreLaidOut
<1> HIDE DEF cs
<1>2. ASSUME NEW k \in DOMAIN cs
      PROVE  /\ at[k][1] \in Families
             /\ I(at[k][1]) = {} => /\ cs[k].label = <<at[k][1]>> /\ at[k][2] = 1
             /\ I(at[k][1]) # {} =>
                   /\ cs[k].label = Label(Its(at[k][1]), at[k][2])
                   /\ at[k][2] \in 1 .. Cardinality(I(at[k][1]))
                   /\ ~EndsInOrdinal(cs[k]) => Plain(Its(at[k][1])[at[k][2]])
  <2>1. /\ at[k][1] \in Families
        /\ I(at[k][1]) = {} => cs[k] = BlockedCell(at[k][1]) /\ at[k][2] = 1
        /\ I(at[k][1]) # {} => /\ cs[k] = Cell(Its(at[k][1]), at[k][2])
                               /\ at[k][2] \in 1 .. Cardinality(I(at[k][1]))
    BY <1>1, <1>2 DEF LaidOut
  <2> HIDE DEF I, Its
  <2>2. \A f : BlockedCell(f).label = <<f>>
    BY DEF BlockedCell
  <2>3. \A its, i : /\ Cell(its, i).label = Label(its, i)
                    /\ ~EndsInOrdinal(Cell(its, i)) => Plain(its[i])
    BY DEF Cell, EndsInOrdinal, Plain
  <2> QED
    BY <2>1, <2>2, <2>3
<1>3. ASSUME NEW f \in Families, I(f) # {}
      PROVE  /\ \A j \in 1 .. Cardinality(I(f)) : Label(Its(f), j)[1] = f
             /\ \A i, j \in 1 .. Cardinality(I(f)) : Plain(Its(f)[i]) /\ Plain(Its(f)[j])
                   /\ Label(Its(f), i) = Label(Its(f), j) => i = j
  <2>1. /\ Cardinality(I(f)) \in Nat /\ DOMAIN Its(f) = 1 .. Cardinality(I(f))
        /\ \A j \in 1 .. Cardinality(I(f)) : Its(f)[j].family = f /\ HasText(Its(f)[j])
    <3>1. /\ I(f) \in SUBSET (1 .. n) /\ Cardinality(I(f)) \in Nat
          /\ DOMAIN Its(f) = 1 .. Cardinality(I(f))
          /\ Increasing(I(f)) \in [1 .. Cardinality(I(f)) -> I(f)]
          /\ \A j \in 1 .. Cardinality(I(f)) :
                Its(f)[j] = rows[Increasing(I(f))[j]] /\ Its(f)[j].family = f
      BY RowsOfFamily
    <3> HIDE DEF I, Its
    <3>2. \A j \in 1 .. Cardinality(I(f)) : Increasing(I(f))[j] \in 1 .. n
      BY <3>1
    <3> QED
      BY <3>1, <3>2
  <2> HIDE DEF I, Its
  <2> QED
    BY <2>1, LabelsOfRows
<1> HIDE DEF I, Its
<1>4. ASSUME NEW k \in DOMAIN cs
      PROVE  cs[k].label[1] = at[k][1]
  <2>1. CASE I(at[k][1]) = {}
    BY <1>2, <2>1
  <2>2. CASE I(at[k][1]) # {}
    <3> DEFINE f == at[k][1]
               j == at[k][2]
    <3>1. /\ f \in Families /\ I(f) # {}
          /\ j \in 1 .. Cardinality(I(f)) /\ cs[k].label = Label(Its(f), j)
      BY <1>2, <2>2
    <3> HIDE DEF f, j
    <3>2. Label(Its(f), j)[1] = f
      BY <1>3, <3>1
    <3> QED
      BY <3>1, <3>2 DEF f
  <2> QED
    BY <2>1, <2>2
<1>5. ASSUME NEW k \in DOMAIN cs, NEW l \in DOMAIN cs, cs[k].label = cs[l].label,
             ~EndsInOrdinal(cs[k]), ~EndsInOrdinal(cs[l])
      PROVE  k = l
  <2>1. at[k][1] = at[l][1]
    BY <1>4, <1>5
  <2>2. at[k][2] = at[l][2]
    <3>1. CASE I(at[k][1]) = {}
      BY <1>2, <2>1, <3>1
    <3>2. CASE I(at[k][1]) # {}
      <4> DEFINE f == at[k][1]
                 i == at[k][2]
                 j == at[l][2]
      <4>1. f \in Families /\ I(f) # {} /\ at[l][1] = f
        BY <1>2, <2>1, <3>2
      <4>2. /\ i \in 1 .. Cardinality(I(f)) /\ cs[k].label = Label(Its(f), i)
            /\ Plain(Its(f)[i])
        BY <1>2, <1>5, <3>2
      <4>3. /\ j \in 1 .. Cardinality(I(f)) /\ cs[l].label = Label(Its(f), j)
            /\ Plain(Its(f)[j])
        BY <1>2, <1>5, <2>1, <3>2
      <4> HIDE DEF f, i, j
      <4>4. \A p, q \in 1 .. Cardinality(I(f)) : Plain(Its(f)[p]) /\ Plain(Its(f)[q])
               /\ Label(Its(f), p) = Label(Its(f), q) => p = q
        BY <1>3, <4>1
      <4>5. i = j
        BY <1>5, <4>2, <4>3, <4>4
      <4> QED
        BY <4>5 DEF i, j
    <3> QED
      BY <3>1, <3>2
  <2> QED
    BY <1>1, <2>1, <2>2 DEF LaidOut
<1> QED
  BY <1>5 DEF cs

\* Fractions are compared without dividing: a/p <= b/q < c/r.
LEMMA CrossMultiplied ==
    ASSUME NEW a \in Nat, NEW b \in Nat, NEW c \in Nat,
           NEW p \in Nat, NEW q \in Nat, NEW r \in Nat, p > 0, q > 0, r > 0,
           a * q <= b * p, b * r < c * q
    PROVE  a * r < c * p
<1>1. \A x, y, z \in Nat : x <= y => x * z <= y * z
  OBVIOUS
<1>2. \A x, y, z \in Nat : x < y /\ z > 0 => x * z < y * z
  OBVIOUS
<1>3. (a * q) * r <= (b * p) * r
  <2>1. a * q \in Nat /\ b * p \in Nat
    OBVIOUS
  <2> QED
    BY <1>1, <2>1
<1>4. (b * r) * p < (c * q) * p
  <2>1. b * r \in Nat /\ c * q \in Nat
    OBVIOUS
  <2> QED
    BY <1>2, <2>1
<1>5. (a * r) * q < (c * p) * q
  <2>1. (a * q) * r = (a * r) * q /\ (b * p) * r = (b * r) * p /\ (c * q) * p = (c * p) * q
    OBVIOUS
  <2> QED
    BY <1>3, <1>4, <2>1
<1>6. a * r \in Nat /\ c * p \in Nat
  OBVIOUS
<1>7. ~(c * p <= a * r)
  BY <1>1, <1>5, <1>6
<1> QED
  BY <1>6, <1>7

\* A list of measurements has a first one that no other is faster than.
LEMMA FirstOfTheFastest ==
    ASSUME NEW list, NEW n \in Nat, n >= 1, DOMAIN list = 1 .. n,
           \A i \in 1 .. n : list[i].time \in Nat /\ list[i].ops \in Nat /\ list[i].ops > 0
    PROVE  /\ Fastest(list) \in 1 .. n
           /\ \A j \in 1 .. n : IF j < Fastest(list) THEN Faster(list[Fastest(list)], list[j])
                               ELSE ~Faster(list[j], list[Fastest(list)])
<1> DEFINE t(i) == list[i].time
           o(i) == list[i].ops
           F(i, j) == t(i) * o(j) < t(j) * o(i)
           R == {p \in (1 .. n) \X (1 .. n) : F(p[1], p[2])}
           T == {x \in 1 .. n : \A y \in 1 .. n : ~F(y, x)}
<1>1. \A i, j \in 1 .. n : Faster(list[i], list[j]) <=> F(i, j)
  BY DEF Faster
<1>2. \A i \in 1 .. n : t(i) \in Nat /\ o(i) \in Nat /\ o(i) > 0
  OBVIOUS
<1>3. \A i, j \in 1 .. n : <<i, j>> \in R <=> F(i, j)
  OBVIOUS
<1> HIDE DEF t, o
<1>4. ASSUME NEW i \in 1 .. n, NEW j \in 1 .. n, NEW k \in 1 .. n, ~F(j, i), F(j, k)
      PROVE  F(i, k)
  <2>1. t(i) * o(j) <= t(j) * o(i)
    <3>1. t(i) * o(j) \in Nat /\ t(j) * o(i) \in Nat
      BY <1>2
    <3> QED
      BY <1>4, <3>1
  <2> QED
    BY <1>2, <1>4, <2>1, CrossMultiplied
<1>5. \A i, j \in 1 .. n : ~F(i, i) /\ ~(F(i, j) /\ F(j, i))
  <2> SUFFICES ASSUME NEW i \in 1 .. n, NEW j \in 1 .. n
               PROVE  ~F(i, i) /\ ~(F(i, j) /\ F(j, i))
    OBVIOUS
  <2>1. t(i) * o(j) \in Nat /\ t(j) * o(i) \in Nat /\ t(i) * o(i) \in Nat
    BY <1>2
  <2> QED
    BY <2>1
<1> HIDE DEF F
<1>6. \A i, j, k \in 1 .. n : F(i, j) /\ F(j, k) => F(i, k)
  BY <1>4, <1>5
<1>7. \E x \in 1 .. n : \A y \in 1 .. n : <<y, x>> \notin R
  <2>1. IsFiniteSet(1 .. n) /\ 1 .. n # {}
    <3>1. 1 \in 1 .. n
      OBVIOUS
    <3> QED
      BY <3>1, FirstNumbers
  <2>2. \A x \in 1 .. n : <<x, x>> \notin R
    BY <1>3, <1>5
  <2>3. \A x, y, z \in 1 .. n : <<x, y>> \in R /\ <<y, z>> \in R => <<x, z>> \in R
    BY <1>3, <1>6
  <2> HIDE DEF R
  <2> QED
    BY <2>1, <2>2, <2>3, MinimalElement
<1> HIDE DEF R
<1>8. T \in SUBSET Nat /\ T # {}
  <2>1. \A x \in T : x \in Nat
    OBVIOUS
  <2>2. \E x \in 1 .. n : x \in T
    BY <1>3, <1>7
  <2> HIDE DEF T
  <2> QED
    BY <2>1, <2>2
<1>9. PICK m \in T : \A k \in T : m <= k
  <2> HIDE DEF T
  <2> QED
    BY <1>8, LeastNumber
<1>10. m \in 1 .. n /\ \A j \in 1 .. n : ~F(j, m)
  BY <1>9
<1>11. \A j \in 1 .. n : j < m => F(m, j)
  <2> SUFFICES ASSUME NEW j \in 1 .. n, j < m PROVE F(m, j)
    OBVIOUS
  <2>1. j \notin T
    BY <1>9, <1>10
  <2>2. PICK y \in 1 .. n : F(y, j)
    BY <2>1
  <2> QED
    BY <1>4, <1>10, <2>2
<1>12. Fastest(list) \in 1 .. n /\ \A j \in 1 .. n :
          IF j < Fastest(list) THEN Faster(list[Fastest(list)], list[j])
          ELSE ~Faster(list[j], list[Fastest(list)])
  <2>1. \E i \in DOMAIN list : \A j \in DOMAIN list :
           IF j < i THEN Faster(list[i], list[j]) ELSE ~Faster(list[j], list[i])
    BY <1>1, <1>10, <1>11
  <2> QED
    BY <2>1 DEF Fastest
<1> QED
  BY <1>12

\* Notes about a list with and without ratios.
LEMMA Notes ==
    ASSUME NEW list, NEW found
    PROVE  /\ Note(list, found) \in {"compatible", "too few", "partial", "dimensions differ",
                                     "metadata differ"}
           /\ Note(list, found) = "compatible" <=> Comparable(list)
           /\ Note(list, found) = "partial" => found # {} /\ Len(list) >= 2
           /\ Note(list, found) = "too few" <=> ~Comparable(list) /\ Len(list) < 2
           /\ Len(list) < 2 \/ found = {} \/ Note(list, found) \in {"compatible", "partial"}
BY DEF Note

\* The cells of a family show its rows of the workload, or that it has none.
LEMMA CellsOfFamily ==
    ASSUME NEW rows, NEW n \in Nat, DOMAIN rows = 1 .. n, NEW w, NEW f \in Families
    PROVE  LET cs == WorkloadCells(rows, w)
               shown == Kept(cs, {i \in DOMAIN cs : cs[i].family = f})
               I == PlacesOf(rows, f, w)
           IN  /\ I = {} => shown = <<BlockedCell(f)>>
               /\ I # {} => /\ Len(shown) = Cardinality(I)
                            /\ {shown[i].row : i \in DOMAIN shown} = {rows[q] : q \in I}
<1> DEFINE cs == WorkloadCells(rows, w)
           P == {k \in DOMAIN cs : cs[k].family = f}
           shown == Kept(cs, P)
           I == PlacesOf(rows, f, w)
           its == RowsOf(rows, f, w)
           c == Cardinality(I)
           from == Increasing(I)
<1>1. PICK at : LaidOut(cs, at, rows, w)
  BY CellsAreLaidOut
<1> DEFINE J(k) == at[k][2]
<1>2. Len(cs) \in Nat /\ DOMAIN cs = 1 .. Len(cs)
  BY <1>1 DEF LaidOut
<1>3. ASSUME NEW g \in Families
      PROVE  /\ Cardinality(PlacesOf(rows, g, w)) \in Nat
             /\ \A j \in 1 .. Cardinality(PlacesOf(rows, g, w)) : RowsOf(rows, g, w)[j].family = g
  BY RowsOfFamily
<1>4. /\ c \in Nat /\ (I = {} <=> c = 0) /\ IsFiniteSet(I)
      /\ from \in [1 .. c -> I]
      /\ \A j, l \in 1 .. c : from[j] = from[l] => j = l
      /\ \A i \in I : \E j \in 1 .. c : from[j] = i
      /\ \A j \in 1 .. c : its[j] = rows[from[j]]
  <2>1. I \in SUBSET (1 .. n)
    BY RowsOfFamily
  <2>2. IsFiniteSet(I)
    BY <2>1, FirstNumbers, FS_Subset
  <2> QED
    BY <2>2, RowsOfFamily
<1> HIDE DEF cs
<1>5. ASSUME NEW k \in DOMAIN cs
      PROVE  cs[k].family = at[k][1]
  <2> DEFINE g == at[k][1]
  <2>1. /\ g \in Families
        /\ PlacesOf(rows, g, w) = {} => cs[k] = BlockedCell(g)
        /\ PlacesOf(rows, g, w) # {} =>
              /\ J(k) \in 1 .. Cardinality(PlacesOf(rows, g, w))
              /\ cs[k] = Cell(RowsOf(rows, g, w), J(k))
    BY <1>1, <1>2 DEF LaidOut
  <2>2. BlockedCell(g).family = g
    BY DEF BlockedCell
  <2>3. \A list, i : Cell(list, i).family = list[i].family
    BY DEF Cell
  <2> HIDE DEF g, J
  <2>4. cs[k].family = g
    BY <1>3, <2>1, <2>2, <2>3
  <2> QED
    BY <2>4 DEF g
<1>6. ASSUME NEW k \in P
      PROVE  /\ k \in DOMAIN cs
             /\ I = {} => cs[k] = BlockedCell(f) /\ J(k) = 1
             /\ I # {} => J(k) \in 1 .. c /\ cs[k].row = rows[from[J(k)]]
  <2>1. k \in DOMAIN cs /\ at[k][1] = f
    BY <1>5
  <2>2. /\ I = {} => cs[k] = BlockedCell(f) /\ J(k) = 1
        /\ I # {} => J(k) \in 1 .. c /\ cs[k] = Cell(its, J(k))
    BY <1>1, <1>2, <2>1 DEF LaidOut
  <2>3. Cell(its, J(k)).row = its[J(k)]
    BY DEF Cell
  <2> HIDE DEF its, from, J, I, c
  <2> QED
    BY <1>4, <2>1, <2>2, <2>3
<1>7. ASSUME NEW k \in P, NEW l \in P, J(k) = J(l)
      PROVE  k = l
  <2>1. k \in DOMAIN cs /\ l \in DOMAIN cs /\ at[k][1] = f /\ at[l][1] = f
    BY <1>5
  <2> QED
    BY <1>1, <1>2, <1>7, <2>1 DEF LaidOut
<1>8. /\ I = {} => \E k \in P : TRUE
      /\ \A j \in 1 .. c : \E k \in P : J(k) = j
  <2>1. /\ I = {} => \E k \in DOMAIN cs : at[k][1] = f
        /\ \A j \in 1 .. c : \E k \in DOMAIN cs : at[k][1] = f /\ J(k) = j
    BY <1>1, <1>2 DEF LaidOut
  <2> HIDE DEF I, c, J
  <2> QED
    BY <1>5, <2>1
<1>9. /\ Cardinality(P) \in Nat /\ IsFiniteSet(P)
      /\ DOMAIN shown = 1 .. Cardinality(P) /\ Len(shown) = Cardinality(P)
      /\ \A i \in 1 .. Cardinality(P) : Increasing(P)[i] \in P /\ shown[i] = cs[Increasing(P)[i]]
      /\ \A k \in P : \E i \in 1 .. Cardinality(P) : Increasing(P)[i] = k
      /\ shown = [i \in 1 .. Cardinality(P) |-> cs[Increasing(P)[i]]]
  <2>1. P \in SUBSET (1 .. Len(cs))
    BY <1>2
  <2>2. IsFiniteSet(P) /\ Cardinality(P) \in Nat
    BY <1>2, <2>1, FirstNumbers, FS_Subset, FS_CardinalityType
  <2> HIDE DEF P
  <2>3. shown = [i \in 1 .. Cardinality(P) |-> cs[Increasing(P)[i]]]
    BY DEF Kept
  <2>4. /\ DOMAIN shown = 1 .. Cardinality(P) /\ Len(shown) = Cardinality(P)
        /\ \A i \in 1 .. Cardinality(P) : Increasing(P)[i] \in P /\ shown[i] = cs[Increasing(P)[i]]
    BY <1>2, <2>1, KeptKeeps
  <2>5. \A k \in P : \E i \in 1 .. Cardinality(P) : Increasing(P)[i] = k
    BY <1>2, <2>1, IncreasingLists
  <2> HIDE DEF shown
  <2> QED
    BY <2>2, <2>3, <2>4, <2>5
<1> HIDE DEF P, shown, J, I, its, c, from
<1>10. ASSUME I = {} PROVE shown = <<BlockedCell(f)>>
  <2>1. PICK k \in P : P = {k}
    <3>1. \A k, l \in P : k = l
      BY <1>6, <1>7, <1>10
    <3> QED
      BY <1>8, <1>10, <3>1
  <2>2. Cardinality(P) = 1
    BY <2>1, FS_Singleton
  <2>3. \A i \in 1 .. 1 : cs[Increasing(P)[i]] = BlockedCell(f)
    BY <1>6, <1>9, <1>10, <2>2
  <2>4. shown = [i \in 1 .. 1 |-> BlockedCell(f)]
    BY <1>9, <2>2, <2>3
  <2>5. <<BlockedCell(f)>> = [i \in 1 .. 1 |-> BlockedCell(f)]
    OBVIOUS
  <2> QED
    BY <2>4, <2>5
<1>11. ASSUME I # {}
       PROVE  /\ Len(shown) = Cardinality(I)
              /\ {shown[i].row : i \in DOMAIN shown} = {rows[q] : q \in I}
  <2> DEFINE to == [k \in P |-> from[J(k)]]
  <2>1. \A k \in P : from[J(k)] \in I
    BY <1>4, <1>6, <1>11
  <2>2. \A k, l \in P : from[J(k)] = from[J(l)] => k = l
    BY <1>4, <1>6, <1>7, <1>11
  <2>3. ASSUME NEW i \in I PROVE \E k \in P : from[J(k)] = i
    <3>1. PICK j \in 1 .. c : from[j] = i
      BY <1>4
    <3>2. PICK k \in P : J(k) = j
      BY <1>8
    <3> QED
      BY <3>1, <3>2
  <2>4. to \in Bijection(P, I)
    BY <2>1, <2>2, <2>3 DEF Bijection, Injection, Surjection, IsInjective
  <2>5. Cardinality(I) = Cardinality(P)
    BY <1>9, <2>4, FS_Bijection DEF ExistsBijection
  <2>6. ASSUME NEW i \in DOMAIN shown
        PROVE  \E q \in I : shown[i].row = rows[q]
    <3>1. Increasing(P)[i] \in P /\ shown[i] = cs[Increasing(P)[i]]
      BY <1>9
    <3> QED
      BY <1>6, <1>11, <2>1, <3>1
  <2>7. ASSUME NEW q \in I
        PROVE  \E i \in DOMAIN shown : shown[i].row = rows[q]
    <3>1. PICK k \in P : from[J(k)] = q
      BY <2>3
    <3>2. PICK i \in 1 .. Cardinality(P) : Increasing(P)[i] = k
      BY <1>9
    <3> QED
      BY <1>6, <1>9, <1>11, <3>1, <3>2
  <2>8. {shown[i].row : i \in DOMAIN shown} = {rows[q] : q \in I}
    BY <2>6, <2>7
  <2> QED
    BY <1>9, <2>5, <2>8
<1> QED
  BY <1>10, <1>11 DEF shown, P, I, cs, c

\* Reconciling keeps the rows of every family and workload.
LEMMA ReconciledPlaces ==
    ASSUME NEW rows \in Seq(RunRows), Reconcilable(rows), NEW f, NEW w
    PROVE  LET A == PlacesOf(rows, f, w)
               B == PlacesOf(Reconciled(rows), f, w)
           IN  /\ Cardinality(A) = Cardinality(B) /\ (A = {} <=> B = {})
               /\ {rows[i] : i \in A} = {Reconciled(rows)[i] : i \in B}
<1> DEFINE n == Len(rows)
           sorted == Reconciled(rows)
           order == Ordered(DOMAIN rows, SortOrder(rows))
           A == PlacesOf(rows, f, w)
           B == PlacesOf(sorted, f, w)
<1>1. n \in Nat /\ DOMAIN rows = 1 .. n
  OBVIOUS
<1>2. Permutes(order, n) /\ sorted = [k \in 1 .. n |-> rows[order[k]]]
  BY ReconciledPermutes
<1> HIDE DEF n, sorted, order
<1>3. DOMAIN sorted = 1 .. n /\ \A k \in 1 .. n : order[k] \in 1 .. n /\ sorted[k] = rows[order[k]]
  BY <1>2 DEF Permutes
<1>4. A \in SUBSET (1 .. n) /\ B \in SUBSET (1 .. n)
  BY <1>1, <1>3 DEF PlacesOf
<1>5. \A k \in 1 .. n : k \in B <=> order[k] \in A
  BY <1>1, <1>3 DEF PlacesOf
<1>6. \A i \in A : \E k \in B : order[k] = i
  BY <1>2, <1>4, <1>5 DEF Permutes
<1> HIDE DEF A, B
<1>7. Cardinality(A) = Cardinality(B)
  <2> DEFINE to == [k \in B |-> order[k]]
  <2>1. \A k \in B : order[k] \in A
    BY <1>4, <1>5
  <2>2. \A k, l \in B : order[k] = order[l] => k = l
    BY <1>2, <1>4 DEF Permutes
  <2>3. to \in Bijection(B, A)
    BY <1>6, <2>1, <2>2 DEF Bijection, Injection, Surjection, IsInjective
  <2>4. IsFiniteSet(B)
    BY <1>1, <1>4, FirstNumbers, FS_Subset
  <2> QED
    BY <2>3, <2>4, FS_Bijection DEF ExistsBijection
<1>8. A = {} <=> B = {}
  BY <1>4, <1>5, <1>6
<1>9. {rows[i] : i \in A} = {sorted[k] : k \in B}
  <2>1. \A k \in B : order[k] \in A /\ sorted[k] = rows[order[k]]
    BY <1>3, <1>4, <1>5
  <2> QED
    BY <1>6, <2>1
<1> QED
  BY <1>7, <1>8, <1>9 DEF A, B, sorted
--------------------------------------------------------------------------------
(***************************************************************************)
(* The report is a function of the evidence.                               *)
(***************************************************************************)

\* The pairs of a list that may have a ratio.
ComparablePairs(list) == {p \in Pairs(list) : Comparable(<<list[p[1]], list[p[2]]>>)}

\* What the model says of a workload, made from the reconciled rows.
Summary(rows, w) ==
    LET list == Measured(WorkloadCells(rows, w))
    IN  [workload |-> w, cells |-> WorkloadCells(rows, w), ratios |-> ComparablePairs(list),
         winner |-> IF Comparable(list) THEN Fastest(list) ELSE 0,
         note |-> Note(list, ComparablePairs(list)), variant |-> w \in Variants]

\* What has been read, and what reconcile_results has made of it.
Evidence ==
    /\ stage \in Stages
    /\ results \in Seq(RunRows) /\ Len(results) <= MaxRows
    /\ stage \in {"read", "rejected"} => checked = <<>> /\ Len(report) = 0
    /\ stage \notin {"read", "rejected"} => Reconcilable(results) /\ checked = Reconciled(results)

\* The finished rows of the model, and how many of them there are.
Finished ==
    /\ Len(report) \in Nat /\ Len(report) <= Len(OrderedIds)
    /\ report = [k \in 1 .. Len(report) |-> Summary(checked, OrderedIds[k])]
    /\ stage \in {"cells", "pairs", "conclude"} => Len(report) < Len(OrderedIds)

\* The pairs considered before the next one.
Considered(p) == p[1] < pair[1] \/ (p[1] = pair[1] /\ p[2] < pair[2])

\* The workload in work.
InWork ==
    /\ pair \in Nat \X Nat /\ ratios \subseteq (1 .. MaxRows) \X (1 .. MaxRows)
    /\ stage \in {"pairs", "conclude"} => cells = WorkloadCells(checked, Workload)
    /\ stage = "pairs" =>
          /\ 1 <= pair[1] /\ pair[1] < pair[2]
          /\ ratios = {p \in ComparablePairs(Measured(cells)) : Considered(p)}
    /\ stage = "conclude" => ratios = ComparablePairs(Measured(cells))

\* The rows of the table.
Table ==
    /\ Len(lines) \in Nat /\ lines = [k \in 1 .. Len(lines) |-> lines[k]]
    /\ Len(lines) <= Len(report)
    /\ stage \notin {"render", "published"} => Len(lines) = 0
    /\ stage = "render" => Len(lines) < Len(report)

IInv == Evidence /\ Finished /\ InWork /\ Table

\* A list with one element more.
LEMMA OneMore ==
    ASSUME NEW s, NEW e, Len(s) \in Nat, s = [k \in 1 .. Len(s) |-> s[k]]
    PROVE  /\ Len(Append(s, e)) = Len(s) + 1
           /\ Append(s, e) = [k \in 1 .. Len(s) + 1 |-> Append(s, e)[k]]
           /\ \A k \in 1 .. Len(s) : Append(s, e)[k] = s[k]
           /\ Append(s, e)[Len(s) + 1] = e
<1> DEFINE S == {s[k] : k \in 1 .. Len(s)} \cup {e}
           t == Append(s, e)
<1>1. s \in Seq(S) /\ e \in S
  <2>1. e \in S /\ \A k \in 1 .. Len(s) : s[k] \in S
    OBVIOUS
  <2> HIDE DEF S
  <2> QED
    BY <2>1
<1> HIDE DEF S
<1>2. /\ t \in Seq(S) /\ Len(t) = Len(s) + 1 /\ t[Len(s) + 1] = e
      /\ \A k \in 1 .. Len(s) : t[k] = s[k]
  BY <1>1, AppendProperties
<1> HIDE DEF t
<1>3. t = [k \in 1 .. Len(s) + 1 |-> t[k]]
  BY <1>2
<1> QED
  BY <1>2, <1>3 DEF t

\* A list of valid measurements of one workload, no longer than a run has rows.
WellMeasured(list, w) ==
    /\ Len(list) \in 0 .. MaxRows /\ DOMAIN list = 1 .. Len(list)
    /\ \A i \in 1 .. Len(list) :
          /\ list[i] \in RunRows /\ list[i].workload = w
          /\ ValidResult(list[i]) /\ Supported(list[i])

LEMMA EvidenceIsValid ==
    ASSUME Evidence, stage \notin {"read", "rejected"}
    PROVE  /\ Len(results) \in Nat /\ DOMAIN checked = 1 .. Len(results)
           /\ \A q \in 1 .. Len(results) : checked[q] \in RunRows /\ ValidResult(checked[q])
<1> DEFINE n == Len(results)
           order == Ordered(DOMAIN results, SortOrder(results))
<1>1. /\ n \in Nat /\ DOMAIN results = 1 .. n /\ n <= MaxRows /\ MaxRows \in Nat
      /\ \A i \in 1 .. n : results[i] \in RunRows /\ ValidResult(results[i])
      /\ results \in Seq(RunRows) /\ Reconcilable(results) /\ checked = Reconciled(results)
  BY ComparisonAssumption DEF Evidence, Reconcilable
<1>2. Permutes(order, n) /\ checked = [k \in 1 .. n |-> results[order[k]]]
  BY <1>1, ReconciledPermutes
<1> HIDE DEF n, order
<1>3. /\ DOMAIN checked = 1 .. n
      /\ \A q \in 1 .. n : checked[q] \in RunRows /\ ValidResult(checked[q])
  BY <1>1, <1>2 DEF Permutes
<1> QED
  BY <1>1, <1>3 DEF n

LEMMA EvidenceIsMeasured ==
    ASSUME Evidence, stage \notin {"read", "rejected"}, NEW w
    PROVE  WellMeasured(Measured(WorkloadCells(checked, w)), w)
<1> DEFINE n == Len(results)
           list == Measured(WorkloadCells(checked, w))
<1>1. n \in Nat /\ n <= MaxRows /\ MaxRows \in Nat
  BY EvidenceIsValid, ComparisonAssumption DEF Evidence
<1>3. /\ DOMAIN checked = 1 .. n
      /\ \A q \in 1 .. n : checked[q] \in RunRows /\ ValidResult(checked[q])
  BY EvidenceIsValid
<1> HIDE DEF n
<1>4. /\ Len(list) \in 0 .. n /\ DOMAIN list = 1 .. Len(list)
      /\ \A i \in 1 .. Len(list) : \E q \in 1 .. n :
            list[i] = checked[q] /\ checked[q].workload = w /\ Supported(checked[q])
  BY <1>1, <1>3, MeasuredRows
<1> HIDE DEF list
<1>5. WellMeasured(list, w)
  BY <1>1, <1>3, <1>4 DEF WellMeasured
<1> QED
  BY <1>5 DEF list

LEMMA InitIsInductive == Init => IInv
<1> SUFFICES ASSUME Init PROVE IInv
  OBVIOUS
<1>1. Len(<<>>) = 0
  OBVIOUS
<1>2. Evidence
  BY <1>1, ComparisonAssumption DEF Init, Evidence, Stages
<1>3. \A f : <<>> = [k \in 1 .. 0 |-> f[k]]
  OBVIOUS
<1>4. Finished
  <2>1. report = <<>> /\ Len(report) = 0 /\ stage = "read"
    BY <1>1 DEF Init
  <2>2. Len(OrderedIds) \in Nat
    BY ComparisonAssumption DEF Enumerates
  <2>3. report = [k \in 1 .. Len(report) |-> Summary(checked, OrderedIds[k])]
    BY <2>1
  <2> QED
    BY <2>1, <2>2, <2>3 DEF Finished
<1>5. InWork
  BY DEF Init, InWork
<1>6. Table
  <2>1. lines = <<>> /\ Len(lines) = 0 /\ Len(report) = 0 /\ stage = "read"
    BY <1>1 DEF Init
  <2> QED
    BY <1>3, <2>1 DEF Table
<1> QED
  BY <1>2, <1>4, <1>5, <1>6 DEF IInv

LEMMA ReadResultKeeps == IInv /\ ReadResult => IInv'
<1> SUFFICES ASSUME IInv, ReadResult PROVE IInv'
  OBVIOUS
<1>1. stage = "read" /\ UNCHANGED <<stage, checked, cells, pair, ratios, report, lines>>
  BY DEF ReadResult
<1>2. PICK S \in Rows : \E r \in S : results' = Append(results, Merged(r))
  BY DEF ReadResult
<1> PICK r \in S : results' = Append(results, Merged(r))
  BY <1>2
<1>3. Merged(r) \in RunRows
  BY <1>2 DEF RunRows
<1>4. results' \in Seq(RunRows) /\ Len(results') = Len(results) + 1
  BY <1>3, AppendProperties DEF IInv, Evidence
<1>5. Len(results') <= MaxRows
  BY <1>4, ComparisonAssumption DEF IInv, Evidence, ReadResult
<1>6. Evidence'
  BY <1>1, <1>4, <1>5 DEF IInv, Evidence
<1>7. Finished' /\ InWork' /\ Table'
  BY <1>1 DEF IInv, Finished, InWork, Table, Workload, Considered
<1> QED
  BY <1>6, <1>7 DEF IInv

LEMMA EndOfBundlesKeeps == IInv /\ EndOfBundles => IInv'
<1> SUFFICES ASSUME IInv, EndOfBundles PROVE IInv'
  OBVIOUS
<1>1. stage = "read" /\ UNCHANGED <<results, cells, pair, ratios, report, lines>>
  BY DEF EndOfBundles
<1>2. /\ stage' \in {"published", "cells", "rejected"}
      /\ stage' = "rejected" => checked' = checked
      /\ stage' # "rejected" => Reconcilable(results) /\ checked' = Reconciled(results)
      /\ stage' = "cells" => OrderedIds # <<>>
  BY DEF EndOfBundles
<1>3. checked = <<>> /\ Len(report) = 0 /\ Len(lines) = 0
  BY <1>1 DEF IInv, Evidence, Table
<1>4. Evidence'
  BY <1>1, <1>2, <1>3 DEF IInv, Evidence, Stages
<1>5. Finished'
  <2>1. Len(OrderedIds) \in Nat /\ (OrderedIds # <<>> => 0 < Len(OrderedIds))
    BY ComparisonAssumption DEF Enumerates
  <2>2. \A rows : report = [k \in 1 .. Len(report) |-> Summary(rows, OrderedIds[k])]
    <3>1. report = [k \in 1 .. 0 |-> Summary(checked, OrderedIds[k])]
      BY <1>3 DEF IInv, Finished
    <3>2. \A f : [k \in 1 .. 0 |-> f[k]] = <<>>
      OBVIOUS
    <3>3. \A rows : [k \in 1 .. 0 |-> Summary(rows, OrderedIds[k])] = <<>>
      OBVIOUS
    <3> QED
      BY <1>3, <3>1, <3>3
  <2>3. report' = [k \in 1 .. Len(report') |-> Summary(checked', OrderedIds[k])]
    BY <1>1, <2>2
  <2> QED
    BY <1>1, <1>2, <1>3, <2>1, <2>3 DEF Finished
<1>6. InWork'
  BY <1>1, <1>2 DEF IInv, InWork
<1>7. Table'
  BY <1>1, <1>2, <1>3 DEF IInv, Table
<1> QED
  BY <1>4, <1>5, <1>6, <1>7 DEF IInv

LEMMA LayOutCellsKeeps == IInv /\ LayOutCells => IInv'
<1> SUFFICES ASSUME IInv, LayOutCells PROVE IInv'
  OBVIOUS
<1>1. /\ stage = "cells" /\ stage' = "pairs" /\ cells' = WorkloadCells(checked, Workload)
      /\ pair' = <<1, 2>> /\ ratios' = {}
      /\ UNCHANGED <<results, checked, report, lines>>
  BY DEF LayOutCells
<1>2. Evidence' /\ Finished' /\ Table'
  BY <1>1 DEF IInv, Evidence, Finished, Table, Stages
<1>3. InWork'
  <2>1. Workload' = Workload
    BY <1>1 DEF Workload
  <2>2. \A p \in ComparablePairs(Measured(cells')) : ~(p[1] < 1 \/ (p[1] = 1 /\ p[2] < 2))
    <3> DEFINE list == Measured(cells')
    <3>1. DOMAIN list = 1 .. Len(list) /\ Len(list) \in Nat
      BY <1>1, EvidenceIsMeasured DEF IInv, WellMeasured
    <3> HIDE DEF list
    <3>2. \A p \in Pairs(list) : p[1] \in Nat /\ p[2] \in Nat /\ p[1] >= 1 /\ p[1] < p[2]
      BY <3>1 DEF Pairs
    <3> QED
      BY <3>2 DEF list, ComparablePairs
  <2> QED
    BY <1>1, <2>1, <2>2 DEF InWork, Considered
<1> QED
  BY <1>2, <1>3 DEF IInv

\* The next pair is considered, and no other: the two nested loops.
LEMMA ComparePairKeeps == IInv /\ ComparePair => IInv'
<1> SUFFICES ASSUME IInv, ComparePair PROVE IInv'
  OBVIOUS
<1> DEFINE list == Measured(cells)
           n == Len(list)
           i == pair[1]
           j == pair[2]
           all == ComparablePairs(list)
<1>1. stage = "pairs" /\ UNCHANGED <<results, checked, cells, report, lines>>
  BY DEF ComparePair
<1>2. \/ i >= n /\ stage' = "conclude" /\ UNCHANGED <<pair, ratios>>
      \/ i < n /\ stage' = stage /\ j > n /\ pair' = <<i + 1, i + 2>> /\ ratios' = ratios
      \/ /\ i < n /\ stage' = stage /\ j <= n /\ pair' = <<i, j + 1>>
         /\ Comparable(<<list[i], list[j]>>) => ratios' = ratios \cup {<<i, j>>}
         /\ ~Comparable(<<list[i], list[j]>>) => ratios' = ratios
  <2>1. n \in Nat /\ i \in Nat /\ j \in Nat
    BY <1>1, EvidenceIsMeasured DEF IInv, InWork, WellMeasured
  <2>2. \/ i >= n /\ stage' = "conclude" /\ UNCHANGED <<pair, ratios>>
        \/ ~(i >= n) /\ stage' = stage /\ j > n /\ pair' = <<i + 1, i + 2>> /\ ratios' = ratios
        \/ /\ ~(i >= n) /\ stage' = stage /\ ~(j > n) /\ pair' = <<i, j + 1>>
           /\ ratios' = IF Comparable(<<list[i], list[j]>>) THEN ratios \cup {<<i, j>>} ELSE ratios
    BY DEF ComparePair
  <2> HIDE DEF list, n, i, j
  <2> QED
    BY <2>1, <2>2
<1>3. /\ n \in 0 .. MaxRows /\ MaxRows \in Nat /\ DOMAIN list = 1 .. n
      /\ cells = WorkloadCells(checked, Workload)
  BY <1>1, EvidenceIsMeasured, ComparisonAssumption DEF IInv, InWork, WellMeasured
<1>4. /\ i \in Nat /\ j \in Nat /\ 1 <= i /\ i < j
      /\ \A p \in Nat \X Nat : Considered(p) <=> p[1] < i \/ (p[1] = i /\ p[2] < j)
      /\ ratios = {p \in all : Considered(p)}
  BY <1>1 DEF IInv, InWork, Considered
<1> HIDE DEF list, n
<1>5. \A p \in all : /\ p = <<p[1], p[2]>> /\ p \in Nat \X Nat
                     /\ p[1] \in 1 .. n /\ p[2] \in 1 .. n /\ p[1] < p[2]
  BY <1>3 DEF ComparablePairs, Pairs
<1>6. <<i, j>> \in all <=> j <= n /\ Comparable(<<list[i], list[j]>>)
  <2>1. <<i, j>> \in Pairs(list) <=> j <= n
    BY <1>3, <1>4 DEF Pairs
  <2> QED
    BY <2>1 DEF ComparablePairs
<1> HIDE DEF all, i, j
<1>7. all \subseteq (1 .. MaxRows) \X (1 .. MaxRows)
  BY <1>3, <1>5
<1>8. Workload' = Workload /\ list' = list /\ all' = all
  BY <1>1 DEF Workload, list, all
<1>9. CASE i >= n /\ stage' = "conclude" /\ UNCHANGED <<pair, ratios>>
  <2>1. \A p \in all : Considered(p)
    BY <1>3, <1>4, <1>5, <1>9
  <2>2. ratios' = all
    BY <1>4, <1>9, <2>1
  <2>3. InWork'
    BY <1>1, <1>3, <1>7, <1>8, <1>9, <2>2 DEF IInv, InWork, all, list
  <2> QED
    BY <1>1, <1>9, <2>3 DEF IInv, Evidence, Finished, Table, Stages
<1>10. ASSUME stage' = "pairs", pair' \in Nat \X Nat, 1 <= pair'[1], pair'[1] < pair'[2],
              \A p \in all : p \in ratios' <=> Considered(p)', ratios' \subseteq all
       PROVE  IInv'
  <2>1. ratios' = {p \in all' : Considered(p)'}
    BY <1>8, <1>10
  <2>2. InWork'
    BY <1>1, <1>3, <1>7, <1>8, <1>10, <2>1 DEF InWork, all, list
  <2> QED
    BY <1>1, <1>10, <2>2 DEF IInv, Evidence, Finished, Table, Stages
<1>11. CASE i < n /\ stage' = stage /\ j > n /\ pair' = <<i + 1, i + 2>> /\ ratios' = ratios
  <2>1. \A p \in all : Considered(p)' <=> p[1] < i + 1 \/ (p[1] = i + 1 /\ p[2] < i + 2)
    BY <1>11 DEF Considered
  <2>2. \A p \in all : Considered(p)' <=> Considered(p)
    BY <1>3, <1>4, <1>5, <1>11, <2>1
  <2> QED
    BY <1>1, <1>4, <1>10, <1>11, <2>2
<1>12. CASE /\ i < n /\ stage' = stage /\ j <= n /\ pair' = <<i, j + 1>>
            /\ Comparable(<<list[i], list[j]>>) => ratios' = ratios \cup {<<i, j>>}
            /\ ~Comparable(<<list[i], list[j]>>) => ratios' = ratios
  <2>1. \A p \in all : Considered(p)' <=> p[1] < i \/ (p[1] = i /\ p[2] < j + 1)
    BY <1>12 DEF Considered
  <2>2. \A p \in all : Considered(p)' <=> Considered(p) \/ p = <<i, j>>
    BY <1>3, <1>4, <1>5, <2>1
  <2>3. ratios' \subseteq all /\ \A p \in all : p \in ratios' <=> Considered(p) \/ p = <<i, j>>
    BY <1>4, <1>6, <1>12
  <2> QED
    BY <1>1, <1>4, <1>10, <1>12, <2>2, <2>3
<1> QED
  BY <1>2, <1>9, <1>11, <1>12

LEMMA ConcludeKeeps == IInv /\ Conclude => IInv'
<1> SUFFICES ASSUME IInv, Conclude PROVE IInv'
  OBVIOUS
<1> DEFINE n == Len(report)
           row == Summary(checked, Workload)
<1>1. /\ stage = "conclude" /\ stage' = IF Len(report') = Len(OrderedIds) THEN "render" ELSE "cells"
      /\ UNCHANGED <<results, checked, pair, ratios, lines>>
  BY DEF Conclude
<1>2. report' = Append(report, row)
  <2>1. cells = WorkloadCells(checked, Workload) /\ ratios = ComparablePairs(Measured(cells))
    BY <1>1 DEF IInv, InWork
  <2> QED
    BY <2>1 DEF Conclude, Summary
<1>3. /\ n \in Nat /\ n < Len(OrderedIds) /\ report = [k \in 1 .. n |-> Summary(checked, OrderedIds[k])]
      /\ Workload = OrderedIds[n + 1] /\ Len(OrderedIds) \in Nat
  BY <1>1, ComparisonAssumption DEF IInv, Finished, Workload, Enumerates
<1> HIDE DEF n
<1>4. /\ Len(report') = n + 1
      /\ report' = [k \in 1 .. n + 1 |-> Summary(checked, OrderedIds[k])]
  <2>1. report = [k \in 1 .. n |-> report[k]]
    BY <1>3
  <2>2. /\ Len(report') = n + 1 /\ report' = [k \in 1 .. n + 1 |-> report'[k]]
        /\ \A k \in 1 .. n : report'[k] = report[k]
        /\ report'[n + 1] = row
    BY <1>2, <1>3, <2>1, OneMore DEF n
  <2>3. \A k \in 1 .. n + 1 : k \in 1 .. n \/ k = n + 1
    BY <1>3
  <2>4. \A k \in 1 .. n + 1 : report'[k] = Summary(checked, OrderedIds[k])
    BY <1>3, <2>2, <2>3
  <2> QED
    BY <2>2, <2>4
<1>5. /\ n + 1 <= Len(OrderedIds) /\ (n + 1 # Len(OrderedIds) => n + 1 < Len(OrderedIds))
      /\ stage' \in {"render", "cells"}
      /\ stage' = "cells" => n + 1 # Len(OrderedIds)
  BY <1>1, <1>3, <1>4
<1>6. Evidence'
  BY <1>1, <1>5 DEF IInv, Evidence, Stages
<1>7. Finished'
  BY <1>1, <1>3, <1>4, <1>5 DEF Finished
<1>8. InWork'
  BY <1>1, <1>5 DEF IInv, InWork
<1>9. Table'
  BY <1>1, <1>3, <1>4, <1>5 DEF IInv, Table
<1> QED
  BY <1>6, <1>7, <1>8, <1>9 DEF IInv

LEMMA RenderRowKeeps == IInv /\ RenderRow => IInv'
<1> SUFFICES ASSUME IInv, RenderRow PROVE IInv'
  OBVIOUS
<1>1. /\ stage = "render" /\ stage' = IF Len(lines') = Len(report) THEN "published" ELSE "render"
      /\ UNCHANGED <<results, checked, cells, pair, ratios, report>>
  BY DEF RenderRow
<1>2. PICK e : lines' = Append(lines, e)
  BY DEF RenderRow
<1>3. /\ Len(lines) \in Nat /\ Len(report) \in Nat /\ Len(lines) < Len(report)
      /\ lines = [k \in 1 .. Len(lines) |-> lines[k]]
  BY <1>1 DEF IInv, Finished, Table
<1>4. Len(lines') = Len(lines) + 1 /\ lines' = [k \in 1 .. Len(lines') |-> lines'[k]]
  BY <1>2, <1>3, OneMore
<1>5. stage' \in {"render", "published"} /\ (stage' = "render" => Len(lines') # Len(report))
  BY <1>1
<1>6. Table'
  BY <1>1, <1>3, <1>4, <1>5 DEF Table
<1>7. Evidence' /\ Finished' /\ InWork'
  BY <1>1, <1>5 DEF IInv, Evidence, Finished, InWork, Stages
<1> QED
  BY <1>6, <1>7 DEF IInv

(***************************************************************************)
(* While a report is made, what is finished of it is the summary of the    *)
(* reconciled evidence, workload by workload: the steps that compare pair  *)
(* after pair and append row after row add nothing of their own.           *)
(***************************************************************************)
THEOREM ReportIsAFunctionOfTheEvidence == Spec => []IInv
<1>1. IInv /\ [Next]_vars => IInv'
  <2> SUFFICES ASSUME IInv, [Next]_vars PROVE IInv'
    OBVIOUS
  <2>1. CASE UNCHANGED vars
    BY <2>1 DEF IInv, Evidence, Finished, InWork, Table, Workload, Considered, vars
  <2> QED
    BY <2>1, ReadResultKeeps, EndOfBundlesKeeps, LayOutCellsKeeps, ComparePairKeeps,
       ConcludeKeeps, RenderRowKeeps DEF Next, Ended
<1> QED
  BY InitIsInductive, <1>1, PTL DEF Spec

--------------------------------------------------------------------------------
(***************************************************************************)
(* What the report promises.                                               *)
(***************************************************************************)

\* A finished row of the model, and the measurements it is about.
LEMMA RowOfReport ==
    ASSUME IInv, NEW k \in DOMAIN report
    PROVE  LET w == OrderedIds[k]
               cs == WorkloadCells(checked, w)
               list == Measured(cs)
           IN  /\ report[k].workload = w /\ report[k].cells = cs
               /\ report[k].ratios = ComparablePairs(list)
               /\ report[k].winner = (IF Comparable(list) THEN Fastest(list) ELSE 0)
               /\ report[k].note = Note(list, ComparablePairs(list))
               /\ WellMeasured(list, w)
               /\ stage \notin {"read", "rejected"}
<1> DEFINE w == OrderedIds[k]
           cs == WorkloadCells(checked, w)
           list == Measured(cs)
<1>1. /\ Len(report) \in Nat
      /\ report = [l \in 1 .. Len(report) |-> Summary(checked, OrderedIds[l])]
  BY DEF IInv, Finished
<1>2. k \in 1 .. Len(report)
  BY <1>1
<1>3. report[k] = Summary(checked, w)
  BY <1>1, <1>2
<1>4. stage \notin {"read", "rejected"}
  BY <1>1, <1>2 DEF IInv, Evidence
<1>5. WellMeasured(list, w)
  BY <1>4, EvidenceIsMeasured DEF IInv
<1> QED
  BY <1>3, <1>4, <1>5 DEF Summary

\* Pairs of well-formed measurements are places of the list, in their order.
LEMMA PairsOfList ==
    ASSUME NEW list, NEW w, WellMeasured(list, w), NEW p \in Pairs(list)
    PROVE  /\ p[1] \in 1 .. Len(list) /\ p[2] \in 1 .. Len(list) /\ p[1] < p[2]
           /\ Comparable(<<list[p[1]], list[p[2]]>>) <=> MayCompare(list[p[1]], list[p[2]])
<1>1. p[1] \in 1 .. Len(list) /\ p[2] \in 1 .. Len(list) /\ p[1] < p[2]
  BY DEF Pairs, WellMeasured
<1> DEFINE a == list[p[1]]
           b == list[p[2]]
<1>2. /\ ValidResult(a) /\ ValidResult(b) /\ Supported(a) /\ Supported(b)
      /\ a.workload = b.workload
  BY <1>1 DEF WellMeasured
<1> HIDE DEF a, b
<1>3. Comparable(<<a, b>>) <=> MayCompare(a, b)
  BY <1>2, ReportAgreesWithContract
<1> QED
  BY <1>1, <1>3 DEF a, b

\* A list that is comparable as a whole has two members, and one of them is the
\* fastest.
LEMMA WinnerOfList ==
    ASSUME NEW list, NEW w, WellMeasured(list, w), Comparable(list)
    PROVE  /\ Len(list) >= 2 /\ Fastest(list) \in 1 .. Len(list)
           /\ \A i \in 1 .. Len(list) :
                 IF i < Fastest(list) THEN Faster(list[Fastest(list)], list[i])
                 ELSE ~Faster(list[i], list[Fastest(list)])
<1> DEFINE n == Len(list)
<1>1. n \in Nat /\ n >= 2 /\ DOMAIN list = 1 .. n
  BY ComparisonAssumption DEF WellMeasured, Comparable, CompatibleContracts
<1>2. \A i \in 1 .. n : list[i].time \in Nat /\ list[i].ops \in Nat /\ list[i].ops > 0
  BY RunRowsAreTyped DEF WellMeasured, ValidResult
<1> HIDE DEF n
<1>3. /\ Fastest(list) \in 1 .. n
      /\ \A j \in 1 .. n : IF j < Fastest(list) THEN Faster(list[Fastest(list)], list[j])
                          ELSE ~Faster(list[j], list[Fastest(list)])
  BY <1>1, <1>2, FirstOfTheFastest
<1> QED
  BY <1>1, <1>3 DEF n

\* The variables keep their types: no list outgrows the one it is made from.
THEOREM ReportTypes == Spec => []TypeOK
<1>1. IInv => TypeOK
  <2> SUFFICES ASSUME IInv PROVE TypeOK
    OBVIOUS
  <2>1. Len(checked) \in {0, Len(results)}
    <3>1. CASE stage \in {"read", "rejected"}
      BY <3>1 DEF IInv, Evidence
    <3>2. CASE stage \notin {"read", "rejected"}
      BY <3>2, ReconciledPermutes DEF IInv, Evidence
    <3> QED
      BY <3>1, <3>2
  <2> QED
    BY <2>1 DEF IInv, Evidence, Finished, InWork, Table, TypeOK
<1> QED
  BY ReportIsAFunctionOfTheEvidence, <1>1, PTL

\* The report has a ratio for exactly the pairs of supported measurements the
\* contract lets compare (_compatible_environments and
\* _compatible_execution_contracts against validate_ratio_compatibility).
THEOREM RatiosAreTheComparable == Spec => []RatiosAreExactlyTheComparable
<1>1. IInv => RatiosAreExactlyTheComparable
  <2> SUFFICES ASSUME IInv, NEW k \in DOMAIN report
               PROVE  LET list == Measured(report[k].cells)
                      IN  report[k].ratios =
                             {p \in Pairs(list) : MayCompare(list[p[1]], list[p[2]])}
    BY DEF RatiosAreExactlyTheComparable
  <2> DEFINE list == Measured(WorkloadCells(checked, OrderedIds[k]))
  <2>1. /\ Measured(report[k].cells) = list /\ report[k].ratios = ComparablePairs(list)
        /\ WellMeasured(list, OrderedIds[k])
    BY RowOfReport
  <2> HIDE DEF list
  <2>2. \A p \in Pairs(list) :
           Comparable(<<list[p[1]], list[p[2]]>>) <=> MayCompare(list[p[1]], list[p[2]])
    BY <2>1, PairsOfList
  <2> QED
    BY <2>1, <2>2 DEF ComparablePairs
<1> QED
  BY ReportIsAFunctionOfTheEvidence, <1>1, PTL

\* No ratio of the report sets time on the device alone against time that
\* includes the host (validate_result with RATIO_DIMENSIONS).
THEOREM RatiosStayOnTheirSide == Spec => []RatiosStayWithinABoundary
<1>1. IInv => RatiosStayWithinABoundary
  <2> SUFFICES ASSUME IInv, NEW k \in DOMAIN report, NEW p \in report[k].ratios
               PROVE  LET list == Measured(report[k].cells)
                      IN  Heterogeneous(list[p[1]]) =>
                             /\ list[p[1]].exec.timer = list[p[2]].exec.timer
                             /\ list[p[1]].exec.residency = "device"
                                   => list[p[2]].exec.residency = "device"
    BY DEF RatiosStayWithinABoundary
  <2> DEFINE list == Measured(WorkloadCells(checked, OrderedIds[k]))
  <2>1. /\ Measured(report[k].cells) = list /\ report[k].ratios = ComparablePairs(list)
        /\ WellMeasured(list, OrderedIds[k])
    BY RowOfReport
  <2> HIDE DEF list
  <2>2. MayCompare(list[p[1]], list[p[2]])
    BY <2>1, PairsOfList DEF ComparablePairs
  <2>3. Heterogeneous(list[p[1]]) => RatioCompatible(list[p[1]], list[p[2]])
    BY <2>2 DEF MayCompare
  <2> QED
    BY <2>1, <2>3, RatiosKeepTheBoundary
<1> QED
  BY ReportIsAFunctionOfTheEvidence, <1>1, PTL

\* A named winner has a rival, no rival takes less time for an operation, and those
\* that take the same time come after it (min over median_ns_per_operation in
\* build_summary_model).
THEOREM WinnersAreFastest == Spec => []WinnerIsFastest
<1>1. IInv => WinnerIsFastest
  <2> SUFFICES ASSUME IInv, NEW k \in DOMAIN report, report[k].winner # 0
               PROVE  LET list == Measured(report[k].cells)
                          winner == report[k].winner
                      IN  /\ Len(list) >= 2
                          /\ \A i \in DOMAIN list :
                                IF i < winner THEN Faster(list[winner], list[i])
                                ELSE ~Faster(list[i], list[winner])
    BY DEF WinnerIsFastest
  <2> DEFINE list == Measured(WorkloadCells(checked, OrderedIds[k]))
  <2>1. /\ Measured(report[k].cells) = list /\ WellMeasured(list, OrderedIds[k])
        /\ report[k].winner = (IF Comparable(list) THEN Fastest(list) ELSE 0)
    BY RowOfReport
  <2> HIDE DEF list
  <2>2. Comparable(list) /\ report[k].winner = Fastest(list)
    BY <2>1
  <2>3. DOMAIN list = 1 .. Len(list)
    BY <2>1 DEF WellMeasured
  <2> QED
    BY <2>1, <2>2, <2>3, WinnerOfList
<1> QED
  BY ReportIsAFunctionOfTheEvidence, <1>1, PTL

\* The note says what happened to the ratios: with all of them it is "compatible",
\* with some "partial", with none another one; and "compatible" stands over a missing
\* ratio only where two hosts disagree over a key the first one leaves open.
THEOREM NotesAreTrue == Spec => []NoteIsTrue
<1>1. IInv => NoteIsTrue
  <2> SUFFICES ASSUME IInv, NEW k \in DOMAIN report
               PROVE  LET row == report[k]
                          list == Measured(row.cells)
                          all == Pairs(list)
                      IN  /\ row.note = "too few" <=> Len(list) < 2
                          /\ Len(list) >= 2 /\ row.ratios = all => row.note = "compatible"
                          /\ row.note = "compatible" =>
                                \A p \in all \ row.ratios : \E key \in HostKeys :
                                   /\ list[1].host[key] = Unknown
                                   /\ Disputed(list[p[1]], list[p[2]], key)
                          /\ row.note = "partial" => row.ratios # {} /\ row.ratios # all
                          /\ row.note \in {"too few", "dimensions differ", "metadata differ"}
                                => row.ratios = {}
    BY DEF NoteIsTrue
  <2> DEFINE list == Measured(WorkloadCells(checked, OrderedIds[k]))
             found == ComparablePairs(list)
  <2>1. /\ Measured(report[k].cells) = list /\ report[k].ratios = found
        /\ report[k].winner = (IF Comparable(list) THEN Fastest(list) ELSE 0)
        /\ report[k].note = Note(list, found) /\ WellMeasured(list, OrderedIds[k])
    BY RowOfReport
  <2> HIDE DEF list
  <2>2. Len(list) \in Nat /\ DOMAIN list = 1 .. Len(list)
    BY <2>1, ComparisonAssumption DEF WellMeasured
  <2>3. Comparable(list) => Len(list) >= 2
    BY DEF Comparable, CompatibleContracts
  <2>4. Len(list) < 2 => found = {}
    <3>1. ASSUME NEW p \in found PROVE ~(Len(list) < 2)
      <4>1. p[1] \in 1 .. Len(list) /\ p[2] \in 1 .. Len(list) /\ p[1] < p[2]
        BY <2>1, PairsOfList DEF ComparablePairs
      <4> QED
        BY <2>2, <4>1
    <3> QED
      BY <3>1
  <2>5. found = Pairs(list) /\ Len(list) >= 2 => Comparable(list)
    <3>1. ASSUME NEW i \in 1 .. Len(list), NEW j \in 1 .. Len(list), i < j
          PROVE  <<i, j>> \in Pairs(list)
      BY <2>2, <3>1 DEF Pairs
    <3>2. ASSUME found = Pairs(list), NEW i \in 1 .. Len(list), NEW j \in 1 .. Len(list), i < j
          PROVE  Comparable(<<list[i], list[j]>>)
      BY <3>1, <3>2 DEF ComparablePairs
    <3> QED
      BY <2>2, <3>2, PairsMakeTheList
  <2>6. ASSUME Comparable(list), NEW p \in Pairs(list) \ found
        PROVE  \E key \in HostKeys : /\ list[1].host[key] = Unknown
                                     /\ Disputed(list[p[1]], list[p[2]], key)
    <3>1. p[1] \in 1 .. Len(list) /\ p[2] \in 1 .. Len(list)
      BY <2>1, PairsOfList
    <3>2. ~Comparable(<<list[p[1]], list[p[2]]>>)
      BY DEF ComparablePairs
    <3> QED
      BY <2>2, <2>6, <3>1, <3>2, OnlyOpenKeysDivide
  <2> HIDE DEF found
  <2>6a. Note(list, found) = "too few" <=> Len(list) < 2
    <3>1. Len(list) < 2 => ~Comparable(list)
      BY <2>2, <2>3
    <3>2. Note(list, found) = "too few" <=> ~Comparable(list) /\ Len(list) < 2
      BY Notes
    <3> QED
      BY <3>1, <3>2
  <2>7. Note(list, found) = "partial" => found # {} /\ found # Pairs(list)
    BY <2>5, Notes
  <2>8. Note(list, found) \in {"too few", "dimensions differ", "metadata differ"} => found = {}
    BY <2>4, Notes
  <2>9. Note(list, found) = "compatible" <=> Comparable(list)
    BY Notes
  <2> QED
    BY <2>1, <2>5, <2>6, <2>6a, <2>7, <2>8, <2>9
<1> QED
  BY ReportIsAFunctionOfTheEvidence, <1>1, PTL

\* The cells of a family are its rows of the workload, as they were read: none is
\* lost, doubled or shown under another family (by_key and the loop over it).
THEOREM CellsShowTheEvidence == Spec => []CellsAreTheEvidence
<1>1. IInv => CellsAreTheEvidence
  <2> SUFFICES ASSUME IInv, NEW k \in DOMAIN report, NEW f \in Families
               PROVE  LET shown == Column(report[k], f)
                          rows == {i \in DOMAIN results :
                                      /\ results[i].family = f
                                      /\ results[i].workload = report[k].workload}
                      IN  IF rows = {} THEN shown = <<BlockedCell(f)>>
                          ELSE /\ Len(shown) = Cardinality(rows)
                               /\ {shown[i].row : i \in DOMAIN shown} = {results[i] : i \in rows}
    BY DEF CellsAreTheEvidence
  <2> DEFINE w == OrderedIds[k]
             cs == WorkloadCells(checked, w)
             shown == Kept(cs, {i \in DOMAIN cs : cs[i].family = f})
             A == PlacesOf(results, f, w)
             B == PlacesOf(checked, f, w)
  <2>1. /\ report[k].workload = w /\ report[k].cells = cs /\ stage \notin {"read", "rejected"}
    BY RowOfReport
  <2>2. /\ results \in Seq(RunRows) /\ Reconcilable(results) /\ checked = Reconciled(results)
    BY <2>1 DEF IInv, Evidence
  <2>3. /\ Cardinality(A) = Cardinality(B) /\ (A = {} <=> B = {})
        /\ {results[i] : i \in A} = {checked[i] : i \in B}
    <3> DEFINE C == PlacesOf(Reconciled(results), f, w)
    <3> HIDE DEF w
    <3>1. /\ Cardinality(A) = Cardinality(C) /\ (A = {} <=> C = {})
          /\ {results[i] : i \in A} = {Reconciled(results)[i] : i \in C}
      BY <2>2, ReconciledPlaces
    <3> QED
      BY <2>2, <3>1
  <2>4. \E n \in Nat : DOMAIN checked = 1 .. n
    <3>1. checked \in Seq(RunRows)
      BY <2>2, ReconciledPermutes
    <3> HIDE DEF IInv
    <3> QED
      BY <3>1
  <2>5. /\ B = {} => shown = <<BlockedCell(f)>>
        /\ B # {} => /\ Len(shown) = Cardinality(B)
                     /\ {shown[i].row : i \in DOMAIN shown} = {checked[q] : q \in B}
    BY <2>4, CellsOfFamily
  <2>6. Column(report[k], f) = shown
    BY <2>1 DEF Column
  <2>7. {i \in DOMAIN results : results[i].family = f /\ results[i].workload = report[k].workload} = A
    BY <2>1 DEF PlacesOf
  <2> HIDE DEF shown, A, B
  <2>8. CASE A = {}
    BY <2>3, <2>5, <2>6, <2>7, <2>8
  <2>9. CASE A # {}
    BY <2>3, <2>5, <2>6, <2>7, <2>9
  <2> QED
    BY <2>8, <2>9
<1> QED
  BY ReportIsAFunctionOfTheEvidence, <1>1, PTL

\* Two cells of a workload have one label only where a device's text ends in an
\* ordinal itself (_measurement_label and its numbering).
THEOREM CellsHaveLabelsOfTheirOwn == Spec => []LabelsAreUnique
<1>1. IInv => LabelsAreUnique
  <2> SUFFICES ASSUME IInv, NEW k \in DOMAIN report
               PROVE  LET shown == report[k].cells
                      IN  \A i, j \in DOMAIN shown : shown[i].label = shown[j].label =>
                             i = j \/ EndsInOrdinal(shown[i]) \/ EndsInOrdinal(shown[j])
    BY DEF LabelsAreUnique
  <2>1. /\ report[k].cells = WorkloadCells(checked, OrderedIds[k])
        /\ stage \notin {"read", "rejected"}
    BY RowOfReport
  <2>2. /\ Len(results) \in Nat /\ DOMAIN checked = 1 .. Len(results)
        /\ \A q \in 1 .. Len(results) : checked[q] \in RunRows /\ ValidResult(checked[q])
    BY <2>1, EvidenceIsValid DEF IInv
  <2>3. \A q \in 1 .. Len(results) : HasText(checked[q])
    BY <2>2, ValidRowsHaveText
  <2> QED
    BY <2>1, <2>2, <2>3, CellLabels
<1> QED
  BY ReportIsAFunctionOfTheEvidence, <1>1, PTL

\* The order in which the bundles list their rows does not show in the report:
\* rows that change places are reconciled to the same list.
THEOREM ReportsAreDeterministic == Spec => []OrderDoesNotMatter
<1>1. IInv => OrderDoesNotMatter
  <2> SUFFICES ASSUME IInv, stage = "cells",
                      NEW i \in DOMAIN results, NEW j \in DOMAIN results, i < j
               PROVE  Reconciled([results EXCEPT ![i] = results[j], ![j] = results[i]]) = checked
    BY DEF OrderDoesNotMatter
  <2> DEFINE n == Len(results)
             others == [results EXCEPT ![i] = results[j], ![j] = results[i]]
             to == [q \in 1 .. n |-> IF q = i THEN j ELSE IF q = j THEN i ELSE q]
  <2>1. results \in Seq(RunRows) /\ Reconcilable(results) /\ checked = Reconciled(results)
    BY DEF IInv, Evidence
  <2>2. n \in Nat /\ DOMAIN results = 1 .. n /\ \A q \in 1 .. n : results[q] \in RunRows
    BY <2>1
  <2>3. i \in 1 .. n /\ j \in 1 .. n /\ i # j
    BY <2>2
  <2> HIDE DEF n
  <2>4. Permutes(to, n)
    BY <2>3 DEF Permutes
  <2>5. \A q \in 1 .. n : others[q] = results[to[q]]
    BY <2>2, <2>3
  <2>6. others \in Seq(RunRows) /\ Len(others) = n
    <3>1. others \in [1 .. n -> RunRows]
      BY <2>2, <2>3
    <3> HIDE DEF others
    <3> QED
      BY <2>2, <3>1
  <2> HIDE DEF others, to
  <2>7. Reconciled(others) = Reconciled(results)
    BY <2>1, <2>4, <2>5, <2>6, ReconciledIgnoresOrder DEF n
  <2> QED
    BY <2>1, <2>7 DEF others
<1> QED
  BY ReportIsAFunctionOfTheEvidence, <1>1, PTL
================================================================================
