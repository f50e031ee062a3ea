---------------------------- MODULE AcceptanceProofs ----------------------------
(***************************************************************************)
(* Theorems about Acceptance, for any manifest, any family, either profile *)
(* and any rows an adapter may print, in whatever number and order.        *)
(***************************************************************************)
EXTENDS Acceptance, ListFacts

\* What the reconciling loop has established about the rows behind it.
LoopInv ==
    /\ \A r \in reconciled : Evidence(r)
    /\ \A r, s \in reconciled : ReconcileKey(r) = ReconcileKey(s) => r = s

\* What is known once the loop is over, and what the second loop adds to it.
CheckInv ==
    /\ stage \in {"checking", "accepted"} => Workloads \subseteq Reported
    /\ stage \in {"checking", "accepted"} => \A r \in reconciled \ unchecked : Confirmed(r)
    /\ stage = "accepted" => unchecked = {}

IInv == TypeOK /\ LoopInv /\ CheckInv

LEMMA InitIInv == Init => IInv
<1> SUFFICES ASSUME Init PROVE IInv
  OBVIOUS
<1>1. TypeOK
  BY DEF Init, TypeOK, Stages
<1>2. LoopInv
  BY DEF Init, LoopInv
<1>3. CheckInv
  BY DEF Init, CheckInv
<1> QED
  BY <1>1, <1>2, <1>3 DEF IInv

\* A step of the first loop: the row is new, valid and bound, or the run fails.
LEMMA ReconcileRowStep == IInv /\ ReconcileRow => IInv'
<1> SUFFICES ASSUME IInv, ReconcileRow PROVE IInv'
  OBVIOUS
<1> DEFINE r == rows[next]
           good == /\ ValidResult(r) /\ ReconcileKey(r) \notin seen
                   /\ r.workload \in Workloads /\ BoundToWorkload(r)
<1>1. CASE good
  <2>1. /\ seen' = seen \cup {ReconcileKey(r)} /\ reconciled' = reconciled \cup {r}
        /\ next' = next + 1 /\ stage' = "reconciling" /\ unchecked' = unchecked
    BY <1>1 DEF ReconcileRow
  <2>2. TypeOK'
    BY <2>1 DEF IInv, TypeOK, Stages
  <2>3. \A s \in reconciled' : Evidence(s)
    BY <1>1, <2>1 DEF IInv, LoopInv, Evidence
  <2>4. \A s \in reconciled : ReconcileKey(s) # ReconcileKey(r)
    BY <1>1 DEF IInv, TypeOK
  <2>5. \A s, t \in reconciled' : ReconcileKey(s) = ReconcileKey(t) => s = t
    BY <2>1, <2>4 DEF IInv, LoopInv
  <2> QED
    BY <2>1, <2>2, <2>3, <2>5 DEF IInv, LoopInv, CheckInv, Evidence
<1>2. CASE ~good
  <2>1. stage' = "rejected" /\ UNCHANGED <<next, seen, reconciled, unchecked>>
    BY <1>2 DEF ReconcileRow, Reject
  <2> QED
    BY <2>1 DEF IInv, TypeOK, LoopInv, CheckInv, Stages, Evidence
<1> QED
  BY <1>1, <1>2

\* A step of the second loop takes a row off the list only if it is confirmed.
LEMMA CheckRowStep == IInv /\ CheckRow => IInv'
<1> SUFFICES ASSUME IInv, CheckRow PROVE IInv'
  OBVIOUS
<1>1. PICK r \in unchecked :
         IF \/ Skipped(r)
            \/ r.ops = ExpectedOperations(r.workload) /\ r.oracle.value = "right"
         THEN unchecked' = unchecked \ {r} /\ UNCHANGED stage
         ELSE stage' = "rejected" /\ UNCHANGED unchecked
  BY DEF CheckRow
<1>2. stage = "checking" /\ UNCHANGED <<family, smoke, next, seen, reconciled>>
  BY DEF CheckRow, request
<1>3. CASE \/ Skipped(r)
           \/ r.ops = ExpectedOperations(r.workload) /\ r.oracle.value = "right"
  <2>1. unchecked' = unchecked \ {r} /\ stage' = "checking"
    BY <1>1, <1>2, <1>3
  <2>2. Confirmed(r)
    BY <1>3 DEF Confirmed, Own, Skipped, ExpectedOperations, Agreed
  <2>3. \A s \in reconciled \ unchecked' : Confirmed(s)
    BY <1>2, <2>1, <2>2 DEF IInv, CheckInv
  <2>4. CheckInv'
    BY <1>2, <2>1, <2>3 DEF IInv, CheckInv, Reported, Confirmed, Own, Agreed
  <2> QED
    BY <1>2, <2>1, <2>4 DEF IInv, TypeOK, LoopInv, Stages, Evidence
<1>4. CASE ~(\/ Skipped(r)
             \/ r.ops = ExpectedOperations(r.workload) /\ r.oracle.value = "right")
  BY <1>1, <1>2, <1>4 DEF IInv, TypeOK, LoopInv, CheckInv, Stages, Evidence
<1> QED
  BY <1>3, <1>4

LEMMA NextIInv == IInv /\ [Next]_vars => IInv'
<1> SUFFICES ASSUME IInv, [Next]_vars PROVE IInv'
  OBVIOUS
<1> USE DEF IInv, TypeOK, LoopInv, Stages, Evidence
<1>1. CASE PrintRow
  BY <1>1 DEF PrintRow, request, CheckInv, Reported, Confirmed
<1>2. CASE EndOfOutput
  BY <1>2 DEF EndOfOutput, CheckInv
<1>3. CASE ReconcileRow
  BY <1>3, ReconcileRowStep
<1>4. CASE CheckCompleteness
  <2>1. UNCHANGED <<next, seen, reconciled>> /\ stage = "reconciling"
    BY <1>4 DEF CheckCompleteness
  <2>2. CASE Workloads \subseteq Reported
    BY <1>4, <2>1, <2>2 DEF CheckCompleteness, request, CheckInv, Reported
  <2>3. CASE ~(Workloads \subseteq Reported)
    BY <1>4, <2>1, <2>3 DEF CheckCompleteness, CheckInv
  <2> QED
    BY <2>2, <2>3
<1>5. CASE CheckRow
  BY <1>5, CheckRowStep
<1>6. CASE Accept
  BY <1>6 DEF Accept, request, CheckInv, Reported, Confirmed, Own, Agreed
<1>7. CASE Ended \/ UNCHANGED vars
  BY <1>7 DEF Ended, vars, request, CheckInv, Reported, Confirmed, Own, Agreed
<1> QED
  BY <1>1, <1>2, <1>3, <1>4, <1>5, <1>6, <1>7 DEF Next

LEMMA AcceptedFromIInv == IInv => AcceptedIsSound
<1> SUFFICES ASSUME IInv, stage = "accepted"
             PROVE  /\ \A r \in reconciled : Evidence(r) /\ Confirmed(r)
                    /\ \A r, s \in reconciled : ReconcileKey(r) = ReconcileKey(s) => r = s
                    /\ \A w \in Workloads :
                          \E r \in reconciled : r.family = family /\ r.workload = w
  BY DEF AcceptedIsSound
<1>1. \A r \in reconciled : Confirmed(r)
  BY DEF IInv, CheckInv
<1>2. \A w \in Workloads : \E r \in reconciled : r.family = family /\ r.workload = w
  BY DEF IInv, CheckInv, Reported
<1> QED
  BY <1>1, <1>2 DEF IInv, LoopInv

(***************************************************************************)
(* The keys behind the loop are those of the rows behind it, and only rows *)
(* behind it wait to be checked (the loops of reconcile_results and of     *)
(* validate_complete_run).                                                 *)
(***************************************************************************)
THEOREM LoopsAreWellTyped == Spec => []TypeOK
<1>1. IInv => TypeOK
  BY DEF IInv
<1> QED
  BY InitIInv, NextIInv, <1>1, PTL DEF Spec

(***************************************************************************)
(* Whatever an adapter prints, what becomes a bundle is valid, confirmed,  *)
(* complete and free of duplicates: validate_complete_run is sound.        *)
(***************************************************************************)
THEOREM BundlesAreSound == Spec => []AcceptedIsSound
BY InitIInv, NextIInv, AcceptedFromIInv, PTL DEF Spec

--------------------------------------------------------------------------------
(***************************************************************************)
(* What complete_adapter_results makes of the rows printed.                *)
(***************************************************************************)

\* What was printed comes first; each row after it is the gap of a missing
\* workload, no two of the same one, and no missing workload is left out.
LEMMA CompletedShape ==
    ASSUME NEW S, NEW printed \in Seq(S)
    PROVE  LET all == Completed(printed)
               n == Len(printed)
           IN  /\ n \in Nat /\ Len(all) \in Nat /\ n <= Len(all)
               /\ DOMAIN all = 1 .. Len(all) /\ DOMAIN printed = 1 .. n
               /\ \A i \in 1 .. n : all[i] = printed[i]
               /\ \A i \in n + 1 .. Len(all) :
                     \E w \in Missing(printed) : all[i] = Gap(printed, w)
               /\ \A i, j \in n + 1 .. Len(all) :
                     all[i].workload = all[j].workload => i = j
               /\ \A w \in Missing(printed) :
                     \E i \in n + 1 .. Len(all) : all[i] = Gap(printed, w)
<1> DEFINE n == Len(printed)
           M == Missing(printed)
           k == Cardinality(M)
           order == SetToSeq(M)
           gaps == [i \in 1 .. k |-> Gap(printed, order[i])]
           T == S \cup {Gap(printed, w) : w \in M}
           all == printed \o gaps
<1>1. IsFiniteSet(M)
  BY AcceptanceAssumption, FS_EmptySet, FS_Difference DEF Missing
<1>2. /\ k \in Nat /\ order \in [1 .. k -> M]
      /\ \A i, j \in 1 .. k : order[i] = order[j] => i = j
      /\ \A w \in M : \E i \in 1 .. k : order[i] = w
  BY <1>1, SetToSeqLists
<1>3. Completed(printed) = all
  BY <1>2 DEF Completed
<1>4. gaps \in Seq(T) /\ Len(gaps) = k
  BY <1>2
<1>5. printed \in Seq(T) /\ n \in Nat /\ DOMAIN printed = 1 .. n
  <2>1. printed \in [1 .. n -> S] /\ n \in Nat /\ DOMAIN printed = 1 .. n
    BY LenProperties
  <2>2. printed \in [1 .. n -> T]
    BY <2>1
  <2> QED
    BY <2>1, <2>2, SeqDef
<1>6. /\ all \in Seq(T) /\ Len(all) = n + k
      /\ \A i \in 1 .. n + k : all[i] = IF i <= n THEN printed[i] ELSE gaps[i - n]
  <2> HIDE DEF gaps, T, k
  <2> QED
    BY <1>4, <1>5, ConcatProperties
<1>7. DOMAIN all = 1 .. n + k
  BY <1>6, LenProperties
<1>8. \A i \in n + 1 .. n + k : i - n \in 1 .. k /\ all[i] = Gap(printed, order[i - n])
  BY <1>2, <1>5, <1>6
<1>9. \A w : Gap(printed, w).workload = w
  BY DEF Gap
<1>10. \A i \in n + 1 .. n + k : \E w \in M : all[i] = Gap(printed, w)
  BY <1>2, <1>8
<1>11. ASSUME NEW i \in n + 1 .. n + k, NEW j \in n + 1 .. n + k,
              all[i].workload = all[j].workload
       PROVE  i = j
  <2>1. order[i - n] = order[j - n]
    BY <1>8, <1>9, <1>11
  <2>2. i - n = j - n
    BY <1>2, <1>8, <2>1
  <2> QED
    BY <1>2, <1>5, <2>2
<1>12. ASSUME NEW w \in M
       PROVE  \E i \in n + 1 .. n + k : all[i] = Gap(printed, w)
  <2>1. PICK i \in 1 .. k : order[i] = w
    BY <1>2
  <2>2. n + i \in n + 1 .. n + k /\ (n + i) - n = i
    BY <1>2, <1>5
  <2>3. all[n + i] = Gap(printed, w)
    BY <1>8, <2>1, <2>2
  <2> QED
    BY <2>2, <2>3
<1>13. \A i \in 1 .. n : all[i] = printed[i]
  BY <1>2, <1>5, <1>6
<1> HIDE DEF n, M, k, order, gaps, T, all
<1>14. /\ n \in Nat /\ Len(all) \in Nat /\ n <= Len(all)
       /\ DOMAIN all = 1 .. Len(all) /\ DOMAIN printed = 1 .. n
  BY <1>2, <1>5, <1>6, <1>7
<1>15. Len(all) = n + k
  BY <1>6
<1> QED
  BY <1>3, <1>10, <1>11, <1>12, <1>13, <1>14, <1>15 DEF n, M

\* A gap passes every test a row is put to.
LEMMA GapIsHarmless ==
    ASSUME NEW printed, NEW w \in Workloads
    PROVE  /\ Evidence(Gap(printed, w)) /\ ~Supported(Gap(printed, w))
           /\ Gap(printed, w).workload = w /\ Gap(printed, w).family = printed[1].family
           /\ ReconcileKey(Gap(printed, w)) = <<printed[1].family, w, Legacy>>
<1> DEFINE g == Gap(printed, w)
<1>1. /\ g.family = printed[1].family /\ g.workload = w
      /\ g.status = "unsupported" /\ g.exec = Legacy
  BY DEF Gap
<1> HIDE DEF g
<1>2. ~Supported(g) /\ ~Heterogeneous(g)
  BY <1>1 DEF Supported, Heterogeneous
<1>3. Evidence(g)
  BY <1>1, <1>2 DEF Evidence, ValidResult, BoundToWorkload
<1>4. ReconcileKey(g) = <<g.family, g.workload, Legacy>>
  BY <1>2 DEF ReconcileKey, MeasurementIdentity
<1> QED
  BY <1>1, <1>2, <1>3, <1>4 DEF g

\* Honest output stays honest when it is completed.
LEMMA HonestCompleted ==
    ASSUME NEW S, output \in Seq(S), Honest(output)
    PROVE  LET all == Completed(output)
           IN  /\ \A i \in 1 .. Len(all) :
                     /\ all[i].family = family /\ Evidence(all[i])
                     /\ Supported(all[i]) => /\ all[i].ops = Agreed(all[i].workload)
                                             /\ all[i].oracle.value = "right"
               /\ \A i, j \in 1 .. Len(all) :
                     ReconcileKey(all[i]) = ReconcileKey(all[j]) => i = j
               /\ \A w \in Workloads : \E i \in 1 .. Len(all) : all[i].workload = w
<1> DEFINE all == Completed(output)
           n == Len(output)
           M == Missing(output)
<1>1. /\ n \in Nat /\ Len(all) \in Nat /\ n <= Len(all)
      /\ DOMAIN all = 1 .. Len(all) /\ DOMAIN output = 1 .. n
      /\ \A i \in 1 .. n : all[i] = output[i]
      /\ \A i \in n + 1 .. Len(all) : \E w \in M : all[i] = Gap(output, w)
      /\ \A i, j \in n + 1 .. Len(all) : all[i].workload = all[j].workload => i = j
      /\ \A w \in M : \E i \in n + 1 .. Len(all) : all[i] = Gap(output, w)
  BY CompletedShape
<1>2. /\ \A i \in 1 .. n :
            /\ output[i].family = family /\ Evidence(output[i])
            /\ Supported(output[i]) => /\ output[i].ops = Agreed(output[i].workload)
                                       /\ output[i].oracle.value = "right"
      /\ \A i, j \in 1 .. n : ReconcileKey(output[i]) = ReconcileKey(output[j]) => i = j
  BY <1>1 DEF Honest, DistinctKeys
<1>3. \A w \in M : w \in Workloads /\ w \notin Present(output) /\ n > 0
  <2>1. ASSUME output # <<>> PROVE n > 0
    BY <1>1, <2>1, EmptySeq
  <2> QED
    BY <2>1 DEF Missing
<1>4. \A w \in M : /\ Gap(output, w).family = family /\ Evidence(Gap(output, w))
                   /\ ~Supported(Gap(output, w)) /\ Gap(output, w).workload = w
                   /\ ReconcileKey(Gap(output, w)) = <<family, w, Legacy>>
  BY <1>1, <1>2, <1>3, GapIsHarmless
<1>5. \A i \in 1 .. n : output[i].workload \in Present(output)
  BY <1>1 DEF Present
<1>6. \A i \in 1 .. n : ReconcileKey(output[i])[2] = output[i].workload
  BY DEF ReconcileKey
<1>7. \A i \in n + 1 .. Len(all) :
         /\ all[i].family = family /\ Evidence(all[i]) /\ ~Supported(all[i])
         /\ all[i].workload \notin Present(output)
         /\ ReconcileKey(all[i])[2] = all[i].workload
  BY <1>1, <1>3, <1>4
<1> HIDE DEF all, n, M
<1>8. \A i \in 1 .. Len(all) : i \in 1 .. n \/ i \in n + 1 .. Len(all)
  BY <1>1
<1>9. \A i \in 1 .. Len(all) :
         /\ all[i].family = family /\ Evidence(all[i])
         /\ Supported(all[i]) => /\ all[i].ops = Agreed(all[i].workload)
                                 /\ all[i].oracle.value = "right"
  <2> SUFFICES ASSUME NEW i \in 1 .. Len(all)
               PROVE  /\ all[i].family = family /\ Evidence(all[i])
                      /\ Supported(all[i]) => /\ all[i].ops = Agreed(all[i].workload)
                                              /\ all[i].oracle.value = "right"
    OBVIOUS
  <2>1. CASE i \in 1 .. n
    <3>1. all[i] = output[i]
      BY <1>1, <2>1
    <3> QED
      BY <1>2, <2>1, <3>1
  <2>2. CASE i \in n + 1 .. Len(all)
    BY <1>7, <2>2
  <2> QED
    BY <1>8, <2>1, <2>2
<1>10. ASSUME NEW i \in 1 .. Len(all), NEW j \in 1 .. Len(all),
              ReconcileKey(all[i]) = ReconcileKey(all[j])
       PROVE  i = j
  <2>1. CASE i \in 1 .. n /\ j \in 1 .. n
    BY <1>1, <1>2, <1>10, <2>1
  <2>2. CASE i \in n + 1 .. Len(all) /\ j \in n + 1 .. Len(all)
    BY <1>1, <1>7, <1>10, <2>2
  <2>3. CASE i \in 1 .. n /\ j \in n + 1 .. Len(all)
    <3>1. ReconcileKey(all[i])[2] \in Present(output)
      BY <1>1, <1>5, <1>6, <2>3
    <3>2. ReconcileKey(all[j])[2] \notin Present(output)
      BY <1>7, <2>3
    <3> QED
      BY <1>10, <3>1, <3>2
  <2>4. CASE j \in 1 .. n /\ i \in n + 1 .. Len(all)
    <3>1. ReconcileKey(all[j])[2] \in Present(output)
      BY <1>1, <1>5, <1>6, <2>4
    <3>2. ReconcileKey(all[i])[2] \notin Present(output)
      BY <1>7, <2>4
    <3> QED
      BY <1>10, <3>1, <3>2
  <2> QED
    BY <1>8, <2>1, <2>2, <2>3, <2>4
<1>11. ASSUME NEW w \in Workloads
       PROVE  \E i \in 1 .. Len(all) : all[i].workload = w
  <2>1. CASE w \in Present(output)
    <3>1. PICK i \in 1 .. n : output[i].workload = w
      BY <1>1, <2>1 DEF Present
    <3>2. i \in 1 .. Len(all) /\ all[i].workload = w
      BY <1>1, <3>1
    <3> QED
      BY <3>2
  <2>2. CASE w \notin Present(output)
    <3>1. w \in M
      BY <2>2 DEF M, Missing, Honest
    <3>2. PICK i \in n + 1 .. Len(all) : all[i] = Gap(output, w)
      BY <1>1, <3>1
    <3>3. i \in 1 .. Len(all) /\ all[i].workload = w
      BY <1>1, <1>4, <3>1, <3>2
    <3> QED
      BY <3>3
  <2> QED
    BY <2>1, <2>2
<1> QED
  BY <1>9, <1>10, <1>11 DEF all

--------------------------------------------------------------------------------
(***************************************************************************)
(* Where the rows come from: what was printed is completed once, and the   *)
(* rows reconciled are those behind the loop.                              *)
(***************************************************************************)
PathInv ==
    /\ output \in Seq(OutputRows[family][smoke])
    /\ stage = "printing" => next = 1 /\ reconciled = {}
    /\ stage # "printing" => /\ rows = Completed(output)
                             /\ reconciled = {rows[i] : i \in 1 .. next - 1}
    /\ stage \in {"checking", "accepted"} => next > Len(rows)
    /\ next - 1 <= Len(rows) \/ stage = "printing"

\* The part of the state these facts are about: whether and how it is disturbed.
LEMMA PathInvKept ==
    ASSUME IInv, PathInv,
           UNCHANGED <<family, smoke, output, rows, next, reconciled>>,
           stage # "printing", stage' # "printing",
           stage' \in {"checking", "accepted"} => next > Len(rows)
    PROVE  PathInv'
<1>1. Completed(output)' = Completed(output)
  BY DEF Completed, Missing, Present, Gap
<1> QED
  BY <1>1 DEF PathInv

LEMMA NextPathInv == IInv /\ PathInv /\ [Next]_vars => PathInv'
<1> SUFFICES ASSUME IInv, PathInv, [Next]_vars PROVE PathInv'
  OBVIOUS
<1>1. CASE PrintRow
  <2>1. PICK r \in OutputRows[family][smoke] : output' = Append(output, r)
    BY <1>1 DEF PrintRow
  <2>2. output' \in Seq(OutputRows[family][smoke])
    BY <2>1, AppendProperties DEF PathInv
  <2> QED
    BY <1>1, <2>2 DEF PathInv, PrintRow, request
<1>2. CASE EndOfOutput
  <2>1. /\ UNCHANGED <<family, smoke, output, next, reconciled>>
        /\ rows' = Completed(output) /\ stage' = "reconciling"
        /\ next = 1 /\ reconciled = {}
    BY <1>2 DEF EndOfOutput, request, PathInv
  <2>2. Completed(output)' = Completed(output)
    BY <2>1 DEF Completed, Missing, Present, Gap
  <2>3. Len(Completed(output)) \in Nat
    BY CompletedShape DEF PathInv
  <2> QED
    BY <2>1, <2>2, <2>3 DEF PathInv
<1>3. CASE ReconcileRow
  <2>1. /\ UNCHANGED <<family, smoke, output, rows>>
        /\ stage = "reconciling" /\ next <= Len(rows)
    BY <1>3 DEF ReconcileRow, request
  <2>2. Completed(output)' = Completed(output)
    BY <2>1 DEF Completed, Missing, Present, Gap
  <2>3. /\ next \in Nat \ {0} /\ rows = Completed(output)
        /\ reconciled = {rows[i] : i \in 1 .. next - 1}
        /\ output \in Seq(OutputRows[family][smoke])
    BY <2>1 DEF IInv, TypeOK, PathInv
  <2>4. Len(rows) \in Nat
    BY <2>3, CompletedShape
  <2>5. CASE /\ reconciled' = reconciled \cup {rows[next]}
             /\ next' = next + 1 /\ UNCHANGED stage
    <3>1. \A i : i \in 1 .. next' - 1 <=> i \in 1 .. next - 1 \/ i = next
      BY <2>3, <2>5
    <3>2. reconciled' = {rows[i] : i \in 1 .. next' - 1}
      BY <2>3, <2>5, <3>1
    <3>3. next' - 1 <= Len(rows)
      BY <2>1, <2>3, <2>5
    <3> QED
      BY <2>1, <2>2, <2>3, <2>5, <3>2, <3>3 DEF PathInv
  <2>6. CASE Reject
    BY <2>1, <2>6, PathInvKept DEF Reject
  <2> QED
    BY <1>3, <2>5, <2>6 DEF ReconcileRow
<1>4. CASE CheckCompleteness
  BY <1>4, PathInvKept DEF CheckCompleteness, request
<1>5. CASE CheckRow
  BY <1>5, PathInvKept DEF CheckRow, request, PathInv
<1>6. CASE Accept
  BY <1>6, PathInvKept DEF Accept, request, PathInv
<1>7. CASE Ended \/ UNCHANGED vars
  <2>1. UNCHANGED vars
    BY <1>7 DEF Ended
  <2>2. Completed(output)' = Completed(output)
    BY <2>1 DEF vars, request, Completed, Missing, Present, Gap
  <2> QED
    BY <2>1, <2>2 DEF vars, request, PathInv
<1> QED
  BY <1>1, <1>2, <1>3, <1>4, <1>5, <1>6, <1>7 DEF Next

LEMMA InitPathInv == Init => PathInv
BY EmptySeq DEF Init, PathInv

LEMMA KeptFromPathInv == IInv /\ PathInv => EvidenceIsKept
<1> SUFFICES ASSUME IInv, PathInv, stage = "accepted"
             PROVE  LET printed == {output[i] : i \in DOMAIN output}
                    IN  /\ printed \subseteq reconciled
                        /\ \A r \in reconciled \ printed :
                              ~Supported(r) /\ r.workload \notin Present(output)
  BY DEF EvidenceIsKept
<1> DEFINE n == Len(output)
<1>1. /\ n \in Nat /\ Len(rows) \in Nat /\ n <= Len(rows) /\ DOMAIN output = 1 .. n
      /\ \A i \in 1 .. n : rows[i] = output[i]
      /\ \A i \in n + 1 .. Len(rows) : \E w \in Missing(output) : rows[i] = Gap(output, w)
  BY CompletedShape DEF PathInv
<1>2. next = Len(rows) + 1
  BY <1>1 DEF PathInv, IInv, TypeOK
<1>3. reconciled = {rows[i] : i \in 1 .. Len(rows)}
  BY <1>1, <1>2 DEF PathInv
<1>4. {output[i] : i \in DOMAIN output} \subseteq reconciled
  BY <1>1, <1>3
<1>5. ASSUME NEW r \in reconciled, r \notin {output[i] : i \in DOMAIN output}
      PROVE  ~Supported(r) /\ r.workload \notin Present(output)
  <2>1. PICK i \in 1 .. Len(rows) : r = rows[i]
    BY <1>3
  <2>2. i \in n + 1 .. Len(rows)
    BY <1>1, <1>5, <2>1
  <2>3. PICK w \in Missing(output) : r = Gap(output, w)
    BY <1>1, <2>1, <2>2
  <2>4. w \in Workloads /\ w \notin Present(output)
    BY <2>3 DEF Missing
  <2> QED
    BY <2>3, <2>4, GapIsHarmless
<1> QED
  BY <1>4, <1>5

(***************************************************************************)
(* Whatever an adapter prints, an accepted bundle holds all of it, and     *)
(* beside it nothing but gaps for workloads it does not mention            *)
(* (complete_adapter_results).                                             *)
(***************************************************************************)
THEOREM EvidenceSurvivesCompletion == Spec => []EvidenceIsKept
BY InitIInv, InitPathInv, NextIInv, NextPathInv, KeptFromPathInv, PTL DEF Spec

--------------------------------------------------------------------------------
(***************************************************************************)
(* Honest output is not refused.  The family that is told one operation    *)
(* count for all workloads is left out: what it is asked for is not what   *)
(* the manifest says, so that rows the manifest agrees with may be refused.*)
(***************************************************************************)
FamilyInv == family \in Adapters

\* Each of the three places at which a run is refused.
LEMMA RefusedAtRow ==
    ASSUME IInv, PathInv, ReconcileRow, stage' = "rejected", Honest(output)
    PROVE  FALSE
<1> DEFINE r == rows[next]
<1>1. /\ stage = "reconciling" /\ next <= Len(rows) /\ next \in Nat \ {0}
      /\ rows = Completed(output) /\ reconciled = {rows[i] : i \in 1 .. next - 1}
      /\ seen = {ReconcileKey(s) : s \in reconciled}
      /\ output \in Seq(OutputRows[family][smoke])
  BY DEF ReconcileRow, IInv, TypeOK, PathInv
<1>2. ~(/\ ValidResult(r) /\ ReconcileKey(r) \notin seen
        /\ r.workload \in Workloads /\ BoundToWorkload(r))
  BY <1>1 DEF ReconcileRow
<1>3. Len(rows) \in Nat
  BY <1>1, CompletedShape
<1>4. next \in 1 .. Len(rows)
  BY <1>1, <1>3
<1>5. Evidence(r)
  BY <1>1, <1>4, HonestCompleted
<1>6. ReconcileKey(r) \in seen
  BY <1>2, <1>5 DEF Evidence
<1>7. PICK i \in 1 .. next - 1 : ReconcileKey(r) = ReconcileKey(rows[i])
  BY <1>1, <1>6
<1>8. i \in 1 .. Len(rows) /\ i # next
  BY <1>1, <1>3, <1>7
<1>9. i = next
  BY <1>1, <1>4, <1>7, <1>8, HonestCompleted
<1> QED
  BY <1>8, <1>9

LEMMA RefusedAsIncomplete ==
    ASSUME IInv, PathInv, CheckCompleteness, stage' = "rejected", Honest(output)
    PROVE  FALSE
<1>1. /\ stage = "reconciling" /\ next > Len(rows) /\ next \in Nat \ {0}
      /\ rows = Completed(output) /\ reconciled = {rows[i] : i \in 1 .. next - 1}
      /\ output \in Seq(OutputRows[family][smoke]) /\ next - 1 <= Len(rows)
  BY DEF CheckCompleteness, IInv, TypeOK, PathInv
<1>2. ~(Workloads \subseteq Reported)
  BY <1>1 DEF CheckCompleteness
<1>3. Len(rows) \in Nat
  BY <1>1, CompletedShape
<1>4. reconciled = {rows[i] : i \in 1 .. Len(rows)}
  <2>1. next - 1 = Len(rows)
    BY <1>1, <1>3
  <2> QED
    BY <1>1, <2>1
<1>5. ASSUME NEW w \in Workloads PROVE w \in Reported
  <2>1. PICK i \in 1 .. Len(rows) : rows[i].workload = w
    BY <1>1, HonestCompleted
  <2>2. rows[i].family = family
    BY <1>1, HonestCompleted
  <2> QED
    BY <1>4, <2>1, <2>2 DEF Reported
<1> QED
  BY <1>2, <1>5

LEMMA RefusedAtCheck ==
    ASSUME IInv, PathInv, FamilyInv, UniformFamily \notin Adapters,
           CheckRow, stage' = "rejected", Honest(output)
    PROVE  FALSE
<1>1. /\ stage = "checking" /\ next \in Nat \ {0} /\ unchecked \subseteq reconciled
      /\ rows = Completed(output) /\ reconciled = {rows[i] : i \in 1 .. next - 1}
      /\ output \in Seq(OutputRows[family][smoke]) /\ next - 1 <= Len(rows)
      /\ family # UniformFamily
  BY DEF CheckRow, IInv, TypeOK, PathInv, FamilyInv
<1>2. PICK r \in unchecked :
         /\ ~Skipped(r)
         /\ ~(r.ops = ExpectedOperations(r.workload) /\ r.oracle.value = "right")
  BY <1>1 DEF CheckRow
<1>3. Len(rows) \in Nat
  BY <1>1, CompletedShape
<1>4. PICK i \in 1 .. Len(rows) : r = rows[i]
  <2>1. PICK i \in 1 .. next - 1 : r = rows[i]
    BY <1>1
  <2>2. i \in 1 .. Len(rows)
    BY <1>1, <1>3
  <2> QED
    BY <2>1, <2>2
<1>5. Supported(r)
  BY <1>2 DEF Skipped
<1>6. r.ops = Agreed(r.workload) /\ r.oracle.value = "right"
  BY <1>1, <1>4, <1>5, HonestCompleted
<1>7. Agreed(r.workload) = ExpectedOperations(r.workload)
  BY <1>1 DEF Agreed, ExpectedOperations
<1> QED
  BY <1>2, <1>6, <1>7

LEMMA NextHonest ==
    ASSUME UniformFamily \notin Adapters
    PROVE  /\ IInv /\ PathInv /\ FamilyInv /\ HonestIsNotRejected /\ [Next]_vars
              => HonestIsNotRejected'
<1> SUFFICES ASSUME IInv, PathInv, FamilyInv, HonestIsNotRejected, [Next]_vars,
                    stage' = "rejected", Honest(output)'
             PROVE  FALSE
  BY DEF HonestIsNotRejected
<1>1. CASE stage = "rejected"
  <2>1. UNCHANGED <<family, smoke, output>>
    BY <1>1 DEF Next, vars, request, PrintRow, EndOfOutput, ReconcileRow,
                CheckCompleteness, CheckRow, Accept, Ended
  <2>2. Honest(output)
    BY <2>1 DEF Honest, Present, Agreed
  <2> QED
    BY <1>1, <2>2 DEF HonestIsNotRejected
<1>2. CASE stage # "rejected"
  <2>1. \/ ReconcileRow \/ CheckCompleteness \/ CheckRow
    BY <1>2 DEF Next, vars, PrintRow, EndOfOutput, Accept, Ended
  <2>2. UNCHANGED <<family, smoke, output>>
    BY <2>1 DEF request, ReconcileRow, CheckCompleteness, CheckRow
  <2>3. Honest(output)
    BY <2>2 DEF Honest, Present, Agreed
  <2> QED
    BY <2>1, <2>3, RefusedAtRow, RefusedAsIncomplete, RefusedAtCheck
<1> QED
  BY <1>1, <1>2

LEMMA NextFamily == FamilyInv /\ [Next]_vars => FamilyInv'
BY DEF FamilyInv, Next, vars, request, PrintRow, EndOfOutput, ReconcileRow,
       CheckCompleteness, CheckRow, Accept, Ended

(***************************************************************************)
(* The harness is complete as well as sound: whatever is honestly printed, *)
(* in whatever order and number, with gaps left to be filled in or not, is *)
(* accepted by reconcile_results and validate_complete_run alike.          *)
(***************************************************************************)
THEOREM HonestyIsEnough ==
    ASSUME UniformFamily \notin Adapters
    PROVE  Spec => []HonestIsNotRejected
<1>1. Init => FamilyInv /\ HonestIsNotRejected
  BY DEF Init, FamilyInv, HonestIsNotRejected
<1>2. /\ IInv /\ PathInv /\ FamilyInv /\ HonestIsNotRejected /\ [Next]_vars
         => HonestIsNotRejected'
  BY NextHonest
<1> QED
  BY <1>1, <1>2, InitIInv, InitPathInv, NextIInv, NextPathInv, NextFamily, PTL DEF Spec
================================================================================
