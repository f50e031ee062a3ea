--------------------------- MODULE BenchmarkRunsProofs ---------------------------
(***************************************************************************)
(* Theorems about BenchmarkRuns, for any number of runners and reporters,  *)
(* any families in any order, any clock and any faults.                    *)
(***************************************************************************)
EXTENDS BenchmarkRuns, TLAPS

(***************************************************************************)
(* Type correctness.                                                       *)
(***************************************************************************)
LEMMA ContentMembers ==
    /\ Absent \in Content /\ Torn \in Content /\ Garbled \in Content
    /\ \A R \in SUBSET Families : Sound(R) \in Content
    /\ \A f \in Families : Output(f) \subseteq Content
BY DEF Content, Absent, Torn, Garbled, Sound, Output

LEMMA FileNameMembers ==
    /\ Manifest \in FileNames /\ Config \in FileNames /\ Host \in FileNames
    /\ Diagnostic \in FileNames /\ Json \in FileNames /\ Markdown \in FileNames
    /\ \A f \in Families :
          Raw(f) \in FileNames /\ Bundle(f) \in FileNames /\ Log(f) \in FileNames
BY DEF FileNames, Evidence, Summaries

\* Replacing the content of one file leaves the store well typed, and changes
\* no other file.
LEMMA StoreUpdate ==
    ASSUME NEW d \in [RunIds -> [FileNames -> Content]],
           NEW r, NEW n \in FileNames, NEW c \in Content
    PROVE  [d EXCEPT ![r][n] = c] \in [RunIds -> [FileNames -> Content]]
<1> DEFINE e == [d[r] EXCEPT ![n] = c]
<1>1. CASE r \in RunIds
  <2>1. e \in [FileNames -> Content]
    BY <1>1
  <2>2. [d EXCEPT ![r] = e] \in [RunIds -> [FileNames -> Content]]
    BY <2>1
  <2> QED
    BY <2>2
<1>2. CASE r \notin RunIds
  BY <1>2
<1> QED
  BY <1>1, <1>2

\* A write leaves the store, the program counters and the flags well typed.
LEMMA WriteTypes ==
    ASSUME TypeOK, NEW p \in Procs, NEW n \in FileNames, NEW c \in Content,
           NEW after \in Live \cup Ended, Write(p, n, c, after)
    PROVE  /\ disk' \in [RunIds -> [FileNames -> Content]]
           /\ pc' \in [Procs -> {"start"} \cup Live \cup Ended]
           /\ open' \in [Procs -> BOOLEAN]
<1>1. CASE ~open[p]
  <2>1. disk' = [disk EXCEPT ![run[p]][n] = Torn]
    BY <1>1 DEF Write
  <2>2. disk' \in [RunIds -> [FileNames -> Content]]
    BY <2>1, StoreUpdate, ContentMembers DEF TypeOK
  <2> QED
    BY <1>1, <2>2 DEF Write, TypeOK
<1>2. CASE open[p]
  <2>1. PICK text \in Filled(disk[run[p]][n], c) :
            disk' = [disk EXCEPT ![run[p]][n] = text]
    BY <1>2 DEF Write
  <2>2. text \in Content
    BY <2>1, ContentMembers DEF Filled
  <2>3. disk' \in [RunIds -> [FileNames -> Content]]
    BY <2>1, <2>2, StoreUpdate DEF TypeOK
  <2>4. /\ open' = [open EXCEPT ![p] = FALSE]
        /\ pc' = [pc EXCEPT ![p] = after]
    BY <1>2 DEF Write, Goto
  <2> QED
    BY <2>3, <2>4 DEF TypeOK
<1> QED
  BY <1>1, <1>2 DEF Write

FamilyPcs == {"adapter", "preserve", "log", "validate", "bundle", "relog"}

\* TypeOK alone is not inductive: an adapter step is well typed because a
\* runner there has a family to run, mkdir because a name has been chosen.
TypeInv ==
    /\ TypeOK
    /\ \A p \in Procs :
          /\ pc[p] = "mkdir" => slot[p] \in RunIds
          /\ pc[p] \in FamilyPcs => next[p] <= Len(Implementations)
    /\ \A p \in Reporters : pc[p] \notin RunnerPcs

LEMMA PcSets ==
    /\ "start" \notin Live \cup Ended
    /\ RunnerPcs \subseteq Live /\ PublishPcs \subseteq Live
    /\ FamilyPcs \subseteq RunnerPcs
    /\ \A p \in Procs : OnError(p) \in {"aborted", "diagnose"}
    /\ \A p \in Reporters : OnError(p) = "aborted"
BY DEF Live, Ended, RunnerPcs, PublishPcs, FamilyPcs, OnError

LEMMA ReachedFamily ==
    ASSUME TypeInv, NEW p \in Procs, pc[p] \in FamilyPcs
    PROVE  /\ next[p] \in 1 .. Len(Implementations)
           /\ Reached(p) \in Families
<1>1. next[p] \in 1 .. Len(Implementations)
  BY ConstantsAssumption DEF TypeInv, TypeOK
<1> QED
  BY <1>1, ConstantsAssumption DEF Reached

LEMMA TypeInvInit == Init => TypeInv
<1> SUFFICES ASSUME Init PROVE TypeInv
  OBVIOUS
<1>1. ArchivedRun \in [FileNames -> Content]
  <2> SUFFICES ASSUME NEW n \in FileNames PROVE ArchivedRun[n] \in Content
    BY DEF ArchivedRun
  <2>1. CASE n \in Evidence \ {Manifest, Config, Host}
    <3>1. PICK f \in Families : n = Raw(f) \/ n = Bundle(f)
      BY <2>1 DEF Evidence
    <3>2. n[2] \in Families
      BY <3>1 DEF Raw, Bundle
    <3>3. Sound({n[2]}) \in Content
      BY <3>2, ContentMembers
    <3> QED
      BY <2>1, <3>3, ContentMembers DEF ArchivedRun
  <2>2. CASE n \notin Evidence \ {Manifest, Config, Host}
    BY <2>2, ContentMembers DEF ArchivedRun
  <2> QED
    BY <2>1, <2>2
<1>2. disk \in [RunIds -> [FileNames -> Content]]
  BY <1>1, ContentMembers DEF Init
<1>3. Len(Implementations) + 1 >= 1
  BY ConstantsAssumption
<1>4. next \in [Procs -> 1 .. (Len(Implementations) + 1)]
  <2>1. 1 \in 1 .. (Len(Implementations) + 1)
    BY <1>3, ConstantsAssumption
  <2> QED
    BY <2>1 DEF Init
<1>5. /\ dirs \subseteq RunIds
      /\ out \in [Procs -> Content]
  BY ContentMembers, ConstantsAssumption DEF Init
<1>6. TypeOK
  BY <1>2, <1>4, <1>5 DEF Init, TypeOK
<1> QED
  BY <1>6 DEF Init, TypeInv, FamilyPcs, RunnerPcs, Procs

\* A step that writes a file and then goes on to `after'.
LEMMA TypeInvWrite ==
    ASSUME TypeInv, NEW p \in Procs, NEW n \in FileNames, NEW c \in Content,
           NEW after \in (Live \cup Ended) \ (FamilyPcs \cup {"mkdir"}),
           p \in Reporters => pc[p] \in PublishPcs /\ after \notin RunnerPcs,
           Write(p, n, c, after), UNCHANGED <<dirs, run, local>>
    PROVE  TypeInv'
<1>1. TypeOK'
  BY WriteTypes DEF TypeInv, TypeOK, local
<1>2. pc' = pc \/ pc' = [pc EXCEPT ![p] = after]
  BY DEF Write, Goto
<1> QED
  BY <1>1, <1>2 DEF TypeInv, TypeOK, local, Procs

LEMMA TypeInvStep == TypeInv /\ [Next]_vars => TypeInv'
<1> SUFFICES ASSUME TypeInv, [Next]_vars PROVE TypeInv'
  OBVIOUS
<1> USE DEF Goto
<1>1. CASE UNCHANGED vars
  BY <1>1 DEF vars, TypeInv, TypeOK, Reached
<1>2. CASE AllEnded
  BY <1>2 DEF AllEnded, vars, TypeInv, TypeOK, Reached
<1>3. CASE \E p \in Procs :
              StartStep(p) \/ Progress(p) \/ AdapterStep(p) \/ DiskFault(p) \/ Kill(p)
  <2> PICK p \in Procs :
          StartStep(p) \/ Progress(p) \/ AdapterStep(p) \/ DiskFault(p) \/ Kill(p)
    BY <1>3
  <2>1. CASE RejectArguments(p)
    BY <2>1 DEF RejectArguments, TypeInv, TypeOK, local, Ended, Procs, FamilyPcs, RunnerPcs
  <2>2. CASE StartBenchmark(p)
    BY <2>2, ConstantsAssumption
       DEF StartBenchmark, TypeInv, TypeOK, Live, RunnerPcs, Procs, FamilyPcs, RunIds
  <2>3. CASE StartReport(p)
    BY <2>3 DEF StartReport, TypeInv, TypeOK, local, Live, Ended, PublishPcs, Procs,
                FamilyPcs, RunnerPcs
  <2>4. CASE Mkdir(p)
    <3>1. slot[p] \in RunIds
      BY <2>4 DEF Mkdir, TypeInv
    <3>2. slot[p][2] < MaxSuffix => <<slot[p][1], slot[p][2] + 1>> \in RunIds
      BY <3>1, ConstantsAssumption DEF RunIds
    <3>3. p \notin Reporters
      BY <2>4 DEF Mkdir, TypeInv, RunnerPcs
    <3>4. TypeOK'
      <4>1. /\ UNCHANGED <<disk, open, req, next, out, ran, view>>
            /\ dirs' = dirs \/ dirs' = dirs \cup {slot[p]}
            /\ run' = run \/ run' = [run EXCEPT ![p] = slot[p]]
        BY <2>4 DEF Mkdir
      <4>2. \/ slot' = slot
            \/ /\ slot[p][2] < MaxSuffix
               /\ slot' = [slot EXCEPT ![p] = <<@[1], @[2] + 1>>]
        BY <2>4 DEF Mkdir
      <4>3. pc' = pc \/ pc' = [pc EXCEPT ![p] = "manifest"]
                     \/ pc' = [pc EXCEPT ![p] = "rejected"]
        BY <2>4 DEF Mkdir
      <4>4. slot' \in [Procs -> RunIds \cup {NoRun}]
        BY <4>2, <3>2 DEF TypeInv, TypeOK
      <4>5. pc' \in [Procs -> {"start"} \cup Live \cup Ended]
        BY <4>3 DEF TypeInv, TypeOK, Live, Ended, RunnerPcs
      <4> QED
        BY <4>1, <4>4, <4>5, <3>1 DEF TypeInv, TypeOK
    <3>5. \A q \in Procs : pc'[q] = "mkdir" => slot'[q] \in RunIds
      <4> SUFFICES ASSUME NEW q \in Procs, pc'[q] = "mkdir" PROVE slot'[q] \in RunIds
        OBVIOUS
      <4>1. CASE q = p
        BY <2>4, <4>1, <3>1, <3>2 DEF Mkdir, TypeInv, TypeOK
      <4>2. CASE q # p
        BY <2>4, <4>2 DEF Mkdir, TypeInv, TypeOK
      <4> QED
        BY <4>1, <4>2
    <3>6. /\ \A q \in Procs : pc'[q] \in FamilyPcs => pc'[q] = pc[q]
          /\ \A q \in Reporters : pc'[q] = pc[q]
      BY <2>4, <3>3 DEF Mkdir, TypeInv, TypeOK, FamilyPcs, Procs
    <3> QED
      BY <2>4, <3>4, <3>5, <3>6 DEF Mkdir, TypeInv
  <2>5. CASE WriteManifest(p)
    <3>1. p \notin Reporters
      BY <2>5 DEF WriteManifest, TypeInv, RunnerPcs
    <3> QED
      BY <2>5, <3>1, TypeInvWrite, FileNameMembers, ContentMembers
         DEF WriteManifest, Live, RunnerPcs, FamilyPcs
  <2>6. CASE WriteConfig(p)
    <3>1. p \notin Reporters
      BY <2>6 DEF WriteConfig, TypeInv, RunnerPcs
    <3> QED
      BY <2>6, <3>1, TypeInvWrite, FileNameMembers, ContentMembers
         DEF WriteConfig, Live, RunnerPcs, FamilyPcs
  <2>7. CASE WriteHost(p)
    <3>1. p \notin Reporters
      BY <2>7 DEF WriteHost, TypeInv, RunnerPcs
    <3> QED
      BY <2>7, <3>1, TypeInvWrite, FileNameMembers, ContentMembers
         DEF WriteHost, Live, RunnerPcs, FamilyPcs
  <2>8. CASE WriteDiagnostic(p)
    <3>1. p \notin Reporters
      BY <2>8 DEF WriteDiagnostic, TypeInv, RunnerPcs
    <3> QED
      BY <2>8, <3>1, TypeInvWrite, FileNameMembers, ContentMembers
         DEF WriteDiagnostic, Ended, RunnerPcs, FamilyPcs
  <2>9. CASE WriteSummaryJson(p)
    <3>1. Sound(view[p]) \in Content
      BY ContentMembers DEF TypeInv, TypeOK
    <3> QED
      BY <2>9, <3>1, TypeInvWrite, FileNameMembers
         DEF WriteSummaryJson, Live, PublishPcs, RunnerPcs, FamilyPcs
  <2>10. CASE WriteSummaryMarkdown(p)
    <3>1. Sound(view[p]) \in Content
      BY ContentMembers DEF TypeInv, TypeOK
    <3> QED
      BY <2>10, <3>1, TypeInvWrite, FileNameMembers
         DEF WriteSummaryMarkdown, Ended, PublishPcs, RunnerPcs, FamilyPcs
  <2>11. CASE SelectFamily(p)
    <3>1. p \notin Reporters
      BY <2>11 DEF SelectFamily, TypeInv, RunnerPcs
    <3>2. next[p] \in 1 .. (Len(Implementations) + 1) /\ Len(Implementations) \in Nat
      BY ConstantsAssumption DEF TypeInv, TypeOK
    <3>3. \/ pc' = pc /\ next[p] <= Len(Implementations)
             /\ next' = [next EXCEPT ![p] = @ + 1]
          \/ pc' = [pc EXCEPT ![p] = "glob"] /\ next' = next
          \/ pc' = [pc EXCEPT ![p] = "adapter"] /\ next' = next
             /\ next[p] <= Len(Implementations)
      BY <2>11 DEF SelectFamily
    <3>4. next' \in [Procs -> 1 .. (Len(Implementations) + 1)]
      <4>1. next \in [Procs -> 1 .. (Len(Implementations) + 1)]
        BY DEF TypeInv, TypeOK
      <4>2. next[p] <= Len(Implementations) =>
                next[p] + 1 \in 1 .. (Len(Implementations) + 1)
        BY <3>2
      <4>3. \/ next' = next
            \/ /\ next[p] <= Len(Implementations)
               /\ next' = [next EXCEPT ![p] = @ + 1]
        BY <3>3
      <4> QED
        BY <4>1, <4>2, <4>3
    <3>5. pc' \in [Procs -> {"start"} \cup Live \cup Ended]
      BY <3>3 DEF TypeInv, TypeOK, Live, RunnerPcs, PublishPcs
    <3>6. TypeOK'
      BY <2>11, <3>4, <3>5 DEF SelectFamily, TypeInv, TypeOK
    <3>7. \A q \in Procs : pc'[q] \in FamilyPcs => next'[q] <= Len(Implementations)
      BY <2>11, <3>3 DEF SelectFamily, TypeInv, TypeOK, FamilyPcs
    <3>8. /\ \A q \in Procs : pc'[q] = "mkdir" => pc[q] = "mkdir"
          /\ \A q \in Reporters : pc'[q] = pc[q]
      BY <3>1, <3>3 DEF TypeInv, TypeOK, Procs
    <3> QED
      BY <2>11, <3>6, <3>7, <3>8 DEF SelectFamily, TypeInv
  <2>12. CASE AdapterUnavailable(p)
    BY <2>12, PcSets DEF AdapterUnavailable, TypeInv, TypeOK, local, Live, Ended,
                         RunnerPcs, FamilyPcs
  <2>13. CASE AdapterFails(p)
    <3>1. Reached(p) \in Families
      BY <2>13, ReachedFamily DEF AdapterFails, FamilyPcs
    <3> QED
      BY <2>13, <3>1, PcSets DEF AdapterFails, TypeInv, TypeOK, Live, Ended,
                                 RunnerPcs, FamilyPcs
  <2>14. CASE AdapterReturns(p)
    <3>1. Reached(p) \in Families
      BY <2>14, ReachedFamily DEF AdapterReturns, FamilyPcs
    <3>2. p \notin Reporters
      BY <2>14 DEF AdapterReturns, TypeInv, RunnerPcs
    <3> QED
      BY <2>14, <3>1, <3>2, ContentMembers
         DEF AdapterReturns, TypeInv, TypeOK, Live, RunnerPcs, FamilyPcs
  <2>15. CASE PreserveOutput(p) \/ WriteLogs(p) \/ WriteBundle(p)
    <3>1. /\ pc[p] \in {"preserve", "log", "bundle"}
          /\ UNCHANGED <<dirs, run, local>>
      BY <2>15 DEF PreserveOutput, WriteLogs, WriteBundle
    <3>2. PICK n \in FileNames, c \in Content, after \in {"log", "validate", "relog"} :
              Write(p, n, c, after)
      <4>1. /\ Raw(Reached(p)) \in FileNames /\ Log(Reached(p)) \in FileNames
            /\ Bundle(Reached(p)) \in FileNames /\ out[p] \in Content
            /\ Sound({}) \in Content
        BY <3>1, ReachedFamily, FileNameMembers, ContentMembers
           DEF FamilyPcs, TypeInv, TypeOK
      <4> QED
        BY <2>15, <4>1 DEF PreserveOutput, WriteLogs, WriteBundle
    <3>3. after \in Live \cup Ended
      BY DEF Live, RunnerPcs
    <3>4. TypeOK'
      BY <3>1, <3>2, <3>3, WriteTypes DEF TypeInv, TypeOK, local
    <3>5. p \notin Reporters
      BY <3>1 DEF TypeInv, RunnerPcs
    <3>6. pc' = pc \/ pc' = [pc EXCEPT ![p] = after]
      BY <3>2 DEF Write
    <3>7. UNCHANGED <<slot, next>>
      BY <3>1 DEF local
    <3>8. \A q \in Procs : pc'[q] \in FamilyPcs => pc[q] \in FamilyPcs
      BY <3>1, <3>6 DEF TypeInv, TypeOK, FamilyPcs
    <3>9. /\ \A q \in Procs : pc'[q] = "mkdir" => pc[q] = "mkdir"
          /\ \A q \in Reporters : pc'[q] = pc[q]
      BY <3>5, <3>6 DEF TypeInv, TypeOK, Procs
    <3> QED
      BY <3>4, <3>7, <3>8, <3>9 DEF TypeInv
  <2>16. CASE ValidateOutput(p)
    <3>1. p \notin Reporters
      BY <2>16 DEF ValidateOutput, TypeInv, RunnerPcs
    <3> QED
      BY <2>16, <3>1, PcSets
         DEF ValidateOutput, TypeInv, TypeOK, local, Live, Ended, RunnerPcs, FamilyPcs
  <2>17. CASE RewriteLogs(p)
    <3>1. Log(Reached(p)) \in FileNames /\ Sound({}) \in Content
      BY <2>17, ReachedFamily, FileNameMembers, ContentMembers
         DEF RewriteLogs, FamilyPcs, TypeInv, TypeOK
    <3>2. Write(p, Log(Reached(p)), Sound({}), "select")
      BY <2>17 DEF RewriteLogs
    <3>3. "select" \in Live \cup Ended
      BY DEF Live, RunnerPcs
    <3>4. next[p] \in 1 .. Len(Implementations) /\ Len(Implementations) \in Nat
      BY <2>17, ReachedFamily, ConstantsAssumption DEF RewriteLogs, FamilyPcs
    <3>5. next' \in [Procs -> 1 .. (Len(Implementations) + 1)]
      BY <2>17, <3>4 DEF RewriteLogs, TypeInv, TypeOK
    <3>6. TypeOK'
      BY <2>17, <3>1, <3>2, <3>3, <3>5, WriteTypes DEF RewriteLogs, TypeInv, TypeOK
    <3>7. p \notin Reporters
      BY <2>17 DEF RewriteLogs, TypeInv, RunnerPcs
    <3>8. \/ pc' = pc /\ next' = next
          \/ pc' = [pc EXCEPT ![p] = "select"] /\ next' = [next EXCEPT ![p] = @ + 1]
      BY <2>17, <3>2 DEF Write, RewriteLogs
    <3>9. UNCHANGED slot
      BY <2>17 DEF RewriteLogs
    <3>10. \A q \in Procs : pc'[q] \in FamilyPcs =>
               pc[q] \in FamilyPcs /\ next'[q] = next[q]
      BY <3>8 DEF TypeInv, TypeOK, FamilyPcs
    <3>11. /\ \A q \in Procs : pc'[q] = "mkdir" => pc[q] = "mkdir"
           /\ \A q \in Reporters : pc'[q] = pc[q]
      BY <3>7, <3>8 DEF TypeInv, TypeOK, Procs
    <3> QED
      BY <3>6, <3>9, <3>10, <3>11 DEF TypeInv
  <2>18. CASE GlobBundles(p)
    BY <2>18, PcSets DEF GlobBundles, TypeInv, TypeOK, Live, Ended, PublishPcs,
                         RunnerPcs, FamilyPcs, Procs
  <2>19. CASE ReadBundles(p)
    BY <2>19, PcSets DEF ReadBundles, TypeInv, TypeOK, local, Live, Ended, PublishPcs,
                         RunnerPcs, FamilyPcs, Procs
  <2>20. CASE DiskFault(p)
    BY <2>20, PcSets DEF DiskFault, TypeInv, TypeOK, local, Live, Ended, RunnerPcs,
                         FamilyPcs
  <2>21. CASE Kill(p)
    BY <2>21 DEF Kill, TypeInv, TypeOK, local, Ended, RunnerPcs, FamilyPcs
  <2> QED
    BY <2>1, <2>2, <2>3, <2>4, <2>5, <2>6, <2>7, <2>8, <2>9, <2>10, <2>11, <2>12,
       <2>13, <2>14, <2>15, <2>16, <2>17, <2>18, <2>19, <2>20, <2>21
       DEF StartStep, Progress, AdapterStep
<1> QED
  BY <1>1, <1>2, <1>3 DEF Next

\* Every variable keeps its type: no step of benchmark() or regenerate_report()
\* reaches past the last family, or writes a file of a run without a name.
THEOREM TypeCorrect == Spec => []TypeOK
<1>1. TypeInv => TypeOK
  BY DEF TypeInv
<1> QED
  BY TypeInvInit, TypeInvStep, <1>1, PTL DEF Spec

(***************************************************************************)
(* Ownership of run directories.                                           *)
(***************************************************************************)
OwningPcs == Live \ {"mkdir"}

\* DistinctRuns is inductive once a runner that allocates a directory is known
\* to own none, and every directory somebody works in to exist: the name mkdir
\* succeeds on is then nobody else's.
OwnInv ==
    /\ Archived \subseteq dirs
    /\ \A p \in Runners : pc[p] \in {"start", "mkdir"} => run[p] = NoRun
    /\ \A p \in Runners : run[p] # NoRun => run[p] \in dirs
    /\ \A p \in Procs : pc[p] \in OwningPcs => run[p] \in dirs
    /\ DistinctRuns

\* One process moved on, or none did, and no directory changed hands.
Moves(p) ==
    /\ UNCHANGED <<dirs, run>>
    /\ pc[p] \in {"start", "mkdir"} \cup OwningPcs
    /\ \/ pc' = pc
       \/ \E l \in {"start", "mkdir"} \cup Live \cup Ended :
             /\ pc' = [pc EXCEPT ![p] = l]
             /\ l \in OwningPcs => pc[p] \in OwningPcs
             /\ l \in {"start", "mkdir"} => pc[p] \in {"start", "mkdir"}

Allocates(p) ==
    /\ p \in Runners /\ pc[p] = "mkdir" /\ slot[p] \in RunIds \ dirs
    /\ dirs' = dirs \cup {slot[p]}
    /\ run' = [run EXCEPT ![p] = slot[p]]
    /\ pc' = [pc EXCEPT ![p] = "manifest"]

Attaches(p) ==
    /\ p \in Reporters /\ pc[p] = "start"
    /\ UNCHANGED dirs
    /\ \E r \in RunIds, l \in {"glob", "rejected", "aborted"} :
          /\ run' = [run EXCEPT ![p] = r]
          /\ pc' = [pc EXCEPT ![p] = l]
          /\ l = "glob" => r \in dirs

LEMMA StepShapes ==
    ASSUME TypeInv, NEW p \in Procs,
           StartStep(p) \/ Progress(p) \/ AdapterStep(p) \/ DiskFault(p) \/ Kill(p)
    PROVE  Moves(p) \/ Allocates(p) \/ Attaches(p)
<1> USE DEF Goto, OwningPcs, Live, RunnerPcs, PublishPcs, Ended
<1>1. CASE RejectArguments(p) \/ StartBenchmark(p)
  BY <1>1 DEF RejectArguments, StartBenchmark, Moves
<1>2. CASE StartReport(p)
  <2>1. PICK r \in RunIds :
            /\ run' = [run EXCEPT ![p] = r]
            /\ pc' = [pc EXCEPT ![p] =
                         IF r \notin dirs THEN "rejected"
                         ELSE IF Settled(disk[r][Manifest]) THEN "glob" ELSE "aborted"]
    BY <1>2 DEF StartReport
  <2> QED
    BY <1>2, <2>1 DEF StartReport, Attaches
<1>3. CASE Mkdir(p)
  <2>1. p \in Runners /\ slot[p] \in RunIds
    BY <1>3 DEF Mkdir, TypeInv, Procs
  <2> QED
    BY <1>3, <2>1 DEF Mkdir, Moves, Allocates
<1>4. CASE WriteManifest(p) \/ WriteConfig(p) \/ WriteHost(p)
  BY <1>4 DEF WriteManifest, WriteConfig, WriteHost, Write, Moves
<1>5. CASE SelectFamily(p)
  BY <1>5 DEF SelectFamily, Moves
<1>6. CASE PreserveOutput(p) \/ WriteLogs(p) \/ WriteBundle(p) \/ RewriteLogs(p)
           \/ WriteDiagnostic(p)
  BY <1>6 DEF PreserveOutput, WriteLogs, WriteBundle, RewriteLogs, WriteDiagnostic, Write,
              Moves
<1>7. CASE ValidateOutput(p) \/ AdapterUnavailable(p) \/ AdapterFails(p)
           \/ AdapterReturns(p)
  BY <1>7, PcSets
     DEF ValidateOutput, AdapterUnavailable, AdapterFails, AdapterReturns, Moves
<1>8. CASE GlobBundles(p) \/ ReadBundles(p)
  BY <1>8, PcSets DEF GlobBundles, ReadBundles, Moves
<1>9. CASE WriteSummaryJson(p) \/ WriteSummaryMarkdown(p)
  BY <1>9 DEF WriteSummaryJson, WriteSummaryMarkdown, Write, Moves
<1>10. CASE DiskFault(p) \/ Kill(p)
  <2>1. OnError(p) = "diagnose" => pc[p] \in OwningPcs
    BY <1>10 DEF DiskFault, Kill, Writing, OnError
  <2> QED
    BY <1>10, <2>1, PcSets DEF DiskFault, Kill, Writing, Moves
<1> QED
  BY <1>1, <1>2, <1>3, <1>4, <1>5, <1>6, <1>7, <1>8, <1>9, <1>10
     DEF StartStep, Progress, AdapterStep

LEMMA OwnInvInit == Init => OwnInv
BY ConstantsAssumption
   DEF Init, OwnInv, DistinctRuns, OwningPcs, Live, RunnerPcs, PublishPcs, Procs

LEMMA OwnInvStep == TypeInv /\ OwnInv /\ [Next]_vars => OwnInv'
<1> SUFFICES ASSUME TypeInv, OwnInv, [Next]_vars PROVE OwnInv'
  OBVIOUS
<1>1. CASE UNCHANGED <<dirs, run, pc>>
  BY <1>1 DEF OwnInv, DistinctRuns
<1>2. ASSUME NEW p \in Procs, Moves(p) PROVE OwnInv'
  <2>1. \A q \in Procs :
            /\ pc'[q] \in OwningPcs => pc[q] \in OwningPcs
            /\ pc'[q] \in {"start", "mkdir"} => pc[q] \in {"start", "mkdir"}
    BY <1>2 DEF Moves, TypeInv, TypeOK
  <2> QED
    BY <1>2, <2>1 DEF Moves, OwnInv, DistinctRuns, Procs
<1>3. ASSUME NEW p \in Procs, Allocates(p) PROVE OwnInv'
  <2>1. /\ slot[p] # NoRun /\ slot[p] \notin Archived
        /\ \A q \in Runners : run[q] # slot[p]
    BY <1>3, ConstantsAssumption DEF Allocates, OwnInv
  <2>2. run'[p] = slot[p] /\ pc'[p] = "manifest"
    BY <1>3 DEF Allocates, TypeInv, TypeOK
  <2>3. \A q \in Procs \ {p} : run'[q] = run[q] /\ pc'[q] = pc[q]
    BY <1>3 DEF Allocates, TypeInv, TypeOK
  <2>4. DistinctRuns'
    BY <2>1, <2>2, <2>3 DEF OwnInv, DistinctRuns, Procs
  <2> QED
    BY <1>3, <2>2, <2>3, <2>4 DEF Allocates, OwnInv, Procs
<1>4. ASSUME NEW p \in Procs, Attaches(p) PROVE OwnInv'
  <2>1. p \notin Runners
    BY <1>4, ConstantsAssumption DEF Attaches
  <2>2. \A q \in Procs \ {p} : run'[q] = run[q] /\ pc'[q] = pc[q]
    BY <1>4 DEF Attaches, TypeInv, TypeOK
  <2>3. pc'[p] \in OwningPcs => run'[p] \in dirs
    BY <1>4 DEF Attaches, TypeInv, TypeOK, OwningPcs, Live, RunnerPcs, PublishPcs
  <2> QED
    BY <1>4, <2>1, <2>2, <2>3 DEF Attaches, OwnInv, DistinctRuns, Procs
<1>5. \/ UNCHANGED <<dirs, run, pc>>
      \/ \E p \in Procs : Moves(p) \/ Allocates(p) \/ Attaches(p)
  BY StepShapes DEF Next, AllEnded, vars
<1> QED
  BY <1>1, <1>2, <1>3, <1>4, <1>5

\* Whatever the clocks return and however the runners interleave, two of them
\* never work in one directory, nor one in the directory of an earlier run:
\* create_run_directory relies on nothing but mkdir failing on a taken name.
THEOREM RunsAreDistinct == Spec => []DistinctRuns
<1>1. TypeInv /\ OwnInv => DistinctRuns
  BY DEF OwnInv
<1> QED
  BY TypeInvInit, TypeInvStep, OwnInvInit, OwnInvStep, <1>1, PTL DEF Spec

(***************************************************************************)
(* Evidence is written once.                                               *)
(***************************************************************************)
Coming(i) == {Raw(Implementations[j]) : j \in i .. Len(Implementations)}
             \cup {Bundle(Implementations[j]) : j \in i .. Len(Implementations)}

\* The evidence a runner has yet to complete.
Unfilled(p) ==
    IF p \notin Runners THEN {}
    ELSE IF pc[p] = "manifest" THEN Evidence
    ELSE IF pc[p] = "config" THEN Evidence \ {Manifest}
    ELSE IF pc[p] = "host" THEN Evidence \ {Manifest, Config}
    ELSE IF pc[p] \in {"select", "adapter", "preserve"} THEN Coming(next[p])
    ELSE IF pc[p] \in {"log", "validate", "bundle"}
         THEN Coming(next[p]) \ {Raw(Reached(p))}
    ELSE IF pc[p] = "relog" THEN Coming(next[p] + 1)
    ELSE {}

\* What a runner has yet to complete is not complete: its directory was new
\* and nobody else writes evidence there.
FreshInv ==
    /\ \A r \in RunIds \ dirs, n \in Evidence : ~Settled(disk[r][n])
    /\ \A p \in Runners : \A n \in Unfilled(p) : ~Settled(disk[run[p]][n])

OthersStay(p) == \A q \in Procs \ {p} : pc'[q] = pc[q] /\ next'[q] = next[q]

Keeps(p) ==
    /\ UNCHANGED disk
    /\ OthersStay(p)
    /\ Allocates(p) \/ Unfilled(p)' \subseteq Unfilled(p)

WritesFile(p) ==
    /\ UNCHANGED <<dirs, run>>
    /\ pc[p] \in OwningPcs
    /\ OthersStay(p)
    /\ Unfilled(p)' \subseteq Unfilled(p)
    /\ \E n \in FileNames, c \in Content :
          /\ disk' = [disk EXCEPT ![run[p]][n] = c]
          /\ n \in Evidence => n \in Unfilled(p)
          /\ n \in Unfilled(p)' => ~Settled(c)

LEMMA WriteShape ==
    ASSUME TypeInv, NEW p \in Procs, NEW n \in FileNames, NEW c \in Content,
           NEW after, Write(p, n, c, after)
    PROVE  \/ /\ disk' = [disk EXCEPT ![run[p]][n] = Torn]
              /\ pc' = pc /\ ~open[p]
           \/ /\ \E text \in Content : disk' = [disk EXCEPT ![run[p]][n] = text]
              /\ pc' = [pc EXCEPT ![p] = after] /\ open[p]
<1>1. CASE ~open[p]
  BY <1>1 DEF Write
<1>2. CASE open[p]
  <2>1. PICK text \in Filled(disk[run[p]][n], c) :
            disk' = [disk EXCEPT ![run[p]][n] = text]
    BY <1>2 DEF Write
  <2>2. text \in Content
    BY <2>1, ContentMembers DEF Filled
  <2> QED
    BY <1>2, <2>1, <2>2 DEF Write, Goto
<1> QED
  BY <1>1, <1>2

\* A write shrinks what is unfilled by at most the file it completes.
LEMMA WriteKeepsShape ==
    ASSUME TypeInv, NEW p \in Procs, NEW n \in FileNames, NEW c \in Content,
           NEW after \in Live \cup Ended, Write(p, n, c, after),
           UNCHANGED <<dirs, run>>, pc[p] \in OwningPcs, OthersStay(p),
           n \in Evidence => n \in Unfilled(p),
           pc' = pc => next' = next,
           pc' = [pc EXCEPT ![p] = after] /\ open[p] =>
               Unfilled(p)' \subseteq Unfilled(p) \ {n}
    PROVE  WritesFile(p)
<1>1. CASE /\ disk' = [disk EXCEPT ![run[p]][n] = Torn]
           /\ pc' = pc /\ ~open[p]
  <2>1. Unfilled(p)' = Unfilled(p)
    BY <1>1 DEF Unfilled, Reached
  <2>2. Torn \in Content /\ ~Settled(Torn)
    BY ContentMembers DEF Settled, Torn
  <2> QED
    BY <1>1, <2>1, <2>2 DEF WritesFile
<1>2. CASE /\ \E text \in Content : disk' = [disk EXCEPT ![run[p]][n] = text]
           /\ pc' = [pc EXCEPT ![p] = after] /\ open[p]
  BY <1>2 DEF WritesFile
<1>3. \/ /\ disk' = [disk EXCEPT ![run[p]][n] = Torn]
         /\ pc' = pc /\ ~open[p]
      \/ /\ \E text \in Content : disk' = [disk EXCEPT ![run[p]][n] = text]
         /\ pc' = [pc EXCEPT ![p] = after] /\ open[p]
  BY WriteShape, Zenon
<1> QED
  BY <1>1, <1>2, <1>3

\* Names of different kinds, and of different families, differ.
LEMMA NamesDiffer ==
    /\ Manifest # Config /\ Manifest # Host /\ Config # Host
    /\ \A f : /\ Raw(f) \notin {Manifest, Config, Host, Json, Markdown, Diagnostic}
              /\ Bundle(f) \notin {Manifest, Config, Host, Json, Markdown, Diagnostic}
    /\ \A f, g : /\ Raw(f) # Bundle(g)
                 /\ Raw(f) = Raw(g) => f = g
                 /\ Bundle(f) = Bundle(g) => f = g
    /\ \A n \in {Json, Markdown, Diagnostic} : n \notin Evidence
    /\ \A f : Log(f) \notin Evidence
BY DEF Manifest, Config, Host, Json, Markdown, Diagnostic, Raw, Bundle, Log, Evidence

LEMMA ComingShrinks ==
    ASSUME NEW i \in 1 .. Len(Implementations)
    PROVE  /\ Coming(i + 1) \subseteq
                  Coming(i) \ {Raw(Implementations[i]), Bundle(Implementations[i])}
           /\ Raw(Implementations[i]) \in Coming(i)
           /\ Bundle(Implementations[i]) \in Coming(i) \ {Raw(Implementations[i])}
<1>1. Len(Implementations) \in Nat
  BY ConstantsAssumption
<1>2. i \in i .. Len(Implementations)
  BY <1>1
<1>3. \A j \in (i + 1) .. Len(Implementations) :
          /\ j \in i .. Len(Implementations)
          /\ Implementations[j] # Implementations[i]
  BY <1>1, ConstantsAssumption
<1>4. \A n \in Coming(i + 1) :
          n \in Coming(i) /\ n # Raw(Implementations[i]) /\ n # Bundle(Implementations[i])
  BY <1>3, NamesDiffer DEF Coming
<1> QED
  BY <1>2, <1>4, NamesDiffer DEF Coming

LEMMA ComingIsEvidence ==
    ASSUME NEW i \in 1 .. (Len(Implementations) + 1)
    PROVE  Coming(i) \subseteq Evidence \ {Manifest, Config, Host}
<1>1. Len(Implementations) \in Nat
  BY ConstantsAssumption
<1>2. \A j \in i .. Len(Implementations) : Implementations[j] \in Families
  BY <1>1, ConstantsAssumption
<1> QED
  BY <1>2, NamesDiffer DEF Coming, Evidence

LEMMA UnfilledIsEvidence ==
    ASSUME TypeInv, NEW q \in Runners, NEW n \in Unfilled(q)
    PROVE  n \in Evidence /\ pc[q] \in OwningPcs
<1>1. /\ Len(Implementations) \in Nat
      /\ next[q] \in 1 .. (Len(Implementations) + 1)
      /\ pc[q] = "relog" => next[q] <= Len(Implementations)
  BY ConstantsAssumption DEF TypeInv, TypeOK, FamilyPcs, Procs
<1>2. pc[q] = "relog" => next[q] + 1 \in 1 .. (Len(Implementations) + 1)
  BY <1>1
<1>3. CASE pc[q] = "relog"
  BY <1>2, <1>3, ComingIsEvidence DEF Unfilled, OwningPcs, Live, RunnerPcs
<1>4. CASE pc[q] # "relog"
  BY <1>1, <1>4, ComingIsEvidence DEF Unfilled, OwningPcs, Live, RunnerPcs
<1> QED
  BY <1>3, <1>4

LEMMA EvidenceStep ==
    ASSUME TypeInv, OwnInv, NEW p \in Procs,
           StartStep(p) \/ Progress(p) \/ AdapterStep(p) \/ DiskFault(p) \/ Kill(p)
    PROVE  Keeps(p) \/ WritesFile(p)
<1> USE DEF Goto
<1>1. CASE UNCHANGED disk /\ ~WriteManifest(p) /\ ~WriteConfig(p) /\ ~WriteHost(p)
           /\ ~PreserveOutput(p) /\ ~WriteLogs(p) /\ ~WriteBundle(p) /\ ~RewriteLogs(p)
  <2>1. OthersStay(p)
    <3>1. CASE RejectArguments(p) \/ StartBenchmark(p) \/ StartReport(p) \/ Mkdir(p)
      BY <3>1 DEF RejectArguments, StartBenchmark, StartReport, Mkdir, local, OthersStay,
                  TypeInv, TypeOK
    <3>2. CASE SelectFamily(p) \/ ValidateOutput(p) \/ AdapterStep(p)
      BY <3>2 DEF SelectFamily, ValidateOutput, AdapterStep, AdapterUnavailable,
                  AdapterFails, AdapterReturns, local, OthersStay, TypeInv, TypeOK
    <3>3. CASE WriteDiagnostic(p) \/ WriteSummaryJson(p) \/ WriteSummaryMarkdown(p)
      BY <3>3 DEF WriteDiagnostic, WriteSummaryJson, WriteSummaryMarkdown, Write, local,
                  OthersStay, TypeInv, TypeOK
    <3>4. CASE GlobBundles(p) \/ ReadBundles(p) \/ DiskFault(p) \/ Kill(p)
      BY <3>4 DEF GlobBundles, ReadBundles, DiskFault, Kill, local, OthersStay,
                  TypeInv, TypeOK
    <3> QED
      BY <1>1, <3>1, <3>2, <3>3, <3>4 DEF StartStep, Progress, AdapterStep
  <2>2. Allocates(p) \/ Unfilled(p)' \subseteq Unfilled(p)
    <3> SUFFICES ASSUME p \in Runners PROVE Allocates(p) \/ Unfilled(p)' \subseteq Unfilled(p)
      BY DEF Unfilled
    <3>0. p \in Runners
      OBVIOUS
    <3>1. CASE RejectArguments(p) \/ StartBenchmark(p) \/ StartReport(p) \/ Mkdir(p)
      <4>1. Allocates(p) \/ pc'[p] \notin {"manifest", "config", "host", "select",
                                "adapter", "preserve", "log", "validate", "bundle",
                                "relog"}
        <5>1. CASE RejectArguments(p) \/ StartBenchmark(p)
          BY <5>1 DEF RejectArguments, StartBenchmark, TypeInv, TypeOK
        <5>2. CASE StartReport(p)
          BY <5>2, <3>0, ConstantsAssumption DEF StartReport
        <5>3. CASE Mkdir(p)
          <6>1. p \in Runners /\ slot[p] \in RunIds
            BY <5>3 DEF Mkdir, TypeInv, RunnerPcs, Procs
          <6>2. Allocates(p) \/ pc' = pc \/ pc' = [pc EXCEPT ![p] = "rejected"]
            BY <5>3, <6>1 DEF Mkdir, Allocates
          <6> QED
            BY <5>3, <6>2 DEF Mkdir, TypeInv, TypeOK
        <5> QED
          BY <3>1, <5>1, <5>2, <5>3
      <4> QED
        BY <4>1 DEF Unfilled
    <3>2. CASE SelectFamily(p)
      <4>1. \/ pc'[p] = "glob"
            \/ pc'[p] = "adapter" /\ next'[p] = next[p]
            \/ /\ pc'[p] = "select" /\ next'[p] = next[p] + 1
               /\ next[p] \in 1 .. Len(Implementations)
        BY <3>2, ConstantsAssumption DEF SelectFamily, TypeInv, TypeOK
      <4>2. Unfilled(p) = Coming(next[p])
        BY <3>2, <3>0 DEF SelectFamily, Unfilled
      <4>3. CASE pc'[p] = "glob"
        BY <4>3 DEF Unfilled
      <4>4. CASE pc'[p] = "adapter" /\ next'[p] = next[p]
        BY <4>2, <4>4 DEF Unfilled, Coming
      <4>5. CASE /\ pc'[p] = "select" /\ next'[p] = next[p] + 1
                 /\ next[p] \in 1 .. Len(Implementations)
        <5>1. Unfilled(p)' = Coming(next[p] + 1)
          BY <4>5, <3>0 DEF Unfilled, Coming
        <5> QED
          BY <5>1, <4>2, <4>5, ComingShrinks
      <4> QED
        BY <4>1, <4>3, <4>4, <4>5
    <3>3. CASE AdapterStep(p)
      BY <3>3, PcSets DEF AdapterStep, AdapterUnavailable, AdapterFails, AdapterReturns,
                  local, Unfilled, Coming, TypeInv, TypeOK
    <3>4. CASE ValidateOutput(p)
      BY <3>4, PcSets DEF ValidateOutput, local, Unfilled, Coming, Reached, TypeInv, TypeOK
    <3>5. CASE GlobBundles(p) \/ ReadBundles(p) \/ DiskFault(p) \/ Kill(p)
      <4>1. pc'[p] \in {"read", "json", "aborted", "diagnose", "killed"}
        BY <3>5, PcSets DEF GlobBundles, ReadBundles, DiskFault, Kill, TypeInv, TypeOK
      <4> QED
        BY <4>1 DEF Unfilled
    <3>6. CASE WriteDiagnostic(p) \/ WriteSummaryJson(p) \/ WriteSummaryMarkdown(p)
      <4>1. pc'[p] \in {"json", "markdown", "done", "diagnose", "failed"}
        BY <3>6 DEF WriteDiagnostic, WriteSummaryJson, WriteSummaryMarkdown, Write,
                    TypeInv, TypeOK
      <4> QED
        BY <4>1 DEF Unfilled
    <3> QED
      BY <1>1, <3>1, <3>2, <3>3, <3>4, <3>5, <3>6 DEF StartStep, Progress
  <2> QED
    BY <1>1, <2>1, <2>2 DEF Keeps
<1>2. CASE WriteManifest(p) \/ WriteConfig(p) \/ WriteHost(p)
  <2>1. /\ p \in Runners /\ pc[p] \in OwningPcs
        /\ UNCHANGED <<dirs, run, next>>
    BY <1>2 DEF WriteManifest, WriteConfig, WriteHost, local, TypeInv, Procs, RunnerPcs,
                OwningPcs, Live
  <2>2. OthersStay(p)
    BY <1>2 DEF WriteManifest, WriteConfig, WriteHost, local, Write, OthersStay,
                TypeInv, TypeOK
  <2>3. CASE WriteManifest(p)
    <3>1. Write(p, Manifest, Sound({}), "config") /\ Unfilled(p) = Evidence
      BY <2>1, <2>3 DEF WriteManifest, Unfilled
    <3>2. pc' = [pc EXCEPT ![p] = "config"] => Unfilled(p)' \subseteq Evidence \ {Manifest}
      BY <2>1 DEF Unfilled, TypeInv, TypeOK
    <3>3. "config" \in Live \cup Ended
      BY DEF Live, RunnerPcs
    <3> QED
      BY <2>1, <2>2, <3>1, <3>2, <3>3, WriteKeepsShape, FileNameMembers, ContentMembers
  <2>4. CASE WriteConfig(p)
    <3>1. /\ Write(p, Config, Sound({}), "host")
          /\ Unfilled(p) = Evidence \ {Manifest}
      BY <2>1, <2>4 DEF WriteConfig, Unfilled
    <3>2. pc' = [pc EXCEPT ![p] = "host"] =>
              Unfilled(p)' \subseteq Evidence \ {Manifest, Config}
      BY <2>1 DEF Unfilled, TypeInv, TypeOK
    <3>3. "host" \in Live \cup Ended
      BY DEF Live, RunnerPcs
    <3> QED
      BY <2>1, <2>2, <3>1, <3>2, <3>3, WriteKeepsShape, FileNameMembers, ContentMembers,
         NamesDiffer
  <2>5. CASE WriteHost(p)
    <3>1. /\ Write(p, Host, Sound({}), "select")
          /\ Unfilled(p) = Evidence \ {Manifest, Config}
      BY <2>1, <2>5 DEF WriteHost, Unfilled
    <3>2. pc' = [pc EXCEPT ![p] = "select"] =>
              Unfilled(p)' \subseteq Evidence \ {Manifest, Config, Host}
      <4>1. next[p] \in 1 .. (Len(Implementations) + 1)
        BY DEF TypeInv, TypeOK
      <4>2. pc' = [pc EXCEPT ![p] = "select"] => Unfilled(p)' = Coming(next[p])
        BY <2>1 DEF Unfilled, Coming, TypeInv, TypeOK
      <4> QED
        BY <4>1, <4>2, ComingIsEvidence
    <3>3. "select" \in Live \cup Ended
      BY DEF Live, RunnerPcs
    <3> QED
      BY <2>1, <2>2, <3>1, <3>2, <3>3, WriteKeepsShape, FileNameMembers, ContentMembers,
         NamesDiffer
  <2> QED
    BY <1>2, <2>3, <2>4, <2>5
<1>3. CASE PreserveOutput(p) \/ WriteLogs(p) \/ WriteBundle(p) \/ RewriteLogs(p)
  <2>1. /\ p \in Runners /\ pc[p] \in OwningPcs
        /\ UNCHANGED <<dirs, run>>
        /\ next[p] \in 1 .. Len(Implementations)
        /\ Reached(p) = Implementations[next[p]] /\ Reached(p) \in Families
    BY <1>3, ReachedFamily
       DEF PreserveOutput, WriteLogs, WriteBundle, RewriteLogs, local, TypeInv, Procs,
           RunnerPcs, FamilyPcs, OwningPcs, Live, Reached
  <2>2. OthersStay(p)
    BY <1>3 DEF PreserveOutput, WriteLogs, WriteBundle, RewriteLogs, local, Write,
                OthersStay, TypeInv, TypeOK
  <2>3. CASE PreserveOutput(p)
    <3>1. /\ Write(p, Raw(Reached(p)), out[p], "log")
          /\ Unfilled(p) = Coming(next[p]) /\ UNCHANGED next
      BY <2>1, <2>3 DEF PreserveOutput, Unfilled, local
    <3>2. pc' = [pc EXCEPT ![p] = "log"] =>
              Unfilled(p)' = Coming(next[p]) \ {Raw(Reached(p))}
      BY <2>1, <3>1 DEF Unfilled, Coming, Reached, TypeInv, TypeOK
    <3>3. "log" \in Live \cup Ended /\ out[p] \in Content
      BY DEF Live, RunnerPcs, TypeInv, TypeOK
    <3>4. Raw(Reached(p)) \in FileNames /\ Raw(Reached(p)) \in Unfilled(p)
      BY <2>1, <3>1, FileNameMembers, ComingShrinks
    <3> QED
      BY <2>1, <2>2, <3>1, <3>2, <3>3, <3>4, WriteKeepsShape
  <2>4. CASE WriteBundle(p)
    <3>1. /\ Write(p, Bundle(Reached(p)), out[p], "relog")
          /\ Unfilled(p) = Coming(next[p]) \ {Raw(Reached(p))}
          /\ UNCHANGED next
      BY <2>1, <2>4 DEF WriteBundle, Unfilled, local
    <3>2. pc' = [pc EXCEPT ![p] = "relog"] => Unfilled(p)' = Coming(next[p] + 1)
      BY <2>1, <3>1 DEF Unfilled, Coming, TypeInv, TypeOK
    <3>3. "relog" \in Live \cup Ended /\ out[p] \in Content
      BY DEF Live, RunnerPcs, TypeInv, TypeOK
    <3>4. /\ Bundle(Reached(p)) \in FileNames /\ Bundle(Reached(p)) \in Unfilled(p)
          /\ Coming(next[p] + 1) \subseteq Unfilled(p) \ {Bundle(Reached(p))}
      BY <2>1, <3>1, FileNameMembers, ComingShrinks
    <3> QED
      BY <2>1, <2>2, <3>1, <3>2, <3>3, <3>4, WriteKeepsShape
  <2>5. CASE WriteLogs(p)
    <3>1. /\ Write(p, Log(Reached(p)), Sound({}), "validate")
          /\ Unfilled(p) = Coming(next[p]) \ {Raw(Reached(p))}
          /\ UNCHANGED next
      BY <2>1, <2>5 DEF WriteLogs, Unfilled, local
    <3>2. pc' = [pc EXCEPT ![p] = "validate"] => Unfilled(p)' = Unfilled(p)
      BY <2>1, <3>1 DEF Unfilled, Coming, Reached, TypeInv, TypeOK
    <3>3. "validate" \in Live \cup Ended
      BY DEF Live, RunnerPcs
    <3>4. /\ Log(Reached(p)) \in FileNames /\ Log(Reached(p)) \notin Evidence
          /\ Log(Reached(p)) \notin Unfilled(p)
      <4>1. next[p] \in 1 .. (Len(Implementations) + 1)
        BY DEF TypeInv, TypeOK
      <4> QED
        BY <2>1, <3>1, <4>1, FileNameMembers, NamesDiffer, ComingIsEvidence
    <3> QED
      BY <2>1, <2>2, <3>1, <3>2, <3>3, <3>4, ContentMembers, WriteKeepsShape
  <2>6. CASE RewriteLogs(p)
    <3>1. /\ Write(p, Log(Reached(p)), Sound({}), "select")
          /\ Unfilled(p) = Coming(next[p] + 1)
          /\ next' = IF open[p] THEN [next EXCEPT ![p] = @ + 1] ELSE next
      BY <2>1, <2>6 DEF RewriteLogs, Unfilled
    <3>2. open[p] /\ pc' = [pc EXCEPT ![p] = "select"] => Unfilled(p)' = Unfilled(p)
      BY <2>1, <3>1 DEF Unfilled, Coming, TypeInv, TypeOK
    <3>3. "select" \in Live \cup Ended
      BY DEF Live, RunnerPcs
    <3>4. /\ Log(Reached(p)) \in FileNames /\ Log(Reached(p)) \notin Evidence
          /\ Log(Reached(p)) \notin Unfilled(p)
      <4>1. Len(Implementations) \in Nat
        BY ConstantsAssumption
      <4>2. next[p] + 1 \in 1 .. (Len(Implementations) + 1)
        BY <2>1, <4>1
      <4> QED
        BY <2>1, <3>1, <4>2, FileNameMembers, NamesDiffer, ComingIsEvidence
    <3>5. pc' = pc => next' = next
      BY <2>6, <3>1 DEF RewriteLogs, Write, TypeInv, TypeOK
    <3> QED
      BY <2>1, <2>2, <3>1, <3>2, <3>3, <3>4, <3>5, ContentMembers, WriteKeepsShape
  <2> QED
    BY <1>3, <2>3, <2>4, <2>5, <2>6
<1>4. CASE WriteDiagnostic(p) \/ WriteSummaryJson(p) \/ WriteSummaryMarkdown(p)
  <2>1. /\ pc[p] \in OwningPcs /\ UNCHANGED <<dirs, run, next>> /\ OthersStay(p)
    BY <1>4 DEF WriteDiagnostic, WriteSummaryJson, WriteSummaryMarkdown, Write, local,
                OthersStay, OwningPcs, Live, RunnerPcs, PublishPcs, TypeInv, TypeOK
  <2>2. PICK n \in {Diagnostic, Json, Markdown}, c \in Content,
             after \in {"failed", "markdown", "done"} : Write(p, n, c, after)
    BY <1>4, ContentMembers
       DEF WriteDiagnostic, WriteSummaryJson, WriteSummaryMarkdown, TypeInv, TypeOK
  <2>3. pc' = [pc EXCEPT ![p] = after] => Unfilled(p)' = {}
    BY <2>2 DEF Unfilled, TypeInv, TypeOK
  <2>4. after \in Live \cup Ended /\ n \in FileNames /\ n \notin Evidence
    BY <2>2, FileNameMembers, NamesDiffer DEF Live, Ended, PublishPcs
  <2> QED
    BY <2>1, <2>2, <2>3, <2>4, WriteKeepsShape
<1>5. UNCHANGED disk \/ WriteManifest(p) \/ WriteConfig(p) \/ WriteHost(p)
      \/ PreserveOutput(p) \/ WriteLogs(p) \/ WriteBundle(p) \/ RewriteLogs(p)
      \/ WriteDiagnostic(p) \/ WriteSummaryJson(p) \/ WriteSummaryMarkdown(p)
  BY DEF StartStep, Progress, AdapterStep, RejectArguments, StartBenchmark, StartReport,
         Mkdir, SelectFamily, AdapterUnavailable, AdapterFails, AdapterReturns,
         ValidateOutput, GlobBundles, ReadBundles, DiskFault, Kill
<1> QED
  BY <1>1, <1>2, <1>3, <1>4, <1>5

LEMMA FreshInvInit == Init => FreshInv
<1> SUFFICES ASSUME Init PROVE FreshInv
  OBVIOUS
<1>1. \A r \in RunIds \ dirs, n \in Evidence : ~Settled(disk[r][n])
  BY DEF Init, FileNames, Settled, Absent
<1>2. \A p \in Runners : Unfilled(p) = {}
  BY DEF Init, Unfilled, Procs
<1> QED
  BY <1>1, <1>2 DEF FreshInv

\* Only the owner of a directory writes evidence there, and only such evidence
\* as it has not completed yet.
LEMMA WritesOnlyUnfilled ==
    ASSUME TypeInv, OwnInv, FreshInv, NEW p \in Procs, WritesFile(p),
           NEW r \in RunIds, NEW n \in Evidence, disk'[r][n] # disk[r][n]
    PROVE  p \in Runners /\ r = run[p] /\ n \in Unfilled(p) /\ ~Settled(disk[r][n])
<1>1. PICK m \in FileNames, c \in Content :
          /\ disk' = [disk EXCEPT ![run[p]][m] = c]
          /\ m \in Evidence => m \in Unfilled(p)
  BY DEF WritesFile
<1>2. r = run[p] /\ n = m
  BY <1>1 DEF TypeInv, TypeOK, FileNames
<1>3. p \in Runners
  BY <1>1, <1>2 DEF Unfilled
<1> QED
  BY <1>1, <1>2, <1>3 DEF FreshInv

LEMMA FreshInvStep == TypeInv /\ OwnInv /\ FreshInv /\ [Next]_vars => FreshInv'
<1> SUFFICES ASSUME TypeInv, OwnInv, FreshInv, [Next]_vars PROVE FreshInv'
  OBVIOUS
<1>1. CASE UNCHANGED vars
  BY <1>1 DEF vars, FreshInv, Unfilled, Coming, Reached
<1>2. ASSUME NEW p \in Procs, Moves(p) \/ Allocates(p) \/ Attaches(p), Keeps(p)
      PROVE  FreshInv'
  <2>1. dirs \subseteq dirs' /\ UNCHANGED disk
    BY <1>2 DEF Moves, Allocates, Attaches, Keeps
  <2>2. ASSUME NEW q \in Runners, NEW n \in Unfilled(q)'
        PROVE  ~Settled(disk[run'[q]][n])
    <3>1. CASE Allocates(p) /\ q = p
      <4>1. run'[p] = slot[p] /\ slot[p] \in RunIds \ dirs
        BY <3>1 DEF Allocates, TypeInv, TypeOK, Procs
      <4>2. n \in Evidence
        BY <3>1, <2>2 DEF Allocates, Unfilled, TypeInv, TypeOK, Procs
      <4> QED
        BY <3>1, <4>1, <4>2 DEF FreshInv
    <3>2. CASE ~(Allocates(p) /\ q = p)
      <4>1. n \in Unfilled(q)
        BY <1>2, <2>2, <3>2 DEF Keeps, OthersStay, Unfilled, Coming, Reached, Procs
      <4>2. run'[q] = run[q]
        BY <1>2, <3>2, ConstantsAssumption
           DEF Moves, Allocates, Attaches, TypeInv, TypeOK, Procs
      <4> QED
        BY <4>1, <4>2 DEF FreshInv
    <3> QED
      BY <3>1, <3>2
  <2> QED
    BY <2>1, <2>2 DEF FreshInv
<1>3. ASSUME NEW p \in Procs, WritesFile(p) PROVE FreshInv'
  <2>1. \A r \in RunIds \ dirs, n \in Evidence : ~Settled(disk'[r][n])
    <3> SUFFICES ASSUME NEW r \in RunIds \ dirs, NEW n \in Evidence
                 PROVE  disk'[r][n] = disk[r][n]
      BY DEF FreshInv
    <3>1. r # run[p]
      BY <1>3 DEF WritesFile, OwnInv
    <3> QED
      BY <1>3, <3>1, WritesOnlyUnfilled
  <2>2. ASSUME NEW q \in Runners, NEW n \in Unfilled(q)'
        PROVE  ~Settled(disk'[run[q]][n])
    <3>1. n \in Unfilled(q)
      BY <1>3, <2>2 DEF WritesFile, OthersStay, Unfilled, Coming, Reached, Procs
    <3>2. n \in Evidence /\ run[q] \in RunIds
      <4>1. n \in Evidence /\ pc[q] \in OwningPcs
        BY <3>1, UnfilledIsEvidence
      <4> QED
        BY <4>1 DEF OwnInv, TypeInv, TypeOK, Procs
    <3>3. CASE q = p
      <4>1. PICK m \in FileNames, c \in Content :
                /\ disk' = [disk EXCEPT ![run[p]][m] = c]
                /\ m \in Unfilled(p)' => ~Settled(c)
        BY <1>3 DEF WritesFile
      <4>2. CASE n = m
        <5>1. disk'[run[p]][n] = c
          BY <3>2, <3>3, <4>1, <4>2 DEF TypeInv, TypeOK
        <5> QED
          BY <2>2, <3>3, <4>1, <4>2, <5>1
      <4>3. CASE n # m
        <5>1. disk'[run[p]][n] = disk[run[p]][n]
          BY <3>2, <3>3, <4>1, <4>3 DEF TypeInv, TypeOK, FileNames
        <5> QED
          BY <3>1, <3>3, <5>1 DEF FreshInv
      <4> QED
        BY <4>2, <4>3
    <3>4. CASE q # p
      <4>1. p \in Runners => run[q] # run[p]
        BY <3>2, <3>4, ConstantsAssumption DEF OwnInv, DistinctRuns
      <4>2. disk'[run[q]][n] = disk[run[q]][n]
        BY <1>3, <3>2, <4>1, WritesOnlyUnfilled
      <4> QED
        BY <3>1, <4>2 DEF FreshInv
    <3> QED
      BY <3>3, <3>4
  <2> QED
    BY <1>3, <2>1, <2>2 DEF FreshInv, WritesFile
<1>4. \/ UNCHANGED vars
      \/ \E p \in Procs : \/ /\ Moves(p) \/ Allocates(p) \/ Attaches(p)
                             /\ Keeps(p)
                          \/ WritesFile(p)
  BY StepShapes, EvidenceStep DEF Next, AllEnded
<1> QED
  BY <1>1, <1>2, <1>3, <1>4

\* Manifest, configuration, host file, adapter outputs and bundles survive
\* every later step of every process unchanged once they are complete: README,
\* "append-only", and "[a failed run does not] overwrite an earlier run".
THEOREM EvidenceSurvives == Spec => EvidenceIsWriteOnce
<1>1. TypeInv /\ OwnInv /\ FreshInv /\ [Next]_vars =>
          [\A r \in RunIds, n \in Evidence :
              Settled(disk[r][n]) => disk'[r][n] = disk[r][n]]_vars
  <2> SUFFICES ASSUME TypeInv, OwnInv, FreshInv, [Next]_vars,
                      NEW r \in RunIds, NEW n \in Evidence, Settled(disk[r][n])
               PROVE  disk'[r][n] = disk[r][n]
    OBVIOUS
  <2>1. \/ UNCHANGED disk
        \/ \E p \in Procs : WritesFile(p)
    BY EvidenceStep DEF Next, AllEnded, vars, Keeps
  <2> QED
    BY <2>1, WritesOnlyUnfilled
<1> QED
  BY TypeInvInit, TypeInvStep, OwnInvInit, OwnInvStep, FreshInvInit, FreshInvStep, <1>1,
     PTL DEF Spec, EvidenceIsWriteOnce

--------------------------------------------------------------------------------
(***************************************************************************)
(* What stands behind a bundle and behind a report, and that the file tree *)
(* implements the abstract archive.                                        *)
(***************************************************************************)
Steps(p) == StartStep(p) \/ Progress(p) \/ AdapterStep(p) \/ DiskFault(p) \/ Kill(p)

LEMMA NextIsSteps ==
    Next <=> (\E p \in Procs : Steps(p)) \/ AllEnded
BY DEF Next, Steps

(***************************************************************************)
(* What a step leaves alone.                                               *)
(***************************************************************************)
LEMMA OthersFrame ==
    ASSUME TypeInv, NEW p \in Procs, Steps(p), NEW q \in Procs \ {p}
    PROVE  /\ pc'[q] = pc[q] /\ next'[q] = next[q] /\ out'[q] = out[q]
           /\ req'[q] = req[q] /\ open'[q] = open[q] /\ run'[q] = run[q]
           /\ view'[q] = view[q]
<1> USE DEF Goto, TypeInv, TypeOK, local
<1>1. CASE StartStep(p)
  BY <1>1 DEF StartStep, RejectArguments, StartBenchmark, StartReport
<1>2. CASE AdapterStep(p) \/ DiskFault(p) \/ Kill(p)
  BY <1>2 DEF AdapterStep, AdapterUnavailable, AdapterFails, AdapterReturns, DiskFault, Kill
<1>3. CASE Mkdir(p) \/ SelectFamily(p) \/ ValidateOutput(p) \/ GlobBundles(p)
           \/ ReadBundles(p)
  BY <1>3 DEF Mkdir, SelectFamily, ValidateOutput, GlobBundles, ReadBundles
<1>4. CASE WriteManifest(p) \/ WriteConfig(p) \/ WriteHost(p) \/ WriteDiagnostic(p)
           \/ WriteSummaryJson(p) \/ WriteSummaryMarkdown(p)
  BY <1>4 DEF WriteManifest, WriteConfig, WriteHost, WriteDiagnostic, WriteSummaryJson,
              WriteSummaryMarkdown, Write
<1>5. CASE PreserveOutput(p) \/ WriteLogs(p) \/ WriteBundle(p) \/ RewriteLogs(p)
  BY <1>5 DEF PreserveOutput, WriteLogs, WriteBundle, RewriteLogs, Write
<1> QED
  BY <1>1, <1>2, <1>3, <1>4, <1>5 DEF Steps, Progress

\* Whatever changes in the store changes in the stepping process's directory.
LEMMA StoreFrame ==
    ASSUME TypeInv, OwnInv, NEW p \in Procs, Steps(p)
    PROVE  \/ UNCHANGED disk
           \/ /\ pc[p] \in OwningPcs /\ UNCHANGED <<dirs, run>>
              /\ \E n \in FileNames, c \in Content : disk' = [disk EXCEPT ![run[p]][n] = c]
BY EvidenceStep DEF Steps, Keeps, WritesFile

LEMMA EvidenceFrame ==
    ASSUME TypeInv, OwnInv, FreshInv, NEW p \in Procs, Steps(p),
           NEW q \in Runners \ {p}, run[q] # NoRun, NEW n \in Evidence
    PROVE  disk'[run[q]][n] = disk[run[q]][n]
<1>1. run[q] \in RunIds
  BY DEF TypeInv, TypeOK, Procs
<1>2. CASE UNCHANGED disk
  BY <1>2
<1>3. CASE WritesFile(p)
  <2>1. p \in Runners => run[p] # run[q]
    BY DEF OwnInv, DistinctRuns
  <2> QED
    BY <1>1, <1>3, <2>1, WritesOnlyUnfilled
<1> QED
  BY <1>2, <1>3, EvidenceStep DEF Steps, Keeps

\* A settled bundle stays as it is.
LEMMA BundlesStay ==
    ASSUME TypeInv, OwnInv, FreshInv, NEW p \in Procs, Steps(p), NEW r \in RunIds
    PROVE  BundlesOf(r) \subseteq BundlesOf(r)'
<1>1. \A f \in Families : Bundle(f) \in Evidence
  BY DEF Evidence
<1>2. \A n \in Evidence : Settled(disk[r][n]) => disk'[r][n] = disk[r][n]
  BY WritesOnlyUnfilled, EvidenceStep DEF Steps, Keeps
<1> QED
  BY <1>1, <1>2 DEF BundlesOf

LEMMA RunnersAreProcs ==
    /\ \A p \in Runners : p \in Procs /\ p \notin Reporters
    /\ \A p \in Procs : p \notin Reporters => p \in Runners
BY ConstantsAssumption DEF Procs

\* Only a runner that is about to keep an output or to write its bundle changes
\* an output or a bundle, and only the one of the family it has reached.
LEMMA FamilyFileChange ==
    ASSUME TypeInv, OwnInv, FreshInv, NEW p \in Procs, Steps(p),
           NEW r \in RunIds, NEW f \in Families, NEW n \in {Raw(f), Bundle(f)},
           disk'[r][n] # disk[r][n]
    PROVE  /\ p \in Runners /\ r = run[p] /\ f = Reached(p)
           /\ \/ PreserveOutput(p) /\ n = Raw(f)
              \/ WriteBundle(p) /\ n = Bundle(f)
<1>1. n \in Evidence /\ n \in FileNames
  BY DEF Evidence, FileNames
<1>2. WritesFile(p)
  BY <1>1, EvidenceStep DEF Steps, Keeps
<1>3. p \in Runners /\ r = run[p]
  BY <1>1, <1>2, WritesOnlyUnfilled
<1>4. \A m \in FileNames, c \in Content : \A l : Write(p, m, c, l) => n = m
  <2> SUFFICES ASSUME NEW m \in FileNames, NEW c \in Content, NEW l, Write(p, m, c, l)
               PROVE  n = m
    OBVIOUS
  <2>1. \E text : disk' = [disk EXCEPT ![run[p]][m] = text]
    BY DEF Write
  <2> QED
    BY <1>1, <2>1 DEF TypeInv, TypeOK
<1>5. CASE WriteManifest(p) \/ WriteConfig(p) \/ WriteHost(p) \/ WriteDiagnostic(p)
  BY <1>4, <1>5, FileNameMembers, ContentMembers, NamesDiffer
     DEF WriteManifest, WriteConfig, WriteHost, WriteDiagnostic
<1>6. CASE WriteSummaryJson(p) \/ WriteSummaryMarkdown(p)
  <2>1. Sound(view[p]) \in Content
    BY ContentMembers DEF TypeInv, TypeOK
  <2> QED
    BY <1>4, <1>6, <2>1, FileNameMembers, NamesDiffer
       DEF WriteSummaryJson, WriteSummaryMarkdown
<1>7. CASE PreserveOutput(p) \/ WriteLogs(p) \/ WriteBundle(p) \/ RewriteLogs(p)
  <2>1. Reached(p) \in Families /\ out[p] \in Content /\ Sound({}) \in Content
    BY <1>7, ReachedFamily, ContentMembers
       DEF PreserveOutput, WriteLogs, WriteBundle, RewriteLogs, FamilyPcs, TypeInv, TypeOK
  <2>2. CASE WriteLogs(p) \/ RewriteLogs(p)
    BY <1>1, <1>4, <2>1, <2>2, FileNameMembers, NamesDiffer DEF WriteLogs, RewriteLogs
  <2>3. CASE PreserveOutput(p)
    BY <1>3, <1>4, <2>1, <2>3, FileNameMembers, NamesDiffer DEF PreserveOutput
  <2>4. CASE WriteBundle(p)
    BY <1>3, <1>4, <2>1, <2>4, FileNameMembers, NamesDiffer DEF WriteBundle
  <2> QED
    BY <1>7, <2>2, <2>3, <2>4
<1>8. UNCHANGED disk \/ WriteManifest(p) \/ WriteConfig(p) \/ WriteHost(p)
      \/ PreserveOutput(p) \/ WriteLogs(p) \/ WriteBundle(p) \/ RewriteLogs(p)
      \/ WriteDiagnostic(p) \/ WriteSummaryJson(p) \/ WriteSummaryMarkdown(p)
  BY DEF Steps, StartStep, Progress, AdapterStep, RejectArguments, StartBenchmark,
         StartReport, Mkdir, SelectFamily, AdapterUnavailable, AdapterFails,
         AdapterReturns, ValidateOutput, GlobBundles, ReadBundles, DiskFault, Kill
<1> QED
  BY <1>5, <1>6, <1>7, <1>8

(***************************************************************************)
(* The evidence behind a bundle.                                           *)
(***************************************************************************)
From(i) == {Implementations[j] : j \in i .. Len(Implementations)}

\* The families a runner has not begun to write the bundle of.
Unbundled(p) ==
    IF pc[p] \in {"manifest", "config", "host"} THEN Families
    ELSE IF \/ pc[p] \in {"select", "adapter", "preserve", "log", "validate"}
            \/ pc[p] = "bundle" /\ ~open[p]
         THEN From(next[p])
    ELSE IF pc[p] \in {"bundle", "relog"} THEN From(next[p] + 1)
    ELSE {}

\* What a runner's position says of its directory.
PositionInv(p) ==
    /\ \A f \in Unbundled(p) : disk[run[p]][Bundle(f)] = Absent
    /\ pc[p] \in {"log", "validate", "bundle"} => disk[run[p]][Raw(Reached(p))] = out[p]
    /\ pc[p] = "bundle" => IsSound(out[p])
    /\ open[p] => pc[p] \in Writing
    /\ open[p] /\ pc[p] = "preserve" => disk[run[p]][Raw(Reached(p))] = Torn
    /\ open[p] /\ pc[p] = "bundle" => disk[run[p]][Bundle(Reached(p))] = Torn

\* BundleHasEvidence is inductive together with what the position of a runner
\* says of its directory, and with directories being empty when they are made.
BundleInv ==
    /\ \A r \in RunIds \ dirs, n \in FileNames : disk[r][n] = Absent
    /\ \A p \in Runners : PositionInv(p)
    /\ BundleHasEvidence

LEMMA BundleInvInit == Init => BundleInv
<1> SUFFICES ASSUME Init PROVE BundleInv
  OBVIOUS
<1>1. \A r \in RunIds \ dirs, n \in FileNames : disk[r][n] = Absent
  BY DEF Init
<1>2. \A p \in Runners : PositionInv(p)
  <2>1. \A p \in Runners : pc[p] = "start" /\ open[p] = FALSE
    BY RunnersAreProcs DEF Init
  <2> QED
    BY <2>1 DEF PositionInv, Unbundled
<1>3. BundleHasEvidence
  <2> SUFFICES ASSUME NEW r \in Archived, NEW f \in Families
               PROVE  /\ disk[r][Raw(f)].kind = "sound"
                      /\ disk[r][Bundle(f)] = disk[r][Raw(f)]
    BY DEF Init, BundleHasEvidence
  <2>1. Raw(f) \in FileNames /\ Bundle(f) \in FileNames /\ r \in RunIds
    BY FileNameMembers, ConstantsAssumption
  <2>2. \A n \in {Raw(f), Bundle(f)} :
            /\ n \in Evidence \ {Manifest, Config, Host}
            /\ n \notin Summaries /\ n # Diagnostic /\ n[2] = f
    BY NamesDiffer DEF Evidence, Summaries, Raw, Bundle
  <2>3. disk[r] = ArchivedRun
    BY <2>1 DEF Init
  <2>4. \A n \in {Raw(f), Bundle(f)} : disk[r][n] = Sound({f})
    <3> SUFFICES ASSUME NEW n \in {Raw(f), Bundle(f)} PROVE ArchivedRun[n] = Sound({f})
      BY <2>3
    <3>1. /\ n \in FileNames /\ n \in Evidence \ {Manifest, Config, Host}
          /\ n \notin Summaries /\ n # Diagnostic /\ n[2] = f
      BY <2>1, <2>2
    <3>2. ArchivedRun[n] = Sound({n[2]})
      BY <3>1 DEF ArchivedRun
    <3> QED
      BY <3>1, <3>2
  <2> QED
    BY <2>4 DEF Sound
<1> QED
  BY <1>1, <1>2, <1>3 DEF BundleInv

LEMMA FromShrinks ==
    ASSUME NEW i \in 1 .. (Len(Implementations) + 1)
    PROVE  /\ From(i) \subseteq Families /\ From(i + 1) \subseteq From(i)
           /\ i <= Len(Implementations) =>
                  /\ Implementations[i] \in From(i)
                  /\ From(i + 1) = From(i) \ {Implementations[i]}
<1>1. Len(Implementations) \in Nat
  BY ConstantsAssumption
<1>2. \A j \in i .. Len(Implementations) : Implementations[j] \in Families
  BY <1>1, ConstantsAssumption
<1>3. \A j \in (i + 1) .. Len(Implementations) :
          /\ j \in i .. Len(Implementations)
          /\ i <= Len(Implementations) => Implementations[j] # Implementations[i]
  BY <1>1, ConstantsAssumption
<1>4. \A j \in i .. Len(Implementations) : j = i \/ j \in (i + 1) .. Len(Implementations)
  BY <1>1
<1>5. i <= Len(Implementations) => i \in i .. Len(Implementations)
  BY <1>1
<1> QED
  BY <1>2, <1>3, <1>4, <1>5 DEF From

\* A step of another process leaves a runner's position, and what it says, alone.
LEMMA OthersPosition ==
    ASSUME TypeInv, OwnInv, FreshInv, BundleInv, NEW p \in Procs, Steps(p),
           NEW q \in Runners \ {p}
    PROVE  PositionInv(q)'
<1>1. /\ pc'[q] = pc[q] /\ next'[q] = next[q] /\ out'[q] = out[q]
      /\ open'[q] = open[q] /\ run'[q] = run[q] /\ PositionInv(q)
  BY OthersFrame, RunnersAreProcs DEF BundleInv
<1>2. Unbundled(q)' = Unbundled(q) /\ Reached(q)' = Reached(q)
  BY <1>1 DEF Unbundled, From, Reached
<1>3. CASE pc[q] \in OwningPcs
  <2>1. run[q] \in RunIds /\ run[q] # NoRun
    BY <1>3, RunnersAreProcs, ConstantsAssumption DEF OwnInv, TypeInv, TypeOK
  <2>2. \A n \in Evidence : disk'[run[q]][n] = disk[run[q]][n]
    BY <2>1, EvidenceFrame
  <2>3. Unbundled(q) \subseteq Families
    <3>1. next[q] \in 1 .. (Len(Implementations) + 1) /\ Len(Implementations) \in Nat
      BY RunnersAreProcs, ConstantsAssumption DEF TypeInv, TypeOK
    <3>2. From(next[q]) \subseteq Families /\ From(next[q] + 1) \subseteq Families
      BY <3>1, FromShrinks
    <3> QED
      BY <3>2 DEF Unbundled
  <2>4. pc[q] \in FamilyPcs => Reached(q) \in Families
    BY ReachedFamily, RunnersAreProcs
  <2>5. \A f \in Families : Raw(f) \in Evidence /\ Bundle(f) \in Evidence
    BY DEF Evidence
  <2> QED
    BY <1>1, <1>2, <2>2, <2>3, <2>4, <2>5 DEF PositionInv, FamilyPcs
<1>4. CASE pc[q] \notin OwningPcs
  BY <1>1, <1>2, <1>4 DEF PositionInv, Unbundled, OwningPcs, Live, RunnerPcs, Writing
<1> QED
  BY <1>3, <1>4

\* What a write does to the file it writes.
LEMMA WriteEffect ==
    ASSUME TypeInv, NEW p \in Procs, run[p] \in RunIds, NEW n \in FileNames,
           NEW c \in Content, NEW l, Write(p, n, c, l)
    PROVE  /\ \A m \in FileNames \ {n} : disk'[run[p]][m] = disk[run[p]][m]
           /\ \/ /\ ~open[p] /\ open'[p] /\ pc'[p] = pc[p]
                 /\ disk'[run[p]][n] = Torn
              \/ /\ open[p] /\ ~open'[p] /\ pc'[p] = l
                 /\ disk'[run[p]][n] \in {c, Garbled}
                 /\ disk[run[p]][n] = Torn => disk'[run[p]][n] = c
<1>1. CASE ~open[p]
  BY <1>1 DEF Write, TypeInv, TypeOK
<1>2. CASE open[p]
  <2>1. PICK text \in Filled(disk[run[p]][n], c) :
            disk' = [disk EXCEPT ![run[p]][n] = text]
    BY <1>2 DEF Write
  <2>2. text \in {c, Garbled} /\ (disk[run[p]][n] = Torn => text = c)
    BY <2>1 DEF Filled
  <2>3. disk'[run[p]][n] = text /\ open'[p] = FALSE /\ pc'[p] = l
    BY <1>2, <2>1 DEF Write, Goto, TypeInv, TypeOK
  <2>4. \A m \in FileNames \ {n} : disk'[run[p]][m] = disk[run[p]][m]
    BY <2>1 DEF TypeInv, TypeOK
  <2> QED
    BY <1>2, <2>2, <2>3, <2>4
<1> QED
  BY <1>1, <1>2

\* The steps of a runner that leave it where nothing is said of its directory.
LEMMA PositionLost ==
    ASSUME NEW p \in Runners,
           pc'[p] \notin {"manifest", "config", "host", "select", "adapter", "preserve",
                         "log", "validate", "bundle", "relog"},
           open'[p] => pc'[p] \in Writing
    PROVE  PositionInv(p)'
BY DEF PositionInv, Unbundled

LEMMA OwnPosition ==
    ASSUME TypeInv, OwnInv, FreshInv, BundleInv, NEW p \in Runners, Steps(p)
    PROVE  PositionInv(p)'
<1>0. /\ p \in Procs /\ p \notin Reporters
      /\ PositionInv(p)
      /\ Len(Implementations) \in Nat
      /\ next[p] \in 1 .. (Len(Implementations) + 1)
      /\ From(next[p]) \subseteq Families
      /\ pc[p] \in OwningPcs => run[p] \in RunIds
      /\ \A f \in Families : /\ Raw(f) \in FileNames /\ Bundle(f) \in FileNames
                             /\ Log(f) \in FileNames
  BY RunnersAreProcs, ConstantsAssumption, FromShrinks, FileNameMembers
     DEF BundleInv, TypeInv, TypeOK, OwnInv
<1> USE <1>0
<1>1. CASE StartStep(p)
  <2>1. pc'[p] \in {"rejected", "mkdir"} /\ ~open'[p]
    BY <1>1 DEF StartStep, RejectArguments, StartBenchmark, StartReport, Goto, TypeInv,
                TypeOK, PositionInv, Writing
  <2> QED
    BY <2>1, PositionLost
<1>2. CASE Mkdir(p)
  <2>1. ~open'[p]
    BY <1>2 DEF Mkdir, PositionInv, Writing
  <2>2. CASE pc'[p] # "manifest"
    <3>1. pc'[p] \in {"mkdir", "rejected"}
      BY <1>2, <2>2 DEF Mkdir, Goto, TypeInv, TypeOK
    <3> QED
      BY <2>1, <3>1, PositionLost
  <2>3. CASE pc'[p] = "manifest"
    <3>1. slot[p] \in RunIds \ dirs /\ run'[p] = slot[p] /\ UNCHANGED disk
      BY <1>2, <2>3 DEF Mkdir, Goto, TypeInv, TypeOK
    <3>2. \A f \in Families : disk'[run'[p]][Bundle(f)] = Absent
      BY <3>1 DEF BundleInv
    <3> QED
      BY <2>1, <2>3, <3>2 DEF PositionInv, Unbundled
  <2> QED
    BY <2>2, <2>3
<1>3. CASE WriteManifest(p) \/ WriteConfig(p) \/ WriteHost(p)
  <2>1. PICK n \in {Manifest, Config, Host}, l \in {"config", "host", "select"} :
            Write(p, n, Sound({}), l)
    BY <1>3 DEF WriteManifest, WriteConfig, WriteHost
  <2>2. /\ pc[p] \in {"manifest", "config", "host"} /\ UNCHANGED <<run, next>>
        /\ run[p] \in RunIds
    BY <1>3 DEF WriteManifest, WriteConfig, WriteHost, local, OwningPcs, Live, RunnerPcs
  <2>3. /\ \A f \in Families : disk'[run[p]][Bundle(f)] = disk[run[p]][Bundle(f)]
        /\ open'[p] => pc'[p] = pc[p]
        /\ pc'[p] \in {"manifest", "config", "host", "select"}
    BY <2>1, <2>2, WriteEffect, FileNameMembers, ContentMembers, NamesDiffer
  <2>4. Unbundled(p) = Families /\ Unbundled(p)' \subseteq Families
    BY <2>2, <2>3 DEF Unbundled, From
  <2> QED
    BY <2>2, <2>3, <2>4 DEF PositionInv, Writing
<1>4. CASE SelectFamily(p)
  <2>1. /\ ~open'[p] /\ UNCHANGED <<disk, run>>
        /\ \/ pc'[p] = "glob"
           \/ pc'[p] = "adapter" /\ next'[p] = next[p]
           \/ pc'[p] = "select" /\ next'[p] = next[p] + 1
    BY <1>4 DEF SelectFamily, Goto, PositionInv, Writing, TypeInv, TypeOK
  <2>2. From(next[p] + 1) \subseteq From(next[p])
    BY FromShrinks
  <2>3. Unbundled(p)' \subseteq Unbundled(p)
    BY <1>4, <2>1, <2>2 DEF SelectFamily, Unbundled, From
  <2> QED
    BY <2>1, <2>3 DEF PositionInv
<1>5. CASE AdapterUnavailable(p) \/ AdapterFails(p) \/ GlobBundles(p) \/ ReadBundles(p)
           \/ DiskFault(p) \/ Kill(p)
  <2>1. pc'[p] \in {"read", "json", "aborted", "diagnose", "killed"} /\ ~open'[p]
    BY <1>5, PcSets DEF AdapterUnavailable, AdapterFails, GlobBundles, ReadBundles, DiskFault,
                Kill, Goto, PositionInv, Writing, TypeInv, TypeOK
  <2> QED
    BY <2>1, PositionLost
<1>6. CASE AdapterReturns(p)
  <2>1. /\ pc'[p] = "preserve" /\ ~open'[p] /\ UNCHANGED <<disk, run, next>>
    BY <1>6 DEF AdapterReturns, Goto, PositionInv, Writing, TypeInv, TypeOK
  <2>2. Unbundled(p)' = Unbundled(p)
    BY <1>6, <2>1 DEF AdapterReturns, Unbundled, From
  <2> QED
    BY <2>1, <2>2 DEF PositionInv
<1>7. CASE ValidateOutput(p)
  <2>1. /\ ~open'[p] /\ UNCHANGED <<disk, run, next, out>>
        /\ \/ pc'[p] \in {"diagnose", "aborted"}
           \/ pc'[p] = "bundle" /\ IsSound(out[p])
    BY <1>7, PcSets DEF ValidateOutput, Goto, PositionInv, Writing, TypeInv, TypeOK, local
  <2>2. CASE pc'[p] = "bundle"
    <3>1. Unbundled(p)' = Unbundled(p) /\ Reached(p)' = Reached(p)
      BY <1>7, <2>1, <2>2 DEF ValidateOutput, Unbundled, From, Reached
    <3> QED
      BY <1>7, <2>1, <2>2, <3>1 DEF ValidateOutput, PositionInv
  <2> QED
    BY <2>1, <2>2, PositionLost
<1>8. CASE WriteDiagnostic(p) \/ WriteSummaryJson(p) \/ WriteSummaryMarkdown(p)
  <2>1. /\ pc'[p] \in {"diagnose", "json", "markdown", "failed", "done"}
        /\ open'[p] => pc'[p] = pc[p] /\ pc[p] \in Writing
    BY <1>8 DEF WriteDiagnostic, WriteSummaryJson, WriteSummaryMarkdown, Write, Goto,
                Writing, TypeInv, TypeOK
  <2> QED
    BY <2>1, PositionLost
<1>9. CASE PreserveOutput(p) \/ WriteLogs(p) \/ WriteBundle(p) \/ RewriteLogs(p)
  <2>1. /\ pc[p] \in {"preserve", "log", "bundle", "relog"}
        /\ UNCHANGED <<run, out>>
        /\ next' = next \/ pc[p] = "relog"
    BY <1>9 DEF PreserveOutput, WriteLogs, WriteBundle, RewriteLogs, local
  <2>2. /\ next[p] \in 1 .. Len(Implementations) /\ Reached(p) \in Families
        /\ Reached(p) = Implementations[next[p]]
        /\ run[p] \in RunIds /\ out[p] \in Content /\ Sound({}) \in Content
    BY <2>1, ReachedFamily, ContentMembers
       DEF FamilyPcs, OwningPcs, Live, RunnerPcs, TypeInv, TypeOK, Reached
  <2>3. /\ From(next[p] + 1) = From(next[p]) \ {Reached(p)}
        /\ next' = next => /\ From(next[p])' = From(next[p])
                           /\ From(next[p] + 1)' = From(next[p] + 1)
                           /\ Reached(p)' = Reached(p)
    <3>1. From(next[p] + 1) = From(next[p]) \ {Reached(p)}
      BY <2>2, FromShrinks
    <3>2. next' = next => /\ From(next[p])' = From(next[p])
                          /\ From(next[p] + 1)' = From(next[p] + 1)
                          /\ Reached(p)' = Reached(p)
      BY DEF From, Reached
    <3> QED
      BY <3>1, <3>2
  <2>4. CASE PreserveOutput(p)
    <3>1. /\ Write(p, Raw(Reached(p)), out[p], "log") /\ UNCHANGED next
      BY <2>4 DEF PreserveOutput, local
    <3>2. /\ \A f \in Families : disk'[run[p]][Bundle(f)] = disk[run[p]][Bundle(f)]
          /\ \/ /\ open'[p] /\ pc'[p] = "preserve" /\ disk'[run[p]][Raw(Reached(p))] = Torn
             \/ /\ ~open'[p] /\ pc'[p] = "log" /\ disk'[run[p]][Raw(Reached(p))] = out[p]
      BY <2>2, <2>4, <3>1, WriteEffect, NamesDiffer DEF PreserveOutput, PositionInv
    <3>3. Unbundled(p)' = Unbundled(p)
      BY <2>3, <2>4, <3>1, <3>2 DEF PreserveOutput, Unbundled
    <3>4. Unbundled(p) \subseteq Families
      BY <2>4 DEF PreserveOutput, Unbundled
    <3> QED
      BY <2>1, <2>3, <2>4, <3>1, <3>2, <3>3, <3>4 DEF PreserveOutput, PositionInv, Writing
  <2>5. CASE WriteLogs(p)
    <3>1. /\ Write(p, Log(Reached(p)), Sound({}), "validate") /\ UNCHANGED next
      BY <2>5 DEF WriteLogs, local
    <3>2. /\ \A f \in Families : disk'[run[p]][Bundle(f)] = disk[run[p]][Bundle(f)]
          /\ disk'[run[p]][Raw(Reached(p))] = disk[run[p]][Raw(Reached(p))]
          /\ \/ pc'[p] = "log"
             \/ pc'[p] = "validate" /\ ~open'[p]
      <4>1. \A f \in Families : Bundle(f) \in Evidence /\ Raw(f) \in Evidence
        BY DEF Evidence
      <4>2. Log(Reached(p)) \notin Evidence
        BY NamesDiffer
      <4> QED
        BY <2>2, <2>5, <3>1, <4>1, <4>2, WriteEffect DEF WriteLogs
    <3>3. Unbundled(p)' = Unbundled(p) /\ Unbundled(p) \subseteq Families
      BY <2>3, <2>5, <3>1, <3>2 DEF WriteLogs, Unbundled
    <3> QED
      BY <2>1, <2>3, <2>5, <3>1, <3>2, <3>3 DEF WriteLogs, PositionInv, Writing
  <2>6. CASE WriteBundle(p)
    <3>1. /\ Write(p, Bundle(Reached(p)), out[p], "relog") /\ UNCHANGED next
      BY <2>6 DEF WriteBundle, local
    <3>2. /\ \A f \in Families \ {Reached(p)} :
                disk'[run[p]][Bundle(f)] = disk[run[p]][Bundle(f)]
          /\ disk'[run[p]][Raw(Reached(p))] = disk[run[p]][Raw(Reached(p))]
          /\ \/ /\ open'[p] /\ pc'[p] = "bundle"
                /\ disk'[run[p]][Bundle(Reached(p))] = Torn
             \/ /\ ~open'[p] /\ pc'[p] = "relog"
      BY <2>2, <2>6, <3>1, WriteEffect, NamesDiffer DEF WriteBundle
    <3>3. /\ Unbundled(p)' = From(next[p] + 1) /\ From(next[p] + 1) \subseteq Unbundled(p)
      BY <2>3, <2>6, <3>1, <3>2 DEF WriteBundle, Unbundled
    <3>4. \A f \in Unbundled(p)' : f \in Families \ {Reached(p)}
      BY <2>3, <3>3
    <3> QED
      BY <2>1, <2>3, <2>6, <3>1, <3>2, <3>3, <3>4 DEF WriteBundle, PositionInv, Writing
  <2>7. CASE RewriteLogs(p)
    <3>1. /\ Write(p, Log(Reached(p)), Sound({}), "select")
          /\ next' = IF open[p] THEN [next EXCEPT ![p] = @ + 1] ELSE next
      BY <2>7 DEF RewriteLogs
    <3>2. /\ \A f \in Families : disk'[run[p]][Bundle(f)] = disk[run[p]][Bundle(f)]
          /\ \/ open'[p] /\ pc'[p] = "relog" /\ next'[p] = next[p]
             \/ ~open'[p] /\ pc'[p] = "select" /\ next'[p] = next[p] + 1
      <4>1. \A f \in Families : Bundle(f) \in Evidence
        BY DEF Evidence
      <4>2. Log(Reached(p)) \notin Evidence
        BY NamesDiffer
      <4> QED
        BY <2>2, <2>7, <3>1, <4>1, <4>2, WriteEffect DEF RewriteLogs, TypeInv, TypeOK
    <3>3. /\ Unbundled(p) = From(next[p] + 1) /\ Unbundled(p)' = From(next[p] + 1)
      BY <2>7, <3>2 DEF RewriteLogs, Unbundled, From
    <3>4. From(next[p] + 1) \subseteq Families
      BY <2>3
    <3> QED
      BY <2>1, <2>7, <3>2, <3>3, <3>4 DEF RewriteLogs, PositionInv, Writing
  <2> QED
    BY <1>9, <2>4, <2>5, <2>6, <2>7
<1> QED
  BY <1>1, <1>2, <1>3, <1>4, <1>5, <1>6, <1>7, <1>8, <1>9
     DEF Steps, Progress, AdapterStep

LEMMA BundleInvStep ==
    TypeInv /\ OwnInv /\ FreshInv /\ BundleInv /\ [Next]_vars => BundleInv'
<1> SUFFICES ASSUME TypeInv, OwnInv, FreshInv, BundleInv, [Next]_vars PROVE BundleInv'
  OBVIOUS
<1>1. CASE UNCHANGED vars
  BY <1>1 DEF vars, BundleInv, PositionInv, Unbundled, From, Reached, BundleHasEvidence
<1>2. ASSUME NEW p \in Procs, Steps(p) PROVE BundleInv'
  <2>1. \A q \in Runners : PositionInv(q)'
    BY <1>2, OthersPosition, OwnPosition
  <2>2. /\ dirs \subseteq dirs'
        /\ \A r \in RunIds \ dirs, n \in FileNames : disk'[r][n] = Absent
    <3>1. dirs \subseteq dirs'
      BY <1>2, StepShapes DEF Steps, Moves, Allocates, Attaches
    <3>2. ASSUME NEW r \in RunIds \ dirs, NEW n \in FileNames PROVE disk'[r][n] = disk[r][n]
      BY <1>2, StoreFrame DEF OwnInv, TypeInv, TypeOK
    <3> QED
      BY <3>1, <3>2 DEF BundleInv
  <2>3. BundleHasEvidence'
    <3> SUFFICES ASSUME NEW r \in dirs', NEW f \in Families, Present(disk'[r][Bundle(f)])
                 PROVE  /\ disk'[r][Raw(f)].kind = "sound"
                        /\ Settled(disk'[r][Bundle(f)]) => disk'[r][Bundle(f)] = disk'[r][Raw(f)]
      BY DEF BundleHasEvidence
    <3>1. /\ r \in RunIds /\ Raw(f) \in FileNames /\ Bundle(f) \in FileNames
          /\ Raw(f) # Bundle(f)
      BY <1>2, TypeInvStep, FileNameMembers, NamesDiffer DEF TypeInv, TypeOK
    <3>2. r \in dirs
      BY <2>2, <3>1 DEF Present, Absent
    <3>3. CASE disk'[r][Raw(f)] # disk[r][Raw(f)]
      <4>1. p \in Runners /\ r = run[p] /\ f = Reached(p) /\ PreserveOutput(p)
        BY <1>2, <3>1, <3>3, FamilyFileChange
      <4>2. f \in From(next[p])
        <5>1. next[p] \in 1 .. Len(Implementations) /\ Len(Implementations) \in Nat
          BY <4>1, ReachedFamily, RunnersAreProcs, ConstantsAssumption
             DEF PreserveOutput, FamilyPcs
        <5> QED
          BY <4>1, <5>1, FromShrinks DEF Reached
      <4>3. disk[r][Bundle(f)] = Absent
        BY <4>1, <4>2 DEF BundleInv, PositionInv, Unbundled, PreserveOutput
      <4>4. disk'[r][Bundle(f)] = disk[r][Bundle(f)]
        BY <1>2, <3>1, <4>1, FamilyFileChange DEF PreserveOutput, WriteBundle
      <4> QED
        BY <4>3, <4>4 DEF Present, Absent
    <3>4. CASE disk'[r][Bundle(f)] # disk[r][Bundle(f)] /\ disk'[r][Raw(f)] = disk[r][Raw(f)]
      <4>1. p \in Runners /\ r = run[p] /\ f = Reached(p) /\ WriteBundle(p)
        BY <1>2, <3>1, <3>4, FamilyFileChange
      <4>2. /\ disk[r][Raw(f)] = out[p] /\ IsSound(out[p])
            /\ (open[p] => disk[r][Bundle(f)] = Torn)
        BY <4>1 DEF BundleInv, PositionInv, WriteBundle
      <4>3. disk'[r][Bundle(f)] = Torn \/ disk'[r][Bundle(f)] = out[p]
        BY <3>1, <4>1, <4>2, WriteEffect DEF WriteBundle, TypeInv, TypeOK
      <4> QED
        BY <3>4, <4>2, <4>3 DEF IsSound, Settled, Torn
    <3>5. CASE disk'[r][Bundle(f)] = disk[r][Bundle(f)] /\ disk'[r][Raw(f)] = disk[r][Raw(f)]
      BY <3>2, <3>5 DEF BundleInv, BundleHasEvidence
    <3> QED
      BY <3>3, <3>4, <3>5
  <2> QED
    BY <2>1, <2>2, <2>3 DEF BundleInv
<1> QED
  BY <1>1, <1>2, NextIsSteps DEF AllEnded

\* Every bundle in adapters/, of any run, under any interleaving and fault, has
\* beside it the output it was parsed from, whole and accepted: no crash, full
\* disk or other process comes between write_bundle and what must precede it.
THEOREM BundlesHaveEvidence == Spec => []BundleHasEvidence
<1>1. BundleInv => BundleHasEvidence
  BY DEF BundleInv
<1> QED
  BY TypeInvInit, TypeInvStep, OwnInvInit, OwnInvStep, FreshInvInit, FreshInvStep,
     BundleInvInit, BundleInvStep, <1>1, PTL DEF Spec

(***************************************************************************)
(* What a runner has kept before it goes on.                               *)
(***************************************************************************)

\* Output an adapter returned is judged, or bundled, only when it is on disk as
\* it was returned, with its logs: what ReturnedOutputIsKept says of the states
\* after preserve_adapter_output.
JudgedIsKept ==
    \A p \in Runners : pc[p] \in {"validate", "bundle"} =>
        /\ Settled(out[p]) /\ disk[run[p]][Raw(Reached(p))] = out[p]
        /\ Settled(disk[run[p]][Log(Reached(p))])

\* A run that failed has its diagnostic: what FailureIsDiagnosed says of the
\* states after the except clause of benchmark.
FailedIsDiagnosed ==
    \A p \in Runners : pc[p] = "failed" =>
        run[p] \in RunIds /\ Settled(disk[run[p]][Diagnostic])

KeptInv ==
    /\ \A p \in Runners :
          /\ pc[p] \in {"preserve", "log", "validate", "bundle"} => Settled(out[p])
          /\ pc[p] \in {"validate", "bundle"} => Settled(disk[run[p]][Log(Reached(p))])
    /\ FailedIsDiagnosed

LEMMA KeptInvInit == Init => KeptInv
BY RunnersAreProcs DEF Init, KeptInv, FailedIsDiagnosed

\* But for the summaries, nobody else writes into a runner's directory.
LEMMA OwnFilesStay ==
    ASSUME TypeInv, OwnInv, NEW p \in Procs, Steps(p),
           NEW q \in Runners \ {p}, run[q] \in RunIds, NEW n \in FileNames \ Summaries
    PROVE  disk'[run[q]][n] = disk[run[q]][n]
<1>1. run[q] # NoRun
  BY ConstantsAssumption
<1>2. CASE p \in Runners
  <2>1. run[p] # run[q]
    BY <1>1, <1>2 DEF OwnInv, DistinctRuns
  <2> QED
    BY <2>1, StoreFrame DEF TypeInv, TypeOK
<1>3. CASE p \in Reporters
  <2>1. pc[p] \notin RunnerPcs
    BY <1>3 DEF TypeInv
  <2>2. \A m \in Summaries : \A c, l : Write(p, m, c, l) => disk'[run[q]][n] = disk[run[q]][n]
    <3> SUFFICES ASSUME NEW m \in Summaries, NEW c, NEW l, Write(p, m, c, l)
                 PROVE  disk'[run[q]][n] = disk[run[q]][n]
      OBVIOUS
    <3>1. PICK text : disk' = [disk EXCEPT ![run[p]][m] = text]
      BY DEF Write
    <3> QED
      BY <3>1 DEF TypeInv, TypeOK
  <2>3. UNCHANGED disk \/ WriteSummaryJson(p) \/ WriteSummaryMarkdown(p)
    BY <2>1 DEF RunnerPcs, Steps, StartStep, Progress, AdapterStep, RejectArguments,
           StartBenchmark, StartReport, Mkdir, SelectFamily, AdapterUnavailable,
           AdapterFails, AdapterReturns, ValidateOutput, GlobBundles, ReadBundles,
           DiskFault, Kill, WriteManifest, WriteConfig, WriteHost, PreserveOutput,
           WriteLogs, WriteBundle, RewriteLogs, WriteDiagnostic
  <2> QED
    BY <2>2, <2>3 DEF WriteSummaryJson, WriteSummaryMarkdown, Summaries
<1> QED
  BY <1>2, <1>3 DEF Procs

LEMMA LogsAreNoSummaries ==
    /\ Diagnostic \in FileNames \ Summaries
    /\ \A f \in Families : Log(f) \in FileNames \ Summaries /\ Log(f) # Bundle(f)
BY FileNameMembers DEF Summaries, Json, Markdown, Diagnostic, Log, Bundle

LEMMA OthersKept ==
    ASSUME TypeInv, OwnInv, KeptInv, NEW p \in Procs, Steps(p), NEW q \in Runners \ {p}
    PROVE  /\ pc'[q] \in {"preserve", "log", "validate", "bundle"} => Settled(out'[q])
           /\ pc'[q] \in {"validate", "bundle"} => Settled(disk'[run'[q]][Log(Reached(q)')])
           /\ pc'[q] = "failed" => run'[q] \in RunIds /\ Settled(disk'[run'[q]][Diagnostic])
<1>1. /\ pc'[q] = pc[q] /\ next'[q] = next[q] /\ out'[q] = out[q] /\ run'[q] = run[q]
      /\ q \in Procs
  BY OthersFrame, RunnersAreProcs
<1>2. Reached(q)' = Reached(q)
  BY <1>1 DEF Reached
<1>3. CASE pc[q] = "failed"
  <2>1. disk'[run[q]][Diagnostic] = disk[run[q]][Diagnostic]
    BY <1>3, OwnFilesStay, LogsAreNoSummaries DEF KeptInv, FailedIsDiagnosed
  <2> QED
    BY <1>1, <1>3, <2>1 DEF KeptInv, FailedIsDiagnosed
<1>4. CASE pc[q] \in {"validate", "bundle"}
  <2>1. Reached(q) \in Families
    BY <1>1, <1>4, ReachedFamily DEF FamilyPcs
  <2>2. run[q] \in RunIds
    BY <1>1, <1>4 DEF OwnInv, OwningPcs, Live, RunnerPcs, TypeInv, TypeOK
  <2>3. disk'[run[q]][Log(Reached(q))] = disk[run[q]][Log(Reached(q))]
    BY <2>1, <2>2, OwnFilesStay, LogsAreNoSummaries
  <2> QED
    BY <1>1, <1>2, <1>4, <2>3 DEF KeptInv
<1>5. CASE pc[q] \notin {"failed", "validate", "bundle"}
  BY <1>1, <1>5 DEF KeptInv
<1> QED
  BY <1>3, <1>4, <1>5

LEMMA OwnKept ==
    ASSUME TypeInv, OwnInv, KeptInv, NEW p \in Runners, Steps(p)
    PROVE  /\ pc'[p] \in {"preserve", "log", "validate", "bundle"} => Settled(out'[p])
           /\ pc'[p] \in {"validate", "bundle"} => Settled(disk'[run'[p]][Log(Reached(p)')])
           /\ pc'[p] = "failed" => run'[p] \in RunIds /\ Settled(disk'[run'[p]][Diagnostic])
<1>0. /\ p \in Procs /\ p \notin Reporters
      /\ pc[p] \in OwningPcs => run[p] \in RunIds
  BY RunnersAreProcs DEF OwnInv, TypeInv, TypeOK
<1> USE <1>0 DEF Goto
<1>1. CASE \/ StartStep(p) \/ Mkdir(p) \/ SelectFamily(p) \/ GlobBundles(p) \/ ReadBundles(p)
           \/ AdapterUnavailable(p) \/ AdapterFails(p)
  <2>1. pc'[p] \notin {"preserve", "log", "validate", "bundle", "failed"}
    BY <1>1 DEF StartStep, RejectArguments, StartBenchmark, StartReport, Mkdir, SelectFamily,
                GlobBundles, ReadBundles, AdapterUnavailable, AdapterFails, OnError, TypeInv,
                TypeOK
  <2> QED
    BY <2>1
<1>2. CASE DiskFault(p) \/ Kill(p)
  <2>1. pc'[p] \notin {"preserve", "log", "validate", "bundle", "failed"}
    BY <1>2 DEF DiskFault, Kill, OnError, TypeInv, TypeOK
  <2> QED
    BY <2>1
<1>3. CASE \/ WriteManifest(p) \/ WriteConfig(p) \/ WriteHost(p) \/ RewriteLogs(p)
           \/ WriteSummaryJson(p) \/ WriteSummaryMarkdown(p)
  <2>1. pc'[p] \notin {"preserve", "log", "validate", "bundle", "failed"}
    BY <1>3 DEF WriteManifest, WriteConfig, WriteHost, RewriteLogs, WriteSummaryJson,
                WriteSummaryMarkdown, Write, TypeInv, TypeOK
  <2> QED
    BY <2>1
<1>4. CASE AdapterReturns(p)
  <2>1. /\ pc[p] = "adapter" /\ pc'[p] = "preserve"
        /\ \E o \in Output(Reached(p)) : out'[p] = o
    BY <1>4 DEF AdapterReturns, TypeInv, TypeOK
  <2> QED
    BY <2>1 DEF Output, Settled
<1>5. CASE PreserveOutput(p)
  <2>1. pc[p] = "preserve" /\ pc'[p] \in {"preserve", "log"} /\ out' = out
    BY <1>5 DEF PreserveOutput, Write, local, TypeInv, TypeOK
  <2> QED
    BY <2>1 DEF KeptInv
<1>6. CASE WriteLogs(p)
  <2>1. /\ pc[p] = "log" /\ out' = out /\ run' = run /\ next' = next
        /\ Reached(p)' = Reached(p) /\ Settled(out[p])
    BY <1>6 DEF WriteLogs, local, Reached, KeptInv
  <2>2. Log(Reached(p)) \in FileNames /\ run[p] \in RunIds /\ Sound({}) \in Content
    BY <2>1, ReachedFamily, FileNameMembers, ContentMembers
       DEF FamilyPcs, OwningPcs, Live, RunnerPcs
  <2>3. \/ pc'[p] = "log"
        \/ pc'[p] = "validate" /\ disk'[run[p]][Log(Reached(p))] \in {Sound({}), Garbled}
    BY <1>6, <2>1, <2>2, WriteEffect DEF WriteLogs
  <2> QED
    BY <2>1, <2>3 DEF Settled, Sound, Garbled
<1>7. CASE ValidateOutput(p)
  <2>1. /\ pc[p] = "validate" /\ pc'[p] \in {"bundle", "diagnose", "aborted"}
        /\ UNCHANGED <<disk, out, run, next>> /\ Reached(p)' = Reached(p)
    BY <1>7, PcSets DEF ValidateOutput, local, Reached, TypeInv, TypeOK
  <2> QED
    BY <2>1 DEF KeptInv
<1>8. CASE WriteBundle(p)
  <2>1. /\ pc[p] = "bundle" /\ out' = out /\ run' = run /\ next' = next
        /\ Reached(p)' = Reached(p)
        /\ Settled(out[p]) /\ Settled(disk[run[p]][Log(Reached(p))])
    BY <1>8 DEF WriteBundle, local, Reached, KeptInv
  <2>2. /\ Bundle(Reached(p)) \in FileNames /\ run[p] \in RunIds /\ out[p] \in Content
        /\ Log(Reached(p)) \in FileNames \ {Bundle(Reached(p))}
    BY <2>1, ReachedFamily, FileNameMembers, LogsAreNoSummaries
       DEF FamilyPcs, OwningPcs, Live, RunnerPcs, TypeInv, TypeOK
  <2>3. /\ pc'[p] \in {"bundle", "relog"}
        /\ disk'[run[p]][Log(Reached(p))] = disk[run[p]][Log(Reached(p))]
    BY <1>8, <2>1, <2>2, WriteEffect DEF WriteBundle
  <2> QED
    BY <2>1, <2>3
<1>9. CASE WriteDiagnostic(p)
  <2>1. pc[p] = "diagnose" /\ run' = run
    BY <1>9 DEF WriteDiagnostic
  <2>2. run[p] \in RunIds
    BY <2>1 DEF OwningPcs, Live, RunnerPcs
  <2>3. \/ pc'[p] = "diagnose"
        \/ pc'[p] = "failed" /\ disk'[run[p]][Diagnostic] \in {Sound({}), Garbled}
    BY <1>9, <2>1, <2>2, WriteEffect, FileNameMembers, ContentMembers DEF WriteDiagnostic
  <2> QED
    BY <2>1, <2>2, <2>3 DEF Settled, Sound, Garbled
<1> QED
  BY <1>1, <1>2, <1>3, <1>4, <1>5, <1>6, <1>7, <1>8, <1>9 DEF Steps, Progress, AdapterStep

LEMMA KeptInvStep == TypeInv /\ OwnInv /\ KeptInv /\ [Next]_vars => KeptInv'
<1> SUFFICES ASSUME TypeInv, OwnInv, KeptInv, [Next]_vars PROVE KeptInv'
  OBVIOUS
<1>1. CASE UNCHANGED vars
  BY <1>1 DEF vars, KeptInv, FailedIsDiagnosed, Reached
<1>2. ASSUME NEW p \in Procs, Steps(p) PROVE KeptInv'
  BY <1>2, OthersKept, OwnKept DEF KeptInv, FailedIsDiagnosed
<1> QED
  BY <1>1, <1>2, NextIsSteps DEF AllEnded

\* No output of any adapter, however runners, reports, faults and kills fall, is
\* parsed, validated or bundled before the run directory holds it and its logs.
THEOREM OutputIsKeptFirst == Spec => []JudgedIsKept
<1>1. BundleInv /\ KeptInv => JudgedIsKept
  BY DEF BundleInv, PositionInv, KeptInv, JudgedIsKept
<1> QED
  BY TypeInvInit, TypeInvStep, OwnInvInit, OwnInvStep, FreshInvInit, FreshInvStep,
     BundleInvInit, BundleInvStep, KeptInvInit, KeptInvStep, <1>1, PTL DEF Spec

\* A run that ended in the except clause of benchmark leaves its diagnostic, and
\* nothing that happens later takes it away.
THEOREM FailuresLeaveDiagnostics == Spec => []FailedIsDiagnosed
<1>1. KeptInv => FailedIsDiagnosed
  BY DEF KeptInv
<1> QED
  BY TypeInvInit, TypeInvStep, OwnInvInit, OwnInvStep, KeptInvInit, KeptInvStep, <1>1,
     PTL DEF Spec

(***************************************************************************)
(* The first adapter that fails ends the run.                              *)
(***************************************************************************)
Before(i) == {Implementations[j] : j \in 1 .. (i - 1)}

\* What a runner has behind it.
BehindInv(p) ==
    /\ pc[p] \in {"start", "mkdir", "manifest", "config", "host"} => next[p] = 1
    /\ pc[p] \in {"select"} \cup FamilyPcs =>
           Before(next[p]) \cap req[p] \subseteq BundlesOf(run[p])
    /\ pc[p] = "relog" => Reached(p) \in BundlesOf(run[p])

OrderInv ==
    /\ \A p \in Runners : BehindInv(p)
    /\ NoAdapterSkipped

LEMMA BeforeGrows ==
    /\ Before(1) = {}
    /\ \A i \in 1 .. Len(Implementations) :
           Before(i + 1) = Before(i) \cup {Implementations[i]}
    /\ Before(Len(Implementations) + 1) = Families
<1>1. Len(Implementations) \in Nat
  BY ConstantsAssumption
<1>2. Before(1) = {}
  BY DEF Before
<1>3. ASSUME NEW i \in 1 .. Len(Implementations)
      PROVE  Before(i + 1) = Before(i) \cup {Implementations[i]}
  <2>1. \A j : j \in 1 .. ((i + 1) - 1) <=> j \in 1 .. (i - 1) \/ j = i
    BY <1>1
  <2> QED
    BY <2>1 DEF Before
<1>4. Before(Len(Implementations) + 1) = Families
  <2>1. 1 .. ((Len(Implementations) + 1) - 1) = 1 .. Len(Implementations)
    BY <1>1
  <2> QED
    BY <2>1, ConstantsAssumption DEF Before
<1> QED
  BY <1>2, <1>3, <1>4

LEMMA OrderInvInit == Init => OrderInv
<1> SUFFICES ASSUME Init PROVE OrderInv
  OBVIOUS
<1>1. \A p \in Runners : pc[p] = "start" /\ next[p] = 1 /\ run[p] = NoRun
  BY RunnersAreProcs DEF Init
<1> QED
  BY <1>1 DEF OrderInv, BehindInv, NoAdapterSkipped, FamilyPcs

LEMMA OthersBehind ==
    ASSUME TypeInv, OwnInv, FreshInv, OrderInv, NEW p \in Procs, Steps(p),
           NEW q \in Runners \ {p}
    PROVE  BehindInv(q)'
<1>1. /\ pc'[q] = pc[q] /\ next'[q] = next[q] /\ req'[q] = req[q] /\ run'[q] = run[q]
      /\ BehindInv(q)
  BY OthersFrame, RunnersAreProcs DEF OrderInv
<1>2. CASE pc[q] \in {"select"} \cup FamilyPcs
  <2>1. run[q] \in RunIds
    BY <1>2, RunnersAreProcs
       DEF OwnInv, TypeInv, TypeOK, OwningPcs, Live, RunnerPcs, FamilyPcs
  <2>2. \A f \in Families : Settled(disk[run[q]][Bundle(f)]) =>
                              Settled(disk'[run[q]][Bundle(f)])
    BY <2>1, BundlesStay DEF BundlesOf
  <2>3. Before(next[q])' = Before(next[q]) /\ Reached(q)' = Reached(q)
    BY <1>1 DEF Before, Reached
  <2> QED
    BY <1>1, <1>2, <2>2, <2>3 DEF BehindInv, BundlesOf, FamilyPcs
<1>3. CASE pc[q] \notin {"select"} \cup FamilyPcs
  BY <1>1, <1>3 DEF BehindInv, FamilyPcs
<1> QED
  BY <1>2, <1>3

LEMMA OwnBehind ==
    ASSUME TypeInv, OwnInv, FreshInv, BundleInv, OrderInv, NEW p \in Runners, Steps(p)
    PROVE  BehindInv(p)'
<1>0. /\ p \in Procs /\ p \notin Reporters
      /\ BehindInv(p)
      /\ Len(Implementations) \in Nat
      /\ next[p] \in 1 .. (Len(Implementations) + 1)
      /\ pc[p] \in {"select"} \cup FamilyPcs => run[p] \in RunIds
  BY RunnersAreProcs, ConstantsAssumption
     DEF OrderInv, TypeInv, TypeOK, OwnInv, OwningPcs, Live, RunnerPcs, FamilyPcs
<1> USE <1>0
\* What a step that keeps the runner's directory keeps of its bundles.
<1>1. pc[p] \in {"select"} \cup FamilyPcs =>
          \A f \in Families : Settled(disk[run[p]][Bundle(f)]) =>
                               Settled(disk'[run[p]][Bundle(f)])
  BY BundlesStay DEF BundlesOf
<1>2. CASE pc'[p] \in {"start", "mkdir", "manifest", "config", "host"}
  <2>1. pc[p] \in {"start", "mkdir", "manifest", "config", "host"} /\ next'[p] = next[p]
    <3>1. CASE StartStep(p) \/ Mkdir(p)
      BY <3>1 DEF StartStep, RejectArguments, StartBenchmark, StartReport, Mkdir, local, Goto
    <3>2. CASE WriteManifest(p) \/ WriteConfig(p) \/ WriteHost(p)
      BY <3>2 DEF WriteManifest, WriteConfig, WriteHost, local
    <3>3. CASE DiskFault(p) \/ Kill(p) \/ AdapterStep(p)
      BY <1>2, <3>3, PcSets DEF DiskFault, Kill, AdapterStep, AdapterUnavailable,
                  AdapterFails, AdapterReturns, Goto, TypeInv, TypeOK
    <3>4. CASE SelectFamily(p) \/ ValidateOutput(p) \/ GlobBundles(p) \/ ReadBundles(p)
      BY <1>2, <3>4, PcSets DEF SelectFamily, ValidateOutput, GlobBundles, ReadBundles, Goto,
                  TypeInv, TypeOK
    <3>5. CASE PreserveOutput(p) \/ WriteLogs(p) \/ WriteBundle(p) \/ RewriteLogs(p)
               \/ WriteDiagnostic(p) \/ WriteSummaryJson(p) \/ WriteSummaryMarkdown(p)
      BY <1>2, <3>5 DEF PreserveOutput, WriteLogs, WriteBundle, RewriteLogs, WriteDiagnostic,
                  WriteSummaryJson, WriteSummaryMarkdown, Write, Goto, TypeInv, TypeOK
    <3> QED
      BY <3>1, <3>2, <3>3, <3>4, <3>5 DEF Steps, Progress
  <2> QED
    BY <1>2, <2>1 DEF BehindInv, FamilyPcs
<1>3. CASE pc'[p] \in {"select"} \cup FamilyPcs
  <2>1. \/ WriteHost(p) \/ SelectFamily(p) \/ AdapterReturns(p) \/ PreserveOutput(p)
        \/ WriteLogs(p) \/ ValidateOutput(p) \/ WriteBundle(p) \/ RewriteLogs(p)
    <3>1. CASE StartStep(p) \/ Mkdir(p)
      BY <1>3, <3>1 DEF StartStep, RejectArguments, StartBenchmark, StartReport, Mkdir, Goto,
                  FamilyPcs, TypeInv, TypeOK
    <3>2. CASE WriteManifest(p) \/ WriteConfig(p)
      BY <1>3, <3>2 DEF WriteManifest, WriteConfig, Write, Goto, FamilyPcs, TypeInv, TypeOK
    <3>3. CASE DiskFault(p) \/ Kill(p) \/ AdapterUnavailable(p) \/ AdapterFails(p)
      BY <1>3, <3>3, PcSets DEF DiskFault, Kill, AdapterUnavailable, AdapterFails, Goto,
                  FamilyPcs, TypeInv, TypeOK
    <3>4. CASE GlobBundles(p) \/ ReadBundles(p)
      BY <1>3, <3>4, PcSets DEF GlobBundles, ReadBundles, Goto, FamilyPcs, TypeInv, TypeOK
    <3>5. CASE WriteDiagnostic(p) \/ WriteSummaryJson(p) \/ WriteSummaryMarkdown(p)
      BY <1>3, <3>5 DEF WriteDiagnostic, WriteSummaryJson, WriteSummaryMarkdown, Write, Goto,
                  FamilyPcs, TypeInv, TypeOK
    <3> QED
      BY <3>1, <3>2, <3>3, <3>4, <3>5 DEF Steps, Progress, AdapterStep
  <2>2. CASE WriteHost(p)
    <3>1. pc[p] = "host" /\ next' = next /\ pc'[p] # "relog"
      BY <2>2 DEF WriteHost, Write, Goto, local, TypeInv, TypeOK
    <3>2. Before(next[p])' = {}
      BY <3>1, BeforeGrows DEF BehindInv, Before
    <3> QED
      BY <1>3, <3>1, <3>2 DEF BehindInv, FamilyPcs
  <2>3. CASE /\ SelectFamily(p) \/ AdapterReturns(p) \/ PreserveOutput(p) \/ WriteLogs(p)
                \/ ValidateOutput(p)
             /\ next' = next
    <3>1. /\ UNCHANGED <<run, req>> /\ pc[p] \in {"select"} \cup FamilyPcs
          /\ pc'[p] # "relog"
      BY <2>3, PcSets
         DEF SelectFamily, AdapterReturns, PreserveOutput, WriteLogs, ValidateOutput, Write,
             Goto, local, FamilyPcs, TypeInv, TypeOK
    <3>2. Before(next[p])' = Before(next[p])
      BY <2>3 DEF Before
    <3> QED
      BY <1>1, <1>3, <3>1, <3>2 DEF BehindInv, FamilyPcs, BundlesOf
  <2>4. CASE SelectFamily(p) /\ next' # next
    <3>1. /\ UNCHANGED <<run, req>> /\ pc[p] = "select" /\ pc'[p] = "select"
          /\ next[p] \in 1 .. Len(Implementations) /\ next'[p] = next[p] + 1
          /\ Implementations[next[p]] \notin req[p]
      BY <2>4 DEF SelectFamily, Reached, TypeInv, TypeOK
    <3>2. Before(next[p])' = Before(next[p]) \cup {Implementations[next[p]]}
      <4>1. Before(next[p] + 1) = Before(next[p]) \cup {Implementations[next[p]]}
        BY <3>1, BeforeGrows
      <4>2. Before(next[p])' = Before(next[p] + 1)
        BY <3>1 DEF Before
      <4> QED
        BY <4>1, <4>2
    <3> QED
      BY <1>1, <3>1, <3>2 DEF BehindInv, FamilyPcs, BundlesOf
  <2>5. CASE WriteBundle(p)
    <3>1. /\ UNCHANGED <<run, req, next>> /\ pc[p] = "bundle"
          /\ Write(p, Bundle(Reached(p)), out[p], "relog")
      BY <2>5 DEF WriteBundle, local
    <3>2. /\ Reached(p) \in Families /\ out[p] \in Content /\ run[p] \in RunIds
      BY <3>1, ReachedFamily DEF FamilyPcs, TypeInv, TypeOK
    <3>3. pc'[p] = "relog" => Settled(disk'[run[p]][Bundle(Reached(p))])
      <4>1. PositionInv(p)
        BY DEF BundleInv
      <4>2. pc'[p] = "relog" => disk'[run[p]][Bundle(Reached(p))] = out[p] /\ IsSound(out[p])
        BY <3>1, <3>2, <4>1, WriteEffect, FileNameMembers DEF PositionInv
      <4> QED
        BY <4>2 DEF Settled, IsSound
    <3>4. Before(next[p])' = Before(next[p]) /\ Reached(p)' = Reached(p)
      BY <3>1 DEF Before, Reached
    <3> QED
      BY <1>1, <1>3, <3>1, <3>2, <3>3, <3>4 DEF BehindInv, FamilyPcs, BundlesOf
  <2>6. CASE RewriteLogs(p)
    <3>1. /\ UNCHANGED <<run, req>> /\ pc[p] = "relog"
          /\ \/ pc'[p] = "relog" /\ next' = next
             \/ /\ pc'[p] = "select" /\ next'[p] = next[p] + 1
                /\ next[p] \in 1 .. Len(Implementations)
      BY <2>6, ReachedFamily DEF RewriteLogs, Write, Goto, FamilyPcs, TypeInv, TypeOK
    <3>2. CASE pc'[p] = "relog" /\ next' = next
      <4>1. Before(next[p])' = Before(next[p]) /\ Reached(p)' = Reached(p)
        BY <3>2 DEF Before, Reached
      <4> QED
        BY <1>1, <3>1, <3>2, <4>1 DEF BehindInv, FamilyPcs, BundlesOf
    <3>3. CASE /\ pc'[p] = "select" /\ next'[p] = next[p] + 1
               /\ next[p] \in 1 .. Len(Implementations)
      <4>1. Before(next[p] + 1) = Before(next[p]) \cup {Reached(p)}
        BY <3>3, BeforeGrows DEF Reached
      <4>2. Before(next[p])' = Before(next[p] + 1)
        BY <3>3 DEF Before
      <4> QED
        BY <1>1, <3>1, <3>3, <4>1, <4>2 DEF BehindInv, FamilyPcs, BundlesOf
    <3> QED
      BY <3>1, <3>2, <3>3
  <2>7. AdapterReturns(p) \/ PreserveOutput(p) \/ WriteLogs(p) \/ ValidateOutput(p) =>
            next' = next
    BY DEF AdapterReturns, PreserveOutput, WriteLogs, ValidateOutput, local
  <2> QED
    BY <2>1, <2>2, <2>3, <2>4, <2>5, <2>6, <2>7
<1> QED
  BY <1>2, <1>3 DEF BehindInv, FamilyPcs

\* A runner comes to the report from its last family, with nothing before it missing.
LEMMA ReachesReport ==
    ASSUME TypeInv, OwnInv, OrderInv, NEW p \in Runners, Steps(p),
           pc'[p] \in PublishPcs \cup {"done"}
    PROVE  /\ UNCHANGED <<run, req>>
           /\ \/ pc[p] \in PublishPcs
              \/ Families \cap req[p] \subseteq BundlesOf(run[p])
<1>0. p \in Procs /\ p \notin Reporters /\ Len(Implementations) \in Nat
  BY RunnersAreProcs, ConstantsAssumption
<1>1. CASE StartStep(p) \/ Mkdir(p)
  BY <1>0, <1>1 DEF StartStep, RejectArguments, StartBenchmark, StartReport, Mkdir, Goto,
                    PublishPcs, TypeInv, TypeOK
<1>2. CASE SelectFamily(p)
  <2>1. /\ UNCHANGED <<run, req>> /\ pc[p] = "select"
        /\ next[p] > Len(Implementations)
    BY <1>0, <1>2 DEF SelectFamily, Goto, PublishPcs, TypeInv, TypeOK
  <2>2. next[p] = Len(Implementations) + 1
    BY <1>0, <2>1 DEF TypeInv, TypeOK
  <2> QED
    BY <2>1, <2>2, BeforeGrows DEF OrderInv, BehindInv
<1>3. CASE WriteManifest(p) \/ WriteConfig(p) \/ WriteHost(p) \/ PreserveOutput(p)
           \/ WriteLogs(p) \/ WriteBundle(p) \/ RewriteLogs(p) \/ WriteDiagnostic(p)
  BY <1>0, <1>3 DEF WriteManifest, WriteConfig, WriteHost, PreserveOutput, WriteLogs,
                    WriteBundle, RewriteLogs, WriteDiagnostic, Write, Goto, PublishPcs,
                    TypeInv, TypeOK
<1>4. CASE AdapterStep(p) \/ ValidateOutput(p) \/ DiskFault(p) \/ Kill(p)
  BY <1>0, <1>4, PcSets DEF AdapterStep, AdapterUnavailable, AdapterFails, AdapterReturns,
                    ValidateOutput, DiskFault, Kill, Goto, PublishPcs, TypeInv, TypeOK
<1>5. CASE GlobBundles(p) \/ ReadBundles(p) \/ WriteSummaryJson(p)
           \/ WriteSummaryMarkdown(p)
  BY <1>5 DEF GlobBundles, ReadBundles, WriteSummaryJson, WriteSummaryMarkdown, local,
              PublishPcs
<1> QED
  BY <1>1, <1>2, <1>3, <1>4, <1>5 DEF Steps, Progress

LEMMA OrderInvStep ==
    TypeInv /\ OwnInv /\ FreshInv /\ BundleInv /\ OrderInv /\ [Next]_vars => OrderInv'
<1> SUFFICES ASSUME TypeInv, OwnInv, FreshInv, BundleInv, OrderInv, [Next]_vars
             PROVE  OrderInv'
  OBVIOUS
<1>1. CASE UNCHANGED vars
  BY <1>1 DEF vars, OrderInv, BehindInv, Before, Reached, NoAdapterSkipped, BundlesOf
<1>2. ASSUME NEW p \in Procs, Steps(p) PROVE OrderInv'
  <2>1. \A q \in Runners : BehindInv(q)'
    BY <1>2, OthersBehind, OwnBehind
  <2>2. \A i \in 1 .. Len(Implementations) : Implementations[i] \in Families
    BY ConstantsAssumption
  <2>3. NoAdapterSkipped'
    <3> SUFFICES ASSUME NEW q \in Runners, run'[q] # NoRun,
                        NEW i \in 1 .. Len(Implementations),
                        \/ Present(disk'[run'[q]][Bundle(Implementations[i])])
                        \/ pc'[q] \in PublishPcs \cup {"done"},
                        NEW j \in 1 .. Len(Implementations),
                        j < i \/ pc'[q] \in PublishPcs \cup {"done"},
                        Implementations[j] \in req'[q]
                 PROVE  Settled(disk'[run'[q]][Bundle(Implementations[j])])
      BY <2>2 DEF NoAdapterSkipped, BundlesOf
    <3>0. /\ q \in Procs /\ q \notin Reporters
          /\ Implementations[i] \in Families /\ Implementations[j] \in Families
          /\ Len(Implementations) \in Nat
          /\ run'[q] \in RunIds
      <4>1. TypeOK'
        BY TypeInvStep DEF TypeInv
      <4>2. run'[q] \in RunIds
        BY <4>1, RunnersAreProcs DEF TypeOK
      <4> QED
        BY <2>2, <4>2, RunnersAreProcs, ConstantsAssumption
    <3>1. CASE run'[q] # run[q]
      <4>1. /\ q = p /\ Allocates(p)
        BY <1>2, <3>0, <3>1, StepShapes, OthersFrame, ConstantsAssumption
           DEF Steps, Moves, Allocates, Attaches
      <4>2. run'[q] \in RunIds \ dirs /\ pc'[q] = "manifest" /\ UNCHANGED disk
        <5>1. UNCHANGED disk
          BY <1>2, <4>1, EvidenceStep
             DEF Steps, Keeps, WritesFile, Allocates, OwningPcs, Live
        <5> QED
          BY <3>0, <4>1, <5>1 DEF Allocates, TypeInv, TypeOK
      <4>3. disk'[run'[q]][Bundle(Implementations[i])] = Absent
        BY <3>0, <4>2, FileNameMembers DEF BundleInv
      <4> QED
        BY <4>2, <4>3 DEF Present, Absent, PublishPcs
    <3>2. CASE run'[q] = run[q]
      <4>1. req'[q] = req[q]
        <5>1. CASE q = p
          <6>1. pc[p] # "start"
            BY <3>2, <5>1 DEF OwnInv
          <6> QED
            BY <1>2, <5>1, <6>1
               DEF Steps, StartStep, RejectArguments, StartBenchmark, StartReport, Progress,
                   AdapterStep, Mkdir, WriteManifest, WriteConfig, WriteHost, SelectFamily,
                   AdapterUnavailable, AdapterFails, AdapterReturns, PreserveOutput,
                   WriteLogs, ValidateOutput, WriteBundle, RewriteLogs, WriteDiagnostic,
                   GlobBundles, ReadBundles, WriteSummaryJson, WriteSummaryMarkdown,
                   DiskFault, Kill, local
        <5> QED
          BY <1>2, <3>0, <5>1, OthersFrame
      <4>2. SUFFICES Settled(disk[run[q]][Bundle(Implementations[j])])
        BY <1>2, <3>0, <3>2, BundlesStay DEF BundlesOf
      <4>3. CASE pc'[q] \in PublishPcs \cup {"done"}
        <5>1. \/ pc[q] \in PublishPcs \cup {"done"}
              \/ Families \cap req[q] \subseteq BundlesOf(run[q])
          BY <1>2, <3>0, <4>3, ReachesReport, OthersFrame
        <5> QED
          BY <3>0, <3>2, <4>1, <5>1 DEF OrderInv, NoAdapterSkipped, BundlesOf
      <4>4. CASE pc'[q] \notin PublishPcs \cup {"done"}
        <5>1. j < i /\ Present(disk'[run[q]][Bundle(Implementations[i])])
          BY <3>2, <4>4
        <5>2. CASE Present(disk[run[q]][Bundle(Implementations[i])])
          BY <3>0, <3>2, <4>1, <5>1, <5>2 DEF OrderInv, NoAdapterSkipped, BundlesOf
        <5>3. CASE ~Present(disk[run[q]][Bundle(Implementations[i])])
          <6>1. /\ p \in Runners /\ run[p] = run[q]
                /\ Implementations[i] = Reached(p) /\ WriteBundle(p)
            BY <1>2, <3>0, <3>2, <5>1, <5>3, FamilyFileChange, NamesDiffer
          <6>2. q = p
            BY <3>2, <6>1 DEF OwnInv, DistinctRuns
          <6>3. next[p] = i /\ pc[p] = "bundle"
            <7>1. pc[p] = "bundle"
              BY <6>1 DEF WriteBundle
            <7>2. next[p] \in 1 .. Len(Implementations)
              BY <3>0, <6>2, <7>1, ReachedFamily DEF FamilyPcs
            <7> QED
              BY <6>1, <7>1, <7>2, ConstantsAssumption DEF Reached
          <6>4. Implementations[j] \in Before(next[p])
            BY <3>0, <5>1, <6>3 DEF Before
          <6> QED
            BY <4>1, <6>2, <6>3, <6>4 DEF OrderInv, BehindInv, FamilyPcs, BundlesOf
        <5> QED
          BY <5>2, <5>3
      <4> QED
        BY <4>3, <4>4
    <3> QED
      BY <3>1, <3>2
  <2> QED
    BY <2>1, <2>3 DEF OrderInv
<1> QED
  BY <1>1, <1>2, NextIsSteps DEF AllEnded

\* A runner that has a bundle, or has come to its report, has a settled bundle
\* of every family requested before: the first adapter that fails ends the run.
THEOREM NoFamilyIsSkipped == Spec => []NoAdapterSkipped
<1>1. OrderInv => NoAdapterSkipped
  BY DEF OrderInv
<1> QED
  BY TypeInvInit, TypeInvStep, OwnInvInit, OwnInvStep, FreshInvInit, FreshInvStep,
     BundleInvInit, BundleInvStep, OrderInvInit, OrderInvStep, <1>1, PTL DEF Spec

(***************************************************************************)
(* What a summary says.                                                    *)
(***************************************************************************)

\* Only a process that publishes changes a summary, and only to one of these.
LEMMA SummaryChange ==
    ASSUME TypeInv, OwnInv, NEW p \in Procs, Steps(p), NEW r \in RunIds, NEW n \in Summaries,
           disk'[r][n] # disk[r][n]
    PROVE  /\ r = run[p] /\ UNCHANGED <<dirs, run, view>>
           /\ \/ n = Json /\ WriteSummaryJson(p) /\ pc[p] = "json"
              \/ n = Markdown /\ WriteSummaryMarkdown(p) /\ pc[p] = "markdown"
           /\ \/ ~open[p] /\ disk'[r][n] = Torn
              \/ open[p] /\ disk'[r][n] \in Filled(disk[r][n], Sound(view[p]))
<1>1. n \in FileNames /\ n \notin Evidence /\ n # Diagnostic /\ \A f : n # Log(f)
  BY FileNameMembers, NamesDiffer
     DEF Summaries, Json, Markdown, Diagnostic, Log
<1>2. \A m \in FileNames : \A c, l : Write(p, m, c, l) =>
          /\ n = m /\ r = run[p]
          /\ \/ ~open[p] /\ disk'[r][n] = Torn
             \/ open[p] /\ disk'[r][n] \in Filled(disk[r][n], c)
  <2> SUFFICES ASSUME NEW m \in FileNames, NEW c, NEW l, Write(p, m, c, l)
               PROVE  /\ n = m /\ r = run[p]
                      /\ \/ ~open[p] /\ disk'[r][n] = Torn
                         \/ open[p] /\ disk'[r][n] \in Filled(disk[r][n], c)
    OBVIOUS
  <2>1. PICK text : /\ disk' = [disk EXCEPT ![run[p]][m] = text]
                    /\ \/ ~open[p] /\ text = Torn
                       \/ open[p] /\ text \in Filled(disk[run[p]][m], c)
    BY DEF Write
  <2>2. n = m /\ r = run[p]
    BY <1>1, <2>1 DEF TypeInv, TypeOK
  <2> QED
    BY <1>1, <2>1, <2>2 DEF TypeInv, TypeOK
<1>3. CASE WriteManifest(p) \/ WriteConfig(p) \/ WriteHost(p) \/ WriteDiagnostic(p)
  BY <1>1, <1>2, <1>3, FileNameMembers
     DEF WriteManifest, WriteConfig, WriteHost, WriteDiagnostic, Evidence
<1>4. CASE PreserveOutput(p) \/ WriteLogs(p) \/ WriteBundle(p) \/ RewriteLogs(p)
  <2>1. Reached(p) \in Families
    BY <1>4, ReachedFamily
       DEF PreserveOutput, WriteLogs, WriteBundle, RewriteLogs, FamilyPcs
  <2>2. Raw(Reached(p)) \in Evidence /\ Bundle(Reached(p)) \in Evidence
    BY <2>1 DEF Evidence
  <2> QED
    BY <1>1, <1>2, <1>4, <2>1, <2>2, FileNameMembers
       DEF PreserveOutput, WriteLogs, WriteBundle, RewriteLogs
<1>5. CASE WriteSummaryJson(p) \/ WriteSummaryMarkdown(p)
  BY <1>2, <1>5, FileNameMembers DEF WriteSummaryJson, WriteSummaryMarkdown, local
<1>6. UNCHANGED disk \/ WriteManifest(p) \/ WriteConfig(p) \/ WriteHost(p)
      \/ PreserveOutput(p) \/ WriteLogs(p) \/ WriteBundle(p) \/ RewriteLogs(p)
      \/ WriteDiagnostic(p) \/ WriteSummaryJson(p) \/ WriteSummaryMarkdown(p)
  BY DEF Steps, StartStep, Progress, AdapterStep, RejectArguments, StartBenchmark,
         StartReport, Mkdir, SelectFamily, AdapterUnavailable, AdapterFails,
         AdapterReturns, ValidateOutput, GlobBundles, ReadBundles, DiskFault, Kill
<1> QED
  BY <1>3, <1>4, <1>5, <1>6

\* How a process comes to write summaries.
LEMMA ViewStep ==
    ASSUME TypeInv, OwnInv, NEW p \in Procs, Steps(p), pc'[p] \in {"json", "markdown"}
    PROVE  /\ pc[p] \in PublishPcs /\ UNCHANGED <<run, dirs, view>>
           /\ \/ /\ pc[p] = "read" /\ ReadBundles(p)
                 /\ \A f \in view[p] : Settled(disk[run[p]][Bundle(f)])
              \/ pc[p] \in {"json", "markdown"}
<1>1. CASE StartStep(p) \/ Mkdir(p) \/ SelectFamily(p) \/ AdapterStep(p)
           \/ ValidateOutput(p) \/ GlobBundles(p) \/ DiskFault(p) \/ Kill(p)
  <2>1. pc'[p] \in {"rejected", "mkdir", "glob", "aborted", "manifest", "adapter", "select",
                    "preserve", "bundle", "diagnose", "read", "killed"}
    BY <1>1, PcSets DEF StartStep, RejectArguments, StartBenchmark, StartReport, Mkdir,
                SelectFamily, AdapterStep, AdapterUnavailable, AdapterFails, AdapterReturns,
                ValidateOutput, GlobBundles, DiskFault, Kill, Goto, TypeInv, TypeOK
  <2> QED
    BY <2>1
<1>2. CASE WriteManifest(p) \/ WriteConfig(p) \/ WriteHost(p) \/ PreserveOutput(p)
           \/ WriteLogs(p) \/ WriteBundle(p) \/ RewriteLogs(p) \/ WriteDiagnostic(p)
  BY <1>2 DEF WriteManifest, WriteConfig, WriteHost, PreserveOutput, WriteLogs, WriteBundle,
              RewriteLogs, WriteDiagnostic, Write, Goto, TypeInv, TypeOK
<1>3. CASE ReadBundles(p)
  BY <1>3, PcSets DEF ReadBundles, Goto, local, PublishPcs, TypeInv, TypeOK
<1>4. CASE WriteSummaryJson(p) \/ WriteSummaryMarkdown(p)
  BY <1>4 DEF WriteSummaryJson, WriteSummaryMarkdown, local, PublishPcs
<1> QED
  BY <1>1, <1>2, <1>3, <1>4 DEF Steps, Progress

\* A process that writes summaries has found every bundle it speaks of settled.
ViewInv == \A p \in Procs : pc[p] \in {"json", "markdown"} => view[p] \subseteq BundlesOf(run[p])

BackedInv == ViewInv /\ SummaryIsBacked

LEMMA BackedInvInit == Init => BackedInv
<1> SUFFICES ASSUME Init PROVE BackedInv
  OBVIOUS
<1>1. ViewInv
  BY DEF Init, ViewInv
<1>2. SummaryIsBacked
  <2>0. dirs = Archived
    BY DEF Init
  <2> SUFFICES ASSUME NEW r \in Archived, NEW n \in Summaries
               PROVE  /\ disk[r][n].rows = Families
                      /\ \A f \in Families : Settled(disk[r][Bundle(f)])
    BY <2>0 DEF SummaryIsBacked, BundlesOf
  <2>1. n \in FileNames /\ n # Diagnostic /\ r \in RunIds
    BY ConstantsAssumption DEF FileNames, Summaries, Json, Markdown, Diagnostic
  <2>2. ArchivedRun[n] = Sound(Families)
    BY <2>1 DEF ArchivedRun
  <2>3. \A f \in Families :
            /\ Bundle(f) \in FileNames /\ Bundle(f) # Diagnostic
            /\ Bundle(f) \notin Summaries
            /\ Bundle(f) \in Evidence \ {Manifest, Config, Host}
    BY FileNameMembers, NamesDiffer DEF Evidence, Summaries
  <2>4. \A f \in Families : ArchivedRun[Bundle(f)] = Sound({Bundle(f)[2]})
    BY <2>3 DEF ArchivedRun
  <2>5. disk[r] = ArchivedRun
    BY <2>1 DEF Init
  <2>6. /\ disk[r][n] = Sound(Families)
        /\ \A f \in Families : disk[r][Bundle(f)] = Sound({Bundle(f)[2]})
    BY <2>2, <2>4, <2>5
  <2>7. \A R : Settled(Sound(R)) /\ Sound(R).rows = R
    BY DEF Sound, Settled
  <2> QED
    BY <2>6, <2>7, Zenon
<1> QED
  BY <1>1, <1>2 DEF BackedInv

LEMMA BackedInvStep ==
    TypeInv /\ OwnInv /\ FreshInv /\ BundleInv /\ BackedInv /\ [Next]_vars => BackedInv'
<1> SUFFICES ASSUME TypeInv, OwnInv, FreshInv, BundleInv, BackedInv, [Next]_vars
             PROVE  BackedInv'
  OBVIOUS
<1>1. CASE UNCHANGED vars
  BY <1>1 DEF vars, BackedInv, ViewInv, SummaryIsBacked, BundlesOf
<1>2. ASSUME NEW p \in Procs, Steps(p) PROVE BackedInv'
  <2>1. \A r \in RunIds : \A f \in BundlesOf(r) : Settled(disk'[r][Bundle(f)])
    BY <1>2, BundlesStay DEF BundlesOf
  <2>2. ViewInv'
    <3> SUFFICES ASSUME NEW q \in Procs, pc'[q] \in {"json", "markdown"}, NEW f \in view'[q]
                 PROVE  f \in Families /\ Settled(disk'[run'[q]][Bundle(f)])
      BY DEF ViewInv, BundlesOf
    <3>1. /\ view'[q] = view[q] /\ run'[q] = run[q] /\ pc[q] \in PublishPcs
          /\ pc[q] \in {"json", "markdown"} \/ Settled(disk[run[q]][Bundle(f)])
      BY <1>2, ViewStep, OthersFrame DEF PublishPcs
    <3>2. f \in Families /\ run[q] \in RunIds
      BY <3>1 DEF TypeInv, TypeOK, OwnInv, OwningPcs, Live, PublishPcs
    <3>3. f \in BundlesOf(run[q])
      BY <3>1, <3>2 DEF BackedInv, ViewInv, BundlesOf
    <3> QED
      BY <2>1, <3>1, <3>2, <3>3
  <2>3. SummaryIsBacked'
    <3> SUFFICES ASSUME NEW r \in dirs', NEW n \in Summaries, IsSound(disk'[r][n]),
                        NEW f \in disk'[r][n].rows
                 PROVE  f \in Families /\ Settled(disk'[r][Bundle(f)])
      BY DEF SummaryIsBacked, BundlesOf
    <3>1. r \in RunIds /\ n \in FileNames
      BY <1>2, TypeInvStep DEF TypeInv, TypeOK, FileNames
    <3>2. CASE disk'[r][n] = disk[r][n]
      <4>1. r \in dirs
        BY <3>1, <3>2 DEF BundleInv, IsSound, Absent
      <4>2. f \in BundlesOf(r)
        BY <3>2, <4>1 DEF BackedInv, SummaryIsBacked
      <4> QED
        BY <2>1, <3>1, <4>2 DEF BundlesOf
    <3>3. CASE disk'[r][n] # disk[r][n]
      <4>1. /\ r = run[p] /\ pc[p] \in {"json", "markdown"}
            /\ \/ disk'[r][n] = Torn
               \/ disk'[r][n] \in Filled(disk[r][n], Sound(view[p]))
        BY <1>2, <3>1, <3>3, SummaryChange
      <4>2. f \in view[p]
        BY <4>1 DEF Filled, Torn, Garbled, Sound, IsSound
      <4>3. f \in BundlesOf(r)
        BY <4>1, <4>2 DEF BackedInv, ViewInv
      <4> QED
        BY <2>1, <3>1, <4>3 DEF BundlesOf
    <3> QED
      BY <3>2, <3>3
  <2> QED
    BY <2>2, <2>3 DEF BackedInv
<1> QED
  BY <1>1, <1>2, NextIsSteps DEF AllEnded

\* No report, whoever wrote it and whatever it overlapped with, speaks of a
\* family that has no settled bundle in its run.
THEOREM ReportsAreBacked == Spec => []SummaryIsBacked
<1>1. BackedInv => SummaryIsBacked
  BY DEF BackedInv
<1> QED
  BY TypeInvInit, TypeInvStep, OwnInvInit, OwnInvStep, FreshInvInit, FreshInvStep,
     BundleInvInit, BundleInvStep, BackedInvInit, BackedInvStep, <1>1, PTL DEF Spec

(***************************************************************************)
(* Once a run has ended, its summaries cover exactly its evidence.         *)
(***************************************************************************)

\* Nobody who did not wait for the end has looked at run r.
Quiet(r) == \A q \in Hasty : run[q] # r

\* Where a process is to add no evidence to its run: everything else a runner
\* does in its directory comes before it has published anything.
Measuring == RunnerPcs \ {"mkdir", "diagnose"}

\* A process that has not started has no run; one between truncating and filling
\* a summary has left it there.
OpenInv ==
    \A p \in Procs :
        /\ pc[p] = "start" => run[p] = NoRun
        /\ open[p] => pc[p] \in Writing
        /\ open[p] /\ pc[p] = "json" => Present(disk[run[p]][Json])
        /\ open[p] /\ pc[p] = "markdown" => Present(disk[run[p]][Markdown])

\* A reporter that waits works in a closed run only.
WaitInv == \A p \in Reporters \ Hasty : pc[p] \in PublishPcs => ~InProgress(run[p])

\* What a process has seen of a quiet run is what is there.
SeenInv ==
    \A p \in Procs : Quiet(run[p]) =>
        /\ pc[p] = "read" =>
              view[p] = {f \in Families : Present(disk[run[p]][Bundle(f)])}
        /\ pc[p] \in {"json", "markdown"} => view[p] = BundlesOf(run[p])

\* A quiet run has no summary while it is measured,
SilentInv ==
    \A p \in Runners : pc[p] \in Measuring /\ Quiet(run[p]) =>
        \A n \in Summaries : ~Settled(disk[run[p]][n])

\* and only exact ones ever.
ExactInv ==
    \A r \in dirs, n \in Summaries :
        Quiet(r) /\ Settled(disk[r][n]) => disk[r][n] = Sound(BundlesOf(r))

\* There is one way for a summary to be torn.
TornInv ==
    \A r \in RunIds, n \in Summaries : disk[r][n].kind = "torn" => disk[r][n] = Torn

MatchInv == OpenInv /\ WaitInv /\ SeenInv /\ SilentInv /\ ExactInv /\ TornInv

\* A process that has ended takes no step, and a run it worked in stays closed.
LEMMA ClosedStays ==
    ASSUME TypeInv, OwnInv, NEW p \in Procs, Steps(p), NEW r \in dirs, ~InProgress(r)
    PROVE  ~InProgress(r)'
<1> SUFFICES ASSUME NEW q \in Runners, run'[q] = r PROVE pc'[q] \in Ended
  BY DEF InProgress
<1>0. q \in Procs /\ q \notin Reporters /\ r \in RunIds
  BY RunnersAreProcs DEF TypeInv, TypeOK
<1>1. run[q] = r
  BY <1>0, StepShapes, OthersFrame DEF Steps, Moves, Allocates, Attaches, TypeInv, TypeOK
<1>2. pc[q] \in Ended
  BY <1>1 DEF InProgress
<1>3. q # p
  BY <1>2, StepShapes
     DEF Steps, Moves, Allocates, Attaches, Ended, OwningPcs, Live, RunnerPcs, PublishPcs
<1> QED
  BY <1>0, <1>2, <1>3, OthersFrame

LEMMA QuietBefore ==
    ASSUME TypeInv, OwnInv, MatchInv, NEW p \in Procs, Steps(p), NEW r \in RunIds, Quiet(r)'
    PROVE  Quiet(r)
<1> SUFFICES ASSUME NEW q \in Hasty, run[q] = r PROVE run'[q] = r
  BY DEF Quiet
<1>1. q \in Procs /\ q \in Reporters /\ q \notin Runners
  BY ConstantsAssumption DEF Procs
<1>2. pc[q] # "start"
  BY <1>1, ConstantsAssumption DEF MatchInv, OpenInv
<1> QED
  BY <1>1, <1>2, StepShapes, OthersFrame
     DEF Steps, Moves, Allocates, Attaches, TypeInv, TypeOK

\* Evidence about families is added to a run only by its runner, while it measures.
LEMMA FamilyFilesStay ==
    ASSUME TypeInv, OwnInv, FreshInv, MatchInv, NEW p \in Procs, Steps(p),
           NEW q \in Procs, pc[q] \in PublishPcs, Quiet(run[q]),
           NEW f \in Families
    PROVE  disk'[run[q]][Bundle(f)] = disk[run[q]][Bundle(f)]
<1> SUFFICES ASSUME disk'[run[q]][Bundle(f)] # disk[run[q]][Bundle(f)] PROVE FALSE
  OBVIOUS
<1>0. run[q] \in RunIds
  BY DEF OwnInv, OwningPcs, Live, PublishPcs, TypeInv, TypeOK
<1>1. p \in Runners /\ run[q] = run[p] /\ WriteBundle(p)
  BY <1>0, FamilyFileChange, NamesDiffer
<1>2. pc[p] = "bundle"
  BY <1>1 DEF WriteBundle
<1>3. q \notin Runners
  BY <1>0, <1>1, <1>2, ConstantsAssumption DEF OwnInv, DistinctRuns, PublishPcs
<1>4. q \in Reporters \ Hasty
  BY <1>3 DEF Procs, Quiet
<1>5. InProgress(run[q])
  BY <1>1, <1>2 DEF InProgress, Ended
<1> QED
  BY <1>4, <1>5 DEF MatchInv, WaitInv

LEMMA MatchInvInit == Init => MatchInv
<1> SUFFICES ASSUME Init PROVE MatchInv
  OBVIOUS
<1>1. \A p \in Procs : pc[p] = "start" /\ run[p] = NoRun /\ open[p] = FALSE
  BY DEF Init
<1>2. \A p \in Runners \cup Reporters : p \in Procs
  BY DEF Procs
<1>3. ASSUME NEW r \in dirs, NEW n \in Summaries PROVE disk[r][n] = Sound(BundlesOf(r))
  <2>1. r \in Archived /\ r \in RunIds
    BY <1>3, ConstantsAssumption DEF Init
  <2>2. n \in FileNames /\ n # Diagnostic
    BY DEF FileNames, Summaries, Json, Markdown, Diagnostic
  <2>3. \A f \in Families :
            /\ Bundle(f) \in FileNames /\ Bundle(f) # Diagnostic
            /\ Bundle(f) \notin Summaries
            /\ Bundle(f) \in Evidence \ {Manifest, Config, Host}
    BY FileNameMembers, NamesDiffer DEF Evidence, Summaries
  <2>4. disk[r] = ArchivedRun
    BY <2>1 DEF Init
  <2>5. /\ disk[r][n] = Sound(Families)
        /\ \A f \in Families : disk[r][Bundle(f)] = Sound({Bundle(f)[2]})
    BY <2>2, <2>3, <2>4 DEF ArchivedRun
  <2>6. \A R : Settled(Sound(R))
    BY DEF Sound, Settled
  <2>7. \A f \in Families : Settled(disk[r][Bundle(f)])
    BY <2>5, <2>6, Zenon
  <2>8. BundlesOf(r) = Families
    BY <2>7 DEF BundlesOf
  <2> QED
    BY <2>5, <2>8
<1> QED
  <2>1. TornInv
    <3> SUFFICES ASSUME NEW r \in RunIds, NEW n \in Summaries, disk[r][n].kind = "torn"
                 PROVE  FALSE
      BY DEF TornInv
    <3>1. n \in FileNames
      BY DEF FileNames
    <3>2. CASE r \in dirs
      <4>1. \A R : Sound(R).kind # "torn"
        BY DEF Sound
      <4> QED
        BY <1>3, <3>2, <4>1, Zenon
    <3>3. CASE r \notin dirs
      BY <3>1, <3>3 DEF Init, Absent
    <3> QED
      BY <3>2, <3>3
  <2> QED
    BY <1>1, <1>2, <1>3, <2>1
       DEF MatchInv, OpenInv, WaitInv, SeenInv, SilentInv, ExactInv, PublishPcs, Measuring,
           RunnerPcs

LEMMA OpenInvStep ==
    ASSUME TypeInv, OwnInv, FreshInv, BundleInv, MatchInv, NEW p \in Procs, Steps(p)
    PROVE  OpenInv'
<1> SUFFICES ASSUME NEW q \in Procs
             PROVE  /\ pc'[q] = "start" => run'[q] = NoRun
                    /\ open'[q] => pc'[q] \in Writing
                    /\ open'[q] /\ pc'[q] = "json" => Present(disk'[run'[q]][Json])
                    /\ open'[q] /\ pc'[q] = "markdown" => Present(disk'[run'[q]][Markdown])
  BY DEF OpenInv
<1>0. /\ pc[q] = "start" => run[q] = NoRun
      /\ open[q] => pc[q] \in Writing
      /\ open[q] /\ pc[q] = "json" => Present(disk[run[q]][Json])
      /\ open[q] /\ pc[q] = "markdown" => Present(disk[run[q]][Markdown])
      /\ pc[q] \in {"json", "markdown"} => run[q] \in RunIds
  BY DEF MatchInv, OpenInv, OwnInv, OwningPcs, Live, PublishPcs, TypeInv, TypeOK
\* Nobody removes a summary.
<1>1. \A n \in Summaries : pc[q] \in {"json", "markdown"} /\ Present(disk[run[q]][n]) =>
                              Present(disk'[run[q]][n])
  <2> SUFFICES ASSUME NEW n \in Summaries, pc[q] \in {"json", "markdown"},
                      disk'[run[q]][n] # disk[run[q]][n]
               PROVE  Present(disk'[run[q]][n])
    OBVIOUS
  <2>1. \/ disk'[run[q]][n] = Torn
        \/ disk'[run[q]][n] \in Filled(disk[run[q]][n], Sound(view[p]))
    BY <1>0, SummaryChange
  <2> QED
    BY <2>1 DEF Filled, Sound, Torn, Garbled, Present
<1>2. Json \in Summaries /\ Markdown \in Summaries
  BY DEF Summaries
<1>3. CASE q # p
  <2>1. pc'[q] = pc[q] /\ run'[q] = run[q] /\ open'[q] = open[q]
    BY <1>3, OthersFrame
  <2> QED
    BY <1>0, <1>1, <1>2, <2>1
<1>4. CASE q = p
  <2>1. CASE StartStep(p)
    <3>1. pc'[p] # "start" /\ open'[p] = open[p] /\ pc[p] = "start"
      BY <2>1 DEF StartStep, RejectArguments, StartBenchmark, StartReport, Goto, TypeInv, TypeOK
    <3> QED
      BY <1>0, <1>4, <3>1 DEF Writing
  <2>2. CASE Mkdir(p) \/ SelectFamily(p) \/ AdapterStep(p) \/ ValidateOutput(p)
             \/ GlobBundles(p) \/ ReadBundles(p)
    <3>1. /\ open'[p] = open[p] /\ pc[p] \notin Writing
          /\ pc'[p] # "start"
      BY <2>2, PcSets DEF Mkdir, SelectFamily, AdapterStep, AdapterUnavailable, AdapterFails,
                  AdapterReturns, ValidateOutput, GlobBundles, ReadBundles, Goto, Writing, local,
                  TypeInv, TypeOK
    <3> QED
      BY <1>0, <1>4, <3>1
  <2>3. CASE DiskFault(p) \/ Kill(p)
    BY <1>4, <2>3, PcSets DEF DiskFault, Kill, Goto, TypeInv, TypeOK
  <2>4. CASE WriteManifest(p) \/ WriteConfig(p) \/ WriteHost(p) \/ PreserveOutput(p)
             \/ WriteLogs(p) \/ WriteBundle(p) \/ RewriteLogs(p) \/ WriteDiagnostic(p)
    <3>1. /\ open'[p] => pc'[p] = pc[p]
          /\ pc[p] \in Writing \ {"json", "markdown"}
          /\ pc'[p] \notin {"start", "json", "markdown"}
      BY <2>4 DEF WriteManifest, WriteConfig, WriteHost, PreserveOutput, WriteLogs, WriteBundle,
                  RewriteLogs, WriteDiagnostic, Write, Goto, Writing, TypeInv, TypeOK
    <3> QED
      BY <1>4, <3>1
  <2>5. CASE WriteSummaryJson(p) \/ WriteSummaryMarkdown(p)
    <3>1. PICK n \in Summaries, l \in {"markdown", "done"} :
              /\ Write(p, n, Sound(view[p]), l)
              /\ \/ n = Json /\ pc[p] = "json"
                 \/ n = Markdown /\ pc[p] = "markdown"
              /\ UNCHANGED run
      BY <1>2, <2>5 DEF WriteSummaryJson, WriteSummaryMarkdown
    <3>2. Sound(view[p]) \in Content /\ n \in FileNames
      BY ContentMembers DEF TypeInv, TypeOK, FileNames
    <3>3. \/ pc'[p] = pc[p] /\ disk'[run[p]][n] = Torn
          \/ ~open'[p] /\ pc'[p] = l
      BY <1>0, <1>4, <3>1, <3>2, WriteEffect
    <3> QED
      BY <1>4, <3>1, <3>3 DEF Writing, Present, Torn
  <2> QED
    BY <2>1, <2>2, <2>3, <2>4, <2>5 DEF Steps, Progress
<1> QED
  BY <1>3, <1>4

LEMMA WaitInvStep ==
    ASSUME TypeInv, OwnInv, MatchInv, NEW p \in Procs, Steps(p)
    PROVE  WaitInv'
<1> SUFFICES ASSUME NEW q \in Reporters \ Hasty, pc'[q] \in PublishPcs
             PROVE  ~InProgress(run[q])'
  BY DEF WaitInv
<1>0. q \in Procs /\ q \notin Runners
  BY ConstantsAssumption DEF Procs
<1>1. CASE run'[q] = run[q] /\ pc[q] \in PublishPcs
  <2>1. run[q] \in dirs /\ ~InProgress(run[q])
    BY <1>0, <1>1 DEF MatchInv, WaitInv, OwnInv, OwningPcs, Live, PublishPcs
  <2>2. \A s \in Runners : run'[s] = run[q] => pc'[s] \in Ended
    BY <2>1, ClosedStays DEF InProgress
  <2> QED
    BY <1>1, <2>2 DEF InProgress
<1>2. CASE ~(run'[q] = run[q] /\ pc[q] \in PublishPcs)
  <2>1. q = p
    BY <1>0, <1>2, OthersFrame
  <2>2. StartReport(p)
    <3>1. CASE StartStep(p)
      BY <1>0, <2>1, <3>1 DEF StartStep, RejectArguments, StartBenchmark
    <3>2. CASE pc[p] \in {"start"} \cup PublishPcs /\ ~StartStep(p)
      BY <1>2, <2>1, <3>2
         DEF Steps, AdapterStep, Progress, AdapterUnavailable, AdapterFails, AdapterReturns,
             Mkdir, WriteManifest, WriteConfig, WriteHost, SelectFamily, PreserveOutput,
             WriteLogs, ValidateOutput, WriteBundle, RewriteLogs, WriteDiagnostic, GlobBundles,
             ReadBundles, WriteSummaryJson, WriteSummaryMarkdown, DiskFault, Kill, PublishPcs,
             Writing, Live, RunnerPcs, local
    <3>3. CASE pc[p] \notin {"start"} \cup PublishPcs
      <4>1. pc[p] \in Ended
        BY <1>0, <2>1, <3>3 DEF TypeInv, TypeOK, Live
      <4> QED
        BY <4>1, StepShapes DEF Steps, Moves, Allocates, Attaches, Ended, OwningPcs, Live,
                                RunnerPcs, PublishPcs
    <3> QED
      BY <3>1, <3>2, <3>3 DEF StartStep
  <2>3. PICK r \in RunIds : ~InProgress(r) /\ run' = [run EXCEPT ![p] = r]
    BY <2>1, <2>2 DEF StartReport
  <2>4. \A s \in Runners : run'[s] = run[s] /\ pc'[s] = pc[s]
    BY <1>0, <2>1, OthersFrame, RunnersAreProcs
  <2>5. run'[q] = r
    BY <1>0, <2>1, <2>3 DEF TypeInv, TypeOK
  <2> QED
    BY <2>3, <2>4, <2>5 DEF InProgress
<1> QED
  BY <1>1, <1>2

LEMMA SeenInvStep ==
    ASSUME TypeInv, OwnInv, FreshInv, MatchInv, NEW p \in Procs, Steps(p)
    PROVE  SeenInv'
<1> SUFFICES ASSUME NEW q \in Procs, \A h \in Hasty : run'[h] # run'[q]
             PROVE  /\ pc'[q] = "read" =>
                          view'[q] = {f \in Families : Present(disk'[run'[q]][Bundle(f)])}
                    /\ pc'[q] \in {"json", "markdown"} =>
                          view'[q] = {f \in Families : Settled(disk'[run'[q]][Bundle(f)])}
  BY DEF SeenInv, Quiet, BundlesOf
<1>1. CASE pc'[q] \in {"read", "json", "markdown"}
  <2>1. /\ pc[q] \in PublishPcs /\ run'[q] = run[q] /\ run[q] \in RunIds
        /\ pc'[q] = "read" =>
              \/ pc[q] = "read" /\ view'[q] = view[q]
              \/ view'[q] = {f \in Families : Present(disk[run[q]][Bundle(f)])}
        /\ pc'[q] \in {"json", "markdown"} =>
              /\ view'[q] = view[q]
              /\ \/ pc[q] \in {"json", "markdown"}
                 \/ /\ pc[q] = "read"
                    /\ \A f \in view[q] : Settled(disk[run[q]][Bundle(f)])
    <3>1. CASE q # p
      <4>1. pc'[q] = pc[q] /\ run'[q] = run[q] /\ view'[q] = view[q]
        BY <3>1, OthersFrame
      <4> QED
        BY <1>1, <4>1 DEF OwnInv, OwningPcs, Live, PublishPcs, TypeInv, TypeOK
    <3>2. CASE q = p /\ pc'[p] = "read"
      <4>1. GlobBundles(p)
        <5>1. CASE StartStep(p) \/ Mkdir(p) \/ SelectFamily(p) \/ AdapterStep(p)
                   \/ ValidateOutput(p) \/ ReadBundles(p) \/ DiskFault(p) \/ Kill(p)
          BY <3>2, <5>1, PcSets
             DEF StartStep, RejectArguments, StartBenchmark, StartReport, Mkdir, SelectFamily,
                 AdapterStep, AdapterUnavailable, AdapterFails, AdapterReturns,
                 ValidateOutput, ReadBundles, DiskFault, Kill, Goto, TypeInv, TypeOK
        <5>2. CASE WriteManifest(p) \/ WriteConfig(p) \/ WriteHost(p) \/ PreserveOutput(p)
                   \/ WriteLogs(p) \/ WriteBundle(p) \/ RewriteLogs(p) \/ WriteDiagnostic(p)
                   \/ WriteSummaryJson(p) \/ WriteSummaryMarkdown(p)
          BY <3>2, <5>2 DEF WriteManifest, WriteConfig, WriteHost, PreserveOutput, WriteLogs,
                 WriteBundle, RewriteLogs, WriteDiagnostic, WriteSummaryJson,
                 WriteSummaryMarkdown, Write, Goto, TypeInv, TypeOK
        <5> QED
          BY <5>1, <5>2 DEF Steps, Progress
      <4>2. pc[p] = "glob" /\ UNCHANGED run
        BY <4>1 DEF GlobBundles
      <4>3. view'[p] = {f \in Families : Present(disk[run[p]][Bundle(f)])}
        BY <3>2, <4>1, PcSets DEF GlobBundles, Goto, TypeInv, TypeOK
      <4> QED
        BY <3>2, <4>2, <4>3 DEF OwnInv, OwningPcs, Live, PublishPcs, TypeInv, TypeOK
    <3>3. CASE q = p /\ pc'[p] \in {"json", "markdown"}
      BY <3>3, ViewStep DEF OwnInv, OwningPcs, Live, PublishPcs, TypeInv, TypeOK
    <3> QED
      BY <1>1, <3>1, <3>2, <3>3
  <2>2. Quiet(run[q])
    <3>1. \A r \in RunIds : (\A h \in Hasty : run'[h] # r) => Quiet(r)
      BY QuietBefore DEF Quiet
    <3> QED
      BY <2>1, <3>1
  <2>3. \A f \in Families : disk'[run[q]][Bundle(f)] = disk[run[q]][Bundle(f)]
    BY <2>1, <2>2, FamilyFilesStay
  <2>4. /\ pc[q] = "read" =>
              view[q] = {f \in Families : Present(disk[run[q]][Bundle(f)])}
        /\ pc[q] \in {"json", "markdown"} =>
              view[q] = {f \in Families : Settled(disk[run[q]][Bundle(f)])}
    BY <2>2 DEF MatchInv, SeenInv, BundlesOf
  <2>5. \A c : Settled(c) => Present(c)
    BY DEF Settled, Present
  <2>6. CASE pc'[q] = "read"
    BY <2>1, <2>3, <2>4, <2>6
  <2>7. CASE pc'[q] \in {"json", "markdown"}
    <3>1. view'[q] = {f \in Families : Settled(disk[run[q]][Bundle(f)])}
      BY <2>1, <2>4, <2>5, <2>7
    <3> QED
      BY <2>1, <2>3, <2>7, <3>1
  <2> QED
    BY <1>1, <2>6, <2>7
<1> QED
  BY <1>1

LEMMA SilentInvStep ==
    ASSUME TypeInv, OwnInv, FreshInv, BundleInv, MatchInv, NEW p \in Procs, Steps(p)
    PROVE  SilentInv'
<1> SUFFICES ASSUME NEW q \in Runners, pc'[q] \in Measuring,
                    \A h \in Hasty : run'[h] # run'[q], NEW n \in Summaries
             PROVE  ~Settled(disk'[run'[q]][n])
  BY DEF SilentInv, Quiet
<1>0. q \in Procs /\ q \notin Reporters /\ n \in FileNames
  BY RunnersAreProcs DEF FileNames
<1>1. CASE q = p /\ Allocates(p)
  <2>1. run'[q] \in RunIds \ dirs
    BY <1>0, <1>1 DEF Allocates, TypeInv, TypeOK
  <2>2. UNCHANGED disk
    BY <1>1, EvidenceStep DEF Steps, Keeps, WritesFile, Allocates, OwningPcs, Live
  <2> QED
    BY <1>0, <2>1, <2>2 DEF BundleInv, Settled, Absent
<1>2. CASE ~(q = p /\ Allocates(p))
  <2>1. run'[q] = run[q] /\ pc[q] \in Measuring
    <3>1. CASE q # p
      BY <1>0, <3>1, OthersFrame
    <3>2. CASE q = p
      <4>1. Moves(p)
        BY <1>0, <1>2, <3>2, StepShapes DEF Steps, Attaches
      <4>2. pc[p] \in OwningPcs
        BY <3>2, <4>1 DEF Moves, Measuring, OwningPcs, Live, RunnerPcs, TypeInv, TypeOK
      <4>3. pc[p] \notin PublishPcs \cup {"diagnose"}
        BY <3>2, <4>2
           DEF Steps, StartStep, RejectArguments, StartBenchmark, StartReport, AdapterStep,
               Progress, AdapterUnavailable, AdapterFails, AdapterReturns, Mkdir,
               WriteManifest, WriteConfig, WriteHost, SelectFamily, PreserveOutput, WriteLogs,
               ValidateOutput, WriteBundle, RewriteLogs, WriteDiagnostic, GlobBundles,
               ReadBundles, WriteSummaryJson, WriteSummaryMarkdown, DiskFault, Kill, Write,
               OnError, Goto, Measuring, PublishPcs, RunnerPcs, TypeInv, TypeOK
      <4> QED
        BY <3>2, <4>1, <4>2, <4>3 DEF Moves, Measuring, OwningPcs, Live, PublishPcs, RunnerPcs
    <3> QED
      BY <3>1, <3>2
  <2>2. run[q] \in RunIds
    BY <1>0, <2>1
       DEF OwnInv, OwningPcs, Live, Measuring, RunnerPcs, TypeInv, TypeOK
  <2>3. Quiet(run[q])
    <3>1. \A r \in RunIds : (\A h \in Hasty : run'[h] # r) => Quiet(r)
      BY QuietBefore DEF Quiet
    <3> QED
      BY <2>1, <2>2, <3>1
  <2>4. ~Settled(disk[run[q]][n])
    BY <2>1, <2>3 DEF MatchInv, SilentInv
  <2>5. disk'[run[q]][n] = disk[run[q]][n]
    <3> SUFFICES ASSUME disk'[run[q]][n] # disk[run[q]][n] PROVE FALSE
      OBVIOUS
    <3>1. run[p] = run[q] /\ pc[p] \in PublishPcs
      BY <2>2, SummaryChange DEF PublishPcs
    <3>2. p \in Runners => p = q
      BY <2>2, <3>1, ConstantsAssumption DEF OwnInv, DistinctRuns
    <3>3. p \in Reporters \ Hasty
      BY <2>1, <2>3, <3>1, <3>2 DEF Procs, Quiet, PublishPcs, Measuring, RunnerPcs
    <3>4. InProgress(run[q])
      BY <2>1 DEF InProgress, Measuring, RunnerPcs, Ended
    <3> QED
      BY <3>1, <3>3, <3>4 DEF MatchInv, WaitInv
  <2> QED
    BY <2>1, <2>4, <2>5
<1> QED
  BY <1>1, <1>2

LEMMA ExactInvStep ==
    ASSUME TypeInv, OwnInv, FreshInv, BundleInv, MatchInv, NEW p \in Procs, Steps(p)
    PROVE  ExactInv'
<1> SUFFICES ASSUME NEW r \in dirs', NEW n \in Summaries, Settled(disk'[r][n]),
                    \A h \in Hasty : run'[h] # r
             PROVE  disk'[r][n] = Sound({f \in Families : Settled(disk'[r][Bundle(f)])})
  BY DEF ExactInv, Quiet, BundlesOf
<1> DEFINE Now == {f \in Families : Settled(disk[r][Bundle(f)])}
<1>1. r \in RunIds /\ n \in FileNames
  <2>1. [Next]_vars
    BY NextIsSteps
  <2>2. TypeOK'
    BY <2>1, TypeInvStep DEF TypeInv
  <2> QED
    BY <2>2 DEF TypeOK, FileNames
<1>2. Quiet(r)
  BY <1>1, QuietBefore DEF Quiet
<1>3. CASE disk'[r][n] # disk[r][n]
  <2>1. /\ r = run[p] /\ pc[p] \in {"json", "markdown"}
        /\ \/ n = Json /\ pc[p] = "json"
           \/ n = Markdown /\ pc[p] = "markdown"
        /\ \/ disk'[r][n] = Torn
           \/ open[p] /\ disk'[r][n] \in Filled(disk[r][n], Sound(view[p]))
    BY <1>1, <1>3, SummaryChange
  <2>2. view[p] = Now /\ r \in dirs
    BY <1>2, <2>1 DEF MatchInv, SeenInv, BundlesOf, OwnInv, OwningPcs, Live, PublishPcs
  <2>3. /\ open[p] /\ disk'[r][n] \in Filled(disk[r][n], Sound(Now))
        /\ Present(disk[r][n])
    BY <2>1, <2>2 DEF Settled, Torn, MatchInv, OpenInv
  <2>4. disk[r][n] = Torn \/ disk[r][n] = Sound(Now)
    <3>1. CASE Settled(disk[r][n])
      BY <1>2, <2>2, <3>1 DEF MatchInv, ExactInv, BundlesOf
    <3>2. CASE ~Settled(disk[r][n])
      <4>1. disk[r][n].kind = "torn"
        BY <2>3, <3>2 DEF Settled, Present
      <4> QED
        BY <1>1, <4>1 DEF MatchInv, TornInv
    <3> QED
      BY <3>1, <3>2
  <2>5. disk'[r][n] = Sound(Now)
    BY <2>3, <2>4 DEF Filled
  <2>6. \A f \in Families : disk'[r][Bundle(f)] = disk[r][Bundle(f)]
    BY <1>2, <2>1, FamilyFilesStay DEF PublishPcs
  <2> QED
    BY <2>5, <2>6
<1>4. CASE disk'[r][n] = disk[r][n]
  <2>1. r \in dirs
    BY <1>1, <1>4 DEF BundleInv, Settled, Absent
  <2>2. disk[r][n] = Sound(Now)
    BY <1>2, <1>4, <2>1 DEF MatchInv, ExactInv, BundlesOf
  <2>3. ASSUME NEW f \in Families PROVE disk'[r][Bundle(f)] = disk[r][Bundle(f)]
    <3> SUFFICES ASSUME disk'[r][Bundle(f)] # disk[r][Bundle(f)] PROVE FALSE
      OBVIOUS
    <3>1. p \in Runners /\ r = run[p] /\ WriteBundle(p)
      BY <1>1, FamilyFileChange, NamesDiffer
    <3>2. pc[p] \in Measuring
      BY <3>1 DEF WriteBundle, Measuring, RunnerPcs
    <3> QED
      BY <1>2, <1>4, <3>1, <3>2 DEF MatchInv, SilentInv
  <2> QED
    BY <1>4, <2>2, <2>3
<1> QED
  BY <1>3, <1>4

LEMMA TornInvStep ==
    ASSUME TypeInv, OwnInv, MatchInv, NEW p \in Procs, Steps(p)
    PROVE  TornInv'
<1> SUFFICES ASSUME NEW r \in RunIds, NEW n \in Summaries, disk'[r][n].kind = "torn"
             PROVE  disk'[r][n] = Torn
  BY DEF TornInv
<1>1. CASE disk'[r][n] = disk[r][n]
  BY <1>1 DEF MatchInv, TornInv
<1>2. CASE disk'[r][n] # disk[r][n]
  <2>1. \/ disk'[r][n] = Torn
        \/ disk'[r][n] \in Filled(disk[r][n], Sound(view[p]))
    BY <1>2, SummaryChange
  <2> QED
    BY <2>1 DEF Filled, Sound, Garbled
<1> QED
  BY <1>1, <1>2

LEMMA MatchInvStep ==
    TypeInv /\ OwnInv /\ FreshInv /\ BundleInv /\ MatchInv /\ [Next]_vars => MatchInv'
<1> SUFFICES ASSUME TypeInv, OwnInv, FreshInv, BundleInv, MatchInv, [Next]_vars
             PROVE  MatchInv'
  OBVIOUS
<1>1. CASE UNCHANGED vars
  BY <1>1 DEF vars, MatchInv, OpenInv, WaitInv, SeenInv, SilentInv, ExactInv, TornInv,
              Quiet, InProgress, BundlesOf
<1>2. ASSUME NEW p \in Procs, Steps(p) PROVE MatchInv'
  BY <1>2, OpenInvStep, WaitInvStep, SeenInvStep, SilentInvStep, ExactInvStep,
     TornInvStep DEF MatchInv
<1> QED
  BY <1>1, <1>2, NextIsSteps DEF AllEnded

\* Once a run has ended, its complete summaries cover exactly the evidence it
\* left, whoever wrote them and however often, unless somebody published a
\* report of it before the end: README, "rebuild derived JSON and Markdown".
THEOREM ReportsAreExact == Spec => []SummaryMatchesEvidence
<1>1. MatchInv => SummaryMatchesEvidence
  BY DEF MatchInv, ExactInv, Quiet, SummaryMatchesEvidence
<1> QED
  BY TypeInvInit, TypeInvStep, OwnInvInit, OwnInvStep, FreshInvInit, FreshInvStep,
     BundleInvInit, BundleInvStep, MatchInvInit, MatchInvStep, <1>1, PTL DEF Spec

--------------------------------------------------------------------------------
(***************************************************************************)
(* BenchmarkRuns implements RunArchive: every step of every process, with  *)
(* its faults, is a step of the abstract archive or changes nothing there. *)
(***************************************************************************)

\* The abstract archive a file tree with its processes stands for.
Status == [r \in RunIds |-> IF r \notin dirs THEN "free"
                            ELSE IF InProgress(r) THEN "open" ELSE "closed"]
Recorded == [r \in RunIds |-> BundlesOf(r)]
Published == [r \in RunIds |-> [n \in Summaries |->
                 IF IsSound(disk[r][n]) THEN {disk[r][n].rows} ELSE {}]]

\* The conjunction the refinement rests on.
ArchiveInv == TypeInv /\ OwnInv /\ FreshInv /\ BundleInv /\ BackedInv

LEMMA StatusOpens ==
    ASSUME TypeInv, OwnInv, NEW p \in Procs, Steps(p), Allocates(p)
    PROVE  /\ slot[p] \in RunIds /\ Status[slot[p]] = "free"
           /\ Status' = [Status EXCEPT ![slot[p]] = "open"]
<1>1. /\ p \in Runners /\ slot[p] \in RunIds \ dirs /\ run[p] = NoRun
      /\ dirs' = dirs \cup {slot[p]} /\ run'[p] = slot[p] /\ pc'[p] = "manifest"
  BY DEF Allocates, OwnInv, TypeInv, TypeOK
<1>2. \E q \in Runners : run'[q] = slot[p] /\ pc'[q] \notin Ended
  BY <1>1 DEF Ended
<1>3. ASSUME NEW r \in RunIds, r # slot[p]
      PROVE  /\ r \in dirs' <=> r \in dirs
             /\ (\E q \in Runners : run'[q] = r /\ pc'[q] \notin Ended) <=> InProgress(r)
  <2>1. \A q \in Runners \ {p} : run'[q] = run[q] /\ pc'[q] = pc[q]
    BY OthersFrame, RunnersAreProcs
  <2>2. run[p] # r /\ run'[p] # r
    BY <1>1, <1>3, ConstantsAssumption
  <2> QED
    BY <1>1, <1>3, <2>1, <2>2 DEF InProgress
<1> QED
  BY <1>1, <1>2, <1>3 DEF Status, InProgress

LEMMA StatusStays ==
    ASSUME TypeInv, OwnInv, NEW p \in Procs, Steps(p), ~Allocates(p)
    PROVE  \/ Status' = Status
           \/ /\ run[p] \in RunIds /\ pc'[p] \in Ended
              /\ Status[run[p]] = "open"
              /\ Status' = [Status EXCEPT ![run[p]] = "closed"]
<1> DEFINE Busy(r) == \E q \in Runners : run'[q] = r /\ pc'[q] \notin Ended
<1>1. dirs' = dirs
  BY StepShapes DEF Steps, Moves, Attaches
<1>2. \A r \in dirs : Busy(r) => InProgress(r)
  BY ClosedStays DEF InProgress
<1>3. \A q \in Runners : run'[q] = run[q]
  BY StepShapes, ConstantsAssumption DEF Steps, Moves, Attaches, TypeInv, TypeOK, Procs
<1>4. \A q \in Runners \ {p} : pc'[q] = pc[q]
  BY OthersFrame, RunnersAreProcs
<1>5. \A r \in dirs : ~Busy(r) /\ InProgress(r) =>
          p \in Runners /\ r = run[p] /\ pc'[p] \in Ended
  BY <1>3, <1>4 DEF InProgress
<1>6. dirs \subseteq RunIds
  BY DEF TypeInv, TypeOK
<1>7. Status' = [r \in RunIds |-> IF r \notin dirs THEN "free"
                                  ELSE IF Busy(r) THEN "open" ELSE "closed"]
  BY <1>1 DEF Status, InProgress
<1>8. CASE \A r \in dirs : Busy(r) <=> InProgress(r)
  BY <1>7, <1>8 DEF Status
<1>9. CASE ~\A r \in dirs : Busy(r) <=> InProgress(r)
  <2>1. /\ run[p] \in dirs /\ pc'[p] \in Ended /\ InProgress(run[p]) /\ ~Busy(run[p])
        /\ \A r \in dirs : r # run[p] => (Busy(r) <=> InProgress(r))
    BY <1>2, <1>5, <1>9
  <2> HIDE DEF Busy
  <2> QED
    BY <1>6, <1>7, <2>1 DEF Status
<1> QED
  BY <1>8, <1>9

LEMMA RecordedStep ==
    ASSUME TypeInv, OwnInv, FreshInv, NEW p \in Procs, Steps(p)
    PROVE  \/ Recorded' = Recorded
           \/ \E r \in RunIds, f \in Families :
                /\ p \in Runners /\ r = run[p] /\ WriteBundle(p)
                /\ pc[p] = "bundle" /\ pc'[p] = "relog"
                /\ f \notin BundlesOf(r)
                /\ Recorded' = [Recorded EXCEPT ![r] = @ \cup {f}]
<1> DEFINE After(r) == {f \in Families : Settled(disk'[r][Bundle(f)])}
<1>1. Recorded' = [r \in RunIds |-> After(r)]
  BY DEF Recorded, BundlesOf
<1>2. \A r \in RunIds : BundlesOf(r) \subseteq After(r)
  BY BundlesStay DEF BundlesOf
<1>3. CASE \A r \in RunIds : After(r) = BundlesOf(r)
  BY <1>1, <1>3 DEF Recorded
<1>4. ASSUME NEW r \in RunIds, After(r) # BundlesOf(r)
      PROVE  \E f \in Families :
                /\ p \in Runners /\ r = run[p] /\ WriteBundle(p)
                /\ pc[p] = "bundle" /\ pc'[p] = "relog"
                /\ f \notin BundlesOf(r)
                /\ Recorded' = [Recorded EXCEPT ![r] = @ \cup {f}]
  <2>1. PICK f \in Families : f \in After(r) /\ f \notin BundlesOf(r)
    BY <1>2, <1>4 DEF BundlesOf
  <2>2. disk'[r][Bundle(f)] # disk[r][Bundle(f)] /\ Settled(disk'[r][Bundle(f)])
    BY <2>1 DEF BundlesOf
  <2>3. p \in Runners /\ r = run[p] /\ f = Reached(p) /\ WriteBundle(p)
    BY <2>2, FamilyFileChange, NamesDiffer
  <2>4. pc[p] = "bundle" /\ pc'[p] = "relog"
    <3>1. /\ pc[p] = "bundle" /\ out[p] \in Content /\ run[p] \in RunIds
          /\ Write(p, Bundle(f), out[p], "relog") /\ Bundle(f) \in FileNames
      BY <2>3, FileNameMembers DEF WriteBundle, TypeInv, TypeOK
    <3>2. ~Settled(Torn)
      BY DEF Settled, Torn
    <3> QED
      BY <2>2, <2>3, <3>1, <3>2, WriteEffect
  <2>5. \A s \in RunIds, g \in Families :
            s # r \/ g # f => disk'[s][Bundle(g)] = disk[s][Bundle(g)]
    BY <2>3, FamilyFileChange, NamesDiffer
  <2>6. After(r) = BundlesOf(r) \cup {f} /\ \A s \in RunIds : s # r => After(s) = BundlesOf(s)
    BY <2>1, <2>5 DEF BundlesOf
  <2> HIDE DEF After
  <2>7. Recorded' = [Recorded EXCEPT ![r] = @ \cup {f}]
    BY <1>1, <2>6 DEF Recorded
  <2> QED
    BY <2>1, <2>3, <2>4, <2>7
<1> QED
  BY <1>3, <1>4

LEMMA PublishedStep ==
    ASSUME ArchiveInv, NEW p \in Procs, Steps(p)
    PROVE  \/ Published' = Published
           \/ \E r \in RunIds, n \in Summaries :
                /\ r = run[p] /\ r \in dirs /\ pc[p] \in {"json", "markdown"}
                /\ \/ Published' = [Published EXCEPT ![r][n] = {}]
                   \/ \E R \in SUBSET Families :
                        /\ R \subseteq BundlesOf(r)
                        /\ Published' = [Published EXCEPT ![r][n] = {R}]
<1> DEFINE Text(c) == IF IsSound(c) THEN {c.rows} ELSE {}
<1> USE DEF ArchiveInv
<1>1. /\ Published = [r \in RunIds |-> [n \in Summaries |-> Text(disk[r][n])]]
      /\ Published' = [r \in RunIds |-> [n \in Summaries |-> Text(disk'[r][n])]]
  BY DEF Published
<1>2. CASE \A r \in RunIds, n \in Summaries : disk'[r][n] = disk[r][n]
  BY <1>1, <1>2
<1>3. ASSUME NEW r \in RunIds, NEW n \in Summaries, disk'[r][n] # disk[r][n]
      PROVE  /\ r = run[p] /\ r \in dirs /\ pc[p] \in {"json", "markdown"}
             /\ \/ Published' = [Published EXCEPT ![r][n] = {}]
                \/ \E R \in SUBSET Families :
                     /\ R \subseteq BundlesOf(r)
                     /\ Published' = [Published EXCEPT ![r][n] = {R}]
  <2>1. /\ r = run[p] /\ pc[p] \in {"json", "markdown"}
        /\ \/ n = Json /\ pc[p] = "json"
           \/ n = Markdown /\ pc[p] = "markdown"
        /\ \/ disk'[r][n] = Torn
           \/ disk'[r][n] \in Filled(disk[r][n], Sound(view[p]))
    BY <1>3, SummaryChange
  <2>2. \A s \in RunIds, m \in Summaries : s # r \/ m # n => disk'[s][m] = disk[s][m]
    <3> SUFFICES ASSUME NEW s \in RunIds, NEW m \in Summaries, disk'[s][m] # disk[s][m]
                 PROVE  s = r /\ m = n
      OBVIOUS
    <3>1. /\ s = run[p]
          /\ \/ m = Json /\ pc[p] = "json"
             \/ m = Markdown /\ pc[p] = "markdown"
      BY SummaryChange
    <3> QED
      BY <2>1, <3>1
  <2>3. r \in dirs /\ view[p] \subseteq BundlesOf(r) /\ view[p] \in SUBSET Families
    BY <2>1 DEF OwnInv, OwningPcs, Live, PublishPcs, BackedInv, ViewInv, TypeInv, TypeOK
  <2>4. Text(disk'[r][n]) = {} \/ Text(disk'[r][n]) = {view[p]}
    BY <2>1 DEF Filled, Torn, Garbled, Sound, IsSound
  <2> HIDE DEF Text
  <2>5. Published' = [Published EXCEPT ![r][n] = Text(disk'[r][n])]
    BY <1>1, <2>2
  <2> QED
    BY <2>1, <2>3, <2>4, <2>5
<1> QED
  BY <1>2, <1>3

(***************************************************************************)
(* The steps of the abstract archive.                                      *)
(***************************************************************************)
LEMMA InitMaps == Init => Archive!Init
<1> SUFFICES ASSUME Init PROVE Archive!Init
  OBVIOUS
<1>1. \A r \in RunIds : ~InProgress(r)
  BY RunnersAreProcs, ConstantsAssumption DEF Init, InProgress
<1>2. Status = [r \in RunIds |-> IF r \in Archived THEN "closed" ELSE "free"]
  <2>1. dirs = Archived
    BY DEF Init
  <2> QED
    BY <1>1, <2>1 DEF Status
<1>3. ASSUME NEW r \in RunIds, NEW f \in Families
      PROVE  Settled(disk[r][Bundle(f)]) <=> r \in Archived
  <2>1. /\ Bundle(f) \in FileNames /\ Bundle(f) # Diagnostic /\ Bundle(f) \notin Summaries
        /\ Bundle(f) \in Evidence \ {Manifest, Config, Host}
    BY FileNameMembers, NamesDiffer DEF Evidence, Summaries
  <2>2. ArchivedRun[Bundle(f)] = Sound({Bundle(f)[2]})
    BY <2>1 DEF ArchivedRun
  <2>3. disk[r][Bundle(f)] = IF r \in Archived THEN ArchivedRun[Bundle(f)] ELSE Absent
    BY <2>1 DEF Init
  <2> QED
    BY <2>2, <2>3 DEF Settled, Sound, Absent
<1>4. Recorded = [r \in RunIds |-> IF r \in Archived THEN Families ELSE {}]
  BY <1>3 DEF Recorded, BundlesOf
<1>5. ASSUME NEW r \in RunIds, NEW n \in Summaries
      PROVE  disk[r][n] = IF r \in Archived THEN Sound(Families) ELSE Absent
  <2>1. n \in FileNames /\ n # Diagnostic
    BY DEF FileNames, Summaries, Json, Markdown, Diagnostic
  <2>2. ArchivedRun[n] = Sound(Families)
    BY <2>1 DEF ArchivedRun
  <2> QED
    BY <2>1, <2>2 DEF Init
<1>6. ASSUME NEW r \in RunIds, NEW n \in Summaries
      PROVE  (IF IsSound(disk[r][n]) THEN {disk[r][n].rows} ELSE {}) =
                 IF r \in Archived THEN {Families} ELSE {}
  BY <1>5 DEF IsSound, Sound, Absent
<1>7. Published = [r \in RunIds |-> [n \in Summaries |->
                      IF r \in Archived THEN {Families} ELSE {}]]
  BY <1>6 DEF Published
<1> QED
  BY <1>2, <1>4, <1>7 DEF Archive!Init, Status, Recorded, Published

LEMMA StepMaps == ArchiveInv /\ [Next]_vars => [Archive!Next]_(Archive!avars)
<1> SUFFICES ASSUME ArchiveInv, [Next]_vars
             PROVE  Archive!Next \/ UNCHANGED <<Status, Recorded, Published>>
  BY DEF Archive!avars, Status, Recorded, Published
<1>1. CASE UNCHANGED vars
  BY <1>1 DEF vars, Status, Recorded, Published, InProgress, BundlesOf
<1>2. ASSUME NEW p \in Procs, Steps(p)
      PROVE  Archive!Next \/ UNCHANGED <<Status, Recorded, Published>>
  <2>1. CASE Allocates(p)
    <3>1. PICK r \in RunIds : /\ Status[r] = "free"
                              /\ Status' = [Status EXCEPT ![r] = "open"]
      BY <1>2, <2>1, StatusOpens DEF ArchiveInv
    <3>2. UNCHANGED disk
      BY <1>2, <2>1, EvidenceStep
         DEF Steps, Keeps, WritesFile, Allocates, OwningPcs, Live, ArchiveInv
    <3>3. UNCHANGED <<Recorded, Published>>
      BY <3>2 DEF Recorded, Published, BundlesOf
    <3>4. Archive!Open(r)
      BY <3>1, <3>3 DEF Archive!Open, Status, Recorded, Published
    <3> QED
      BY <3>1, <3>4 DEF Archive!Next
  <2>2. CASE ~Allocates(p)
    <3>1. \/ Status' = Status
          \/ /\ run[p] \in RunIds /\ pc'[p] \in Ended
             /\ Status[run[p]] = "open"
             /\ Status' = [Status EXCEPT ![run[p]] = "closed"]
      BY <1>2, <2>2, StatusStays DEF ArchiveInv
    <3>2. CASE Recorded' # Recorded
      <4>1. PICK r \in RunIds, f \in Families :
                /\ p \in Runners /\ r = run[p] /\ WriteBundle(p)
                /\ pc[p] = "bundle" /\ pc'[p] = "relog"
                /\ f \notin BundlesOf(r)
                /\ Recorded' = [Recorded EXCEPT ![r] = @ \cup {f}]
        BY <1>2, <3>2, RecordedStep DEF ArchiveInv
      <4>2. UNCHANGED Status
        BY <3>1, <4>1 DEF Ended
      <4>3. UNCHANGED Published
        BY <1>2, <4>1, PublishedStep
      <4>4. Status[r] = "open"
        BY <4>1 DEF Status, InProgress, ArchiveInv, OwnInv, OwningPcs, Live, RunnerPcs, Ended
      <4>5. Recorded[r] = BundlesOf(r)
        BY DEF Recorded
      <4>6. Archive!Record(r, f)
        BY <4>1, <4>2, <4>3, <4>4, <4>5 DEF Archive!Record, Status, Recorded, Published
      <4> QED
        BY <4>6 DEF Archive!Next
    <3>3. CASE Recorded' = Recorded /\ Published' # Published
      <4>1. PICK r \in RunIds, n \in Summaries :
                /\ r = run[p] /\ r \in dirs /\ pc[p] \in {"json", "markdown"}
                /\ \/ Published' = [Published EXCEPT ![r][n] = {}]
                   \/ \E R \in SUBSET Families :
                        /\ R \subseteq BundlesOf(r)
                        /\ Published' = [Published EXCEPT ![r][n] = {R}]
        BY <1>2, <3>3, PublishedStep
      <4>2. Status[r] # "free"
        BY <4>1 DEF Status
      <4>3. \/ UNCHANGED Status
            \/ Status[r] = "open" /\ Status' = [Status EXCEPT ![r] = "closed"]
        BY <3>1, <4>1
      <4>4. Archive!MayClose(r)
        BY <4>3 DEF Archive!MayClose, Status
      <4>5. Recorded[r] = BundlesOf(r)
        BY DEF Recorded
      <4>6. CASE Published' = [Published EXCEPT ![r][n] = {}]
        <5>1. Archive!Withdraw(r, n)
          BY <3>3, <4>2, <4>4, <4>6 DEF Archive!Withdraw, Status, Recorded, Published
        <5> QED
          BY <5>1 DEF Archive!Next
      <4>7. ASSUME NEW R \in SUBSET Families, R \subseteq BundlesOf(r),
                   Published' = [Published EXCEPT ![r][n] = {R}]
            PROVE  Archive!Next
        <5>1. Archive!Publish(r, n, R)
          BY <3>3, <4>2, <4>4, <4>5, <4>7 DEF Archive!Publish, Status, Recorded, Published
        <5> QED
          BY <5>1 DEF Archive!Next
      <4> QED
        BY <4>1, <4>6, <4>7
    <3>4. CASE Recorded' = Recorded /\ Published' = Published
      <4>1. CASE Status' = Status
        BY <3>4, <4>1
      <4>2. ASSUME NEW r \in RunIds, Status[r] = "open",
                   Status' = [Status EXCEPT ![r] = "closed"]
            PROVE  Archive!Next
        <5>1. Archive!Close(r)
          BY <3>4, <4>2 DEF Archive!Close, Status, Recorded, Published
        <5> QED
          BY <5>1 DEF Archive!Next
      <4> QED
        BY <3>1, <4>1, <4>2
    <3> QED
      BY <3>2, <3>3, <3>4
  <2> QED
    BY <2>1, <2>2
<1> QED
  BY <1>1, <1>2, NextIsSteps DEF AllEnded

\* Every behaviour of the file tree is one of the abstract archive: a run is
\* opened once, evidence only accumulates and only while its run is open, and a
\* summary speaks of recorded evidence only.
THEOREM Refinement == Spec => ImplementsArchive
<1>1. ArchiveInv /\ [Next]_vars => ArchiveInv'
  BY TypeInvStep, OwnInvStep, FreshInvStep, BundleInvStep, BackedInvStep DEF ArchiveInv
<1>2. Init => ArchiveInv
  BY TypeInvInit, OwnInvInit, FreshInvInit, BundleInvInit, BackedInvInit DEF ArchiveInv
<1> QED
  BY InitMaps, StepMaps, <1>1, <1>2, PTL DEF Spec, ImplementsArchive, Archive!Spec
================================================================================
