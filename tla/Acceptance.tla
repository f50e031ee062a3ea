------------------------------- MODULE Acceptance -------------------------------
(***************************************************************************)
(* What becomes of the rows one adapter has printed: benchmark_cpp and its *)
(* siblings pass them to validate_complete_run, those of the two older     *)
(* adapters through complete_adapter_results first.  Either an exception   *)
(* is raised and the run fails, or the rows become the family's bundle.    *)
(*                                                                         *)
(* Reconciled rows are kept as a set: no two of them have the same key, so *)
(* nothing is lost, and the order a bundle lists them in is undone by the  *)
(* report, which sorts again (see Comparison).                             *)
(***************************************************************************)
EXTENDS Measurements, FiniteSets, SequencesExt

CONSTANTS
    Adapters,            \* the families whose adapter may be run
    Completing,          \* the families whose output is completed with gaps
    UniformFamily,       \* the family that is told one operation count for all
    UniformOperations,   \* operations per sample of a profile, smoke or not
    OperationsPerSample, \* operations per sample the manifest gives a workload
    OutputRows,          \* OutputRows[f][s] : rows the adapter of f may print,
                         \*   s telling whether it is run with the smoke profile
    MaxOutput            \* bound on their number

ASSUME AcceptanceAssumption ==
    /\ IsFiniteSet(Workloads)
    /\ UniformOperations \in [BOOLEAN -> Nat \ {0}]
    /\ OperationsPerSample \in [Workloads -> Nat \ {0}]
    /\ MaxOutput \in Nat

VARIABLES
    family,     \* the family of the adapter that runs
    smoke,      \* its profile: smoke or full
    stage,      \* what is being done
    output,     \* the rows the adapter printed
    rows,       \* the rows passed to validate_complete_run
    next,       \* the row reconcile_results looks at next
    seen,       \* the keys of the rows before it
    reconciled, \* the rows before it
    unchecked   \* rows whose count and oracle are still to be checked

request == <<family, smoke>>
vars == <<request, stage, output, rows, next, seen, reconciled, unchecked>>

Stages == {"printing", "reconciling", "checking", "accepted", "rejected"}

Init ==
    /\ family \in Adapters /\ smoke \in BOOLEAN
    /\ stage = "printing"
    /\ output = <<>> /\ rows = <<>> /\ next = 1
    /\ seen = {} /\ reconciled = {} /\ unchecked = {}

PrintRow ==
    /\ stage = "printing" /\ Len(output) < MaxOutput
    /\ \E r \in OutputRows[family][smoke] : output' = Append(output, r)
    /\ UNCHANGED <<request, stage, rows, next, seen, reconciled, unchecked>>

--------------------------------------------------------------------------------
(***************************************************************************)
(* complete_adapter_results                                                *)
(***************************************************************************)
Present(printed) == {printed[i].workload : i \in DOMAIN printed}

\* A row made up for a workload the adapter says nothing about; its identity
\* is that of the first row.
Gap(printed, w) ==
    [family |-> printed[1].family, workload |-> w, status |-> "unsupported",
     time |-> 0, ops |-> 0, oracle |-> [value |-> "nan", full |-> FALSE],
     host |-> [k \in HostKeys |-> Unknown], debug |-> printed[1].debug,
     exec |-> Legacy, cpu |-> NoDevice, gpu |-> NoDevice]

\* Nothing is made up for an adapter that prints nothing at all.
Missing(printed) ==
    IF printed = <<>> \/ family \notin Completing THEN {}
    ELSE Workloads \ Present(printed)

\* Counterfactual: gaps the adapter reports itself give way to made-up ones.
CompletedOver(printed) ==
    LET kept == SelectSeq(printed, Supported)
        missing == SetToSeq(Workloads \ Present(kept))
    IN  IF printed = <<>> \/ family \notin Completing THEN printed
        ELSE kept \o [i \in DOMAIN missing |-> Gap(printed, missing[i])]

\* The gaps follow what was printed, in an order nothing depends on.
Completed(printed) ==
    LET missing == SetToSeq(Missing(printed))
    IN  printed \o [i \in DOMAIN missing |-> Gap(printed, missing[i])]

EndOfOutput ==
    /\ stage = "printing"
    /\ rows' = Completed(output)
    /\ stage' = "reconciling"
    /\ UNCHANGED <<request, output, next, seen, reconciled, unchecked>>

--------------------------------------------------------------------------------
(***************************************************************************)
(* reconcile_results: the rows one after the other, in the order printed.  *)
(***************************************************************************)
Reject == stage' = "rejected" /\ UNCHANGED <<next, seen, reconciled>>

\* Counterfactual: a row is known by its family and its workload alone.
ReconcileByWorkload ==
    /\ stage = "reconciling" /\ next <= Len(rows)
    /\ LET r == rows[next]
           key == <<r.family, r.workload>>
       IN  IF /\ ValidResult(r) /\ key \notin seen
              /\ r.workload \in Workloads /\ BoundToWorkload(r)
           THEN /\ seen' = seen \cup {key}
                /\ reconciled' = reconciled \cup {r}
                /\ next' = next + 1
                /\ UNCHANGED stage
           ELSE Reject
    /\ UNCHANGED <<request, output, rows, unchecked>>

ReconcileRow ==
    /\ stage = "reconciling" /\ next <= Len(rows)
    /\ LET r == rows[next]
       IN  IF /\ ValidResult(r) /\ ReconcileKey(r) \notin seen
              /\ r.workload \in Workloads /\ BoundToWorkload(r)
           THEN /\ seen' = seen \cup {ReconcileKey(r)}
                /\ reconciled' = reconciled \cup {r}
                /\ next' = next + 1
                /\ UNCHANGED stage
           ELSE Reject
    /\ UNCHANGED <<request, output, rows, unchecked>>

--------------------------------------------------------------------------------
(***************************************************************************)
(* validate_complete_run, after reconcile_results.                         *)
(***************************************************************************)

Reported == {r.workload : r \in {s \in reconciled : s.family = family}}

CheckCompleteness ==
    /\ stage = "reconciling" /\ next > Len(rows)
    /\ IF Workloads \subseteq Reported
       THEN stage' = "checking" /\ unchecked' = reconciled
       ELSE stage' = "rejected" /\ UNCHANGED unchecked
    /\ UNCHANGED <<request, output, rows, next, seen, reconciled>>

\* Counterfactual: a smoke run asks for one number whatever the workload.
UniformSmoke(w) ==
    IF family = UniformFamily \/ smoke THEN UniformOperations[smoke] ELSE OperationsPerSample[w]

\* benchmark passes benchmark_idris2 one number and its siblings a mapping.
\* The workloads with a contract are those whose operands have a batch size.
ExpectedOperations(w) ==
    IF family = UniformFamily THEN UniformOperations[smoke]
    ELSE IF ~smoke THEN OperationsPerSample[w]
    ELSE IF w \in HasContract THEN BatchSize[w] ELSE UniformOperations[smoke]

\* Counterfactual: a row that says its oracle was complete is taken at its word.
SkippedIfComplete(r) == r.family # family \/ ~Supported(r) \/ r.oracle.full

\* Other families' rows and gaps pass unseen.
Skipped(r) == r.family # family \/ ~Supported(r)

CheckRow ==
    /\ stage = "checking"
    /\ \E r \in unchecked :
          IF \/ Skipped(r)
             \/ r.ops = ExpectedOperations(r.workload) /\ r.oracle.value = "right"
          THEN unchecked' = unchecked \ {r} /\ UNCHANGED stage
          ELSE stage' = "rejected" /\ UNCHANGED unchecked
    /\ UNCHANGED <<request, output, rows, next, seen, reconciled>>

\* write_bundle follows.
Accept ==
    /\ stage = "checking" /\ unchecked = {}
    /\ stage' = "accepted"
    /\ UNCHANGED <<request, output, rows, next, seen, reconciled, unchecked>>

Ended == stage \in {"accepted", "rejected"} /\ UNCHANGED vars

Next == \/ PrintRow \/ EndOfOutput \/ ReconcileRow \/ CheckCompleteness
        \/ CheckRow \/ Accept \/ Ended

Spec == Init /\ [][Next]_vars

--------------------------------------------------------------------------------
\* A row may stand in a bundle.
Evidence(r) == ValidResult(r) /\ r.workload \in Workloads /\ BoundToWorkload(r)

Own(r) == r.family = family /\ Supported(r)

\* What the manifest and the profile ask of every family: a smoke run counts one
\* batch, or the profile's operations.
Agreed(w) ==
    IF ~smoke THEN OperationsPerSample[w]
    ELSE IF w \in HasContract THEN BatchSize[w] ELSE UniformOperations[smoke]

\* A measurement of the adapter's own counts what is asked of it, unless its
\* family is told otherwise, and has the oracle value of the manifest.
Confirmed(r) ==
    Own(r) => /\ r.oracle.value = "right"
              /\ family # UniformFamily => r.ops = Agreed(r.workload)

TypeOK ==
    /\ stage \in Stages /\ next \in Nat \ {0}
    /\ unchecked \subseteq reconciled
    /\ seen = {ReconcileKey(r) : r \in reconciled}

\* An accepted bundle covers the manifest with rows of the adapter's own, each
\* valid and confirmed, no two of one configuration.  The report reconciles the
\* bundle again: it will not be what a report fails on.
AcceptedIsSound ==
    stage = "accepted" =>
        /\ \A r \in reconciled : Evidence(r) /\ Confirmed(r)
        /\ \A r, s \in reconciled : ReconcileKey(r) = ReconcileKey(s) => r = s
        /\ \A w \in Workloads : \E r \in reconciled : r.family = family /\ r.workload = w

\* Output an adapter may honestly print: rows of its own, no configuration
\* twice, and nothing missing that is not filled in for it.
Honest(printed) ==
    /\ \A i \in DOMAIN printed :
          /\ printed[i].family = family /\ Evidence(printed[i])
          /\ Supported(printed[i]) =>
                /\ printed[i].ops = Agreed(printed[i].workload)
                /\ printed[i].oracle.value = "right"
    /\ DistinctKeys(printed)
    /\ IF family \in Completing THEN printed # <<>> ELSE Workloads \subseteq Present(printed)

\* Honest output is never refused, whichever row comes first.
HonestIsNotRejected == stage = "rejected" => ~Honest(output)

\* A bundle keeps every row the adapter printed and adds nothing but gaps, for
\* workloads the adapter does not mention.
EvidenceIsKept ==
    stage = "accepted" =>
        LET printed == {output[i] : i \in DOMAIN output}
        IN  /\ printed \subseteq reconciled
            /\ \A r \in reconciled \ printed :
                  ~Supported(r) /\ r.workload \notin Present(output)
================================================================================
