------------------------------- MODULE RunArchive -------------------------------
(***************************************************************************)
(* What the run archive promises whoever reads results/runs, without files,*)
(* processes or half-written states: a run is opened once and never again, *)
(* evidence only accumulates and only while its run is open, and a summary,*)
(* although it may be withdrawn and replaced at any time, never speaks of  *)
(* anything but recorded evidence.                                         *)
(***************************************************************************)
CONSTANTS
    Families,   \* the implementation families
    RunIds,     \* the names a run can have
    Summaries,  \* the documents a report consists of
    Archived    \* the runs that were complete from the start

VARIABLES
    status,     \* "free", "open" or "closed"
    evidence,   \* the families a run has a validated bundle of
    summary     \* {} or {R} : the families a published document covers

avars == <<status, evidence, summary>>

Init ==
    /\ status = [r \in RunIds |-> IF r \in Archived THEN "closed" ELSE "free"]
    /\ evidence = [r \in RunIds |-> IF r \in Archived THEN Families ELSE {}]
    /\ summary = [r \in RunIds |-> [n \in Summaries |->
                     IF r \in Archived THEN {Families} ELSE {}]]

Open(r) ==
    /\ status[r] = "free"
    /\ status' = [status EXCEPT ![r] = "open"]
    /\ UNCHANGED <<evidence, summary>>

Record(r, f) ==
    /\ status[r] = "open" /\ f \notin evidence[r]
    /\ evidence' = [evidence EXCEPT ![r] = @ \cup {f}]
    /\ UNCHANGED <<status, summary>>

Close(r) ==
    /\ status[r] = "open"
    /\ status' = [status EXCEPT ![r] = "closed"]
    /\ UNCHANGED <<evidence, summary>>

\* The step that completes a run's last document may close the run as well.
MayClose(r) ==
    \/ UNCHANGED status
    \/ status[r] = "open" /\ status' = [status EXCEPT ![r] = "closed"]

Publish(r, n, R) ==
    /\ status[r] # "free" /\ R \subseteq evidence[r]
    /\ summary' = [summary EXCEPT ![r][n] = {R}]
    /\ MayClose(r)
    /\ UNCHANGED evidence

Withdraw(r, n) ==
    /\ status[r] # "free"
    /\ summary' = [summary EXCEPT ![r][n] = {}]
    /\ MayClose(r)
    /\ UNCHANGED evidence

Next ==
    \E r \in RunIds :
        \/ Open(r) \/ Close(r)
        \/ \E f \in Families : Record(r, f)
        \/ \E n \in Summaries : Withdraw(r, n)
        \/ \E n \in Summaries, R \in SUBSET Families : Publish(r, n, R)

Spec == Init /\ [][Next]_avars
================================================================================
