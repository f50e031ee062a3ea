----------------------------- MODULE BenchmarkRuns -----------------------------
(***************************************************************************)
(* The append-only run archive under results/runs, and the two commands of *)
(* benchmark_harness/cli.py that work on it concurrently:                  *)
(*                                                                         *)
(*   `benchmark' (a runner)   allocates a run directory, records how it is *)
(*                            about to measure, runs the requested adapters*)
(*                            one after the other, and publishes a report; *)
(*   `report'    (a reporter) rebuilds the report of a directory that      *)
(*                            exists, from the evidence found in it.       *)
(*                                                                         *)
(* Nothing but the file system coordinates them.  Path.write_text truncates*)
(* a file and then fills it, so every write is two steps and a reader, a   *)
(* kill or a full disk may fall between them.                              *)
(***************************************************************************)
EXTENDS Integers, Sequences

CONSTANTS
    Families,         \* the implementation families
    Implementations,  \* the order in which `benchmark' runs them
    Runners,          \* `benchmark' processes
    Reporters,        \* `report --run-id' processes
    Stems,            \* the microsecond timestamps the clock may return
    MaxSuffix,        \* the last suffix create_run_directory tries (999)
    Archived,         \* run directories left by earlier, completed runs
    NoRun,            \* "no run directory yet"
    Faults,           \* which of "kill" and "disk" the environment inflicts
    Hasty             \* the reporters that do not wait for a run to end

RunIds == Stems \X (0 .. MaxSuffix)
Procs == Runners \cup Reporters

ASSUME ConstantsAssumption ==
    /\ Implementations \in Seq(Families)
    /\ Families = {Implementations[i] : i \in 1 .. Len(Implementations)}
    /\ \A i, j \in 1 .. Len(Implementations) :
           Implementations[i] = Implementations[j] => i = j
    /\ Runners \cap Reporters = {}
    /\ MaxSuffix \in Nat
    /\ Archived \subseteq RunIds
    /\ NoRun \notin RunIds
    /\ Faults \subseteq {"kill", "disk"}
    /\ Hasty \subseteq Reporters

(***************************************************************************)
(* Files of a run directory.  The two logs of a family are one file here:  *)
(* they are always written together, once when the output is kept and once *)
(* more after its bundle.                                                  *)
(***************************************************************************)
Manifest == <<"manifest", "run">>      \* manifest.json
Config == <<"config", "run">>          \* runner-config.json
Host == <<"host", "run">>              \* host-toolchain.json
Diagnostic == <<"diagnostic", "run">>  \* diagnostic.txt
Json == <<"json", "run">>              \* report/summary.json
Markdown == <<"markdown", "run">>      \* report/summary.md
Raw(f) == <<"raw", f>>                 \* raw/<f>.stdout
Log(f) == <<"log", f>>                 \* logs/<f>.stdout.log, <f>.stderr.log
Bundle(f) == <<"bundle", f>>           \* adapters/<f>.json

Evidence == {Manifest, Config, Host}
            \cup {Raw(f) : f \in Families} \cup {Bundle(f) : f \in Families}
Summaries == {Json, Markdown}
FileNames == Evidence \cup Summaries \cup {Diagnostic} \cup {Log(f) : f \in Families}

(***************************************************************************)
(* What a file may hold: nothing, the truncated beginning of a write, or a *)
(* settled text.  An adapter's output is not JSON at all ("garbage"), JSON *)
(* that validate_complete_run rejects ("unsound"), or rows it accepts      *)
(* ("sound").  Of a summary only the families it has evidence for matter.  *)
(***************************************************************************)
Content == [kind : {"absent", "torn", "garbage", "unsound", "sound"},
            rows : SUBSET Families]
Absent == [kind |-> "absent", rows |-> {}]
Torn == [kind |-> "torn", rows |-> {}]
Garbled == [kind |-> "garbage", rows |-> {}]
Sound(R) == [kind |-> "sound", rows |-> R]
Output(f) == [kind : {"garbage", "unsound", "sound"}, rows : {{f}}]

Present(c) == c.kind # "absent"
Settled(c) == c.kind \notin {"absent", "torn"}
IsSound(c) == c.kind = "sound"

VARIABLES
    dirs,   \* the run directories that exist
    disk,   \* disk[r][n] : the content of file n of run r
    pc,     \* where each process is
    run,    \* the run directory a process works on
    slot,   \* slot[p] : the directory name runner p tries next
    req,    \* the implementations a runner was asked for
    next,   \* index in Implementations of the family a runner has reached
    out,    \* the output of the adapter process a runner has just run
    ran,    \* families whose adapter process of this runner wrote output
    open,   \* is the process between truncating and filling a file?
    view    \* the families publish_report has found bundles of

local == <<slot, req, next, out, ran, view>>
vars == <<dirs, disk, pc, run, slot, req, next, out, ran, open, view>>

RunnerPcs == {"mkdir", "manifest", "config", "host", "select", "adapter",
              "preserve", "log", "validate", "bundle", "relog", "diagnose"}
PublishPcs == {"glob", "read", "json", "markdown"}
Ended == {"rejected", "done", "failed", "aborted", "killed"}
Live == RunnerPcs \cup PublishPcs
Writing == {"manifest", "config", "host", "preserve", "log", "bundle", "relog",
            "json", "markdown", "diagnose"}

TypeOK ==
    /\ dirs \subseteq RunIds
    /\ disk \in [RunIds -> [FileNames -> Content]]
    /\ pc \in [Procs -> {"start"} \cup Live \cup Ended]
    /\ run \in [Procs -> RunIds \cup {NoRun}]
    /\ slot \in [Procs -> RunIds \cup {NoRun}]
    /\ req \in [Procs -> SUBSET Families]
    /\ next \in [Procs -> 1 .. (Len(Implementations) + 1)]
    /\ out \in [Procs -> Content]
    /\ ran \in [Procs -> SUBSET Families]
    /\ open \in [Procs -> BOOLEAN]
    /\ view \in [Procs -> SUBSET Families]

\* The directory an earlier run of every family left behind.
ArchivedRun ==
    [n \in FileNames |->
        IF n = Diagnostic THEN Absent
        ELSE IF n \in Summaries THEN Sound(Families)
        ELSE IF n \in Evidence \ {Manifest, Config, Host}
             THEN Sound({n[2]}) ELSE Sound({})]

Init ==
    /\ dirs = Archived
    /\ disk = [r \in RunIds |-> IF r \in Archived THEN ArchivedRun
                                ELSE [n \in FileNames |-> Absent]]
    /\ pc = [p \in Procs |-> "start"]
    /\ run = [p \in Procs |-> NoRun]
    /\ slot = [p \in Procs |-> NoRun]
    /\ req = [p \in Procs |-> {}]
    /\ next = [p \in Procs |-> 1]
    /\ out = [p \in Procs |-> Absent]
    /\ ran = [p \in Procs |-> {}]
    /\ open = [p \in Procs |-> FALSE]
    /\ view = [p \in Procs |-> {}]

--------------------------------------------------------------------------------
(***************************************************************************)
(* Steps shared by both commands.                                          *)
(***************************************************************************)
Goto(p, l) == pc' = [pc EXCEPT ![p] = l]

\* What a file holds once c is written over it from its beginning: c, unless
\* somebody else filled it after it was truncated with a text longer than c.
Filled(old, c) == IF old \in {Torn, c} THEN {c} ELSE {c, Garbled}

\* Path.write_text: truncate the file, then fill it and go on.
Write(p, n, c, after) ==
    \/ /\ ~open[p]
       /\ open' = [open EXCEPT ![p] = TRUE]
       /\ disk' = [disk EXCEPT ![run[p]][n] = Torn]
       /\ UNCHANGED pc
    \/ /\ open[p]
       /\ open' = [open EXCEPT ![p] = FALSE]
       /\ \E text \in Filled(disk[run[p]][n], c) :
              disk' = [disk EXCEPT ![run[p]][n] = text]
       /\ Goto(p, after)

\* Where an exception leads: the try statement of benchmark() covers the
\* adapters and the report, and neither the run's metadata nor the diagnostic.
OnError(p) ==
    IF p \in Reporters \/ pc[p] \in {"mkdir", "manifest", "config", "host", "diagnose"}
    THEN "aborted" ELSE "diagnose"

Reached(p) == Implementations[next[p]]

--------------------------------------------------------------------------------
(***************************************************************************)
(* benchmark                                                               *)
(***************************************************************************)

\* An unknown implementation or an invalid manifest: nothing is created.
RejectArguments(p) ==
    /\ p \in Runners /\ pc[p] = "start"
    /\ Goto(p, "rejected")
    /\ UNCHANGED <<dirs, disk, run, open, local>>

StartBenchmark(p) ==
    /\ p \in Runners /\ pc[p] = "start"
    /\ \E S \in SUBSET Families : req' = [req EXCEPT ![p] = S]
    /\ \E s \in Stems : slot' = [slot EXCEPT ![p] = <<s, 0>>]
    /\ Goto(p, "mkdir")
    /\ UNCHANGED <<dirs, disk, run, open, next, out, ran, view>>

\* Counterfactual: destination.mkdir(exist_ok=True).
MkdirExistOk(p) ==
    /\ pc[p] = "mkdir"
    /\ dirs' = dirs \cup {slot[p]}
    /\ run' = [run EXCEPT ![p] = slot[p]]
    /\ Goto(p, "manifest")
    /\ UNCHANGED <<disk, open, local>>

\* Counterfactual: the loop tries the bare timestamp again and again.
MkdirSameName(p) ==
    /\ pc[p] = "mkdir"
    /\ \/ /\ slot[p] \notin dirs
          /\ dirs' = dirs \cup {slot[p]}
          /\ run' = [run EXCEPT ![p] = slot[p]]
          /\ Goto(p, "manifest")
       \/ slot[p] \in dirs /\ UNCHANGED <<dirs, run, pc>>
    /\ UNCHANGED <<disk, open, local>>

\* Counterfactual: the loop over suffixes has no end.
MkdirForever(p) ==
    /\ pc[p] = "mkdir"
    /\ \/ /\ slot[p] \notin dirs
          /\ dirs' = dirs \cup {slot[p]}
          /\ run' = [run EXCEPT ![p] = slot[p]]
          /\ Goto(p, "manifest")
          /\ UNCHANGED slot
       \/ /\ slot[p] \in dirs
          /\ slot' = [slot EXCEPT ![p] = <<@[1], @[2] + 1>>]
          /\ UNCHANGED <<dirs, run, pc>>
    /\ UNCHANGED <<disk, open, req, next, out, ran, view>>

\* create_run_directory: mkdir is atomic and fails on a name already taken.
Mkdir(p) ==
    /\ pc[p] = "mkdir"
    /\ \/ /\ slot[p] \notin dirs
          /\ dirs' = dirs \cup {slot[p]}
          /\ run' = [run EXCEPT ![p] = slot[p]]
          /\ Goto(p, "manifest")
          /\ UNCHANGED slot
       \/ /\ slot[p] \in dirs /\ slot[p][2] < MaxSuffix
          /\ slot' = [slot EXCEPT ![p] = <<@[1], @[2] + 1>>]
          /\ UNCHANGED <<dirs, run, pc>>
       \/ /\ slot[p] \in dirs /\ slot[p][2] = MaxSuffix
          /\ Goto(p, "rejected")
          /\ UNCHANGED <<dirs, run, slot>>
    /\ UNCHANGED <<disk, open, req, next, out, ran, view>>

WriteManifest(p) ==
    /\ pc[p] = "manifest" /\ Write(p, Manifest, Sound({}), "config")
    /\ UNCHANGED <<dirs, run, local>>

WriteConfig(p) ==
    /\ pc[p] = "config" /\ Write(p, Config, Sound({}), "host")
    /\ UNCHANGED <<dirs, run, local>>

WriteHost(p) ==
    /\ pc[p] = "host" /\ Write(p, Host, Sound({}), "select")
    /\ UNCHANGED <<dirs, run, local>>

\* The chain of `if "<family>" in requested', in its fixed order.
SelectFamily(p) ==
    /\ pc[p] = "select"
    /\ \/ /\ next[p] > Len(Implementations)
          /\ Goto(p, "glob") /\ UNCHANGED next
       \/ /\ next[p] <= Len(Implementations) /\ Reached(p) \in req[p]
          /\ Goto(p, "adapter") /\ UNCHANGED next
       \/ /\ next[p] <= Len(Implementations) /\ Reached(p) \notin req[p]
          /\ next' = [next EXCEPT ![p] = @ + 1] /\ UNCHANGED pc
    /\ UNCHANGED <<dirs, disk, run, open, slot, req, out, ran, view>>

\* Counterfactual: a missing toolchain is skipped over.
AdapterUnavailableSkipped(p) ==
    /\ pc[p] = "adapter"
    /\ next' = [next EXCEPT ![p] = @ + 1]
    /\ Goto(p, "select")
    /\ UNCHANGED <<dirs, disk, run, open, slot, req, out, ran, view>>

\* No checkout, no toolchain, or a failed build: no adapter output exists.
AdapterUnavailable(p) ==
    /\ pc[p] = "adapter"
    /\ Goto(p, OnError(p))
    /\ UNCHANGED <<dirs, disk, run, open, local>>

\* check=True: a non-zero exit raises before the captured output is kept.
AdapterFails(p) ==
    /\ pc[p] = "adapter"
    /\ ran' = [ran EXCEPT ![p] = @ \cup {Reached(p)}]
    /\ Goto(p, OnError(p))
    /\ UNCHANGED <<dirs, disk, run, open, slot, req, next, out, view>>

AdapterReturns(p) ==
    /\ pc[p] = "adapter"
    /\ \E o \in Output(Reached(p)) : out' = [out EXCEPT ![p] = o]
    /\ ran' = [ran EXCEPT ![p] = @ \cup {Reached(p)}]
    /\ Goto(p, "preserve")
    /\ UNCHANGED <<dirs, disk, run, open, slot, req, next, view>>

\* Counterfactual: output that is not JSON is rejected before it is kept.
PreserveParsedOutput(p) ==
    /\ pc[p] = "preserve"
    /\ IF out[p].kind = "garbage"
       THEN Goto(p, OnError(p)) /\ UNCHANGED <<disk, open>>
       ELSE Write(p, Raw(Reached(p)), out[p], "log")
    /\ UNCHANGED <<dirs, run, local>>

\* preserve_adapter_output: the exact text, whatever it says,
PreserveOutput(p) ==
    /\ pc[p] = "preserve" /\ Write(p, Raw(Reached(p)), out[p], "log")
    /\ UNCHANGED <<dirs, run, local>>

\* and the logs, of which only matters whether they are complete.
WriteLogs(p) ==
    /\ pc[p] = "log" /\ Write(p, Log(Reached(p)), Sound({}), "validate")
    /\ UNCHANGED <<dirs, run, local>>

\* Counterfactual: whatever parses is taken for valid.
ParseOnly(p) ==
    /\ pc[p] = "validate"
    /\ Goto(p, IF out[p].kind # "garbage" THEN "bundle" ELSE OnError(p))
    /\ UNCHANGED <<dirs, disk, run, open, local>>

\* Counterfactual: an adapter whose output is rejected is run again.
RetryRejected(p) ==
    /\ pc[p] = "validate"
    /\ Goto(p, IF IsSound(out[p]) THEN "bundle" ELSE "adapter")
    /\ UNCHANGED <<dirs, disk, run, open, local>>

\* parse_json, then validate_complete_run.
ValidateOutput(p) ==
    /\ pc[p] = "validate"
    /\ Goto(p, IF IsSound(out[p]) THEN "bundle" ELSE OnError(p))
    /\ UNCHANGED <<dirs, disk, run, open, local>>

\* write_bundle: the validated rows,
WriteBundle(p) ==
    /\ pc[p] = "bundle" /\ Write(p, Bundle(Reached(p)), out[p], "relog")
    /\ UNCHANGED <<dirs, run, local>>

\* and the logs again: they are truncated although they are complete.
RewriteLogs(p) ==
    /\ pc[p] = "relog" /\ Write(p, Log(Reached(p)), Sound({}), "select")
    /\ next' = IF open[p] THEN [next EXCEPT ![p] = @ + 1] ELSE next
    /\ UNCHANGED <<dirs, run, slot, req, out, ran, view>>

\* Counterfactual: the exception is re-raised before the diagnostic is written.
RaiseUndiagnosed(p) ==
    /\ pc[p] = "diagnose" /\ Goto(p, "failed")
    /\ UNCHANGED <<dirs, disk, run, open, local>>

\* except (Exception, SystemExit): leave the diagnostic and re-raise.
WriteDiagnostic(p) ==
    /\ pc[p] = "diagnose" /\ Write(p, Diagnostic, Sound({}), "failed")
    /\ UNCHANGED <<dirs, run, local>>

--------------------------------------------------------------------------------
(***************************************************************************)
(* report, and the publish_report both commands share                      *)
(***************************************************************************)
InProgress(r) == \E q \in Runners : run[q] = r /\ pc[q] \notin Ended

\* regenerate_report: the directory must exist and its manifest must parse.
StartReport(p) ==
    /\ p \in Reporters /\ pc[p] = "start"
    /\ \E r \in RunIds :
          /\ p \in Hasty \/ ~InProgress(r)
          /\ run' = [run EXCEPT ![p] = r]
          /\ Goto(p, IF r \notin dirs THEN "rejected"
                     ELSE IF Settled(disk[r][Manifest]) THEN "glob" ELSE "aborted")
    /\ UNCHANGED <<dirs, disk, open, local>>

\* Read the host file and list adapters/*.json, half-written ones included.
GlobBundles(p) ==
    /\ pc[p] = "glob"
    /\ IF Settled(disk[run[p]][Host])
       THEN /\ view' = [view EXCEPT ![p] =
                            {f \in Families : Present(disk[run[p]][Bundle(f)])}]
            /\ Goto(p, "read")
       ELSE Goto(p, OnError(p)) /\ UNCHANGED view
    /\ UNCHANGED <<dirs, disk, run, open, slot, req, next, out, ran>>

\* Counterfactual: the presence of a bundle is taken for its evidence.
ListBundlesOnly(p) ==
    /\ pc[p] = "read" /\ Goto(p, "json")
    /\ UNCHANGED <<dirs, disk, run, open, local>>

\* Parse every bundle listed and build the model.  A bundle that is still torn is
\* invalid JSON, and bundles that are in order one by one may not go together: the
\* rows of other families that each of them may hold can be those of another bundle
\* (reconcile_results refuses duplicates).
ReadBundles(p) ==
    /\ pc[p] = "read"
    /\ \/ /\ \A f \in view[p] : Settled(disk[run[p]][Bundle(f)])
          /\ Goto(p, "json")
       \/ Goto(p, OnError(p))
    /\ UNCHANGED <<dirs, disk, run, open, local>>

WriteSummaryJson(p) ==
    /\ pc[p] = "json" /\ Write(p, Json, Sound(view[p]), "markdown")
    /\ UNCHANGED <<dirs, run, local>>

WriteSummaryMarkdown(p) ==
    /\ pc[p] = "markdown" /\ Write(p, Markdown, Sound(view[p]), "done")
    /\ UNCHANGED <<dirs, run, local>>

--------------------------------------------------------------------------------
(***************************************************************************)
(* The environment.                                                        *)
(***************************************************************************)

\* OSError out of mkdir or write_text: the file being filled stays torn.
DiskFault(p) ==
    /\ "disk" \in Faults /\ pc[p] \in Writing \cup {"mkdir"}
    /\ Goto(p, OnError(p))
    /\ open' = [open EXCEPT ![p] = FALSE]
    /\ UNCHANGED <<dirs, disk, run, local>>

\* SIGKILL, or a KeyboardInterrupt, which `except Exception' does not catch.
Kill(p) ==
    /\ "kill" \in Faults /\ pc[p] \in Live
    /\ Goto(p, "killed")
    /\ open' = [open EXCEPT ![p] = FALSE]
    /\ UNCHANGED <<dirs, disk, run, local>>

AllEnded ==
    /\ \A p \in Procs : pc[p] \in Ended
    /\ UNCHANGED vars

\* What a process does on its own once it has been started.
Progress(p) ==
    \/ Mkdir(p) \/ WriteManifest(p) \/ WriteConfig(p) \/ WriteHost(p)
    \/ SelectFamily(p) \/ PreserveOutput(p) \/ WriteLogs(p) \/ ValidateOutput(p)
    \/ WriteBundle(p) \/ RewriteLogs(p) \/ WriteDiagnostic(p)
    \/ GlobBundles(p) \/ ReadBundles(p)
    \/ WriteSummaryJson(p) \/ WriteSummaryMarkdown(p)

\* How an adapter answers; subprocess.run is called without a timeout.
AdapterStep(p) == AdapterUnavailable(p) \/ AdapterFails(p) \/ AdapterReturns(p)

StartStep(p) == RejectArguments(p) \/ StartBenchmark(p) \/ StartReport(p)

Next ==
    \/ \E p \in Procs :
          StartStep(p) \/ Progress(p) \/ AdapterStep(p) \/ DiskFault(p) \/ Kill(p)
    \/ AllEnded

Spec == Init /\ [][Next]_vars

\* The scheduler runs a started process; nothing makes an adapter return.
FairSpec == Spec /\ \A p \in Procs : WF_vars(Progress(p))
--------------------------------------------------------------------------------
(***************************************************************************)
(* Safety.                                                                 *)
(***************************************************************************)
BundlesOf(r) == {f \in Families : Settled(disk[r][Bundle(f)])}

\* "Every invocation creates an append-only directory": whatever the clock
\* returns, no two runners work in one directory, and none in an earlier run's.
DistinctRuns ==
    /\ \A p, q \in Runners : p # q /\ run[p] = run[q] => run[p] = NoRun
    /\ \A p \in Runners : run[p] \notin Archived

\* A bundle in adapters/ is backed, in the same directory, by the exact output
\* it was parsed from, and that output passed validation: write_bundle comes
\* only after preserve_adapter_output and validate_complete_run.
BundleHasEvidence ==
    \A r \in dirs, f \in Families :
        Present(disk[r][Bundle(f)]) =>
            /\ disk[r][Raw(f)].kind = "sound"
            /\ Settled(disk[r][Bundle(f)]) => disk[r][Bundle(f)] = disk[r][Raw(f)]

\* The first adapter that fails ends the run: a runner that has a bundle, or
\* has come to the report, has a bundle of every family requested before.
NoAdapterSkipped ==
    \A p \in Runners : run[p] # NoRun =>
        \A i \in 1 .. Len(Implementations) :
            \/ Present(disk[run[p]][Bundle(Implementations[i])])
            \/ pc[p] \in PublishPcs \cup {"done"}
            => \A j \in 1 .. Len(Implementations) :
                   /\ j < i \/ pc[p] \in PublishPcs \cup {"done"}
                   /\ Implementations[j] \in req[p]
                   => Implementations[j] \in BundlesOf(run[p])

\* No report, whoever wrote it and however it interleaved with a runner, has
\* a cell for a family that has no settled bundle: publish_report raises on a
\* bundle it reads half-written instead of passing over it.
SummaryIsBacked ==
    \A r \in dirs, n \in Summaries :
        IsSound(disk[r][n]) => disk[r][n].rows \subseteq BundlesOf(r)

\* Once a run has ended, each of its two summaries that is complete covers
\* exactly the evidence the run left, so that regenerating it changes nothing:
\* unless somebody did not wait for the end.
SummaryMatchesEvidence ==
    \A r \in dirs, n \in Summaries :
        /\ ~InProgress(r) /\ Settled(disk[r][n])
        /\ \A q \in Hasty : run[q] # r
        => disk[r][n] = Sound(BundlesOf(r))

\* Manifest, configuration, host file, adapter outputs and bundles are never
\* overwritten nor removed once complete: not by their own run, by another run
\* that drew the same timestamp, or by a report.
EvidenceIsWriteOnce ==
    [][\A r \in RunIds, n \in Evidence :
          Settled(disk[r][n]) => disk'[r][n] = disk[r][n]]_vars

\* README: "A failed adapter or validation leaves that evidence and a
\* diagnostic in the run directory", the evidence being the exact adapter
\* output: whenever a runner has failed, the output of every adapter process
\* it ran is there.
FailedAdapterLeavesEvidence ==
    \A p \in Runners : pc[p] = "failed" =>
        \A f \in ran[p] : Settled(disk[run[p]][Raw(f)])

(***************************************************************************)
(* Refinement: what a reader of results/runs may rely on.                  *)
(***************************************************************************)
Archive == INSTANCE RunArchive WITH
    status <- [r \in RunIds |-> IF r \notin dirs THEN "free"
                                ELSE IF InProgress(r) THEN "open" ELSE "closed"],
    evidence <- [r \in RunIds |-> BundlesOf(r)],
    summary <- [r \in RunIds |-> [n \in Summaries |->
                   IF IsSound(disk[r][n]) THEN {disk[r][n].rows} ELSE {}]]

\* A runner opens an entry nobody had, adds validated bundles to it and closes
\* it by ending in any way; reports only replace its summaries.
ImplementsArchive == Archive!Spec

(***************************************************************************)
(* Liveness.                                                               *)
(***************************************************************************)

\* A started process never spins or waits on another one: it ends, or it is
\* the adapter it launched, which has no timeout, that has not returned.
EndsUnlessAdapterHangs ==
    \A p \in Procs : <>[](pc[p] \in Ended \cup {"start", "adapter"})

\* Output an adapter returned is kept, with its logs, before anything can
\* reject it, unless the runner is killed.
ReturnedOutputIsKept ==
    \A p \in Runners, f \in Families :
        (pc[p] = "preserve" /\ Reached(p) = f)
            ~> \/ pc[p] = "killed"
               \/ /\ pc[p] \in {"validate", "bundle", "diagnose", "failed"}
                  /\ Settled(disk[run[p]][Raw(f)]) /\ Settled(disk[run[p]][Log(f)])

FailureIsDiagnosed ==
    \A p \in Runners :
        (pc[p] = "diagnose")
            ~> \/ pc[p] = "killed"
               \/ pc[p] = "failed" /\ Settled(disk[run[p]][Diagnostic])
================================================================================
