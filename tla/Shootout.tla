-------------------------------- MODULE Shootout --------------------------------
(***************************************************************************)
(* The shootout of runner/run_all.py: build and run the C++ and the Rust   *)
(* member, run fstar/run_fstar.py for the F* member, lay their rows side   *)
(* by side and save two summaries.  The F* member needs a checkout, orbctl *)
(* and a virtual machine that anybody may start or stop at any time.       *)
(***************************************************************************)
EXTENDS Integers, Sequences, SequencesExt

CONSTANTS
    ContractIds,   \* the workload ids of the manifest, a sequence
    NativeOutputs, \* what a C++ or Rust binary may do: records as below
    BenchOutputs,  \* what `make bench' may do in a running machine
    NoTime,        \* the time of a row that is not a timing
    Malformed      \* the time of a row no number can be made of

(***************************************************************************)
(* An output is a record:                                                  *)
(*   exit  FALSE where the process fails, or cannot be started             *)
(*   text  "rows": a document with a list of results; "other": one without *)
(*         such a list; "garbage": no JSON document; "blank": nothing      *)
(*   rows  the list                                                        *)
(* A row is a record:                                                      *)
(*   id      its key, NoKey where it has neither of the two key fields     *)
(*   flat    is it of the older shape?                                     *)
(*   status  "" in that shape                                              *)
(*   ns      nanoseconds per operation, NoTime without samples, Malformed  *)
(*           where float or median would raise; nothing keeps a number that  *)
(*           was printed from being zero or negative                         *)
(***************************************************************************)
NoKey == "None"
Members == {"cpp", "rust", "fstar"}
Nothing == [exit |-> TRUE, text |-> "blank", rows |-> <<>>]
Bundle(rows) == [exit |-> TRUE, text |-> "rows", rows |-> rows]

\* Documents hold lists, and no member uses the word the table keeps for a row
\* that is not there.  The contract names its workloads.
Listed(s) == Len(s) \in Nat /\ DOMAIN s = 1 .. Len(s)
ASSUME OutputsAssumption ==
    /\ \A out \in NativeOutputs \cup BenchOutputs :
          /\ Listed(out.rows)
          /\ \A i \in DOMAIN out.rows :
                /\ out.rows[i].ns \in Int \cup {NoTime, Malformed}
                /\ out.rows[i].status # "absent"
    /\ NoTime \notin Int /\ Malformed \notin Int /\ NoTime # Malformed
    /\ Listed(ContractIds)
    /\ \A i \in DOMAIN ContractIds : ContractIds[i] # NoKey

VARIABLES
    stage,   \* what main does next, or how it ended
    data,    \* the documents read from the members so far
    host,    \* which of the checkout, orbctl and make are there
    vm,      \* the machine: "absent", "stopped" or "running"
    benched, \* has the wrapper called `make bench'?
    table,   \* the lines of the table
    json, md \* the files in results/

files == <<json, md>>
wrapper == <<host, benched>>
vars == <<stage, data, wrapper, vm, table, files>>

Stages == {"build", "run_cpp", "run_rust", "discover", "machine_ready", "bench", "tabulate",
           "open_json", "write_json", "open_md", "write_md", "done", "raised", "unsaved", "killed"}

\* An exception ends the shootout before it saves ("raised") or while it does.
Ended == {"done", "raised", "unsaved", "killed"}

\* What an earlier shootout left, and a file opened for writing.
Earlier == [state |-> "earlier", of |-> <<>>]
Truncated == [state |-> "truncated", of |-> <<>>]
Whole(content) == [state |-> "whole", of |-> content]

Init ==
    /\ stage = "build"
    /\ data = [m \in Members |-> Nothing]
    /\ host \in [{"checkout", "orbctl", "make"} -> BOOLEAN]
    /\ vm \in {"absent", "stopped", "running"}
    /\ benched = FALSE
    /\ table = <<>>
    /\ json = Earlier /\ md = Earlier

\* Somebody starts, stops or removes the machine.
MachineChanges ==
    /\ stage \in {"machine_ready", "bench"}
    /\ vm' \in {"absent", "stopped", "running"} \ {vm}
    /\ UNCHANGED <<stage, data, wrapper, table, files>>

--------------------------------------------------------------------------------
(***************************************************************************)
(* build_cpp, build_rust, run_cpp, run_rust: check=True everywhere.        *)
(***************************************************************************)
Build ==
    /\ stage = "build"
    /\ stage' \in {"run_cpp", "raised"}
    /\ UNCHANGED <<data, wrapper, vm, table, files>>

RunNative(m, from, then) ==
    /\ stage = from
    /\ \E out \in NativeOutputs :
          IF out.exit /\ out.text \in {"rows", "other"}
          THEN data' = [data EXCEPT ![m] = out] /\ stage' = then
          ELSE stage' = "raised" /\ UNCHANGED data
    /\ UNCHANGED <<wrapper, vm, table, files>>

RunCpp == RunNative("cpp", "run_cpp", "run_rust")
RunRust == RunNative("rust", "run_rust", "discover")

--------------------------------------------------------------------------------
(***************************************************************************)
(* run_fstar.py and run_fstar.                                             *)
(***************************************************************************)

\* Counterfactual: one row for the whole member.
OneRow(status) ==
    <<[id |-> ContractIds[1], flat |-> FALSE, status |-> status, ns |-> NoTime]>>

PlaceholderRows(status) ==
    [i \in DOMAIN ContractIds |->
        [id |-> ContractIds[i], flat |-> FALSE, status |-> status, ns |-> NoTime]]

Delivered(document) == data' = [data EXCEPT !.fstar = document] /\ stage' = "tabulate"

Discover ==
    /\ stage = "discover"
    /\ IF host.checkout
       THEN stage' = "machine_ready" /\ UNCHANGED data
       ELSE Delivered(Bundle(PlaceholderRows("unavailable")))
    /\ UNCHANGED <<wrapper, vm, table, files>>

\* orbctl may itself fail, or take longer than its thirty seconds.
MachineReady ==
    /\ stage = "machine_ready"
    /\ \/ host.orbctl /\ vm = "running" /\ stage' = "bench" /\ UNCHANGED data
       \/ Delivered(Bundle(PlaceholderRows("unavailable")))
    /\ UNCHANGED <<wrapper, vm, table, files>>

\* Counterfactual: a failure is put down to the host.
BlamedOnHost(out) ==
    IF ~out.exit \/ out.text \in {"blank", "garbage"}
    THEN Bundle(PlaceholderRows("unavailable")) ELSE out

\* What the wrapper prints: the document of `make bench', or a row of failure
\* for every workload.
Printed(out) ==
    IF ~out.exit \/ out.text \in {"blank", "garbage"}
    THEN Bundle(PlaceholderRows("failed")) ELSE out

\* Counterfactual: run_fstar checks the exit status of the wrapper.
BenchChecked ==
    /\ stage = "bench"
    /\ benched' = TRUE
    /\ \/ ~host.make /\ stage' = "raised" /\ UNCHANGED data
       \/ /\ host.make
          /\ \E out \in BenchOutputs : Delivered(Printed(out))
    /\ UNCHANGED <<host, vm, table, files>>

\* Without make the wrapper dies, and the shootout goes on without F* rows.
Bench ==
    /\ stage = "bench"
    /\ benched' = TRUE
    /\ \/ ~host.make /\ Delivered(Bundle(<<>>))
       \/ /\ host.make /\ vm # "running"
          /\ Delivered(Printed([Nothing EXCEPT !.exit = FALSE]))
       \/ /\ host.make /\ vm = "running"
          /\ \E out \in BenchOutputs : Delivered(Printed(out))
    /\ UNCHANGED <<host, vm, table, files>>

--------------------------------------------------------------------------------
(***************************************************************************)
(* The table.                                                              *)
(***************************************************************************)
Absent == [id |-> NoKey, flat |-> FALSE, status |-> "", ns |-> NoTime]

\* A member's row for a key: the last one it printed.
RowOf(m, id) ==
    LET mine == {i \in DOMAIN data[m].rows : data[m].rows[i].id = id}
    IN  IF mine = {} THEN Absent ELSE data[m].rows[Max(mine)]

RowNsPerOp(r) == IF r.flat \/ r.status = "supported" THEN r.ns ELSE NoTime

RowNote(r) ==
    IF r.status \notin {"", "supported"} THEN r.status
    ELSE IF r = Absent THEN "absent" ELSE "no timing"

Cell(r) ==
    IF RowNsPerOp(r) # NoTime THEN [ns |-> RowNsPerOp(r), note |-> ""]
    ELSE [ns |-> NoTime, note |-> RowNote(r)]

\* ratio_str, about C++; the number goes without saying.  None and zero are not
\* true, everything else is, a negative number included.
Ratio(c, r) ==
    IF {c, r} \cap {NoTime, 0} # {} THEN "n/a"
    ELSE IF (c > 0 /\ r >= c) \/ (c < 0 /\ r <= c) THEN "faster" ELSE "slower"

Keys(m) == [i \in DOMAIN data[m].rows |-> data[m].rows[i].id]

\* Counterfactual: the workloads C++ knows.
CppBenchmarks == SetToSeq(ToSet(Keys("cpp")))

\* all_benchmarks, in any order.
AllBenchmarks == SetToSeq(ToSet(Keys("cpp")) \cup ToSet(Keys("rust")) \cup ToSet(Keys("fstar")))

Line(id) ==
    [id |-> id,
     cpp |-> Cell(RowOf("cpp", id)),
     rust |-> Cell(RowOf("rust", id)),
     fstar |-> Cell(RowOf("fstar", id)),
     ratio |-> Ratio(RowNsPerOp(RowOf("cpp", id)), RowNsPerOp(RowOf("rust", id)))]

LinesOf(ids) == [i \in DOMAIN ids |-> Line(ids[i])]

\* A row without a key is a TypeError when its line is formatted, one with a time
\* that is no number an error when it is read; rows a later one replaces are not
\* read.
CannotBeShown ==
    \/ Contains(AllBenchmarks, NoKey)
    \/ \E m \in DOMAIN data, id \in ToSet(AllBenchmarks) : RowNsPerOp(RowOf(m, id)) = Malformed

\* Counterfactual: a document without results counts as one with none.
TabulateAnyway ==
    /\ stage = "tabulate"
    /\ IF CannotBeShown
       THEN stage' = "raised" /\ UNCHANGED table
       ELSE table' = LinesOf(AllBenchmarks) /\ stage' = "open_json"
    /\ UNCHANGED <<data, wrapper, vm, files>>

\* Counterfactual: the data is saved as soon as it is there.
TabulateAndSave ==
    /\ stage = "tabulate"
    /\ json' = Whole(data)
    /\ IF (\E m \in DOMAIN data : data[m].text # "rows") \/ CannotBeShown
       THEN stage' = "raised" /\ UNCHANGED table
       ELSE table' = LinesOf(AllBenchmarks) /\ stage' = "open_json"
    /\ UNCHANGED <<data, wrapper, vm, md>>

\* A document without results is a KeyError.
Tabulate ==
    /\ stage = "tabulate"
    /\ IF (\E m \in DOMAIN data : data[m].text # "rows") \/ CannotBeShown
       THEN stage' = "raised" /\ UNCHANGED table
       ELSE table' = LinesOf(AllBenchmarks) /\ stage' = "open_json"
    /\ UNCHANGED <<data, wrapper, vm, files>>

--------------------------------------------------------------------------------
(***************************************************************************)
(* The summaries, and the end.                                             *)
(***************************************************************************)
Save(from, then, newJson, newMd) ==
    /\ stage = from /\ stage' = then
    /\ json' = newJson /\ md' = newMd
    /\ UNCHANGED <<data, wrapper, vm, table>>

OpenJson == Save("open_json", "write_json", Truncated, md)
WriteJson == Save("write_json", "open_md", Whole(data), md)
OpenMd == Save("open_md", "write_md", json, Truncated)
WriteMd == Save("write_md", "done", json, Whole(table))

\* A file cannot be opened, or the disk fills up while it is written.
SaveFails ==
    /\ stage \in {"open_json", "write_json", "open_md", "write_md"} /\ stage' = "unsaved"
    /\ UNCHANGED <<data, wrapper, vm, table, files>>

Kill ==
    /\ stage \notin Ended /\ stage' = "killed"
    /\ UNCHANGED <<data, wrapper, vm, table, files>>

Over == stage \in Ended /\ UNCHANGED vars

Next == \/ MachineChanges \/ Build \/ RunCpp \/ RunRust \/ Discover \/ MachineReady \/ Bench
        \/ Tabulate \/ OpenJson \/ WriteJson \/ OpenMd \/ WriteMd \/ SaveFails \/ Kill \/ Over

Spec == Init /\ [][Next]_vars
--------------------------------------------------------------------------------
Tabulated == stage \in {"open_json", "write_json", "open_md", "write_md", "done"}

TypeOK ==
    /\ stage \in Stages /\ benched \in BOOLEAN
    /\ Tabulated => \A m \in DOMAIN data : data[m].text = "rows"
    /\ json.state = "earlier" => md.state = "earlier"

\* r is what member m says of a workload: the last row it printed about it.
Says(m, id, r) ==
    \E i \in DOMAIN data[m].rows :
        /\ data[m].rows[i] = r /\ r.id = id
        /\ \A j \in DOMAIN data[m].rows : data[m].rows[j].id = id => j <= i

MayTime(r) == r.flat \/ r.status = "supported"
IsTiming(r) == MayTime(r) /\ r.ns # NoTime

\* The table has one line for every workload any member reports, with a number
\* exactly where the member's last word is a timing; a ratio has two timings
\* other than zero behind it, and between two positive ones it favours the
\* member that takes less.
TableIsFaithful ==
    Tabulated =>
        /\ \A m \in DOMAIN data : \A i \in DOMAIN data[m].rows :
              \E k \in DOMAIN table : table[k].id = data[m].rows[i].id
        /\ \A k, l \in DOMAIN table : table[k].id = table[l].id => k = l
        /\ \A k \in DOMAIN table : \A m \in DOMAIN data :
              LET cell == table[k][m]
              IN  IF cell.note = "absent" THEN \A r \in ToSet(data[m].rows) : r.id # table[k].id
                  ELSE \E r \in ToSet(data[m].rows) :
                          /\ Says(m, table[k].id, r)
                          /\ IF IsTiming(r) THEN cell.ns = r.ns ELSE cell.ns = NoTime
        /\ \A k \in DOMAIN table :
              table[k].ratio # "n/a" =>
                  \E c \in ToSet(data["cpp"].rows), r \in ToSet(data["rust"].rows) :
                      /\ Says("cpp", table[k].id, c) /\ IsTiming(c) /\ c.ns # 0
                      /\ Says("rust", table[k].id, r) /\ IsTiming(r) /\ r.ns # 0
                      /\ c.ns > 0 /\ r.ns > 0 =>
                            (table[k].ratio = "faster" <=> c.ns <= r.ns)

\* Once `make bench' has been called, no failure of the F* member is put down to
\* a missing prerequisite.
FailureIsNotHidden ==
    benched => \A r \in ToSet(data["fstar"].rows) : r.status # "unavailable"

Unusable(m) ==
    \/ data[m].text # "rows"
    \/ \E r \in ToSet(data[m].rows) :
          r.id = NoKey \/ (Says(m, r.id, r) /\ MayTime(r) /\ r.ns = Malformed)

\* Before it saves, the shootout fails on account of the F* member only if `make
\* bench' succeeded and printed a document that is no bundle or has a row that
\* cannot be shown.
FstarIsHarmless ==
    stage = "raised" =>
        \/ data["rust"] = Nothing \/ Unusable("cpp") \/ Unusable("rust")
        \/ benched /\ host.make /\ Unusable("fstar")

\* If the F* member could not even be tried, the table says so of every workload
\* of the contract, whatever the other members report.
GapIsVisible ==
    Tabulated /\ ~benched =>
        \A i \in DOMAIN ContractIds :
            \E k \in DOMAIN table :
                table[k].id = ContractIds[i] /\ table[k].fstar.note = "unavailable"

\* A shootout that fails before it saves leaves the earlier summaries alone.  The
\* Markdown is touched only once the JSON is whole, so that it is never the newer
\* of the two, and when it is whole both are about the same rows, as they are when
\* the shootout ends well.  An error while saving, like a kill, may leave one of
\* them torn, or a new JSON beside an earlier Markdown.
SummariesAgree ==
    /\ stage = "raised" => json = Earlier /\ md = Earlier
    /\ md # Earlier => json.state = "whole"
    /\ md.state = "whole" =>
          {md.of[k].id : k \in DOMAIN md.of} =
              UNION {{r.id : r \in ToSet(json.of[m].rows)} : m \in DOMAIN json.of}
    /\ md.state = "whole" <=> stage = "done"
================================================================================
