-------------------------------- MODULE Adapters --------------------------------
(***************************************************************************)
(* The benchmark programs of three families: cpp/bench_cga.cpp,            *)
(* idris2/src/Main.idr and rust/src/main.rs.  One process runs through the *)
(* workloads one after the other and prints all its rows at the end, or    *)
(* dies at the first oracle that does not match.                           *)
(*                                                                         *)
(* The implementation under test is unsound in some of the checked places: *)
(* whether a check passes is decided when the process starts.  The clock   *)
(* may read no time at all for a sample of a quick workload.  Of the       *)
(* samples of a row, their number and the shortest are kept.               *)
(***************************************************************************)
EXTENDS Integers, Sequences, FiniteSets, Lists

CONSTANTS
    Suspects, \* the checks an implementation may fail
    Quick,    \* the workloads a sample of which may take less than a clock tick
    Unknown, Legacy, NoDevice   \* see Measurements

Families == {"cpp", "idris2", "rust"}

--------------------------------------------------------------------------------
(***************************************************************************)
(* The manifest, by short names: its twelve scalar workloads, and the two  *)
(* batch workloads in three sizes.                                         *)
(***************************************************************************)
ScalarIds == <<"dense", "orthogonal", "orthogonal_conversion", "motor", "sandwich",
               "outer", "rotor", "translator", "fk", "jacobian", "inertia", "transform">>
BatchIds == <<"motors16", "motors256", "motors4096", "points16", "points256", "points4096">>
Batch == [motors16 |-> 16, motors256 |-> 256, motors4096 |-> 4096,
          points16 |-> 16, points256 |-> 256, points4096 |-> 4096]

Ids == ScalarIds \o BatchIds
Workloads == {Ids[i] : i \in DOMAIN Ids}
Batches == DOMAIN Batch
BatchSize == [w \in Workloads |-> IF w \in Batches THEN Batch[w] ELSE 1]
OperationsPerSample == [w \in Workloads |-> IF w \in Batches THEN 16384 ELSE 10000]
WarmupOperations == [w \in Workloads |-> IF w \in Batches THEN 4096 ELSE 1000]

--------------------------------------------------------------------------------
(***************************************************************************)
(* The programs.  Check looks at fixture values, coefficient by            *)
(* coefficient, before the workload it is named after is measured.         *)
(***************************************************************************)
Check(w) == [does |-> "check", id |-> w]
Measure(w) == [does |-> "measure", id |-> w]
Gap(w) == [does |-> "gap", id |-> w]

Gaps(ids) == [i \in DOMAIN ids |-> Gap(ids[i])]
Measures(ids) == [i \in DOMAIN ids |-> Measure(ids[i])]

CppProgram ==
    <<Check("fk"), Check("jacobian")>>
    \o Measures(<<"dense", "motor", "sandwich", "outer", "rotor", "translator", "fk", "jacobian">>)
    \o <<Check("inertia"), Measure("inertia"), Measure("transform")>>
    \o Gaps(BatchIds)

IdrisProgram ==
    Measures(<<"dense", "motor", "sandwich", "outer", "rotor", "fk">>)
    \o <<Check("jacobian"), Measure("jacobian"), Measure("inertia")>>
    \o Gaps(BatchIds \o <<"transform">>)

RustProgram ==
    <<Check("fk"), Gap("dense")>>
    \o Measures(<<"orthogonal", "orthogonal_conversion", "motor", "sandwich", "outer", "rotor",
                  "translator", "fk", "jacobian">>)
    \o <<Check("inertia"), Measure("inertia"), Measure("transform")>>
    \o Measures(BatchIds)

Program == [cpp |-> CppProgram, idris2 |-> IdrisProgram, rust |-> RustProgram]

\* A gap is reported without looking at anything.
ASSUME SuspectsAssumption ==
    Suspects \subseteq {Check(w) : w \in Workloads} \cup {Measure(w) : w \in Workloads}

--------------------------------------------------------------------------------
VARIABLES
    family,   \* whose program runs
    smoke,    \* with which profile: smoke or full
    unsound,  \* the checks this build fails
    stage,    \* what the process is doing
    step,     \* the step of the program it is at
    taken,    \* samples taken of the workload being timed
    shortest, \* and the shortest of them
    stopped,  \* workloads for which the clock stood still during a sample
    rows,     \* rows collected
    printed   \* what the process has printed

request == <<family, smoke, unsound>>
timing == <<taken, shortest, stopped>>
vars == <<request, stage, step, timing, rows, printed>>

Stages == {"stepping", "timing", "done", "failed"}

Init ==
    /\ family \in Families /\ smoke \in BOOLEAN /\ unsound \in SUBSET Suspects
    /\ stage = "stepping" /\ step = 1
    /\ taken = 0 /\ shortest = 0 /\ stopped = {}
    /\ rows = <<>> /\ printed = <<>>

Current == Program[family][step]
At(what) == stage = "stepping" /\ step <= Len(Program[family]) /\ Current.does = what

SampleCount == IF smoke THEN 3 ELSE 15
ProfileOperations == [s \in BOOLEAN |-> IF s THEN 1000 ELSE 10000]
AtLeastOne(n) == IF n < 1 THEN 1 ELSE n

\* Counterfactual: a batch counts its invocations.
InvocationsPerSample(w) ==
    IF w \notin Batches THEN ProfileOperations[smoke]
    ELSE IF smoke THEN 1 ELSE AtLeastOne(16384 \div Batch[w])

\* An invocation of a batch workload is as many operations as it has items.
Operations(w) ==
    IF w \notin Batches THEN ProfileOperations[smoke]
    ELSE Batch[w] * (IF smoke THEN 1 ELSE AtLeastOne(16384 \div Batch[w]))

Warmups(w) ==
    IF w \notin Batches THEN (IF smoke THEN 8 ELSE 1000)
    ELSE Batch[w] * (IF smoke THEN 1 ELSE AtLeastOne(4096 \div Batch[w]))

Unmeasured == [time |-> 0, ops |-> 0, warm |-> 0, samples |-> 0, value |-> "nan"]

Row(w, status, m) ==
    [family |-> family, workload |-> w, status |-> status,
     time |-> m.time, ops |-> m.ops, warm |-> m.warm, samples |-> m.samples,
     oracle |-> [value |-> m.value, full |-> FALSE],
     host |-> Unknown, debug |-> FALSE, exec |-> Legacy, cpu |-> NoDevice, gpu |-> NoDevice]

\* The process dies; rows collected die with it.
Fail == stage' = "failed" /\ UNCHANGED <<step, rows>>

CheckFixture ==
    /\ At("check")
    /\ IF Current \in unsound
       THEN Fail
       ELSE step' = step + 1 /\ UNCHANGED <<stage, rows>>
    /\ UNCHANGED <<request, timing, printed>>

\* Counterfactual: a mismatch is not fatal.
MeasureAnyway ==
    /\ At("measure")
    /\ stage' = "timing" /\ taken' = 0 /\ shortest' = 0
    /\ UNCHANGED <<request, step, stopped, rows, printed>>

\* The oracle of the first operands, then the warm-up.
CheckOracle ==
    /\ At("measure")
    /\ IF Current \in unsound
       THEN Fail /\ UNCHANGED timing
       ELSE /\ stage' = "timing" /\ taken' = 0 /\ shortest' = 0
            /\ UNCHANGED <<step, rows, stopped>>
    /\ UNCHANGED <<request, printed>>

\* Durations in clock ticks.
Readings(w) == IF w \in Quick THEN {0, 1} ELSE {1}

\* Counterfactual: C++ clamps as Rust does.
ClampedByAll(reading) == IF family = "idris2" THEN reading ELSE AtLeastOne(reading)

\* What is kept of a reading: Rust's max(1).
Duration(reading) == IF family = "rust" THEN AtLeastOne(reading) ELSE reading

Shorter(duration) == IF taken = 0 \/ duration < shortest THEN duration ELSE shortest

\* Counterfactual: one sample too many.
TakeOneMore ==
    /\ stage = "timing" /\ taken <= SampleCount
    /\ taken' = taken + 1 /\ shortest' = Shorter(1)
    /\ UNCHANGED <<request, stopped, stage, step, rows, printed>>

\* C++ throws at a sample that took no time.
TakeSample ==
    /\ stage = "timing" /\ taken < SampleCount
    /\ \E reading \in Readings(Current.id) :
          /\ stopped' = IF reading = 0 THEN stopped \cup {Current.id} ELSE stopped
          /\ IF family = "cpp" /\ Duration(reading) <= 0
             THEN Fail /\ UNCHANGED <<taken, shortest>>
             ELSE /\ taken' = taken + 1 /\ shortest' = Shorter(Duration(reading))
                  /\ UNCHANGED <<stage, step, rows>>
    /\ UNCHANGED <<request, printed>>

FinishRow ==
    /\ stage = "timing" /\ taken = SampleCount
    /\ rows' = Append(rows,
                  Row(Current.id, "supported",
                      [time |-> shortest, ops |-> Operations(Current.id),
                       warm |-> Warmups(Current.id), samples |-> taken, value |-> "right"]))
    /\ stage' = "stepping" /\ step' = step + 1
    /\ UNCHANGED <<request, timing, printed>>

ReportGap ==
    /\ At("gap")
    /\ rows' = Append(rows, Row(Current.id, "unsupported", Unmeasured))
    /\ step' = step + 1
    /\ UNCHANGED <<request, stage, timing, printed>>

Robotics(r) == r.workload \in {"fk", "jacobian"}
Measured(r) == r.status = "supported"

\* Idris 2 lists the robotics workloads after the other measurements.
Emission ==
    LET measured == {i \in DOMAIN rows : Measured(rows[i])}
        robotics == {i \in measured : Robotics(rows[i])}
    IN  IF family # "idris2" THEN rows
        ELSE Kept(rows, measured \ robotics) \o Kept(rows, robotics)
             \o Kept(rows, DOMAIN rows \ measured)

Emit ==
    /\ stage = "stepping" /\ step > Len(Program[family])
    /\ printed' = Emission
    /\ stage' = "done"
    /\ UNCHANGED <<request, step, timing, rows>>

Ended == stage \in {"done", "failed"} /\ UNCHANGED vars

Next == \/ CheckFixture \/ CheckOracle \/ TakeSample \/ FinishRow
        \/ ReportGap \/ Emit \/ Ended

Spec == Init /\ [][Next]_vars

--------------------------------------------------------------------------------
(***************************************************************************)
(* What the harness makes of the rows is the business of Acceptance.       *)
(***************************************************************************)
Harness ==
    INSTANCE Acceptance WITH
        Adapters <- Families, HasContract <- Batches,
        Completing <- {"cpp", "idris2"}, UniformFamily <- "idris2",
        UniformOperations <- ProfileOperations,
        OutputRows <- [f \in Families |-> [s \in BOOLEAN |-> {}]], MaxOutput <- 0,
        output <- printed, next <- 1, seen <- {}, reconciled <- {}, unchecked <- {}

TypeOK ==
    /\ stage \in Stages
    /\ step \in 1 .. Len(Program[family]) + 1
    /\ taken \in 0 .. SampleCount
    /\ stopped \subseteq Quick
    /\ Len(rows) < step

\* If the clock always moved, what a program prints is honest in the sense of
\* Acceptance, which accepts it: every workload once, those the harness fills in
\* included, each counted as the manifest, or the family's own rule, asks.
OutputIsHonest ==
    stage = "done" /\ stopped = {} =>
        /\ Harness!Honest(printed)
        /\ Len(printed) + Cardinality(Harness!Missing(printed)) = Len(Ids)
        /\ \A i \in DOMAIN printed :
              Measured(printed[i]) =>
                  printed[i].ops = Harness!ExpectedOperations(printed[i].workload)

\* A workload is printed as measured only if each check this program has about
\* it passed, with the profile's number of samples and, in a full run, warmed up
\* as the manifest says.
PrintedMeansChecked ==
    stage = "done" =>
        \A i \in DOMAIN printed :
            Measured(printed[i]) =>
                /\ \A c \in unsound :
                      c.id = printed[i].workload =>
                          c \notin {Program[family][k] : k \in DOMAIN Program[family]}
                /\ printed[i].samples = SampleCount
                /\ ~smoke => printed[i].warm = WarmupOperations[printed[i].workload]

\* A sample during which the clock stood still ends a C++ run, and makes what
\* Idris 2 prints invalid.  Rust reports a nanosecond instead.
NoTimeIsNoMeasurement ==
    stage = "done" /\ stopped # {} =>
        CASE family = "cpp" -> FALSE
          [] family = "idris2" -> \E i \in DOMAIN printed : ~Harness!ValidResult(printed[i])
          [] family = "rust" -> \A i \in DOMAIN printed : Harness!ValidResult(printed[i])
================================================================================
