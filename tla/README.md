# Verification of the gafro benchmark harness

The repository compares implementations of the same geometric-algebra workloads
(C++, Idris 2, Rust, Julia, and F* in a virtual machine). Its own logic is not
the algebra but the *evidence*: it runs adapters one after the other, keeps what
they print, validates it against a versioned contract, and publishes a
comparison that must never say more than the evidence supports. This directory
holds TLA+ models of that logic, TLC configurations that check them, and TLAPS
proofs of the properties that matter most.

## 1. Inventory

| Part | Source | State it keeps | Operations |
| --- | --- | --- | --- |
| Run archive and commands | `benchmark_harness/cli.py` | `results/runs/<run-id>/`: manifest, config, host file, `raw/`, `logs/`, `adapters/`, `report/`, `diagnostic.txt` | `benchmark`, `report` |
| Discovery and provenance | `benchmark_harness/cli.py` | a runner's checkout, identity and temporary directory; the checkouts themselves (tree, head) belong to others | `discover`, `repository_identity`, staging, building and running in `benchmark_*` |
| Acceptance of an adapter's output | `benchmark_harness/core.py`, `cli.py` | rows received, rows reconciled | `complete_adapter_results`, `validate_result`, `reconcile_results`, `validate_complete_run` |
| Comparison | `benchmark_harness/core.py` | cells, ratios, winner, note of a workload | `build_summary_model`, `render_summary_markdown`, `ratio_compatible` |
| GPU sweep planner | `benchmark_harness/core.py`, `cli.py` | planned batches, truncation | `plan-gpu`: `validate_heterogeneous_contract`, `cuda_hardware`, `plan_gpu_sweep` |
| Adapters (C++, Rust, Idris 2) | `cpp/bench_cga.cpp`, `rust/src/main.rs`, `idris2/src/Main.idr` | samples of the current workload, finished rows | fixture and oracle checks, warm-up, timed samples, emission |
| Shootout | `runner/run_all.py`, `fstar/run_fstar.py` | the members' data, `results/benchmark_summary.{json,md}` | build, run, tabulate, save |
| Inventory, smoke, manifest validation | `benchmark_harness` | none | `inventory`, `smoke`, `validate_manifest` |
| Kinematics benchmark suite | `src/gafro_benchmarks` | none | google-benchmark registrations |

**Interaction.** `benchmark` starts one adapter process per requested family and
reads its standard output; the adapter is built from a checkout that its owner
keeps working on. `report` and `benchmark` share nothing but the files
of a run directory. The shootout starts `run_fstar.py` as a child, which asks a
virtual machine for a bundle. The contracts under `contracts/` are read by all.

**What is hard.** Several commands work on one tree with no lock; every
`write_text` truncates before it fills; a process may be killed or a disk fill
up anywhere; adapters fail in the middle of a chain; what a row says of the code it
measured is asked some time before that code is read; two rules decide
independently whether two measurements may be compared; a report is made from
rows of different processes that declare different things about their host.
`PROJECT.json` lists each hazard at its line, with the property that watches it.

**What makes each part correct.**

- *Archive:* runs never share a directory; evidence is written once and never
  again; a bundle exists only on top of kept, validated output; a report speaks
  of nothing but settled evidence; a failure ends the chain and is diagnosed.
- *Provenance:* the checkout that was selected is the one that is measured, and
  everything a row claims of it was so while the row was made.
- *Acceptance:* what is accepted covers the manifest and is valid; what is honest
  is never refused; completion with gaps hides nothing.
- *Comparison:* ratios stand exactly where the pair rule allows them, never
  across a timing boundary; the winner is the fastest per operation; the note says
  what happened to the ratios; order of arrival is irrelevant.
- *Sweep planner:* exactly the sizes that fit, a truncation on record, nothing
  planned from a contract whose checked parts are flawed, no failure on account of
  the device (but for two exceptions, see Findings).
- *Adapters:* nothing unchecked is printed as measured, counts are those of the
  manifest, no workload is forgotten or doubled.
- *Shootout:* a missing member does no harm and is visible, a broken one is not
  disguised as missing, the table says what the members said.

## 2. Modules

Each module translates the lines `PROJECT.json` names under `map`.

| Module | Models | Composition |
| --- | --- | --- |
| `RunArchive` | abstract: what a reader of `results/runs` may rely on, without files or processes | |
| `BenchmarkRuns` | `benchmark` and `report` as concurrent processes over one file tree | implements `RunArchive` (`INSTANCE ... WITH`, property `ImplementsArchive`) |
| `Provenance` | one adapter's way from a checkout to a row, while the owners of the checkouts edit, commit and switch | stands for what `BenchmarkRuns` calls running an adapter |
| `Measurements` | rows of the result contract: validity, identity, comparability (no state) | |
| `Acceptance` | one adapter's output on its way to a bundle | extends `Measurements`; its outcome is what `BenchmarkRuns` calls sound or unsound output |
| `Comparison` | the rows of a run on their way to the report | extends `Measurements`, `Lists` |
| `GpuSweep` | `plan-gpu` | |
| `Adapters` | the three benchmark programs | extends `Lists`; its output is judged by an instance of `Acceptance` |
| `Shootout` | `run_all.py` with `run_fstar.py` | |
| `Lists` | sorting and selecting in lists, defined without recursion | |
| `ListFacts` | lemmas on lists and sets that several proofs use | extends `Lists` |
| `*Proofs` | theorems, checked by TLAPS | extend the module they are about; `BenchmarkRunsProofs` holds the refinement of `RunArchive` too |
| `MC*` | values for TLC | extend the module they are about |

**BenchmarkRuns.** `pc[p]` is the statement a process has reached, `run[p]` its
directory, `disk[r][n]` the content of a file, `open[p]` whether `p` stands
between truncating and filling one. A write is two steps, because
`Path.write_text` is; if two processes write one file at a time, the result may
be a mixture (`Filled`). One action per statement that touches shared state:
`Mkdir` is `create_run_directory`'s loop (atomic `mkdir`, next suffix on
`FileExistsError`, an error after the last); `SelectFamily` is the fixed chain of
`if "<family>" in requested`; an adapter is unavailable, fails after
printing, or returns; `PreserveOutput`, `WriteLogs`, `ValidateOutput`, `WriteBundle`
and `RewriteLogs` follow in that order (`write_bundle` writes the two logs a second
time, and so truncates them first); an exception leads to `diagnose` inside the
`try` statement and ends the process outside it (`OnError`). `DiskFault` is an `OSError` of any write,
`Kill` a signal at any point. A reporter attaches to any directory and runs
`publish_report`: list the bundles, read them and build the model, which may fail
on bundles that are each in order, write two files. `Hasty`
reporters do not wait for the run to end; the code never makes them wait, and
`Reports` has one of each kind.

**Provenance.** `Probe` is one round of the loop in `discover`; `FindToolchain`
stands for the checks of versions; `ReadRevision` and `ReadDirty` are the two
questions to git; `Stage` makes the temporary directory; `Compile` reads one
source, out of the working tree, because the staged tree only links to it; `Run`
prints the row and removes the directory, `Fail` only removes it. The owners of the
checkouts `Edit`, `Commit` and `Switch` at any time. A commit is identified with the
tree it records. `seen` is a history variable: the states of the checkout since its
identity was asked.

**Measurements, Acceptance, Comparison.** A row keeps the fields the rules tell
apart. Nine of the workload-describing ratio dimensions are one field
(`definition`), since they are only ever compared for equality. The
reconciling loop of `Acceptance` takes one row per step, in the order printed,
and stops at the first that is invalid, unknown, or repeats a key; the second
loop checks counts and oracles in any order. `Completed` is what
`complete_adapter_results` makes of the output, in some order of the gaps.
`Comparison` reads bundles in the order of their names, merges the host file, lays out the cells per
workload, considers pairs one per step, concludes and renders. Its sort and its
selections are `Ordered` and `Kept` of `Lists`: an element stands behind all that come
before it, and rows with equal keys keep their places, as with Python's stable `sorted`.
A label is the list of its parts. Its last part is free text, a device's `simd_target` or
`uuid`, and the number the report gives is put behind it; so a text is modelled as a name
with the ordinals it ends in (`"avx#1"` is `<<"avx", 1>>`), and a text that looks
numbered gives the label the code would give it. A row stands in the bundle of its own
family: `publish_report` would not notice another, and would treat the row alike.

**GpuSweep.** One action per stage of the command: contract, device, arguments,
one step per size. A contract is its sizes, its tiers, the set of its other checked parts
that are flawed, and its oracle, which the validation does not look at and the plan
quotes: whole, malformed (quoted all the same) or missing (a `KeyError`). `nvidia-smi`
answers, does not answer usefully, or cannot be started, which is an error.

**Adapters.** The programs are given as sequences of steps over all
eighteen workloads of the manifest, under short names. `unsound` is the set of
checks a build fails, chosen at the start; a sample's duration is a clock
reading, zero being possible for `Quick` workloads. `Duration` is what a program
keeps of a reading (Rust's `max(1)`), and C++ throws at zero. Emission happens at
the end, all at once, in the order of the program.

**Shootout.** `stage` is the statement `main` has reached, the wrapper's stages
included. The virtual machine changes at any time around the wrapper's two looks
at it. A table line has the cell of each member, the last of that
member's rows for the workload, and a ratio. Timings are integers, zero and negative ones
included (`Ratio` follows the truth values of line 172), or no timing, or something
`float` or `median` raises on. Saving takes four steps, each file being truncated and then
filled, and any of them may raise (`SaveFails`) or be cut short by `Kill`. That `make
bench` fails where the machine is not running is an assumption about the Makefile of
the other repository.

Definitions marked *Counterfactual* belong to no specification. Each is a
plausible defect of the definition that follows it, and `PROJECT.json`
(`mutants`) names the property that TLC finds violated when it takes that
definition's place.

## 3. Runs

| Run | Question | Bounds and why they suffice |
| --- | --- | --- |
| `Collide` | Do concurrent runners keep their directories, evidence and order? `TypeOK`, `DistinctRuns`, `BundleHasEvidence`, `NoAdapterSkipped`, `EvidenceIsWriteOnce` | two runners (a collision takes two), two timestamps of two names each, one of them taken by an archived run, so that the names of a timestamp may run out, two families; any write fails, any process is killed; symmetric runners |
| `Reports` | May a report overlap anything and still be backed? `SummaryIsBacked`, `SummaryMatchesEvidence`, `ImplementsArchive` | one runner, a patient and a hasty reporter, so two publishers may write one file beside the runner; kills and failing writes |
| `Progress` | Does everything end? `EndsUnlessAdapterHangs`, `ReturnedOutputIsKept`, `FailureIsDiagnosed` | two runners on one timestamp with three names, one of them taken, either killed at any moment |
| `Provenance` | Is what a row says of its code true? `TypeOK`, `SelectedIsMeasured`, `EveryClaimWasTrue` | two runners, two checkouts of two files of two contents, two temporary directories; two steps of the owners, enough to tear an identity (one between the two questions) and to mix two trees (one between two files); runners, directories, files and contents are symmetric. Runners end and the owners' steps are bounded, so deadlock is not checked |
| `Output` | What is accepted, refused, kept? `TypeOK`, `AcceptedIsSound`, `HonestIsNotRejected`, `EvidenceIsKept` | up to three rows of about fifteen kinds, one completing family and one not, both profiles; a duplicate needs two rows, a masked gap three |
| `Report` | Are ratios, winner, note and cells those of the evidence? `TypeOK`, `RatiosAreExactlyTheComparable`, `RatiosStayWithinABoundary`, `WinnerIsFastest`, `NoteIsTrue`, `CellsAreTheEvidence`, `LabelsAreUnique`, `OrderDoesNotMatter` | three rows of three families and two workloads; plain rows with hosts undeclared, partly or fully declared, and four timings of which the shortest is not the fastest and two have one rate; or rows with execution metadata, several of one family, on processors, one of which has a text that ends in an ordinal, and on two devices with one and several streams. Two rows make a ratio, the third makes the list rule differ from the pair rule |
| `Sweep` | Is the plan what fits? `PlanIsWhatFits`, `TruncationIsRecorded`, `PlansComeFromCheckedContracts`, `DeviceDoesNotMatter` | up to three sizes around the limit, sorted or not, every option and answer, a contract with each flaw and with all of them, every state of the oracle |
| `Adapters` | Is what the programs print honest, complete and checked? `TypeOK`, `OutputIsHonest`, `PrintedMeansChecked`, `NoTimeIsNoMeasurement` | the whole manifest and the real counts; four checks that may fail, two workloads with a slow clock |
| `Shootout` | Does the table say what the members said, and do the files? `TypeOK`, `TableIsFaithful`, `FailureIsNotHidden`, `FstarIsHarmless`, `GapIsVisible`, `SummariesAgree` | every host, every machine state, thirteen kinds of native output and eight of `make bench`, among them timings of zero and less and rows that cannot be shown; every step of saving may fail |
| `LostOutput` | *violated:* output of an adapter that exits non-zero is not kept | see Findings |
| `HalfDeclaredHosts` | *violated:* a winner is named over a pair without a ratio | see Findings |
| `MissingColumn` | *violated:* a rendered row is shorter than its header (four families; the other runs have three, whose rows are complete) | see Findings |

`RunArchive` is not run by itself; `Reports` checks it as a property.

**Fairness.** Only `Progress` needs any: weak fairness of each process's own
steps once it has been started (`FairSpec`). The operating system schedules a
process that is ready, and none of these steps waits for another process.
Starting a command and the answer of an adapter get no fairness:
`subprocess.run` is called without a timeout, so an adapter may hang for ever, and
the property says so. Deadlock is checked in every run but `Provenance`; processes
that have ended stutter explicitly.

## 4. Proofs

TLC shows the properties on the instances above. TLAPS proves these for all
values of the constants, under the modules' named assumptions and no others but
those the third column names.

| Theorem | Statement | Beyond the modules' assumptions |
| --- | --- | --- |
| `BenchmarkRunsProofs!TypeCorrect` | `Spec => []TypeOK`, any number of processes, families, timestamps | |
| `BenchmarkRunsProofs!RunsAreDistinct` | `Spec => []DistinctRuns` | |
| `BenchmarkRunsProofs!EvidenceSurvives` | `Spec => EvidenceIsWriteOnce` | |
| `BenchmarkRunsProofs!BundlesHaveEvidence` | `Spec => []BundleHasEvidence` | |
| `BenchmarkRunsProofs!OutputIsKeptFirst` | `Spec => []JudgedIsKept`, the safety half of `ReturnedOutputIsKept` | |
| `BenchmarkRunsProofs!FailuresLeaveDiagnostics` | `Spec => []FailedIsDiagnosed`, the safety half of `FailureIsDiagnosed` | |
| `BenchmarkRunsProofs!NoFamilyIsSkipped` | `Spec => []NoAdapterSkipped` | |
| `BenchmarkRunsProofs!ReportsAreBacked` | `Spec => []SummaryIsBacked` | |
| `BenchmarkRunsProofs!ReportsAreExact` | `Spec => []SummaryMatchesEvidence` | |
| `BenchmarkRunsProofs!Refinement` | `Spec => ImplementsArchive` | |
| `ProvenanceProofs!TypeCorrect` | `Spec => []TypeOK`, any number of runners, checkouts, files | |
| `ProvenanceProofs!SelectedMeasured` | `Spec => []SelectedIsMeasured` | |
| `ProvenanceProofs!ClaimsWereTrue` | `Spec => []EveryClaimWasTrue` | |
| `ProvenanceProofs!UndisturbedTrue` | `Spec => []UndisturbedRowsAreTrue` | |
| `AcceptanceProofs!LoopsAreWellTyped` | `Spec => []TypeOK` | |
| `AcceptanceProofs!BundlesAreSound` | `Spec => []AcceptedIsSound`, any manifest, any output of any length | |
| `AcceptanceProofs!EvidenceSurvivesCompletion` | `Spec => []EvidenceIsKept` | |
| `AcceptanceProofs!HonestyIsEnough` | `Spec => []HonestIsNotRejected` | the family told one count for all workloads is not among the adapters |
| `ComparisonProofs!ReportIsAFunctionOfTheEvidence` | `Spec => []IInv`, any number of rows, families, workloads | |
| `ComparisonProofs!ReportTypes` | `Spec => []TypeOK` | |
| `ComparisonProofs!RatiosAreTheComparable` | `Spec => []RatiosAreExactlyTheComparable` | |
| `ComparisonProofs!RatiosStayOnTheirSide` | `Spec => []RatiosStayWithinABoundary` | |
| `ComparisonProofs!WinnersAreFastest` | `Spec => []WinnerIsFastest`, any times and counts, ties included | |
| `ComparisonProofs!NotesAreTrue` | `Spec => []NoteIsTrue` | |
| `ComparisonProofs!CellsShowTheEvidence` | `Spec => []CellsAreTheEvidence` | |
| `ComparisonProofs!CellsHaveLabelsOfTheirOwn` | `Spec => []LabelsAreUnique`, which excepts texts that end in an ordinal | |
| `ComparisonProofs!ReportsAreDeterministic` | `Spec => []OrderDoesNotMatter` | |
| `ComparisonProofs!ReconciledIgnoresOrder` | any permutation of the rows of a run is reconciled to one list | |
| `ComparisonProofs!ReportAgreesWithContract` | the rules of the report decide for two valid rows as `ratio_compatible` does | |
| `ComparisonProofs!PairsMakeTheList` | where all pairs are comparable, the list is | |
| `ComparisonProofs!OnlyOpenKeysDivide` | where the list is comparable and a pair is not, the pair disagrees over a host key the first one leaves open | |
| `ComparisonProofs!DeclaredHostsAreEnough` | where the list is comparable, all pairs are | the first host is declared in full |
| `ComparisonProofs!RatiosKeepTheBoundary` | what the contract lets compare uses one timer | |
| `GpuSweepProofs!SweepsAreExact` | `Spec => []PlanIsWhatFits`, any contract | |
| `GpuSweepProofs!TruncationsAreRecorded` | `Spec => []TruncationIsRecorded` | |
| `GpuSweepProofs!PlansAreFromCheckedContracts` | `Spec => []PlansComeFromCheckedContracts` | |
| `GpuSweepProofs!DevicesDoNotMatter` | `Spec => []DeviceDoesNotMatter` | |
| `AdaptersProofs!RowsAreThoseOfTheSteps` | `Spec => []IInv`, any suspects, any quick workloads | |
| `AdaptersProofs!AdapterTypes` | `Spec => []TypeOK` | |
| `AdaptersProofs!PrintedRowsAreChecked` | `Spec => []PrintedMeansChecked` | |
| `AdaptersProofs!StoppedClocksShow` | `Spec => []NoTimeIsNoMeasurement` | |
| `AdaptersProofs!OutputsAreHonest` | `Spec => []OutputIsHonest` | |
| `ShootoutProofs!StagesAreWellTyped` | `Spec => []TypeOK` | |
| `ShootoutProofs!TablesAreFaithful` | `Spec => []TableIsFaithful`, lists of any length | |
| `ShootoutProofs!FailuresAreShown` | `Spec => []FailureIsNotHidden` | `BenchIsPlain`: `make bench` does not itself print rows marked as the wrapper marks missing prerequisites |
| `ShootoutProofs!FstarDoesNoHarm` | `Spec => []FstarIsHarmless` | |
| `ShootoutProofs!GapsAreVisible` | `Spec => []GapIsVisible`, any contract | |
| `ShootoutProofs!SummariesAreConsistent` | `Spec => []SummariesAgree` | |

*The archive.* `TypeOK` is not inductive: an adapter step is well typed only
because a runner there has a family to run, a `mkdir` only because a name has
been chosen; `TypeInv` adds both. `DistinctRuns` follows from `OwnInv`: a
runner has no directory before `mkdir`, and every directory a process works on
exists; the only step that hands out a directory takes a name not in `dirs`. A lemma
(`StepShapes`) reduces the many actions to three shapes, and the step proof
has one case for each. `EvidenceIsWriteOnce` needs `FreshInv`: what a runner has
yet to complete (`Unfilled`, a function of its program position) is not complete
on disk, because its directory was new and, by `OwnInv`, nobody else writes
evidence there; every write to evidence goes to an unfilled file.

*Bundles.* `BundleInv` adds what a runner's position says of its directory
(`PositionInv`): past `preserve` the raw file is the output it holds, at `bundle`
that output is sound, and the bundles of the families ahead are absent.
With it, `KeptInv` shows that output, and its logs, are on disk before they
are judged (`JudgedIsKept`), and that a failed run has its diagnostic: a fill always
leaves a settled file, and but for summaries nobody else writes there (`OwnFilesStay`).
`NoAdapterSkipped` is inductive together with `OrderInv`: the requested families
before the one reached have left their bundles (`BehindInv`).

*Reports.* Between reading and writing, what a publisher has seen is a set of
settled bundles (`ViewInv`), and settled bundles stay (`BackedInv`). That the
summary is also complete holds for runs no hasty reporter touches, and takes six
parts (`MatchInv`): a patient reporter works in closed runs only, what is seen of a
quiet run is what is there, a quiet run has no summary while it is measured, and
only exact ones ever.

*Refinement.* `Status`, `Recorded` and `Published` map a file tree with its
processes to the abstract archive: a run is open while a runner that has not ended
works in it, its evidence is its sound bundles, a document is published
while it is whole. One lemma for each kind of step shows which abstract action it
is; `ArchiveInv` supplies the abstract guards, `Publish` needing `BackedInv` and
`Record` `BundleInv`.

*Provenance.* `SearchInv` says that the places tried hold no checkout, `DirInv`
that temporary directories are not shared, `ClaimInv` that what has been asked,
compiled or printed so far is in the history `seen`, and that the checkout's
present state is. An owner's step only adds to the history; a runner's step writes
to a directory of its own.

*Acceptance.* `IInv` joins the type invariant (the keys seen are those of
the rows reconciled) with what each loop has established about the rows behind it.
A key not seen is the key of no reconciled row, which keeps keys distinct.
`PathInv` adds where the rows come from: they are the completed output, and the
reconciled ones are those behind the loop. Honest rows stay honest when gaps are
added (`HonestCompleted`), so none of the three places at which a run is refused
can be reached. The family excluded there is asked for counts the manifest does not
have; see Findings.

*Sweep.* `SweepInv` says that the batches planned are the sizes before `next` and
that all of them fit. That the sizes after the first misfit do not fit either
takes monotonicity of the required memory and sorted sizes. `AnswerInv` says
that memory is detected only where the command line leaves the matter to the device.

*Shootout.* `DataInv` says that what was read are lists, `StageInv` what the
wrapper's progress says of the F* rows, `FileInv` that the table is that of the data
and the files are what the stage says. The last row of a key is found by the last
place a property holds in a list (`LastPlace`, in `ListFacts`).

*Comparison.* `IInv` says that a report is a function of the reconciled evidence:
each finished row is `Summary(checked, w)` of its workload, and what is in work has
come as far as the pair considered next (`InWork`). Since the code builds rows
piece by piece, this is what must be shown step by step; the properties are then facts
about `Summary`. Three results carry them. The list `Reconciled` makes is a
permutation of the rows and depends on nothing but their set, because `SortsBefore`
is a total order on the keys of reconcilable rows (`ReconciledIgnoresOrder`); it is
here that different identities must have different texts. The cells of a family
inside the concatenation of all families are its rows, each at one place. And
`Fastest` exists: among rates in a finite list one is the least. The rules by which
pairs are compared are treated on their own (`ReportAgreesWithContract`,
`PairsMakeTheList`, `OnlyOpenKeysDivide`, `RatiosKeepTheBoundary`), for any rows,
not of a behaviour. Together they explain the finding `HalfDeclaredHosts`: its only
cause is a first measurement that leaves a host key open. They are also what
`NotesAreTrue` rests on, which relates the note, made from the list, to the ratios, made
from pairs. For labels, `PartsBeforeText` puts free text behind four parts, so that a
plain row's base label has one part or five, and no numbered one is as long
(`LabelsOfRows`); where a text ends in an ordinal, it may be, and the theorem says nothing.

The assumptions of the module are `ComparisonAssumption` (the four lists name every
family or workload once, `MaxRows` is any number) and `RowsAssumption` (rows have the
contract's fields, integral times and devices with texts; `TextRank`, the place of an identity's JSON text
among the texts, is different for different identities, which `json.dumps` with sorted
keys justifies).

*Adapters.* `IInv` joins five parts: the rows collected are one for each step behind
that is no check (`RowsInv`), which needs that a program names no workload twice
(`OncePerWorkload`, a lemma per program); the checks behind passed, and a workload
being timed passed its own (`ChecksInv`); a clock that stood still has left a trace in
what the program has or is about to have (`ClockInv`); what is printed is `Emission` of
all rows (`DoneInv`). `Emission` lists the rows of Idris 2 in another order; that it
neither loses nor doubles any is `PicksJoin` in `ListFacts`: selections of disjoint
places, put one behind the other, are a selection of their union. Honesty in the
sense of `Acceptance` follows row by row, the counts by the arithmetic of the batch
sizes. `SuspectsAssumption`: only checks of fixtures and of oracles can fail.

*Lists.* For any strictly ordered finite set, the number of elements before one is a
bijection onto the numbers below the set's size (`RankIsABijection`: injective, and
both sets are of one size). So `Ordered` enumerates its set in that order, and what
`Kept` does to lists follows. `FlattenSeq` of the sequence library is unfolded once,
then its places are found prefix by prefix, the least one that fails being impossible.

**Only model-checked.** Every invariant and action property the passing runs check
is a theorem. Liveness under fairness and `ENABLED` are beyond the prover: that
`Progress`'s processes end, and reach the states `JudgedIsKept` and `FailedIsDiagnosed`
speak of, is TLC's alone, as are the counterexamples of the three runs that expect a
violation.

## 5. Findings

Each is a run expected to fail, quoting what the repository says.

- **`LostOutput`**: an adapter that exits non-zero raises in `subprocess.run`
  before `preserve_adapter_output`; README.md:68-70 promises the exact output in
  the run directory.
- **`HalfDeclaredHosts`**: hosts are compared with the first cell's only, and
  agreement of partly declared hosts is not transitive; README.md:81 promises that
  winners are omitted when host metadata differs.
- **`MissingColumn`**: the header follows the list of families, the row has three
  cells; a committed report shows it.

Disagreements met while modelling, which the properties leave out by an
explicit condition:

- `write_bundle` writes both logs again (`cli.py:126`), truncating what
  `preserve_adapter_output` has already settled: a kill or a full disk there destroys
  the error output, which is kept nowhere else, although README.md:66-71 promises that a
  failure leaves the logs. `EvidenceIsWriteOnce` is about the documents and raw
  output, not the logs; `ReturnedOutputIsKept` follows the log up to the rejection
  of the output.
- The identity of a checkout is two questions to git (`cli.py:99-102`), and the
  "isolated temporary source tree" of README.md:117-118 is a link to the checkout
  (`cli.py:176`): a row may name a clean revision that was never compiled, when the
  owner works on the checkout meanwhile. `EveryClaimWasTrue` says what remains: each
  claim was true at a moment of its own; `UndisturbedRowsAreTrue`, with nobody
  interfering, that all were true at once.
- `validate_heterogeneous_contract` does not look at the oracle that the plan quotes
  (`core.py:194`): a contract without it passes the validation and ends in a
  `KeyError`, and a malformed one is quoted in the plan as it is.
  `PlansComeFromCheckedContracts` speaks of the parts that are checked, and of an
  oracle that is there.
- `nvidia-smi` that is found and cannot be started makes `plan-gpu` fail: `cli.py:59`
  does not catch the `OSError`, while a missing, failing or hanging one leads to a plan
  that says so. `DeviceDoesNotMatter` leaves it out.
- `validate_manifest` accepts operands that are no object and an empty list of
  workloads (`core.py:49`); `benchmark` reads them after it has made the run
  directory and before the `try` statement (`cli.py:338`), `smoke` takes the first
  workload (`cli.py:89`). The models start from the manifest of the repository.
- `report --run-id` publishes for a failed run (`cli.py:305-314` never looks at
  `diagnostic.txt`); README.md:69-71 says a failed adapter publishes no comparison.
- A report overlapping its run may leave `summary.json` and `summary.md` of two
  models (`cli.py:301-302`). `SummaryMatchesEvidence` leaves out runs a hasty
  reporter has touched.
- Rows of another family pass `validate_complete_run` without count and oracle
  checks (`core.py:288-289`); README.md:110-111 asks for them of all.
  `AcceptedIsSound` confirms the adapter's own rows.
- `benchmark_idris2` is told one operation count for all workloads (`cli.py:346`),
  its siblings one per workload. `Confirmed` leaves the count of that family out;
  `OutputIsHonest` shows that the program as it is does not notice.
- A device with 0 MiB free makes `plan-gpu` fail instead of planning an empty,
  truncated sweep (`core.py:201-204`). `DeviceDoesNotMatter` leaves it out.
- The timed loops alternate two sets of operands and only the first is checked
  against the oracle; C++ and Rust print the expected value as the oracle they
  computed; Rust reports a sample that took no time as one nanosecond
  (`NoTimeIsNoMeasurement` spells out what each program does).
- A label ends in free text and is numbered by putting `#1`, `#2` behind it
  (`core.py:366-376`, `413-415`). Of rows with the SIMD targets `avx`, `avx` and `avx#1`
  whose labels are otherwise alike (the first two differ in their cache state, say), one of
  the first two and the third get one label, and ratios and winner name either by it. `LabelsAreUnique` excepts such texts; TLC reaches the collision when the
  exception is taken out.
- "compatible within recorded metadata" may stand over a missing ratio, in the state of
  `HalfDeclaredHosts`. `NoteIsTrue` says that nowhere else.
- The shootout's ratio tests truth values (`run_all.py:172`), so that negative timings get
  one, and between two of them the comparison is turned round. `TableIsFaithful` asks for
  timings other than zero, and about the faster member of positive ones only.
- A row the shootout cannot read or show (no key, a time that is no number) ends it, and so
  does a document without results, after all members have run. The earlier summaries
  survive that; they do not survive an `OSError` while saving (`run_all.py:197-198`,
  `214-215`), which leaves a torn file, or a new JSON beside an old Markdown, as a kill
  does. `SummariesAgree` says what holds in every case.
- A virtual machine that stops between `machine_ready` and `make bench` is
  reported as `failed`, although `fstar/run_fstar.py:22-29` reserves that for hosts
  with all prerequisites; without `make` the wrapper dies, although
  `run_all.py:108-109` says it always exits 0; a bundle without results, or that
  leaves out workloads, is passed on as it is. `FailureIsNotHidden`,
  `FstarIsHarmless` and `GapIsVisible` are stated for what remains true.

## 6. Not modelled

`inventory` and `smoke` keep no state; `inventory` prints what `discover` finds, and
`smoke` reconciles three rows it makes up itself. Validation of the manifest, and
of the parts of the heterogeneous contract other than the sweep, decides on the shape of
one document: the models know only whether it holds. The generated header the
C++ adapter takes from another project's build tree (`cli.py:146`) is outside any
identity, and `Provenance` speaks of sources under version control only. The Julia
program belongs to another repository; the harness side is modelled. The
kinematics suite and its comparison program call third-party libraries under
google-benchmark. Numerical content is left out throughout: an oracle check passes
or fails, a duration is a small number, and a text is what a parser or validator
makes of it. The shape of malformed JSON is one value ("garbage"). Recorded runs
are data.

Simplifications a reader should know of. `ReadDirty` looks at the whole tree at once,
while `git status` scans it file by file (`cli.py:101`): a finer model would only add
torn answers to those the Findings describe. Every family of `Provenance` stages in a
temporary directory; Julia runs in the checkout itself (`cli.py:256-263`), which is a
runner with nothing to stage, and no kill is modelled there, so that directories a
killed runner leaves behind are not seen. `SummaryIsBacked` and its like speak of
families, not of the rows in a bundle; what a row is worth is the matter of `Acceptance`
and `Comparison`.

## 7. Plan

Modelled and checked: archive with its logs, provenance, acceptance, comparison,
sweep, adapters, shootout. Proved: every property the passing runs check but those of
`Progress`. What would come next:

1. An abstract specification of the comparison (what a reader may conclude from a
   report) implemented by `Comparison`, from `ReportIsAFunctionOfTheEvidence`.
2. The composition of `Adapters` with `Acceptance` as a theorem: what an adapter prints
   with a clock that moves, `Acceptance` accepts (`OutputsAreHonest` and
   `HonestyIsEnough` meet in `Honest`); of `Acceptance` with `Comparison`, whose rows are
   accepted ones; and of `Provenance` with `BenchmarkRuns`.
3. The contract's precision experiments and the manifest's rules, as operators
   checked against a reference.
