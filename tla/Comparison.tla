------------------------------- MODULE Comparison -------------------------------
(***************************************************************************)
(* publish_report, build_summary_model and render_summary_markdown: from   *)
(* the rows found in a run's bundles to the report of that run.            *)
(*                                                                         *)
(* Bundles are read in the order of their file names; host keys a row does *)
(* not declare are filled in from the run's host file, except "machine".   *)
(* For each workload the cells of every family are laid out, every pair of *)
(* supported cells is considered for a ratio, and a winner is named if the *)
(* cells are comparable as a whole.                                        *)
(***************************************************************************)
EXTENDS Measurements, Lists, SequencesExt

CONSTANTS
    Implementations, \* the families, in the order of the report's columns
    BundleOrder,     \* the families, in the order of their bundles' names
    SortedIds,       \* the workloads, in the order of their ids
    OrderedIds,      \* the workloads, canonical ones before batch variants
    Variants,        \* the workloads whose id starts with "batch_"
    SharedHost,      \* host keys recorded by the orchestrator
    Rows,            \* sets of rows: those of one of them may stand in one run
    TextRank(_),     \* where the text of a row's identity stands among the texts
    MaxRows          \* bound on the rows of one run

Families == {Implementations[i] : i \in DOMAIN Implementations}

\* What the models of rows and reports rely on: each list has every member once,
\* rows are records with integral times and counts of one of the families (others
\* are no results of the contract) whose devices have texts, and different
\* identities are different texts.
RowFields == {"family", "workload", "status", "time", "ops", "oracle", "host",
              "debug", "exec", "cpu", "gpu"}
\* A device's text, the SIMD target or the uuid, is whatever the adapter wrote.  What
\* counts is whether it ends like a number given by the report: it is a name and
\* the ordinals that follow it, "avx#1" is <<"avx", 1>>.
IsText(t) == Len(t) \in Nat \ {0} /\ t = [i \in 1 .. Len(t) |-> t[i]]
Enumerates(seq, S) ==
    /\ seq \in Seq(S)
    /\ \A x \in S : \E i \in DOMAIN seq : seq[i] = x
    /\ \A i, j \in DOMAIN seq : seq[i] = seq[j] => i = j

ASSUME ComparisonAssumption ==
    /\ Enumerates(Implementations, Families) /\ Len(Implementations) >= 3
    /\ Enumerates(BundleOrder, Families)
    /\ Enumerates(SortedIds, Workloads) /\ Enumerates(OrderedIds, Workloads)
    /\ Variants \subseteq Workloads
    /\ MaxRows \in Nat

ASSUME RowsAssumption ==
    /\ \A S \in Rows : \A r \in S :
          /\ RowFields \subseteq DOMAIN r
          /\ r.family \in Families /\ r.time \in Nat /\ r.ops \in Nat
          /\ r.cpu # NoDevice => IsText(r.cpu.simd)
          /\ r.gpu # NoDevice => IsText(r.gpu.uuid)
    /\ \A a, b \in {MeasurementIdentity(r) : r \in UNION Rows} :
          TextRank(a) \in Nat /\ (TextRank(a) = TextRank(b) => a = b)

VARIABLES
    stage,     \* what is being done
    results,   \* the rows read from the bundles, in the order they were read
    checked,   \* the same rows reconciled and sorted
    cells,     \* the cells of the current workload
    pair,      \* the pair of supported cells considered next
    ratios,    \* pairs of positions in the supported cells that got a ratio
    report,    \* the finished rows of the model
    lines      \* the finished rows of the Markdown table

vars == <<stage, results, checked, cells, pair, ratios, report, lines>>

Stages == {"read", "cells", "pairs", "conclude", "render", "published", "rejected"}

Init ==
    /\ stage = "read"
    /\ results = <<>> /\ checked = <<>> /\ cells = <<>>
    /\ pair = <<1, 2>> /\ ratios = {}
    /\ report = <<>> /\ lines = <<>>

--------------------------------------------------------------------------------
(***************************************************************************)
(* Reading the evidence.                                                   *)
(***************************************************************************)
Position(seq, x) == CHOOSE i \in DOMAIN seq : seq[i] = x

\* {**shared_host, **result["host"]}
MergeHost(host) ==
    [k \in HostKeys |-> IF host[k] = Unknown /\ k \in DOMAIN SharedHost
                        THEN SharedHost[k] ELSE host[k]]

Merged(r) == [r EXCEPT !.host = MergeHost(@)]

\* One row more, of the bundle being read or of a later one.  A row stands in the
\* bundle of its own family, as the adapters write them; publish_report would take it
\* from any other as well.
ReadResult ==
    /\ stage = "read" /\ Len(results) < MaxRows
    /\ \E S \in Rows : \E r \in S :
          /\ \A i \in DOMAIN results : results[i] \in {Merged(q) : q \in S}
          /\ results # <<>> =>
                Position(BundleOrder, Last(results).family) <= Position(BundleOrder, r.family)
          /\ results' = Append(results, Merged(r))
    /\ UNCHANGED <<stage, checked, cells, pair, ratios, report, lines>>

ScopeRank(r) == IF Heterogeneous(r) THEN ScopeRule[r.exec.scope].rank ELSE -1

\* Counterfactual: rows are told apart by their scopes, without the configuration.
PrecedesByScope(a, b) == ScopeRank(a) < ScopeRank(b)

\* The order of _measurement_sort_key within one family and workload: by
\* timing scope, then by the text of the identity.
Precedes(a, b) ==
    \/ ScopeRank(a) < ScopeRank(b)
    \/ /\ ScopeRank(a) = ScopeRank(b)
       /\ TextRank(MeasurementIdentity(a)) < TextRank(MeasurementIdentity(b))

SortsBefore(a, b) ==
    \/ Position(SortedIds, a.workload) < Position(SortedIds, b.workload)
    \/ /\ a.workload = b.workload
       /\ \/ Position(BundleOrder, a.family) < Position(BundleOrder, b.family)
          \/ a.family = b.family /\ Precedes(a, b)

\* sorted() is stable: rows with equal keys stay in the order they came.
SortOrder(rows) ==
    {p \in (DOMAIN rows) \X (DOMAIN rows) :
        \/ SortsBefore(rows[p[1]], rows[p[2]])
        \/ ~SortsBefore(rows[p[2]], rows[p[1]]) /\ p[1] < p[2]}
Reconciled(rows) ==
    LET order == Ordered(DOMAIN rows, SortOrder(rows))
    IN  [i \in 1 .. Len(rows) |-> rows[order[i]]]

\* Counterfactual: of rows with one key the first is kept.
DropDuplicates ==
    /\ stage = "read"
    /\ IF \A i \in DOMAIN results : ValidResult(results[i])
       THEN /\ LET first == {i \in DOMAIN results : \A j \in 1 .. (i - 1) :
                                ReconcileKey(results[j]) # ReconcileKey(results[i])}
               IN  checked' = Reconciled(Kept(results, first))
            /\ stage' = "cells"
       ELSE stage' = "rejected" /\ UNCHANGED checked
    /\ UNCHANGED <<results, cells, pair, ratios, report, lines>>

\* All bundles are read: reconcile_results either raises or sorts.
EndOfBundles ==
    /\ stage = "read"
    /\ IF Reconcilable(results)
       THEN /\ checked' = Reconciled(results)
            /\ stage' = IF OrderedIds = <<>> THEN "published" ELSE "cells"
       ELSE stage' = "rejected" /\ UNCHANGED checked
    /\ UNCHANGED <<results, cells, pair, ratios, report, lines>>

--------------------------------------------------------------------------------
(***************************************************************************)
(* One workload after the other.                                           *)
(***************************************************************************)
Workload == OrderedIds[Len(report) + 1]
PlacesOf(rows, f, w) == {i \in DOMAIN rows : rows[i].family = f /\ rows[i].workload = w}
RowsOf(rows, f, w) == Kept(rows, PlacesOf(rows, f, w))

\* _measurement_label: the device's text ends it.
Text(r) == IF r.cpu # NoDevice THEN r.cpu.simd ELSE r.gpu.uuid
BaseLabel(r) ==
    IF ~Heterogeneous(r) THEN <<r.family>>
    ELSE IF r.cpu # NoDevice THEN <<r.family, r.exec.scope, "t", r.cpu.threads>> \o Text(r)
    ELSE <<r.family, r.exec.scope, "s", r.exec.streams>> \o Text(r)

\* Counterfactual: cells whose base labels are equal are not numbered.
PlainLabel(rows, i) == BaseLabel(rows[i])

\* A base label several rows of the family share is numbered: "#1" is put behind it.
Label(rows, i) ==
    LET base == BaseLabel(rows[i])
        same == {j \in DOMAIN rows : BaseLabel(rows[j]) = base}
    IN  IF Cardinality(same) = 1 THEN base
        ELSE Append(base, Cardinality({j \in same : j <= i}))

Cell(rows, i) == [family |-> rows[i].family, label |-> Label(rows, i),
                  status |-> rows[i].status, row |-> rows[i]]
BlockedCell(f) == [family |-> f, label |-> <<f>>, status |-> "blocked"]

\* Counterfactual: one row per family, a later one in the place of an earlier.
FamilyCellsLast(rows, f) ==
    IF rows = <<>> THEN <<BlockedCell(f)>> ELSE <<Cell(rows, Len(rows))>>

FamilyCells(rows, f) ==
    IF rows = <<>> THEN <<BlockedCell(f)>>
    ELSE [i \in 1 .. Len(rows) |-> Cell(rows, i)]

WorkloadCells(rows, w) ==
    FlattenSeq([i \in DOMAIN Implementations |->
                   FamilyCells(RowsOf(rows, Implementations[i], w), Implementations[i])])

LayOutCells ==
    /\ stage = "cells"
    /\ cells' = WorkloadCells(checked, Workload)
    /\ pair' = <<1, 2>> /\ ratios' = {}
    /\ stage' = "pairs"
    /\ UNCHANGED <<results, checked, report, lines>>

Shown(cs) == {i \in DOMAIN cs : cs[i].status = "supported"}
Measured(cs) == [k \in 1 .. Cardinality(Shown(cs)) |-> Kept(cs, Shown(cs))[k].row]

\* Both rules, applied to a list of cells of whatever length.
Comparable(list) == CompatibleEnvironments(list) /\ CompatibleContracts(list)

\* Every pair of supported cells, in the order of the two nested loops.
ComparePair ==
    LET measured == Measured(cells)
        i == pair[1]
        j == pair[2]
    IN  /\ stage = "pairs"
        /\ IF i >= Len(measured) THEN stage' = "conclude" /\ UNCHANGED <<pair, ratios>>
           ELSE /\ UNCHANGED stage
                /\ IF j > Len(measured)
                   THEN pair' = <<i + 1, i + 2>> /\ UNCHANGED ratios
                   ELSE /\ pair' = <<i, j + 1>>
                        /\ ratios' = IF Comparable(<<measured[i], measured[j]>>)
                                     THEN ratios \cup {<<i, j>>} ELSE ratios
        /\ UNCHANGED <<results, checked, cells, report, lines>>

\* a's time per operation is below b's.
Faster(a, b) == a.time * b.ops < b.time * a.ops

\* Counterfactual: samples are compared without dividing by their operations.
FastestSample(list) ==
    CHOOSE i \in DOMAIN list :
        \A j \in DOMAIN list : IF j < i THEN list[i].time < list[j].time
                               ELSE ~(list[j].time < list[i].time)

\* min(): the first of the fastest cells.
Fastest(list) ==
    CHOOSE i \in DOMAIN list :
        \A j \in DOMAIN list : IF j < i THEN Faster(list[i], list[j])
                               ELSE ~Faster(list[j], list[i])

\* Counterfactual: the note does not look at the ratios that were found.
NoteWithoutPartial(list, found) ==
    IF Comparable(list) THEN "compatible"
    ELSE IF Len(list) < 2 THEN "too few"
    ELSE IF ~CompatibleContracts(list) THEN "dimensions differ"
    ELSE "metadata differ"

Note(list, found) ==
    IF Comparable(list) THEN "compatible"
    ELSE IF Len(list) < 2 THEN "too few"
    ELSE IF found # {} THEN "partial"
    ELSE IF ~CompatibleContracts(list) THEN "dimensions differ"
    ELSE "metadata differ"

\* The winner is the position of a supported cell, 0 if none is named.
Conclude ==
    /\ stage = "conclude"
    /\ LET measured == Measured(cells)
       IN  report' = Append(report,
               [workload |-> Workload, cells |-> cells, ratios |-> ratios,
                winner |-> IF Comparable(measured) THEN Fastest(measured) ELSE 0,
                note |-> Note(measured, ratios),
                variant |-> Workload \in Variants])
    /\ stage' = IF Len(report') = Len(OrderedIds) THEN "render" ELSE "cells"
    /\ cells' = <<>>
    /\ UNCHANGED <<results, checked, pair, ratios, lines>>

(***************************************************************************)
(* render_summary_markdown: a table column is the sequence of cells it     *)
(* shows; the comparison shows the ratios, or the note where there is      *)
(* none, and the winner.  The header has one column for the workload, one  *)
(* per family and one for the comparison; line 531 writes rendered[0] to   *)
(* rendered[2].                                                            *)
(***************************************************************************)
HeaderColumns == Len(Implementations) + 2
RenderedFamilies == 3

Column(row, f) == Kept(row.cells, {i \in DOMAIN row.cells : row.cells[i].family = f})

ComparisonColumn(row) ==
    [shown |-> IF row.ratios # {} THEN row.ratios ELSE row.note,
     winner |-> row.winner, variant |-> row.variant]

RenderRow ==
    /\ stage = "render"
    /\ LET row == report[Len(lines) + 1]
       IN  lines' = Append(lines,
               <<row.workload>>
               \o [i \in 1 .. RenderedFamilies |-> Column(row, Implementations[i])]
               \o <<ComparisonColumn(row)>>)
    /\ stage' = IF Len(lines') = Len(report) THEN "published" ELSE "render"
    /\ UNCHANGED <<results, checked, cells, pair, ratios, report>>

Ended == stage \in {"published", "rejected"} /\ UNCHANGED vars

Next == \/ ReadResult \/ EndOfBundles \/ LayOutCells \/ ComparePair
        \/ Conclude \/ RenderRow \/ Ended

Spec == Init /\ [][Next]_vars
--------------------------------------------------------------------------------
TypeOK ==
    /\ stage \in Stages
    /\ Len(results) <= MaxRows /\ Len(checked) \in {0, Len(results)}
    /\ pair \in Nat \X Nat
    /\ ratios \subseteq (1 .. MaxRows) \X (1 .. MaxRows)
    /\ Len(report) <= Len(OrderedIds) /\ Len(lines) <= Len(report)

Pairs(list) == {p \in (DOMAIN list) \X (DOMAIN list) : p[1] < p[2]}

\* May two supported measurements be compared, said without the code's rules?
\* Nothing both declare about host, build or device differs; if they carry
\* execution metadata, ratio_compatible accepts the two rows.
MayCompare(a, b) ==
    /\ HostsAgree(a, b) /\ a.debug = b.debug
    /\ a.gpu # NoDevice /\ b.gpu # NoDevice => a.gpu.uuid = b.gpu.uuid
    /\ \/ ~Heterogeneous(a) /\ ~Heterogeneous(b)
       \/ RatioCompatible(a, b)

\* The report has a ratio for exactly the pairs of supported measurements that
\* may be compared: the summary's two rules agree with validate_ratio_compatibility,
\* the contract's own rule, which the harness never calls on this path.
RatiosAreExactlyTheComparable ==
    \A k \in DOMAIN report :
        LET list == Measured(report[k].cells)
        IN  report[k].ratios = {p \in Pairs(list) : MayCompare(list[p[1]], list[p[2]])}

\* No ratio sets time on the device alone against time that includes the host:
\* a consequence of validate_result and the comparison scope together.
RatiosStayWithinABoundary ==
    \A k \in DOMAIN report : \A p \in report[k].ratios :
        LET list == Measured(report[k].cells)
        IN  Heterogeneous(list[p[1]]) =>
                /\ list[p[1]].exec.timer = list[p[2]].exec.timer
                /\ list[p[1]].exec.residency = "device" => list[p[2]].exec.residency = "device"

\* A named winner has at least one rival, no rival takes less time for an
\* operation, and of several that take the same time the first one shown wins.
WinnerIsFastest ==
    \A k \in DOMAIN report :
        LET list == Measured(report[k].cells)
            winner == report[k].winner
        IN  winner # 0 =>
                /\ Len(list) >= 2
                /\ \A i \in DOMAIN list : IF i < winner THEN Faster(list[winner], list[i])
                                         ELSE ~Faster(list[i], list[winner])

\* Two rows declare a host key and do not agree about it.
Disputed(a, b, k) ==
    a.host[k] # Unknown /\ b.host[k] # Unknown /\ a.host[k] # b.host[k]

\* The note in the comparison column says what happened to the ratios.  With all
\* of them it is "compatible", with some but not all it may be "partial", and any
\* other note stands where there is none.  "compatible" may stand over a missing
\* ratio for one reason only: the two hosts disagree over a key that the first
\* measurement, with which _compatible_environments compares both, leaves open.
NoteIsTrue ==
    \A k \in DOMAIN report :
        LET row == report[k]
            list == Measured(row.cells)
            all == Pairs(list)
        IN  /\ row.note = "too few" <=> Len(list) < 2
            /\ Len(list) >= 2 /\ row.ratios = all => row.note = "compatible"
            /\ row.note = "compatible" =>
                  \A p \in all \ row.ratios : \E key \in HostKeys :
                     /\ list[1].host[key] = Unknown
                     /\ Disputed(list[p[1]], list[p[2]], key)
            /\ row.note = "partial" => row.ratios # {} /\ row.ratios # all
            /\ row.note \in {"too few", "dimensions differ", "metadata differ"}
                  => row.ratios = {}

\* No measurement is lost, doubled or shown under another family, and a family
\* without evidence is shown as blocked: the cells of the finished workloads
\* are the rows read from the bundles.
CellsAreTheEvidence ==
    \A k \in DOMAIN report : \A f \in Families :
        LET shown == Column(report[k], f)
            rows == {i \in DOMAIN results :
                        results[i].family = f /\ results[i].workload = report[k].workload}
        IN  IF rows = {} THEN shown = <<BlockedCell(f)>>
            ELSE /\ Len(shown) = Cardinality(rows)
                 /\ {shown[i].row : i \in DOMAIN shown} = {results[i] : i \in rows}

\* The cell is a measurement whose device has a text that already ends in "#n".
EndsInOrdinal(cell) ==
    "row" \in DOMAIN cell /\ Heterogeneous(cell.row) /\ Len(Text(cell.row)) > 1

\* A ratio names its numerator and its denominator by their labels, and so does
\* the winner.  Numbering keeps the labels of a workload apart as long as no text
\* an adapter wrote ends like a number: with the SIMD targets "avx", "avx" and
\* "avx#1" the labels are .../avx#1, .../avx#2 and .../avx#1 (core.py:413-415).
LabelsAreUnique ==
    \A k \in DOMAIN report :
        LET shown == report[k].cells
        IN  \A i, j \in DOMAIN shown : shown[i].label = shown[j].label =>
                i = j \/ EndsInOrdinal(shown[i]) \/ EndsInOrdinal(shown[j])

\* "Re-running report generation from saved evidence is deterministic": the
\* model does not depend on the order in which a bundle lists its rows.  It is
\* made from the rows as they are sorted before the first workload.
OrderDoesNotMatter ==
    stage = "cells" /\ report = <<>> =>
        \A i, j \in DOMAIN results : i < j =>
            Reconciled([results EXCEPT ![i] = results[j], ![j] = results[i]]) = checked

\* README: "Ratios and apparent winners are omitted when recorded host metadata
\* differs": a winner is named only among measurements that all may be compared.
WinnerAmongComparable ==
    \A k \in DOMAIN report :
        report[k].winner # 0 => report[k].ratios = Pairs(Measured(report[k].cells))

\* "retain capability gaps", "| Workload | C++ | Idris 2 | Rust | Julia | ...":
\* a row of the Markdown table has as many columns as the table's header.
RowsMatchHeader == \A k \in DOMAIN lines : Len(lines[k]) = HeaderColumns
================================================================================
