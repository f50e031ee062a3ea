------------------------------ MODULE Measurements ------------------------------
(***************************************************************************)
(* Measurement rows of the contract gafro-benchmark-result/v1: which rows  *)
(* are valid, how rows are reconciled with the workload manifest, and the  *)
(* two rules of benchmark_harness/core.py that decide whether measurements *)
(* may be compared: ratio_compatible, about two rows, and the pair         *)
(* _compatible_environments and _compatible_execution_contracts, about a   *)
(* list of report cells.                                                   *)
(*                                                                         *)
(* A row is a record:                                                      *)
(*   family, workload  whose measurement of what                           *)
(*   status            "supported" or a gap                                *)
(*   time, ops         median sample in ns (0: a sample that is not a      *)
(*                     positive finite number), operations per sample      *)
(*   oracle            [value : {"right", "wrong", "nan"}, full : BOOLEAN] *)
(*   host              a function of HostKeys, Unknown where not declared  *)
(*   debug             is it a debug build?                                *)
(*   exec              the execution metadata, or Legacy                   *)
(*   cpu, gpu          the device metadata, or NoDevice                    *)
(***************************************************************************)
EXTENDS Integers, Sequences

CONSTANTS
    Workloads,   \* the ids of the manifest
    BatchSize,   \* BatchSize[w] : the output items of one invocation of w
    HasContract, \* the workloads with a heterogeneous execution contract
    Unknown,     \* a host key an adapter does not declare
    Legacy,      \* no execution metadata
    NoDevice     \* no cpu, or no gpu metadata

ASSUME WorkloadsAssumption ==
    /\ BatchSize \in [Workloads -> Nat \ {0}]
    /\ HasContract \subseteq Workloads

HostKeys == {"system", "machine"}
GpuScopes == {"kernel", "resident_pipeline", "end_to_end"}

\* What a timing scope stands for.  Its synchronization and its timed phases
\* are named after the scope itself: exec.boundary says which scope's they are.
ScopeRule ==
    [cpu_scalar_loop |->
        [rank |-> 0, timer |-> "host", comparison |-> "application", residency |-> "host"],
     cpu_optimized_batch |->
        [rank |-> 1, timer |-> "host", comparison |-> "application", residency |-> "host"],
     kernel |->
        [rank |-> 2, timer |-> "cuda_event", comparison |-> "kernel", residency |-> "device"],
     resident_pipeline |->
        [rank |-> 3, timer |-> "cuda_event", comparison |-> "pipeline", residency |-> "device"],
     end_to_end |->
        [rank |-> 4, timer |-> "host", comparison |-> "application", residency |-> "both"]]

Scopes == DOMAIN ScopeRule

--------------------------------------------------------------------------------
(***************************************************************************)
(* One row.                                                                *)
(***************************************************************************)
Heterogeneous(r) == r.exec # Legacy
Supported(r) == r.status = "supported"

\* cuda_event_timing.used; end_to_end must be timed by the host.
ValidDevice(r) ==
    IF r.exec.scope \in GpuScopes
    THEN /\ r.gpu # NoDevice
         /\ r.gpu.events = (r.exec.timer = "cuda_event")
    ELSE r.cpu # NoDevice

ValidExecution(r) ==
    LET e == r.exec
        rule == ScopeRule[e.scope]
    IN  /\ e.scope \in Scopes
        /\ Supported(r) =>
              /\ r.ops = e.batch * e.invocations
              /\ r.oracle.full
        /\ e.timer = rule.timer
        /\ e.comparison = rule.comparison
        /\ e.boundary = e.scope
        /\ e.scope = "end_to_end" => e.packing = "included"
        /\ e.residency = rule.residency
        /\ IF e.scope \in GpuScopes THEN e.streams >= 1 ELSE e.streams = 0
        /\ ValidDevice(r)

ValidResult(r) ==
    /\ Supported(r) => r.time > 0 /\ r.ops > 0
    /\ Heterogeneous(r) => ValidExecution(r)

\* Counterfactual: the comparison scope is not among the dimensions.
DimensionsWithoutComparison ==
    {"definition", "batch", "state", "packing", "allocation", "invocations"}

\* The fields of RATIO_DIMENSIONS.  "definition" stands for the nine that
\* describe the workload: operation, semantics, precision, layouts, fixture,
\* digest, output elements and definition id.
RatioDimensions ==
    {"definition", "batch", "comparison", "state", "packing", "allocation", "invocations"}

GpuCompatibilityKey(r) == IF r.gpu = NoDevice THEN NoDevice ELSE r.gpu.uuid

\* validate_ratio_compatibility(left, right) does not raise.
RatioCompatible(left, right) ==
    LET l == left.exec
        r == right.exec
    IN  /\ ValidResult(left) /\ ValidResult(right)
        /\ Supported(left) /\ Supported(right)
        /\ Heterogeneous(left) /\ Heterogeneous(right)
        /\ left.workload = right.workload
        /\ \A d \in RatioDimensions : l[d] = r[d]
        /\ l.streams > 0 /\ r.streams > 0 =>
              /\ l.streams = r.streams
              /\ GpuCompatibilityKey(left) = GpuCompatibilityKey(right)

--------------------------------------------------------------------------------
(***************************************************************************)
(* reconcile_results                                                       *)
(***************************************************************************)

\* Everything of a row that is configuration rather than measurement.
MeasurementIdentity(r) == IF Heterogeneous(r) THEN <<r.exec, r.cpu, r.gpu>> ELSE Legacy
ReconcileKey(r) == <<r.family, r.workload, MeasurementIdentity(r)>>

\* The execution metadata is that of the workload the row claims to measure.
BoundToWorkload(r) ==
    Heterogeneous(r) =>
        /\ r.workload \in HasContract
        /\ r.exec.definition = r.workload
        /\ r.exec.batch = BatchSize[r.workload]

DistinctKeys(rows) ==
    \A i, j \in DOMAIN rows : ReconcileKey(rows[i]) = ReconcileKey(rows[j]) => i = j

Reconcilable(rows) ==
    /\ \A i \in DOMAIN rows : ValidResult(rows[i]) /\ rows[i].workload \in Workloads
                                /\ BoundToWorkload(rows[i])
    /\ DistinctKeys(rows)

--------------------------------------------------------------------------------
(***************************************************************************)
(* Lists of cells.  A cell keeps its row's host, build mode, execution and *)
(* device metadata.  Compilers and backends are non-empty in a valid row,  *)
(* so that "builds_complete" is always true and is left out.               *)
(***************************************************************************)

\* A key constrains two hosts only where both declare it.
HostsAgree(a, b) ==
    \A k \in HostKeys :
        a.host[k] # Unknown /\ b.host[k] # Unknown => a.host[k] = b.host[k]

\* Counterfactual: devices are not compared.
IgnoreDevices(cells) ==
    /\ Len(cells) >= 2
    /\ \A i \in 2 .. Len(cells) : HostsAgree(cells[1], cells[i])
    /\ \A i, j \in 1 .. Len(cells) : cells[i].debug = cells[j].debug

\* _compatible_environments: every host is compared with the first one.
CompatibleEnvironments(cells) ==
    /\ Len(cells) >= 2
    /\ \A i \in 2 .. Len(cells) : HostsAgree(cells[1], cells[i])
    /\ \A i, j \in 1 .. Len(cells) : cells[i].debug = cells[j].debug
    /\ \A i, j \in 1 .. Len(cells) :
           cells[i].gpu # NoDevice /\ cells[j].gpu # NoDevice
           => GpuCompatibilityKey(cells[i]) = GpuCompatibilityKey(cells[j])

\* _compatible_execution_contracts: legacy rows among themselves, or rows that
\* agree with the first one and use one number of streams where they use any.
CompatibleContracts(cells) ==
    /\ Len(cells) >= 2
    /\ \/ \A i \in 1 .. Len(cells) : ~Heterogeneous(cells[i])
       \/ /\ \A i \in 1 .. Len(cells) : Heterogeneous(cells[i])
          /\ \A i \in 2 .. Len(cells), d \in RatioDimensions :
                 cells[1].exec[d] = cells[i].exec[d]
          /\ \A i, j \in 1 .. Len(cells) :
                 cells[i].exec.streams > 0 /\ cells[j].exec.streams > 0
                 => cells[i].exec.streams = cells[j].exec.streams
================================================================================
