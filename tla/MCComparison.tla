------------------------------ MODULE MCComparison ------------------------------
(***************************************************************************)
(* Instances of Comparison for TLC: what the rows of a run look like.      *)
(***************************************************************************)
EXTENDS Comparison, TLC

MCThree == <<"cpp", "rust", "julia">>
MCThreeBundles == <<"cpp", "julia", "rust">>
MCFour == <<"cpp", "idris2", "rust", "julia">>
MCFourBundles == <<"cpp", "idris2", "julia", "rust">>

MCTwoWorkloads == <<"canonical", "batch">>
MCTwoSorted == <<"batch", "canonical">>
MCBatch == [w \in Workloads |-> IF w = "batch" THEN 2 ELSE 1]
MCShared == [system |-> "Linux"]

\* The execution metadata of a well-formed row of scope s.
Execution(s, state, streams, w) ==
    [scope |-> s, timer |-> ScopeRule[s].timer, comparison |-> ScopeRule[s].comparison,
     boundary |-> s, residency |-> ScopeRule[s].residency, streams |-> streams,
     state |-> state, packing |-> "included", allocation |-> "excluded",
     definition |-> w, batch |-> MCBatch[w], invocations |-> 1]

Row(f, w, time, ops, host, debug, exec, cpu, gpu) ==
    [family |-> f, workload |-> w, status |-> "supported", time |-> time, ops |-> ops,
     oracle |-> [value |-> "right", full |-> TRUE], host |-> host, debug |-> debug,
     exec |-> exec, cpu |-> cpu, gpu |-> gpu]

\* A row that no adapter could measure.
Gap(r) == [r EXCEPT !.status = "unsupported", !.time = 0, !.ops = 0]

Undeclared == [k \in HostKeys |-> Unknown]
Machine(m) == [Undeclared EXCEPT !["machine"] = m]

\* Time, operations and build mode: the shortest sample is not the fastest
\* workload, and two of the rates are the same.
Timings == {<<2, 1, FALSE>>, <<3, 2, FALSE>>, <<4, 2, FALSE>>, <<3, 2, TRUE>>}

\* Rows without execution metadata: the adapters of this repository.
Legacies(f, w) ==
    {Row(f, w, t[1], t[2], h, t[3], Legacy, NoDevice, NoDevice) :
        t \in Timings,
        h \in {Undeclared, Machine("arm64"), Machine("x86_64"),
               [system |-> "Darwin", machine |-> "arm64"]}}

\* Processors, the text of one of which ends in "#1", and devices.
Cpu(n, text) == [threads |-> n, simd |-> text]
Avx == <<"avx">>
AvxNumbered == <<"avx", 1>>
Gpu(uuid, s) == [uuid |-> uuid, events |-> ScopeRule[s].timer = "cuda_event"]

\* Rows with execution metadata: on a processor, on a device, and rows whose
\* scope, timer and residency contradict each other.
Executed(f) ==
    {Row(f, "batch", 2, 2, Undeclared, FALSE,
         Execution("cpu_optimized_batch", c[1], 0, "batch"), c[2], NoDevice) :
        c \in {<<"warm", Cpu(1, Avx)>>, <<"cold", Cpu(1, Avx)>>,
               <<"warm", Cpu(2, Avx)>>, <<"warm", Cpu(1, AvxNumbered)>>}}
    \cup {Row(f, "batch", 3, 2, Undeclared, FALSE,
              Execution(s, "warm", n, "batch"), c, Gpu(u, s)) :
             s \in {"kernel", "end_to_end"}, n \in {1, 8}, u \in {<<"a">>, <<"b">>},
             c \in {NoDevice, Cpu(1, Avx)}}
Contradictory(f) ==
    {[Row(f, "batch", 1, 2, Undeclared, FALSE,
          Execution("kernel", "warm", 1, "batch"), Cpu(1, Avx), Gpu(<<"a">>, "kernel"))
      EXCEPT !.exec.comparison = "application"]}

MCLegacyRows ==
    UNION {Legacies(f, "canonical") : f \in {"cpp", "rust", "julia"}}
    \cup {Gap(CHOOSE r \in Legacies(f, w) : TRUE) :
             f \in {"cpp", "rust"}, w \in {"canonical", "batch"}}
MCExecutedRows ==
    UNION {Executed(f) \cup Contradictory(f) : f \in {"cpp", "rust"}}
    \cup {Row("julia", "batch", 2, 2, Undeclared, FALSE, Legacy, NoDevice, NoDevice)}

\* The rows of a run carry execution metadata or, but for a family or two, none.
MCRows == {MCLegacyRows, MCExecutedRows}

\* The texts of the identities that occur, in some order.
MCTextRank(id) ==
    IF id = Legacy THEN 0
    ELSE LET exec == id[1] cpu == id[2] gpu == id[3]
         IN  10000 * (IF exec.comparison = ScopeRule[exec.scope].comparison THEN 1 ELSE 2)
             + 1000 * ScopeRule[exec.scope].rank + 100 * exec.streams
             + 20 * (IF cpu = NoDevice THEN 0 ELSE cpu.threads)
             + 10 * (IF cpu = NoDevice THEN 0 ELSE Len(cpu.simd) - 1)
             + 2 * (IF gpu = NoDevice THEN 0 ELSE IF gpu.uuid = <<"a">> THEN 1 ELSE 2)
             + IF exec.state = "cold" THEN 0 ELSE 1

\* For the counterexamples, a handful of rows as the adapters emit them.
MCPlainRows ==
    {{Row(f, "canonical", 2, 1, h, FALSE, Legacy, NoDevice, NoDevice) :
         f \in {"cpp", "rust", "julia"},
         h \in {Undeclared, Machine("arm64"), Machine("x86_64")}}}
================================================================================
