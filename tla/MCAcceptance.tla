------------------------------ MODULE MCAcceptance ------------------------------
(***************************************************************************)
(* Instances of Acceptance for TLC: honest rows and rows with one defect.  *)
(***************************************************************************)
EXTENDS Acceptance, TLC

MCBatch == [w \in Workloads |-> IF w = "batch" THEN 2 ELSE 1]
MCUniform == [s \in BOOLEAN |-> IF s THEN 4 ELSE 5]
MCManifest == [w \in Workloads |-> IF w = "batch" THEN 6 ELSE 5]

\* What an honest adapter is asked for, with the smoke profile (s) or without.
Asked(w, s) == IF ~s THEN MCManifest[w]
               ELSE IF w = "batch" THEN 2 ELSE UniformOperations[s]

Measured(f, w, ops) ==
    [family |-> f, workload |-> w, status |-> "supported", time |-> 3, ops |-> ops,
     oracle |-> [value |-> "right", full |-> TRUE],
     host |-> [k \in HostKeys |-> Unknown], debug |-> FALSE,
     exec |-> Legacy, cpu |-> NoDevice, gpu |-> NoDevice]

\* A row with execution metadata: a loop on a processor.
Loop(f, s, threads) ==
    [Measured(f, "batch", Asked("batch", s)) EXCEPT
        !.exec = [scope |-> "cpu_scalar_loop", timer |-> "host", comparison |-> "application",
                  boundary |-> "cpu_scalar_loop", residency |-> "host", streams |-> 0,
                  state |-> "warm", packing |-> "excluded", allocation |-> "excluded",
                  definition |-> "batch", batch |-> 2, invocations |-> Asked("batch", s) \div 2],
        !.cpu = [threads |-> threads]]

Reports(f, s) ==
    {Measured(f, "canonical", Asked("canonical", s)), Measured(f, "batch", Asked("batch", s)),
     [Measured(f, "batch", Asked("batch", s)) EXCEPT !.status = "unsupported", !.time = 0]}
Defects(f, s) ==
    LET r == Measured(f, "canonical", Asked("canonical", s))
    IN  {[r EXCEPT !.ops = @ + 1], [r EXCEPT !.oracle.value = "wrong"],
         [r EXCEPT !.oracle.value = "nan"], [r EXCEPT !.time = 0], [r EXCEPT !.workload = "ghost"]}
Loops(f, s) ==
    {Loop(f, s, 1), Loop(f, s, 2), [Loop(f, s, 1) EXCEPT !.exec.definition = "canonical"],
     [Loop(f, s, 1) EXCEPT !.oracle.full = FALSE], [Loop(f, s, 1) EXCEPT !.exec.batch = 1]}

\* Rows of the adapter's own, and of another family beside them.
MCOutput ==
    [f \in Adapters |-> [s \in BOOLEAN |->
        Reports(f, s) \cup Defects(f, s) \cup Loops(f, s)
        \cup {Measured("julia", "canonical", Asked("canonical", s)), Measured("julia", "batch", 1),
              [Measured("julia", "canonical", 1) EXCEPT !.oracle.value = "wrong"]}]]
================================================================================
