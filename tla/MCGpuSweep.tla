------------------------------- MODULE MCGpuSweep -------------------------------
(***************************************************************************)
(* Instances of GpuSweep for TLC.                                          *)
(***************************************************************************)
EXTENDS GpuSweep, TLC

\* Sweeps of up to three sizes, in whatever order the file has them, and short
\* ones in a file with another flaw.
MCContracts ==
    [sizes : UNION {[1 .. n -> {0, 1, 2, 4}] : n \in 0 .. 3}, tiers : {{{1}}, {{1}, {}}, {{2, 4}}},
     oracle : {"whole"}, flaws : {{}}]
    \cup [sizes : {<<1>>, <<1, 2>>}, tiers : {{{1}}}, oracle : {"whole", "malformed", "missing"},
          flaws : {{}, Checked} \cup {{x} : x \in Checked}]

\* Limits below, at and above what the batches take.
MCArguments ==
    [cuda : {"auto", "available", "unavailable"}, bytes : {0, 1, 3},
     memory : {NoLimit, -1, 0, 1, 3, 5, 6, 12}, named : {TRUE}, blank : BOOLEAN]
    \cup [cuda : {"auto", "available"}, bytes : {1}, memory : {NoLimit}, named : {FALSE},
          blank : BOOLEAN]

MCAnswers == {NoAnswer, Unstarted} \cup 0 .. 6
================================================================================
