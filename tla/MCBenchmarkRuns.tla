---------------------------- MODULE MCBenchmarkRuns ----------------------------
(***************************************************************************)
(* Instances of BenchmarkRuns for TLC.                                     *)
(***************************************************************************)
EXTENDS BenchmarkRuns, TLC

MCTwoFamilies == <<"cpp", "rust">>
MCArchived == {<<1, 0>>}
MCNothingArchived == {}
MCRunnerSymmetry == Permutations(Runners)
================================================================================
