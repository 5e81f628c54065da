---------------------------- MODULE MCBenchmark ----------------------------
(* Three algorithms with the reference between them; -1, 0, 2 or 3           *)
(* timings each, from nothing at all to fifteen times the middle one.        *)
EXTENDS Benchmark

MCRows == <<"RSASHA256", "ED25519", "MLDSA65">>
MCTimes == {0, 4, 60}
MCIterations == {-1, 0, 2, 3}
=============================================================================
