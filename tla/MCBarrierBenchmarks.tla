------------------------- MODULE MCBarrierBenchmarks -------------------------
(***************************************************************************)
(* The barrier benchmarks with four threads.                               *)
(***************************************************************************)
EXTENDS BarrierBenchmarks

CONSTANTS t0, t1, t2, t3

MCThreads == {t0, t1, t2, t3}
AllBenchmarks == {"manual", "with_work", "completion"}
=============================================================================
