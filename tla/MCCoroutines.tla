---------------------------- MODULE MCCoroutines ----------------------------
(***************************************************************************)
(* The coroutine benchmarks with a few tasks, as they yield (CPUBound) and *)
(* as they wait (IOBound, Mixed).                                          *)
(***************************************************************************)
EXTENDS Coroutines

YieldAndDelay == {0, 2}
Yield == {0}
=============================================================================
