---------------------------- MODULE MCThreadPool ----------------------------
(***************************************************************************)
(* ThreadPool with one worker and one task, and with three of each.        *)
(***************************************************************************)
EXTENDS ThreadPool

CONSTANTS w1, w2, w3, t1, t2, t3

OneWorker == {w1}
ThreeWorkers == {w1, w2, w3}
OneTask == {t1}
ThreeTasks == {t1, t2, t3}
=============================================================================
