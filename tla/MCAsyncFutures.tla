--------------------------- MODULE MCAsyncFutures ---------------------------
(***************************************************************************)
(* Every pattern: six tasks in two chains of three, three workers, two     *)
(* tasks that can throw.                                                   *)
(***************************************************************************)
EXTENDS AsyncFutures

CONSTANTS w1, w2, w3

MCWorkers == {w1, w2, w3}
MCThrowing == {1, 4}
=============================================================================
