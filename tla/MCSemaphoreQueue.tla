-------------------------- MODULE MCSemaphoreQueue --------------------------
(***************************************************************************)
(* SemaphoreQueue and its sessions: two producers, three consumers and the *)
(* thread that owns the queue.                                             *)
(***************************************************************************)
EXTENDS PCSemaphoreSession

CONSTANTS p1, p2, c1, c2, c3

MCProducers == {p1, p2}
MCConsumers == {c1, c2, c3}
=============================================================================
