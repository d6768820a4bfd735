--------------------------- MODULE MCCondVarQueue ---------------------------
(***************************************************************************)
(* PC_CondVar with two producers and three consumers.                      *)
(***************************************************************************)
EXTENDS CondVarQueue

CONSTANTS p1, p2, c1, c2, c3

MCProducers == {p1, p2}
MCConsumers == {c1, c2, c3}
=============================================================================
