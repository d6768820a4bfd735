------------------------- MODULE MCContentionWindow -------------------------
(***************************************************************************)
(* Windows of three workers, for each kind of critical section, on         *)
(* machines with an unknown number of cores, fewer cores than workers, and *)
(* a core to spare.                                                        *)
(***************************************************************************)
EXTENDS ContentionWindow

AllCallables == {"lock", "try", "atomic"}
MCMachines == [cores : {0, 2, 4}, pins : {TRUE}] \cup {[cores |-> 4, pins |-> FALSE]}
=============================================================================
