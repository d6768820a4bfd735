------------------------------- MODULE Places -------------------------------
(***************************************************************************)
(* Threads are at named places of the code they run: pc[t] is the place of *)
(* thread t.                                                               *)
(***************************************************************************)

At(pc, place) == {t \in DOMAIN pc : pc[t] = place}
=============================================================================
