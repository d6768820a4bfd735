--------------------------- MODULE MCLockWorkload ---------------------------
(***************************************************************************)
(* Three threads under each kind of lock.                                  *)
(***************************************************************************)
EXTENDS LockWorkload

CONSTANTS t1, t2, t3

MCThreads == {t1, t2, t3}
=============================================================================
