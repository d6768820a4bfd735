------------------------------ MODULE TaskPool ------------------------------
(***************************************************************************)
(* What include/thread_pool.hpp promises its clients, without saying how:  *)
(* tasks are accepted until the pool is stopped and refused afterwards;    *)
(* they are begun in the order in which they were accepted, at most one    *)
(* for each worker at a time, and each is run once; a pool that has been   *)
(* destroyed has run them all.                                             *)
(***************************************************************************)
EXTENDS Naturals, Sequences, FiniteSets

CONSTANTS Tasks,       \* everything that may be submitted
          NumWorkers   \* threads of the pool

VARIABLES queue,      \* accepted tasks that nobody has begun, oldest first
          busy,       \* tasks that are being run
          ran,        \* tasks that were run, in the order they ended
          refused,    \* tasks whose submit threw
          open,       \* TRUE until the destructor begins
          destroyed   \* TRUE when it has returned

vars == <<queue, busy, ran, refused, open, destroyed>>

Init == /\ queue = <<>>
        /\ busy = {}
        /\ ran = <<>>
        /\ refused = {}
        /\ open = TRUE
        /\ destroyed = FALSE

Accept(x) == /\ open
             /\ queue' = Append(queue, x)
             /\ UNCHANGED <<busy, ran, refused, open, destroyed>>

Refuse(x) == /\ ~open
             /\ refused' = refused \cup {x}
             /\ UNCHANGED <<queue, busy, ran, open, destroyed>>

Begin == /\ queue # <<>>
         /\ Cardinality(busy) < NumWorkers
         /\ busy' = busy \cup {Head(queue)}
         /\ queue' = Tail(queue)
         /\ UNCHANGED <<ran, refused, open, destroyed>>

Finish(x) == /\ x \in busy
             /\ busy' = busy \ {x}
             /\ ran' = Append(ran, x)
             /\ UNCHANGED <<queue, refused, open, destroyed>>

Stop == /\ open
        /\ open' = FALSE
        /\ UNCHANGED <<queue, busy, ran, refused, destroyed>>

\* Nothing that was accepted is left behind.
Return == /\ ~open
          /\ queue = <<>> /\ busy = {}
          /\ destroyed' = TRUE
          /\ UNCHANGED <<queue, busy, ran, refused, open>>

Next == \/ \E x \in Tasks : Accept(x) \/ Refuse(x) \/ Finish(x)
        \/ Begin
        \/ Stop
        \/ Return

Spec == Init /\ [][Next]_vars
=============================================================================
