---------------------------- MODULE BoundedQueue ----------------------------
(***************************************************************************)
(* What include/semaphore_queue.hpp promises its clients, and what q, m,   *)
(* cv and done in src/bench_pc_condvar.cpp give theirs, without saying     *)
(* how: a FIFO of at most MaxSize items that is open until somebody stops  *)
(* it.  A push is accepted only while the queue is open; once it is        *)
(* stopped the items left in it may still be taken, and a consumer is told *)
(* that the stream has ended only when nothing is left to take.            *)
(***************************************************************************)
EXTENDS Naturals, Sequences

CONSTANTS Consumers,  \* threads that take items
          Items,      \* everything that may be pushed
          MaxSize     \* capacity given to the constructor, or never reached

VARIABLES queue,      \* accepted items that nobody has taken yet, oldest first
          open,       \* TRUE until the queue is closed or shut down
          taken,      \* the items handed to consumers, in that order
          refused,    \* items whose push returned false
          ended       \* consumers whose pop returned false

vars == <<queue, open, taken, refused, ended>>

Init == /\ queue = <<>>
        /\ open = TRUE
        /\ taken = <<>>
        /\ refused = {}
        /\ ended = {}

Accept(x) == /\ open
             /\ Len(queue) < MaxSize
             /\ queue' = Append(queue, x)
             /\ UNCHANGED <<open, taken, refused, ended>>

Refuse(x) == /\ ~open
             /\ refused' = refused \cup {x}
             /\ UNCHANGED <<queue, open, taken, ended>>

Take == /\ queue # <<>>
        /\ taken' = Append(taken, Head(queue))
        /\ queue' = Tail(queue)
        /\ UNCHANGED <<open, refused, ended>>

Stop == /\ open
        /\ open' = FALSE
        /\ UNCHANGED <<queue, taken, refused, ended>>

EndOfStream(c) == /\ ~open
                  /\ queue = <<>>
                  /\ ended' = ended \cup {c}
                  /\ UNCHANGED <<queue, open, taken, refused>>

Next == \/ \E x \in Items : Accept(x) \/ Refuse(x)
        \/ Take
        \/ Stop
        \/ \E c \in Consumers : EndOfStream(c)

Spec == Init /\ [][Next]_vars
=============================================================================
