--------------------------- MODULE SemaphoreQueue ---------------------------
(***************************************************************************)
(* SemaphoreQueue<T> of include/semaphore_queue.hpp: a std::queue under    *)
(* mtx_, two counting semaphores and two atomic flags, used by any number  *)
(* of producers and consumers while an owner closes it and shuts it down.  *)
(*                                                                         *)
(* Atomicity.  A step is what other threads can see happen at once:        *)
(*  - `shutdown_.load() || closed_.load()' is one read of Stopped: the     *)
(*    flags are only ever set, so the pair of loads answers as one read at *)
(*    the first load (false) or at the one that found true;                *)
(*  - a critical section of mtx_ is one step, except push's (lines 65-73), *)
(*    which is two (PushLock, PushInsert): close() and shutdown() set      *)
(*    their flags without taking mtx_, so they can come between the check  *)
(*    of the flags and queue_.push;                                        *)
(*  - a semaphore release joins the step before it, as no thread can be    *)
(*    hindered by a token that comes early, except the one that follows    *)
(*    an insertion (line 75): in the meantime the item is in the queue     *)
(*    and its token is not in filled_slots_.                               *)
(***************************************************************************)
EXTENDS Integers, Sequences, FiniteSets, Places

CONSTANTS Producers,   \* threads that call push
          Consumers,   \* threads that call pop until it returns false
          MaxSize,     \* constructor argument max_size
          MaxPushes    \* calls of push a producer makes (bounds the model)

ASSUME QueueAssumption ==
    /\ IsFiniteSet(Producers)
    /\ IsFiniteSet(Consumers)
    /\ Producers \cap Consumers = {}
    /\ MaxSize \in Nat
    /\ MaxPushes \in Nat

\* The n-th push of producer p offers the item <<p, n>>.
Items == Producers \X (1..MaxPushes)

VARIABLES
    queue_,         \* queue_, guarded by mtx_
    empty_slots_,   \* tokens in the semaphore empty_slots_
    filled_slots_,  \* tokens in the semaphore filled_slots_
    closed_,
    shutdown_,
    ppc,            \* where each producer is in push
    sent,           \* how many pushes each producer has begun
    cpc,            \* where each consumer is in pop
    opc,            \* where the owner is in close or shutdown
    wake,           \* releases left in the loop of wake_consumers/wake_producers
    spare_filled,   \* history: filled_slots_ tokens that wake_consumers added
    spare_empty,    \* history: empty_slots_ tokens that wake_producers added
    taken,          \* history: items returned by pop, in order
    refused         \* history: items whose push returned false

flags    == <<closed_, shutdown_>>
owner    == <<opc, wake, spare_filled, spare_empty>>
producer == <<ppc, sent, refused>>
consumer == <<cpc, taken>>
vars == <<queue_, empty_slots_, filled_slots_, flags, owner, producer, consumer>>

Stopped == shutdown_ \/ closed_

\* Line 31 and 37: a wake-up releases one token more than the capacity.
WakeTokens == MaxSize + 1

Item(p) == <<p, sent[p]>>

\* mtx_ is held across steps only between PushLock and PushInsert.
MutexFree == At(ppc, "insert") = {}

Init == /\ queue_ = <<>>
        /\ empty_slots_ = MaxSize
        /\ filled_slots_ = 0
        /\ closed_ = FALSE
        /\ shutdown_ = FALSE
        /\ ppc = [p \in Producers |-> "idle"]
        /\ sent = [p \in Producers |-> 0]
        /\ cpc = [c \in Consumers |-> "idle"]
        /\ opc = "open"
        /\ wake = 0
        /\ spare_filled = 0
        /\ spare_empty = 0
        /\ taken = <<>>
        /\ refused = {}

-----------------------------------------------------------------------------
(* push *)

GoP(p, place) == ppc' = [ppc EXCEPT ![p] = place]

\* Lines 51-55: the first look at the flags, before anything is acquired.
PushEnter(p) ==
    /\ ppc[p] = "idle"
    /\ sent[p] < MaxPushes
    /\ sent' = [sent EXCEPT ![p] = @ + 1]
    /\ IF Stopped
       THEN /\ refused' = refused \cup {<<p, sent[p] + 1>>}
            /\ UNCHANGED ppc
       ELSE /\ GoP(p, "acquire")
            /\ UNCHANGED refused
    /\ UNCHANGED <<queue_, empty_slots_, filled_slots_, flags, owner, consumer>>

\* Line 57: empty_slots_.acquire() blocks while there is no token.
PushAcquire(p) ==
    /\ ppc[p] = "acquire"
    /\ empty_slots_ > 0
    /\ empty_slots_' = empty_slots_ - 1
    /\ GoP(p, "recheck")
    /\ UNCHANGED <<queue_, filled_slots_, flags, owner, sent, refused, consumer>>

\* Lines 61-62 and 69-70: the token goes back and push returns false.
PushRefuse(p) ==
    /\ Stopped
    /\ empty_slots_' = empty_slots_ + 1
    /\ refused' = refused \cup {Item(p)}
    /\ GoP(p, "idle")

\* Seeded fault: push returns false and keeps the token.
PushRecheck_KeepsToken(p) ==
    /\ ppc[p] = "recheck"
    /\ IF Stopped THEN refused' = refused \cup {Item(p)} /\ GoP(p, "idle")
                  ELSE UNCHANGED refused /\ GoP(p, "lock")
    /\ UNCHANGED <<queue_, empty_slots_, filled_slots_, flags, owner, sent,
                   consumer>>

\* Lines 59-63: the second look at the flags, after the wait.
PushRecheck(p) ==
    /\ ppc[p] = "recheck"
    /\ \/ PushRefuse(p)
       \/ /\ ~Stopped
          /\ GoP(p, "lock")
          /\ UNCHANGED <<empty_slots_, refused>>
    /\ UNCHANGED <<queue_, filled_slots_, flags, owner, sent, consumer>>

\* Seeded fault: the third look at the flags is left out.
PushLock_NoRecheck(p) ==
    /\ ppc[p] = "lock"
    /\ MutexFree
    /\ GoP(p, "insert")
    /\ UNCHANGED <<queue_, empty_slots_, filled_slots_, flags, owner, sent,
                   refused, consumer>>

\* Lines 66-71: lock mtx_ and look at the flags for the third time.
PushLock(p) ==
    /\ ppc[p] = "lock"
    /\ MutexFree
    /\ \/ PushRefuse(p)
       \/ /\ ~Stopped
          /\ GoP(p, "insert")
          /\ UNCHANGED <<empty_slots_, refused>>
    /\ UNCHANGED <<queue_, filled_slots_, flags, owner, sent, consumer>>

\* Lines 72-73: queue_.push, then mtx_ is released.
PushInsert(p) ==
    /\ ppc[p] = "insert"
    /\ queue_' = Append(queue_, Item(p))
    /\ GoP(p, "announce")
    /\ UNCHANGED <<empty_slots_, filled_slots_, flags, owner, sent, refused,
                   consumer>>

\* Seeded fault: the token goes to the other semaphore.
PushAnnounce_WrongSemaphore(p) ==
    /\ ppc[p] = "announce"
    /\ empty_slots_' = empty_slots_ + 1
    /\ GoP(p, "idle")
    /\ UNCHANGED <<queue_, filled_slots_, flags, owner, sent, refused, consumer>>

\* Lines 75-76: the item's token is released and push returns true.
PushAnnounce(p) ==
    /\ ppc[p] = "announce"
    /\ filled_slots_' = filled_slots_ + 1
    /\ GoP(p, "idle")
    /\ UNCHANGED <<queue_, empty_slots_, flags, owner, sent, refused, consumer>>

-----------------------------------------------------------------------------
(* pop *)

GoC(c, place) == cpc' = [cpc EXCEPT ![c] = place]

\* Seeded fault: a stopped queue ends the stream with items still in it.
PopEnter_NoDrain(c) ==
    /\ cpc[c] = "idle"
    /\ MutexFree
    /\ GoC(c, IF Stopped THEN "ended" ELSE "acquire")
    /\ UNCHANGED <<queue_, empty_slots_, filled_slots_, flags, owner, producer,
                   taken>>

\* Lines 80-88: under mtx_, an empty queue that is stopped ends the stream.
PopEnter(c) ==
    /\ cpc[c] = "idle"
    /\ MutexFree
    /\ GoC(c, IF queue_ = <<>> /\ Stopped THEN "ended" ELSE "acquire")
    /\ UNCHANGED <<queue_, empty_slots_, filled_slots_, flags, owner, producer,
                   taken>>

\* Seeded fault: the wait for a token is a decrement that does not block.
PopAcquire_NoWait(c) ==
    /\ cpc[c] = "acquire"
    /\ filled_slots_' = filled_slots_ - 1
    /\ GoC(c, "take")
    /\ UNCHANGED <<queue_, empty_slots_, flags, owner, producer, taken>>

\* Line 90: filled_slots_.acquire() blocks while there is no token.
PopAcquire(c) ==
    /\ cpc[c] = "acquire"
    /\ filled_slots_ > 0
    /\ filled_slots_' = filled_slots_ - 1
    /\ GoC(c, "take")
    /\ UNCHANGED <<queue_, empty_slots_, flags, owner, producer, taken>>

\* Seeded fault: the slot of the item that was taken is not given back.
PopTake_KeepsSlot(c) ==
    /\ cpc[c] = "take"
    /\ MutexFree
    /\ IF queue_ # <<>>
       THEN /\ taken' = Append(taken, Head(queue_))
            /\ queue_' = Tail(queue_)
            /\ GoC(c, "idle")
       ELSE /\ GoC(c, "recheck")
            /\ UNCHANGED <<queue_, taken>>
    /\ UNCHANGED <<empty_slots_, filled_slots_, flags, owner, producer>>

\* Lines 92-100: under mtx_, take the front and give its slot back, or find
\* the queue empty.
PopTake(c) ==
    /\ cpc[c] = "take"
    /\ MutexFree
    /\ IF queue_ # <<>>
       THEN /\ taken' = Append(taken, Head(queue_))
            /\ queue_' = Tail(queue_)
            /\ empty_slots_' = empty_slots_ + 1
            /\ GoC(c, "idle")
       ELSE /\ GoC(c, "recheck")
            /\ UNCHANGED <<queue_, empty_slots_, taken>>
    /\ UNCHANGED <<filled_slots_, flags, owner, producer>>

\* Lines 102-108: outside mtx_, the token is passed on and the stream ends if
\* the queue is stopped; otherwise the loop starts over.
PopRecheck(c) ==
    /\ cpc[c] = "recheck"
    /\ GoC(c, IF Stopped THEN "ended" ELSE "idle")
    /\ filled_slots_' = IF Stopped THEN filled_slots_ + 1 ELSE filled_slots_
    /\ UNCHANGED <<queue_, empty_slots_, flags, owner, producer, taken>>

-----------------------------------------------------------------------------
(* close and shutdown: one owner, as in every client of the class, closes  *)
(* the queue at most once and shuts it down at most once.                  *)

\* Lines 112-113.
Close ==
    /\ opc = "open"
    /\ closed_' = TRUE
    /\ opc' = "close_wake"
    /\ wake' = WakeTokens
    /\ UNCHANGED <<queue_, empty_slots_, filled_slots_, shutdown_, spare_filled,
                   spare_empty, producer, consumer>>

\* Lines 117-118.
Shutdown ==
    /\ opc \in {"open", "closed"}
    /\ shutdown_' = TRUE
    /\ opc' = "shutdown_close"
    /\ UNCHANGED <<queue_, empty_slots_, filled_slots_, closed_, wake,
                   spare_filled, spare_empty, producer, consumer>>

\* Line 119.
ShutdownClose ==
    /\ opc = "shutdown_close"
    /\ closed_' = TRUE
    /\ opc' = "shutdown_wake_consumers"
    /\ wake' = WakeTokens
    /\ UNCHANGED <<queue_, empty_slots_, filled_slots_, shutdown_, spare_filled,
                   spare_empty, producer, consumer>>

\* Lines 30-34: one release of wake_consumers, called from line 114 or 120.
WakeConsumer ==
    /\ opc \in {"close_wake", "shutdown_wake_consumers"}
    /\ wake > 0
    /\ wake' = wake - 1
    /\ filled_slots_' = filled_slots_ + 1
    /\ spare_filled' = spare_filled + 1
    /\ UNCHANGED <<queue_, empty_slots_, flags, opc, spare_empty, producer,
                   consumer>>

\* Lines 36-40: one release of wake_producers, called from line 121.
WakeProducer ==
    /\ opc = "shutdown_wake_producers"
    /\ wake > 0
    /\ wake' = wake - 1
    /\ empty_slots_' = empty_slots_ + 1
    /\ spare_empty' = spare_empty + 1
    /\ UNCHANGED <<queue_, filled_slots_, flags, opc, spare_filled, producer,
                   consumer>>

\* The end of a wake-up loop: close() returns (line 115), shutdown() goes on
\* to wake_producers (line 121) or returns (line 122).
WakeDone ==
    /\ wake = 0
    /\ \/ /\ opc = "close_wake"
          /\ opc' = "closed"
          /\ UNCHANGED wake
       \/ /\ opc = "shutdown_wake_consumers"
          /\ opc' = "shutdown_wake_producers"
          /\ wake' = WakeTokens
       \/ /\ opc = "shutdown_wake_producers"
          /\ opc' = "shut_down"
          /\ UNCHANGED wake
    /\ UNCHANGED <<queue_, empty_slots_, filled_slots_, flags, spare_filled,
                   spare_empty, producer, consumer>>

-----------------------------------------------------------------------------
ProducerStep(p) == \/ PushEnter(p)
                   \/ PushAcquire(p)
                   \/ PushRecheck(p)
                   \/ PushLock(p)
                   \/ PushInsert(p)
                   \/ PushAnnounce(p)

ConsumerStep(c) == \/ PopEnter(c)
                   \/ PopAcquire(c)
                   \/ PopTake(c)
                   \/ PopRecheck(c)

\* What is left of a close() or shutdown() that has been called.
OwnerStep == ShutdownClose \/ WakeConsumer \/ WakeProducer \/ WakeDone

ProducersDone == \A p \in Producers : ppc[p] = "idle" /\ sent[p] = MaxPushes
ConsumersDone == \A c \in Consumers : cpc[c] = "ended"

\* Every thread has returned from its last call; without this step the end of
\* a run would look like a deadlock.
Finished == /\ ProducersDone
            /\ ConsumersDone
            /\ opc = "shut_down"
            /\ UNCHANGED vars

Next == \/ \E p \in Producers : ProducerStep(p)
        \/ \E c \in Consumers : ConsumerStep(c)
        \/ Close
        \/ Shutdown
        \/ OwnerStep
        \/ Finished

\* The scheduler runs every thread that can run, and a semaphore with a token
\* lets a waiting thread through.  Nobody is obliged to call close or shutdown.
Fairness == /\ \A p \in Producers : WF_vars(ProducerStep(p))
            /\ \A c \in Consumers : WF_vars(ConsumerStep(c))
            /\ WF_vars(OwnerStep)

Spec == Init /\ [][Next]_vars /\ Fairness

-----------------------------------------------------------------------------
(* Properties *)

\* The variables stay in their types.
TypeOK ==
    /\ queue_ \in Seq(Items)
    /\ empty_slots_ \in Nat
    /\ filled_slots_ \in Nat
    /\ closed_ \in BOOLEAN
    /\ shutdown_ \in BOOLEAN
    /\ ppc \in [Producers ->
                  {"idle", "acquire", "recheck", "lock", "insert", "announce"}]
    /\ sent \in [Producers -> 0..MaxPushes]
    /\ \A p \in Producers : ppc[p] # "idle" => sent[p] > 0
    /\ cpc \in [Consumers -> {"idle", "acquire", "take", "recheck", "ended"}]
    /\ opc \in {"open", "close_wake", "closed", "shutdown_close",
                "shutdown_wake_consumers", "shutdown_wake_producers",
                "shut_down"}
    /\ wake \in 0..WakeTokens
    /\ spare_filled \in Nat
    /\ spare_empty \in Nat
    /\ taken \in Seq(Items)
    /\ refused \subseteq Items

\* Every token of filled_slots_ stands for an item in the queue or for a wake-up
\* of close/shutdown: counting the tokens that consumers carry (lines 90-105)
\* and the items whose producer has still to release theirs (line 75), the two
\* sides are equal whatever the threads are doing.
FilledBalance ==
    filled_slots_ + Cardinality(At(cpc, "take")) + Cardinality(At(cpc, "recheck"))
      + Cardinality(At(ppc, "announce"))
    = Len(queue_) + spare_filled

\* The same for empty_slots_: free slots, slots that a producer has acquired and
\* not yet filled or given back (lines 57-72), and items, against the capacity
\* and the wake-ups of shutdown.
EmptyBalance ==
    empty_slots_ + Cardinality(At(ppc, "recheck")) + Cardinality(At(ppc, "lock"))
      + Cardinality(At(ppc, "insert")) + Len(queue_)
    = MaxSize + spare_empty

\* No token of either semaphore is lost or made out of nothing.
TokensAccounted == FilledBalance /\ EmptyBalance

\* The queue never holds more than max_size items, not even when shutdown has
\* released max_size + 1 extra slots under the producers waiting at line 57.
WithinCapacity == Len(queue_) + Cardinality(At(ppc, "insert")) <= MaxSize

\* Once a pop has returned false, from line 86 or from line 106, the stream is
\* over for everybody: the queue is empty and no push is past its last check.
\* Line 103 looks at the flags outside mtx_, after line 94 saw an empty queue: a
\* consumer that gets there was woken by close or shutdown, so the `while' of
\* line 80 never goes round and no wake-up token is dropped.
EndOfStreamIsFinal ==
    (\E c \in Consumers : cpc[c] \in {"recheck", "ended"})
      => Stopped /\ queue_ = <<>> /\ MutexFree

\* The class implements the bounded queue of BoundedQueue.tla.  An item counts
\* as accepted from the check under mtx_ (line 67) on: a close between that
\* check and queue_.push does not make push return false.
AcceptedQueue ==
    IF MutexFree THEN queue_
    ELSE Append(queue_, Item(CHOOSE p \in Producers : ppc[p] = "insert"))

Abstract == INSTANCE BoundedQueue
              WITH queue <- AcceptedQueue, open <- ~Stopped, taken <- taken,
                   refused <- refused, ended <- At(cpc, "ended")

ImplementsBoundedQueue == Abstract!Spec
=============================================================================
