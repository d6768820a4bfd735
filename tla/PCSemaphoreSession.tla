------------------------- MODULE PCSemaphoreSession -------------------------
(***************************************************************************)
(* The clients of SemaphoreQueue.  A queue may be stopped at any time, as  *)
(* the tests do; or it serves one benchmark iteration of                   *)
(* src/bench_pc_semaphore.cpp: producers that push until they are refused  *)
(* or done, consumers that pop until the end of the stream, and a main     *)
(* thread that closes the queue when the producers are joined and shuts it *)
(* down when the consumers are.  With one producer that is also the SPSC   *)
(* session, where the producer calls close() as its last statement while   *)
(* the main thread waits for it.                                           *)
(***************************************************************************)
EXTENDS SemaphoreQueue, Functions

VARIABLES session,    \* the queue serves a benchmark iteration
          operations  \* what variance_tracker recorded for each thread

sessionVars == <<vars, session, operations>>

SessionInit == /\ Init
               /\ session \in BOOLEAN
               /\ operations = [t \in Producers \cup Consumers |-> 0]

Record(t) == operations' = [operations EXCEPT ![t] = @ + 1]

Broken(p) == \E n \in 1..MaxPushes : <<p, n>> \in refused

\* Lines 80-89: the loop of a producer, left when a push is refused.  The
\* operation is recorded when push has returned true.
Produce(p) == \/ ~Broken(p) /\ PushEnter(p) /\ UNCHANGED operations
              \/ PushAnnounce(p) /\ Record(p)
              \/ /\ PushAcquire(p) \/ PushRecheck(p) \/ PushLock(p) \/ PushInsert(p)
                 /\ UNCHANGED operations

\* Lines 95-101: the loop of a consumer; an item is recorded once pop returns it.
Consume(c) == /\ ConsumerStep(c)
              /\ IF taken' # taken THEN Record(c) ELSE UNCHANGED operations

ProducerOut(p) == ppc[p] = "idle" /\ (sent[p] = MaxPushes \/ Broken(p))

\* Seeded fault: main closes the queue as soon as one producer is joined.
MainClose_JoinsOne == /\ \E p \in Producers : ProducerOut(p)
                      /\ Close
                      /\ UNCHANGED operations

\* Lines 104-107: join every producer, then close.
MainClose == /\ \A p \in Producers : ProducerOut(p)
             /\ Close
             /\ UNCHANGED operations

\* Lines 108-111: join every consumer, then shut down.
MainShutdown == /\ opc = "closed"
                /\ ConsumersDone
                /\ Shutdown
                /\ UNCHANGED operations

MainStep == MainClose \/ MainShutdown \/ (OwnerStep /\ UNCHANGED operations)

-----------------------------------------------------------------------------
(* Threads take turns, in a benchmark or in any other client *)

ProducerTurn(p) == /\ IF session THEN Produce(p) ELSE ProducerStep(p) /\ UNCHANGED operations
                   /\ UNCHANGED session

ConsumerTurn(c) == /\ IF session THEN Consume(c) ELSE ConsumerStep(c) /\ UNCHANGED operations
                   /\ UNCHANGED session

OwnerTurn == /\ IF session THEN MainStep ELSE OwnerStep /\ UNCHANGED operations
             /\ UNCHANGED session

StopAtAnyTime == /\ ~session
                 /\ Close \/ Shutdown
                 /\ UNCHANGED <<session, operations>>

SessionNext == \/ \E p \in Producers : ProducerTurn(p)
               \/ \E c \in Consumers : ConsumerTurn(c)
               \/ OwnerTurn
               \/ StopAtAnyTime
               \/ Finished /\ UNCHANGED <<session, operations>>

\* The fairness of SemaphoreQueue: every call that can go on does, but only the
\* main thread of a benchmark has to close the queue and to shut it down.
SessionSpec == /\ SessionInit
               /\ [][SessionNext]_sessionVars
               /\ \A p \in Producers : WF_sessionVars(ProducerTurn(p))
               /\ \A c \in Consumers : WF_sessionVars(ConsumerTurn(c))
               /\ WF_sessionVars(OwnerTurn)

-----------------------------------------------------------------------------
(* Properties, besides those of SemaphoreQueue *)

\* No push of a session returns false: the break of line 85 is never taken, so
\* the totals that the benchmark reports (lines 117-123) are those of the run.
NothingRefused == session => refused = {}

\* When the main thread reads the trackers (lines 113-114) every item that was
\* offered has been taken exactly once and recorded on both sides, and the
\* items of one producer came out in the order it pushed them.
SessionDelivers ==
    session /\ opc = "shut_down" =>
      /\ Len(taken) = Cardinality(Items)
      /\ \A x \in Items : \E i \in 1..Len(taken) : taken[i] = x
      /\ \A i, j \in 1..Len(taken) :
           i < j /\ taken[i][1] = taken[j][1] => taken[i][2] < taken[j][2]
      /\ \A p \in Producers : operations[p] = MaxPushes
      /\ SumFunctionOnSet(operations, Consumers) = Len(taken)

\* close() wakes consumers and lets them drain (lines 14 and 111 of the queue);
\* the threads that wait at its lines 57 and 90 are more than the tokens of one
\* wake-up, so each must pass its token on (lines 61, 69, 105).  If the queue has
\* room for an item, every call returns once it is stopped in either way; and a
\* session, which has to come to that point by itself, ends with both joins
\* returned ("SPSC session drains 100 items", tests/test_smoke.cpp).
EveryoneReturns ==
    Stopped \/ session ~> /\ ProducersDone
                          /\ ConsumersDone
                          /\ session => opc = "shut_down"
=============================================================================
