---------------------------- MODULE CondVarQueue ----------------------------
(***************************************************************************)
(* One iteration of PC_CondVar (src/bench_pc_condvar.cpp): producers push  *)
(* N / producers items each into a std::queue without a bound, consumers   *)
(* wait on cv, and the main thread sets done, under m, when the producers  *)
(* are joined.  A critical section of m is one step; a consumer's ends by  *)
(* taking an item, by breaking out of its loop, or asleep in cv.wait.      *)
(* Lines 41 and 49 run with m held to the end of the loop body, and the    *)
(* notifications (lines 31 and 67) without it.                             *)
(***************************************************************************)
EXTENDS Integers, Sequences, FiniteSets, Places

CONSTANTS Producers, Consumers,
          N                     \* items of an iteration

ASSUME CondVarAssumption ==
    /\ IsFiniteSet(Producers) /\ Producers # {}
    /\ IsFiniteSet(Consumers) /\ Consumers # {}
    /\ Producers \cap Consumers = {}
    /\ N \in Nat

\* Line 25: integer division, as in the program.
Per == N \div Cardinality(Producers)

VARIABLES q,      \* the queue
          done,
          pushed, \* items each producer has pushed
          ppc,    \* where each producer is
          cpc,    \* where each consumer is
          main,   \* where the main thread is
          taken   \* history: the items popped, in that order

vars == <<q, done, pushed, ppc, cpc, main, taken>>

Init == /\ q = <<>>
        /\ done = FALSE
        /\ pushed = [p \in Producers |-> 0]
        /\ ppc = [p \in Producers |-> "push"]
        /\ cpc = [c \in Consumers |-> "check"]
        /\ main = "join_producers"
        /\ taken = <<>>

Asleep == At(cpc, "asleep")

-----------------------------------------------------------------------------
(* A producer: lines 24-33 *)

\* Lines 26-30.
Push(p) == /\ ppc[p] = "push"
           /\ pushed[p] < Per
           /\ q' = Append(q, pushed[p])
           /\ pushed' = [pushed EXCEPT ![p] = @ + 1]
           /\ ppc' = [ppc EXCEPT ![p] = "notify"]
           /\ UNCHANGED <<done, cpc, main, taken>>

\* Seeded fault: a producer only notifies when the queue was empty before.
NotifyOne_IfFirst(p) ==
    /\ ppc[p] = "notify"
    /\ ppc' = [ppc EXCEPT ![p] = "push"]
    /\ IF Asleep = {} \/ Len(q) # 1 THEN UNCHANGED cpc
       ELSE \E c \in Asleep : cpc' = [cpc EXCEPT ![c] = "check"]
    /\ UNCHANGED <<q, done, pushed, main, taken>>

\* Line 31: notify_one, outside the mutex.
NotifyOne(p) == /\ ppc[p] = "notify"
                /\ ppc' = [ppc EXCEPT ![p] = "push"]
                /\ IF Asleep = {} THEN UNCHANGED cpc
                   ELSE \E c \in Asleep : cpc' = [cpc EXCEPT ![c] = "check"]
                /\ UNCHANGED <<q, done, pushed, main, taken>>

ProducerOut(p) == ppc[p] = "push" /\ pushed[p] = Per

-----------------------------------------------------------------------------
(* A consumer: lines 35-47 *)

\* Seeded fault: a consumer leaves as soon as done is set.
Consume_NoDrain(c) ==
    /\ cpc[c] = "check"
    /\ \/ /\ ~done /\ q # <<>>
          /\ q' = Tail(q)
          /\ taken' = Append(taken, Head(q))
          /\ UNCHANGED cpc
       \/ /\ done \/ q = <<>>
          /\ cpc' = [cpc EXCEPT ![c] = IF done THEN "out" ELSE "asleep"]
          /\ UNCHANGED <<q, taken>>
    /\ UNCHANGED <<done, pushed, ppc, main>>

\* Lines 38-45: the predicate of wait() and what follows it, under m.
Consume(c) ==
    /\ cpc[c] = "check"
    /\ \/ /\ q # <<>>
          /\ q' = Tail(q)
          /\ taken' = Append(taken, Head(q))
          /\ UNCHANGED cpc
       \/ /\ q = <<>>
          /\ cpc' = [cpc EXCEPT ![c] = IF done THEN "out" ELSE "asleep"]
          /\ UNCHANGED <<q, taken>>
    /\ UNCHANGED <<done, pushed, ppc, main>>

\* Line 39: wait() may return without a notification and tests its predicate.
WakeSpuriously(c) == /\ cpc[c] = "asleep"
                     /\ cpc' = [cpc EXCEPT ![c] = "check"]
                     /\ UNCHANGED <<q, done, pushed, ppc, main, taken>>

-----------------------------------------------------------------------------
(* The main thread: lines 60-70 *)

\* Seeded fault: done is set when the first producer is joined.
SetDone_JoinsOne == /\ main = "join_producers"
                    /\ \E p \in Producers : ProducerOut(p)
                    /\ done' = TRUE
                    /\ main' = "notify"
                    /\ UNCHANGED <<q, pushed, ppc, cpc, taken>>

\* Lines 60-66.
SetDone == /\ main = "join_producers"
           /\ \A p \in Producers : ProducerOut(p)
           /\ done' = TRUE
           /\ main' = "notify"
           /\ UNCHANGED <<q, pushed, ppc, cpc, taken>>

\* Seeded fault: done is announced to one consumer.
NotifyAll_One == /\ main = "notify"
                 /\ main' = "join_consumers"
                 /\ IF Asleep = {} THEN UNCHANGED cpc
                    ELSE \E c \in Asleep : cpc' = [cpc EXCEPT ![c] = "check"]
                 /\ UNCHANGED <<q, done, pushed, ppc, taken>>

\* Line 67.
NotifyAll == /\ main = "notify"
             /\ main' = "join_consumers"
             /\ cpc' = [c \in Consumers |-> IF cpc[c] = "asleep" THEN "check" ELSE cpc[c]]
             /\ UNCHANGED <<q, done, pushed, ppc, taken>>

\* Lines 68-70.
JoinConsumers == /\ main = "join_consumers"
                 /\ \A c \in Consumers : cpc[c] = "out"
                 /\ main' = "over"
                 /\ UNCHANGED <<q, done, pushed, ppc, cpc, taken>>

-----------------------------------------------------------------------------
ProducerStep(p) == Push(p) \/ NotifyOne(p)

MainStep == SetDone \/ NotifyAll \/ JoinConsumers

Over == main = "over" /\ UNCHANGED vars

Next == \/ \E p \in Producers : ProducerStep(p)
        \/ \E c \in Consumers : Consume(c) \/ WakeSpuriously(c)
        \/ MainStep
        \/ Over

\* Threads that can run do run; no spurious wake-up is owed.
Spec == /\ Init /\ [][Next]_vars
        /\ \A p \in Producers : WF_vars(ProducerStep(p))
        /\ \A c \in Consumers : WF_vars(Consume(c))
        /\ WF_vars(MainStep)

-----------------------------------------------------------------------------
(* Properties *)

\* The variables stay in their types.
TypeOK == /\ q \in Seq(0..N)
          /\ done \in BOOLEAN
          /\ pushed \in [Producers -> 0..Per]
          /\ taken \in Seq(0..N)
          /\ ppc \in [Producers -> {"push", "notify"}]
          /\ cpc \in [Consumers -> {"check", "asleep", "out"}]
          /\ main \in {"join_producers", "notify", "join_consumers", "over"}

\* While a consumer sleeps, every item in the queue has a consumer that is about
\* to look (line 39) or a notify_one on its way (line 31), although that call is
\* made outside the mutex.
SleepersNotNeeded ==
    Asleep # {} =>
      Len(q) <= Cardinality(At(cpc, "check")) + Cardinality(At(ppc, "notify"))

\* When the iteration is over the N items it reports (line 73) have been popped:
\* consumers drain the queue after done.
ItemsReported == main = "over" => q = <<>> /\ Len(taken) = N

\* q, m, cv and done together are the queue of BoundedQueue.tla, with room for all
\* items: nothing is pushed after done, items are popped in the order of their
\* pushes, and a consumer leaves only when none is left and none can come.
Abstract == INSTANCE BoundedQueue
              WITH Items <- 0..N, MaxSize <- N, queue <- q, open <- ~done, taken <- taken,
                   refused <- {}, ended <- At(cpc, "out")

ImplementsBoundedQueue == Abstract!Spec

\* The iteration ends: done is set under m, so no consumer can test its predicate
\* before and fall asleep after the notify_all of line 67.
IterationEnds == <>(main = "over")
=============================================================================
