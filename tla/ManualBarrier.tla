---------------------------- MODULE ManualBarrier ----------------------------
(***************************************************************************)
(* ManualBarrier of src/bench_barrier.cpp, used as in                      *)
(* ManualBarrier_WithWork: every thread works and calls arrive_and_wait,   *)
(* num_phases times.  A critical section of mtx_ is one step; it ends with *)
(* the thread through the barrier, or asleep in cv_.wait (which releases   *)
(* the mutex as it falls asleep).  A thread may wake up spuriously, and    *)
(* one that was woken may be slow to take the mutex again while others are *)
(* already in the next phase.                                              *)
(***************************************************************************)
EXTENDS Integers, FiniteSets, Places

CONSTANTS Threads,    \* count_ is their number
          NumPhases

ASSUME BarrierAssumption == IsFiniteSet(Threads) /\ NumPhases \in Nat

VARIABLES waiting_,     \* guarded by mtx_, as is generation_
          generation_,
          pc,           \* where each thread is
          current_gen,  \* the generation in which each thread arrived
          phase         \* phases that each thread has completed

vars == <<waiting_, generation_, pc, current_gen, phase>>

count_ == Cardinality(Threads)

Init == /\ waiting_ = 0
        /\ generation_ = 0
        /\ pc = [t \in Threads |-> "work"]
        /\ current_gen = [t \in Threads |-> 0]
        /\ phase = [t \in Threads |-> 0]

-----------------------------------------------------------------------------
(* arrive_and_wait: lines 48-63 *)

\* Seeded fault: one thread is woken by the last arrival.
ArriveLast_NotifyOne(t) ==
    /\ waiting_ + 1 = count_
    /\ waiting_' = 0
    /\ generation_' = generation_ + 1
    /\ IF At(pc, "asleep") = {} THEN pc' = [pc EXCEPT ![t] = "leave"]
       ELSE \E u \in At(pc, "asleep") :
              pc' = [pc EXCEPT ![t] = "leave", ![u] = "check"]

\* Lines 52-56: the last thread opens the next generation and wakes the others.
ArriveLast(t) ==
    /\ waiting_ + 1 = count_
    /\ waiting_' = 0
    /\ generation_' = generation_ + 1
    /\ pc' = [u \in Threads |-> IF u = t THEN "leave"
                                ELSE IF pc[u] = "asleep" THEN "check" ELSE pc[u]]

\* Lines 57-61: the others wait; the predicate is false when first tested, as
\* generation_ has just been read with the mutex held.
ArriveEarly(t) ==
    /\ waiting_ + 1 # count_
    /\ waiting_' = waiting_ + 1
    /\ pc' = [pc EXCEPT ![t] = "asleep"]
    /\ UNCHANGED generation_

\* Lines 48-62.
Arrive(t) ==
    /\ pc[t] = "work"
    /\ phase[t] < NumPhases
    /\ current_gen' = [current_gen EXCEPT ![t] = generation_]
    /\ ArriveLast(t) \/ ArriveEarly(t)
    /\ UNCHANGED phase

\* Line 59: wait() returns without a notification.
WakeSpuriously(t) ==
    /\ pc[t] = "asleep"
    /\ pc' = [pc EXCEPT ![t] = "check"]
    /\ UNCHANGED <<waiting_, generation_, current_gen, phase>>

\* Seeded fault: the barrier is taken to be open whenever nobody is counted.
Check_NobodyWaiting(t) ==
    /\ pc[t] = "check"
    /\ pc' = [pc EXCEPT ![t] = IF waiting_ = 0 THEN "leave" ELSE "asleep"]
    /\ UNCHANGED <<waiting_, generation_, current_gen, phase>>

\* Seeded fault: a wake-up is taken for the opening of the barrier.
Check_NoPredicate(t) ==
    /\ pc[t] = "check"
    /\ pc' = [pc EXCEPT ![t] = "leave"]
    /\ UNCHANGED <<waiting_, generation_, current_gen, phase>>

\* Lines 59-61: a thread that woke up takes the mutex and tests the predicate.
Check(t) ==
    /\ pc[t] = "check"
    /\ pc' = [pc EXCEPT ![t] = IF generation_ > current_gen[t] THEN "leave" ELSE "asleep"]
    /\ UNCHANGED <<waiting_, generation_, current_gen, phase>>

\* Line 63: the mutex is released, arrive_and_wait returns.
Leave(t) ==
    /\ pc[t] = "leave"
    /\ pc' = [pc EXCEPT ![t] = "work"]
    /\ phase' = [phase EXCEPT ![t] = @ + 1]
    /\ UNCHANGED <<waiting_, generation_, current_gen>>

-----------------------------------------------------------------------------
ThreadStep(t) == Arrive(t) \/ Check(t) \/ Leave(t)

\* Lines 174-176: every thread is joined.
AllOut == \A t \in Threads : pc[t] = "work" /\ phase[t] = NumPhases

Joined == AllOut /\ UNCHANGED vars

Next == \/ \E t \in Threads : ThreadStep(t) \/ WakeSpuriously(t)
        \/ Joined

\* Threads that can run do run; no spurious wake-up is owed.
Spec == Init /\ [][Next]_vars /\ \A t \in Threads : WF_vars(ThreadStep(t))

-----------------------------------------------------------------------------
(* Properties *)

\* The variables stay in their types.
TypeOK == /\ waiting_ \in 0..count_
          /\ generation_ \in 0..NumPhases
          /\ pc \in [Threads -> {"work", "asleep", "check", "leave"}]
          /\ current_gen \in [Threads -> 0..NumPhases]
          /\ phase \in [Threads -> 0..NumPhases]

\* The threads that arrived in the generation under way, slow leavers of the one
\* before not among them.
Inside == {t \in Threads : pc[t] \in {"asleep", "check"} /\ current_gen[t] = generation_}

\* waiting_ counts them and never all of them, and nobody of an older generation
\* sleeps on: the reset on line 54 and the notify_all of line 56 belong together.
WaitingCounts == /\ waiting_ = Cardinality(Inside)
                 /\ Threads # {} => waiting_ < count_
                 /\ \A t \in Threads : pc[t] = "asleep" => t \in Inside

\* It is a barrier: nobody leaves phase k before everybody has arrived in it,
\* although the object is reused at once and wake-ups may be spurious.
Abstract == INSTANCE PhaseBarrier
              WITH arrived <- [t \in Threads |->
                                 IF pc[t] = "work" THEN phase[t] ELSE phase[t] + 1],
                   passed <- phase

ImplementsBarrier == Abstract!Spec

\* All threads get through all phases: a wake-up is never missed.
AllPhasesEnd == <>AllOut
=============================================================================
