-------------------------- MODULE BarrierBenchmarks --------------------------
(***************************************************************************)
(* The benchmarks of src/bench_barrier.cpp: num_threads threads go through *)
(* num_phases phases that a barrier separates.                             *)
(*                                                                         *)
(*   "manual"      ManualBarrier_WithWork, the class of ManualBarrier.tla  *)
(*   "with_work"   StdBarrier_WithWork: thread 0 publishes the start time  *)
(*                 of the next phase in a plain vector between two         *)
(*                 crossings of the barrier, and every thread reads it     *)
(*                 without any other synchronisation                       *)
(*   "completion"  WithCompletion, HighFrequency and ArrivalPattern: one   *)
(*                 crossing in a phase                                     *)
(*                                                                         *)
(* std::barrier is the library's: the last thread to arrive runs the       *)
(* completion function and opens the next generation, and the threads that *)
(* arrived in an older one may go on.                                      *)
(***************************************************************************)
EXTENDS ManualBarrier

CONSTANTS Zero,        \* the thread with thread_id 0
          Benchmarks   \* the benchmarks that are examined

ASSUME BenchmarksAssumption ==
    /\ Zero \in Threads
    /\ NumPhases > 0
    /\ Benchmarks \subseteq {"manual", "with_work", "completion"}

VARIABLES bench,         \* the benchmark of this run
          phase_starts,  \* phases whose start time has been written
          arrivals,      \* threads that have arrived in this generation
          completions,   \* completed generations, the value of completion_count
          ticket         \* the generation in which each thread arrived

barrier == <<arrivals, completions, ticket>>
manual == <<waiting_, generation_, current_gen>>
benchVars == <<vars, bench, phase_starts, barrier>>

\* Line 91: phase 0 is published before the threads are launched.
BenchInit == /\ Init
             /\ bench \in Benchmarks
             /\ phase_starts = {0}
             /\ arrivals = 0
             /\ completions = 0
             /\ ticket = [t \in Threads |-> 0]

Go(t, from, to) == pc[t] = from /\ pc' = [pc EXCEPT ![t] = to]

EndPhase(t) == phase' = [phase EXCEPT ![t] = @ + 1]

\* Lines 109 and 115.
MorePhases(t) == phase[t] + 1 < NumPhases

-----------------------------------------------------------------------------
(* std::barrier *)

\* The arrival of arrive_and_wait.
LibraryArrive(t) ==
    /\ ticket' = [ticket EXCEPT ![t] = completions]
    /\ IF arrivals + 1 = count_
       THEN arrivals' = 0 /\ completions' = completions + 1
       ELSE arrivals' = arrivals + 1 /\ UNCHANGED completions

\* The wait of arrive_and_wait is over once the generation is complete.
Opened(t) == completions > ticket[t]

-----------------------------------------------------------------------------
(* A thread of the std::barrier benchmarks: lines 96-119, 206-213 *)

\* Lines 97-107: work, read phase_starts[phase], arrive.
FirstArrive(t) == /\ phase[t] < NumPhases
                  /\ Go(t, "work", "wait")
                  /\ LibraryArrive(t)
                  /\ UNCHANGED <<phase, phase_starts>>

\* Seeded fault: the second crossing of line 116 is left out.
FirstPass_OneCrossing(t) ==
    /\ Opened(t)
    /\ IF bench = "with_work" /\ MorePhases(t) /\ t = Zero
       THEN Go(t, "wait", "publish") /\ UNCHANGED phase
       ELSE Go(t, "wait", "work") /\ EndPhase(t)
    /\ UNCHANGED <<phase_starts, barrier>>

\* Lines 107-115: what a thread does after the first crossing of a phase.
FirstPass(t) ==
    /\ Opened(t)
    /\ IF bench = "with_work" /\ MorePhases(t)
       THEN Go(t, "wait", IF t = Zero THEN "publish" ELSE "arrive_again") /\ UNCHANGED phase
       ELSE Go(t, "wait", "work") /\ EndPhase(t)
    /\ UNCHANGED <<phase_starts, barrier>>

\* Seeded fault: the thread that publishes does not wait for the others.
Publish_GoesOn(t) == /\ Go(t, "publish", "work")
                     /\ phase_starts' = phase_starts \cup {phase[t] + 1}
                     /\ EndPhase(t)
                     /\ UNCHANGED barrier

\* Lines 109-112.
Publish(t) == /\ Go(t, "publish", "arrive_again")
              /\ phase_starts' = phase_starts \cup {phase[t] + 1}
              /\ UNCHANGED <<phase, barrier>>

\* Line 116.
SecondArrive(t) == /\ Go(t, "arrive_again", "wait_again")
                   /\ LibraryArrive(t)
                   /\ UNCHANGED <<phase, phase_starts>>

\* Lines 116-118.
SecondPass(t) == /\ Opened(t)
                 /\ Go(t, "wait_again", "work")
                 /\ EndPhase(t)
                 /\ UNCHANGED <<phase_starts, barrier>>

StdStep(t) == /\ bench # "manual"
              /\ \/ FirstArrive(t) \/ FirstPass(t)
                 \/ Publish(t)
                 \/ SecondArrive(t) \/ SecondPass(t)
              /\ UNCHANGED <<manual, bench>>

\* Lines 163-171.
ManualStep(t) == /\ bench = "manual"
                 /\ ThreadStep(t) \/ WakeSpuriously(t)
                 /\ UNCHANGED <<bench, phase_starts, barrier>>

\* What the scheduler owes a thread: any step but a spurious wake-up.
BenchStep(t) == StdStep(t) \/ (ManualStep(t) /\ ThreadStep(t))

BenchNext == \/ \E t \in Threads : StdStep(t) \/ ManualStep(t)
             \/ Joined /\ UNCHANGED benchVars

BenchSpec == /\ BenchInit /\ [][BenchNext]_benchVars
             /\ \A t \in Threads : WF_benchVars(BenchStep(t))

-----------------------------------------------------------------------------
(* Properties, besides those of ManualBarrier *)

\* Lines 101-103: "phase_starts[phase] is published before this phase begins".
\* No thread can reach the read of line 105 while thread 0 has still to write
\* the element, so the plain accesses of lines 105 and 110 never race.
PublishedBeforeRead ==
    bench = "with_work" =>
      \A t \in Threads : phase[t] < NumPhases => phase[t] \in phase_starts

\* The threads that wait in one generation of the barrier wait at the same line
\* and in the same phase: the two crossings of a phase are never paired with
\* each other, which the barrier itself would not notice.
SameCrossing ==
    \A t, u \in Threads :
      /\ {pc[t], pc[u]} \subseteq {"wait", "wait_again"}
      /\ ticket[t] = ticket[u]
      => pc[t] = pc[u] /\ phase[t] = phase[u]
=============================================================================
