---------------------------- MODULE BarrierProofs ----------------------------
(***************************************************************************)
(* Theorems about ManualBarrier and BarrierBenchmarks for any number of    *)
(* threads and of phases: both barriers separate the phases, and phases    *)
(* are published before they are read.                                     *)
(***************************************************************************)
EXTENDS BarrierBenchmarks, ThreadCounting

-----------------------------------------------------------------------------
(* The inductive invariant *)

\* The variables of every benchmark stay in their types.
BenchTypes == /\ bench \in {"manual", "with_work", "completion"}
              /\ waiting_ \in Nat /\ generation_ \in Nat
              /\ arrivals \in Nat /\ completions \in Nat
              /\ current_gen \in [Threads -> Nat]
              /\ ticket \in [Threads -> Nat]
              /\ phase \in [Threads -> 0..NumPhases]
              /\ pc \in [Threads -> {"work", "asleep", "check", "leave", "wait",
                                     "publish", "arrive_again", "wait_again"}]
              /\ phase_starts \subseteq Nat

\* ManualBarrier: what the place of a thread tells of its phase.  Nobody is more
\* than one generation behind, as the next one cannot end without everybody.
ManualPlace(t) ==
    /\ pc[t] \in {"work", "asleep", "check", "leave"}
    /\ pc[t] \in {"work", "asleep"} => phase[t] = generation_
    /\ pc[t] = "check" => phase[t] \in {generation_, generation_ - 1}
    /\ pc[t] = "leave" => phase[t] = generation_ - 1
    /\ pc[t] # "work" => current_gen[t] = phase[t] /\ phase[t] < NumPhases

ManualInv == /\ waiting_ = Cardinality(Inside)
             /\ waiting_ < count_
             /\ \A t \in Threads : ManualPlace(t)

\* How many crossings of std::barrier a thread has behind it: two in each phase
\* of StdBarrier_WithWork but the last one, one in each phase of the others.
SecondHalf == {"publish", "arrive_again", "wait_again"}

Crossed(t) ==
    IF bench = "completion" THEN phase[t]
    ELSE IF phase[t] = NumPhases THEN 2 * NumPhases - 1
    ELSE 2 * phase[t] + (IF pc[t] \in SecondHalf THEN 1 ELSE 0)

Waiting == {t \in Threads : pc[t] \in {"wait", "wait_again"}}

\* The threads that have arrived in the generation under way.
Arrived == {t \in Waiting : ticket[t] = completions}

StdPlace(t) ==
    /\ pc[t] \in {"work", "wait"} \cup SecondHalf
    /\ t \notin Waiting => Crossed(t) = completions
    /\ t \in Waiting => /\ ticket[t] = Crossed(t)
                        /\ Crossed(t) \in {completions, completions - 1}
                        /\ phase[t] < NumPhases
    /\ pc[t] \in SecondHalf => bench = "with_work" /\ phase[t] + 1 < NumPhases
    /\ pc[t] = "publish" => t = Zero

\* Thread 0 has published what it has reached, and the phase to come before it
\* arrives for the second time.
Published == \A k \in 0..(NumPhases - 1) :
               \/ k <= phase[Zero]
               \/ k = phase[Zero] + 1 /\ pc[Zero] \in {"arrive_again", "wait_again"}
               => k \in phase_starts

StdInv == /\ waiting_ = 0
          /\ arrivals = Cardinality(Arrived)
          /\ arrivals < count_
          /\ \A t \in Threads : StdPlace(t)
          /\ bench = "with_work" => Published

BenchInv == /\ BenchTypes
            /\ bench = "manual" => ManualInv
            /\ bench # "manual" => StdInv

-----------------------------------------------------------------------------
(* The invariant holds at first *)

\* Everybody is at work in phase 0, which has been published.
LEMMA BenchInvInit == BenchInit => BenchInv
<1> SUFFICES ASSUME BenchInit
             PROVE  BenchInv
  OBVIOUS
<1> USE BarrierAssumption, BenchmarksAssumption
<1>1. BenchTypes
  BY DEF BenchInit, Init, BenchTypes
<1>2. Cardinality({}) = 0 /\ 0 < count_
  BY FS_EmptySet, FS_CardinalityType DEF count_
<1>3. Inside = {} /\ Arrived = {}
  BY DEF BenchInit, Init, Inside, Arrived, Waiting
<1>4. \A t \in Threads : ManualPlace(t)
  BY DEF BenchInit, Init, ManualPlace
<1>5. bench # "manual" => \A t \in Threads : StdPlace(t)
  BY DEF BenchInit, Init, StdPlace, Crossed, Waiting, SecondHalf
<1>6. Published
  BY DEF BenchInit, Init, Published
<1> QED
  BY <1>1, <1>2, <1>3, <1>4, <1>5, <1>6 DEF BenchInit, Init, BenchInv, ManualInv, StdInv

-----------------------------------------------------------------------------
(* Steps of the threads that use ManualBarrier *)

\* When a thread that is not inside arrives, count_ - 1 threads inside are all
\* the others.
LEMMA OthersInside ==
    ASSUME NEW t \in Threads, t \notin Inside
    PROVE  /\ IsFiniteSet(Inside) /\ Cardinality(Inside) \in Nat /\ count_ \in Nat
           /\ Cardinality(Inside) + 1 <= count_
           /\ Cardinality(Inside) + 1 = count_ => Inside = Threads \ {t}
<1>1. Inside \in SUBSET (Threads \ {t})
  BY DEF Inside
<1> QED
  BY <1>1, AllButOne, BarrierAssumption DEF count_

\* The last thread to arrive opens the next generation: everybody else is inside
\* and is woken.
LEMMA ArriveLastKeeps ==
    ASSUME BenchTypes, ManualInv, NEW t \in Threads, Arrive(t), ArriveLast(t),
           UNCHANGED <<bench, phase_starts, barrier>>
    PROVE  BenchTypes' /\ ManualInv'
<1> USE BarrierAssumption, BenchmarksAssumption DEF BenchTypes, barrier
<1>1. /\ pc[t] = "work" /\ phase[t] < NumPhases /\ phase[t] = generation_
      /\ waiting_ + 1 = count_ /\ waiting_' = 0
      /\ generation_' = generation_ + 1
      /\ current_gen' = [current_gen EXCEPT ![t] = generation_]
      /\ phase' = phase
  BY DEF Arrive, ArriveLast, ManualInv, ManualPlace
<1>2. t \notin Inside
  BY <1>1 DEF Inside
<1>3. Inside = Threads \ {t}
  BY <1>1, <1>2, OthersInside DEF ManualInv
<1>4. \A u \in Threads \ {t} :
        /\ pc[u] \in {"asleep", "check"} /\ pc'[u] = "check"
        /\ current_gen'[u] = current_gen[u] /\ current_gen[u] = generation_
        /\ phase[u] = generation_ /\ phase[u] < NumPhases
  BY <1>1, <1>3 DEF Inside, ManualInv, ManualPlace, Arrive, ArriveLast
<1>5. pc'[t] = "leave" /\ current_gen'[t] = generation_
  BY <1>1 DEF Arrive, ArriveLast
<1>6. BenchTypes'
  BY <1>1 DEF Arrive, ArriveLast
<1>7. \A u \in Threads : ManualPlace(u)'
  <2> TAKE u \in Threads
  <2>1. CASE u = t
    BY <1>1, <1>5, <2>1 DEF ManualPlace
  <2>2. CASE u # t
    BY <1>1, <1>4, <2>2 DEF ManualPlace
  <2> QED
    BY <2>1, <2>2
<1>8. Inside' = {}
  BY <1>1, <1>4, <1>5 DEF Inside
<1>9. Cardinality(Inside') = 0 /\ 0 < count_
  BY <1>8, FS_EmptySet, FS_CardinalityType DEF count_
<1> QED
  BY <1>1, <1>6, <1>7, <1>9 DEF ManualInv, count_

\* Any other thread is counted and falls asleep; somebody is still missing.
LEMMA ArriveEarlyKeeps ==
    ASSUME BenchTypes, ManualInv, NEW t \in Threads, Arrive(t), ArriveEarly(t),
           UNCHANGED <<bench, phase_starts, barrier>>
    PROVE  BenchTypes' /\ ManualInv'
<1> USE BarrierAssumption, BenchmarksAssumption DEF BenchTypes, barrier
<1>1. /\ pc[t] = "work" /\ phase[t] < NumPhases /\ phase[t] = generation_
      /\ waiting_ + 1 # count_ /\ waiting_' = waiting_ + 1
      /\ generation_' = generation_
      /\ current_gen' = [current_gen EXCEPT ![t] = generation_]
      /\ pc' = [pc EXCEPT ![t] = "asleep"]
      /\ phase' = phase
  BY DEF Arrive, ArriveEarly, ManualInv, ManualPlace
<1>2. BenchTypes'
  BY <1>1
<1>3. \A u \in Threads : ManualPlace(u)'
  BY <1>1 DEF ManualInv, ManualPlace
<1>4. t \notin Inside /\ Inside' = Inside \cup {t}
  BY <1>1 DEF Inside
<1>5. Cardinality(Inside') = Cardinality(Inside) + 1
  BY <1>4, OthersInside, FS_AddElement
<1>6. waiting_ + 1 < count_
  BY <1>1, <1>4, OthersInside DEF ManualInv
<1> QED
  BY <1>1, <1>2, <1>3, <1>5, <1>6 DEF ManualInv, count_

\* Waking up, testing the predicate and leaving change nobody's count: a thread
\* that leaves belonged to an older generation already.
LEMMA ManualMoveKeeps ==
    ASSUME BenchTypes, ManualInv, NEW t \in Threads,
           WakeSpuriously(t) \/ Check(t) \/ Leave(t),
           UNCHANGED <<bench, phase_starts, barrier>>
    PROVE  BenchTypes' /\ ManualInv'
<1> USE BarrierAssumption, BenchmarksAssumption DEF BenchTypes, barrier
<1>1. /\ waiting_' = waiting_ /\ generation_' = generation_ /\ current_gen' = current_gen
      /\ pc[t] \in {"asleep", "check", "leave"} /\ phase[t] < NumPhases
      /\ pc' \in [Threads -> {"work", "asleep", "check", "leave", "wait",
                              "publish", "arrive_again", "wait_again"}]
      /\ phase' \in [Threads -> 0..NumPhases]
      /\ \A u \in Threads \ {t} : pc'[u] = pc[u] /\ phase'[u] = phase[u]
  BY DEF WakeSpuriously, Check, Leave, ManualInv, ManualPlace
<1>2. BenchTypes'
  BY <1>1
<1>3. ManualPlace(t)' /\ (t \in Inside' <=> t \in Inside)
  <2>1. CASE WakeSpuriously(t)
    BY <2>1 DEF WakeSpuriously, ManualInv, ManualPlace, Inside
  <2>2. CASE Check(t)
    BY <2>2 DEF Check, ManualInv, ManualPlace, Inside
  <2>3. CASE Leave(t)
    BY <2>3 DEF Leave, ManualInv, ManualPlace, Inside
  <2> QED
    BY <2>1, <2>2, <2>3
<1>4. \A u \in Threads : ManualPlace(u)'
  BY <1>1, <1>3 DEF ManualInv, ManualPlace
<1>5. Inside' = Inside
  BY <1>1, <1>3 DEF Inside
<1> QED
  BY <1>1, <1>2, <1>4, <1>5 DEF ManualInv, count_

\* Every step of ManualBarrier keeps its invariant.
LEMMA ManualStepKeeps ==
    ASSUME BenchTypes, ManualInv, NEW t \in Threads, ManualStep(t)
    PROVE  BenchTypes' /\ ManualInv'
  BY ArriveLastKeeps, ArriveEarlyKeeps, ManualMoveKeeps DEF ManualStep, ThreadStep, Arrive

-----------------------------------------------------------------------------
(* Steps of the threads that use std::barrier *)

\* When a thread that does not wait arrives, count_ - 1 arrived threads are all
\* the others.
LEMMA OthersArrived ==
    ASSUME NEW t \in Threads, t \notin Waiting
    PROVE  /\ IsFiniteSet(Arrived) /\ Cardinality(Arrived) \in Nat /\ count_ \in Nat
           /\ Cardinality(Arrived) + 1 <= count_
           /\ Cardinality(Arrived) + 1 = count_ => Arrived = Threads \ {t}
<1>1. Arrived \in SUBSET (Threads \ {t})
  BY DEF Arrived, Waiting
<1> QED
  BY <1>1, AllButOne, BarrierAssumption DEF count_

\* A thread that arrives at std::barrier keeps the invariant, on either line:
\* it waits in the generation under way, or it was the last one and everybody
\* waits in a generation that is complete.
LEMMA LibraryArriveKeeps ==
    ASSUME BenchTypes, StdInv, bench # "manual", NEW t \in Threads,
           LibraryArrive(t),
           t \notin Waiting, phase[t] < NumPhases,
           NEW place \in {"wait", "wait_again"}, pc' = [pc EXCEPT ![t] = place],
           pc[t] \in SecondHalf <=> place \in SecondHalf,
           pc[t] # "publish",
           UNCHANGED <<phase, phase_starts, manual, bench>>
    PROVE  BenchTypes' /\ StdInv'
<1> USE BarrierAssumption, BenchmarksAssumption DEF BenchTypes, manual
<1>1. /\ ticket' = [ticket EXCEPT ![t] = completions]
      /\ \A u \in Threads \ {t} : pc'[u] = pc[u] /\ ticket'[u] = ticket[u]
      /\ pc'[t] = place /\ ticket'[t] = completions
      /\ phase' = phase /\ bench' = bench
  BY DEF LibraryArrive
<1>2. \A u \in Threads : Crossed(u)' = Crossed(u) /\ Crossed(u) \in Int
  BY <1>1 DEF Crossed
<1>3. /\ StdPlace(t) /\ Crossed(t) = completions
      /\ t \in Waiting' /\ (\A u \in Threads \ {t} : u \in Waiting' <=> u \in Waiting)
  BY <1>1 DEF StdInv, StdPlace, Waiting
<1>4. bench = "with_work" => Published'
  <2>1. pc[Zero] \in {"arrive_again", "wait_again"}
          <=> pc'[Zero] \in {"arrive_again", "wait_again"}
    BY <1>1, <1>3 DEF SecondHalf, Waiting, StdPlace
  <2> QED
    BY <1>1, <2>1 DEF StdInv, Published
<1>5. CASE arrivals + 1 = count_
  <2>1. arrivals' = 0 /\ completions' = completions + 1
    BY <1>5 DEF LibraryArrive
  <2>2. Arrived = Threads \ {t}
    BY <1>5, OthersArrived DEF StdInv
  <2>3. \A u \in Threads \ {t} : u \in Waiting /\ ticket[u] = completions
    BY <2>2 DEF Arrived
  <2>4. \A u \in Threads : StdPlace(u)'
    <3> TAKE u \in Threads
    <3>1. u \in Waiting' /\ ticket'[u] = completions /\ Crossed(u) = completions
      BY <1>1, <1>3, <2>3 DEF StdInv, StdPlace
    <3>2. phase'[u] < NumPhases
      BY <1>1, <2>3 DEF StdInv, StdPlace
    <3>3. /\ pc'[u] \in {"work", "wait"} \cup SecondHalf /\ pc'[u] # "publish"
          /\ pc'[u] \in SecondHalf => bench = "with_work" /\ phase[u] + 1 < NumPhases
      BY <1>1, <1>3, <3>1 DEF StdInv, StdPlace, SecondHalf, Waiting
    <3> QED
      BY <1>1, <1>2, <2>1, <3>1, <3>2, <3>3 DEF StdPlace
  <2>5. Arrived' = {}
    BY <1>1, <2>1, <2>3 DEF Arrived, Waiting
  <2>6. Cardinality(Arrived') = 0 /\ 0 < count_
    BY <2>5, FS_EmptySet, FS_CardinalityType DEF count_
  <2>7. BenchTypes'
    BY <1>1, <2>1
  <2> QED
    BY <1>1, <1>4, <2>1, <2>4, <2>6, <2>7 DEF StdInv, count_
<1>6. CASE arrivals + 1 # count_
  <2>1. arrivals' = arrivals + 1 /\ completions' = completions
    BY <1>6 DEF LibraryArrive
  <2>2. Arrived' = Arrived \cup {t} /\ t \notin Arrived
    BY <1>1, <2>1 DEF Arrived, Waiting
  <2>3. Cardinality(Arrived') = arrivals + 1 /\ arrivals + 1 < count_
    <3>1. /\ IsFiniteSet(Arrived) /\ arrivals = Cardinality(Arrived)
          /\ arrivals + 1 <= count_ /\ count_ \in Nat
      BY OthersArrived DEF StdInv
    <3>2. Cardinality(Arrived \cup {t}) = arrivals + 1
      BY <2>2, <3>1, FS_AddElement
    <3> QED
      BY <1>6, <2>2, <3>1, <3>2
  <2>4. \A u \in Threads : StdPlace(u)'
    <3> TAKE u \in Threads
    <3>1. CASE u = t
      BY <1>1, <1>2, <1>3, <2>1, <3>1 DEF StdPlace, SecondHalf
    <3>2. CASE u # t
      BY <1>1, <1>2, <1>3, <2>1, <3>2 DEF StdInv, StdPlace
    <3> QED
      BY <3>1, <3>2
  <2>5. BenchTypes'
    BY <1>1, <2>1
  <2> QED
    BY <1>1, <1>4, <2>1, <2>3, <2>4, <2>5 DEF StdInv, count_
<1> QED
  BY <1>5, <1>6

\* A thread that has been let through, or that publishes, leaves the barrier as
\* it is: it has one crossing more behind it, of a generation that is complete.
LEMMA StdMoveKeeps ==
    ASSUME BenchTypes, StdInv, bench # "manual", NEW t \in Threads,
           FirstPass(t) \/ Publish(t) \/ SecondPass(t),
           UNCHANGED <<manual, bench>>
    PROVE  BenchTypes' /\ StdInv'
<1> USE BarrierAssumption, BenchmarksAssumption DEF BenchTypes, manual, barrier
<1> DEFINE others == \A u \in Threads \ {t} : pc'[u] = pc[u] /\ phase'[u] = phase[u]
<1>1. StdPlace(t)
  BY DEF StdInv
<1>2. /\ arrivals' = arrivals /\ completions' = completions /\ ticket' = ticket
      /\ others
      /\ BenchTypes'
      /\ pc'[t] \in {"work", "publish", "arrive_again"}
  <2>1. CASE FirstPass(t)
    BY <1>1, <2>1 DEF FirstPass, StdPlace, Waiting, Go, EndPhase
  <2>2. CASE Publish(t)
    <3>1. phase_starts' = phase_starts \cup {phase[t] + 1} /\ phase[t] + 1 \in Nat
      BY <2>2 DEF Publish
    <3>2. phase_starts' \subseteq Nat
      BY <3>1, Zenon
    <3> QED
      BY <1>1, <2>2, <3>2 DEF Publish, StdPlace, Go
  <2>3. CASE SecondPass(t)
    BY <1>1, <2>3 DEF SecondPass, StdPlace, Waiting, Go, EndPhase
  <2> QED
    BY <2>1, <2>2, <2>3
<1>3. t \notin Arrived
  BY <1>1 DEF Arrived, Waiting, FirstPass, Publish, SecondPass, Go, Opened
<1>4. Arrived' = Arrived
  BY <1>2, <1>3 DEF Arrived, Waiting
<1>5. StdPlace(t)'
  <2>1. CASE FirstPass(t)
    <3>1. /\ pc[t] = "wait" /\ t \in Waiting /\ completions = Crossed(t) + 1
          /\ phase[t] < NumPhases
      BY <1>1, <2>1 DEF FirstPass, StdPlace, Waiting, Go, Opened, Crossed
    <3>2. CASE bench = "with_work" /\ MorePhases(t)
      <4>1. /\ pc'[t] = IF t = Zero THEN "publish" ELSE "arrive_again"
            /\ phase'[t] = phase[t] /\ phase[t] + 1 < NumPhases
        BY <2>1, <3>1, <3>2 DEF FirstPass, Go, MorePhases
      <4> QED
        BY <1>2, <3>1, <3>2, <4>1 DEF StdPlace, Waiting, Crossed, SecondHalf
    <3>3. CASE ~(bench = "with_work" /\ MorePhases(t))
      <4>1. pc'[t] = "work" /\ phase'[t] = phase[t] + 1
        BY <2>1, <3>1, <3>3 DEF FirstPass, Go, EndPhase
      <4>2. Crossed(t)' = completions
        <5>1. CASE bench = "completion"
          BY <3>1, <4>1, <5>1 DEF Crossed
        <5>2. CASE bench = "with_work"
          <6>1. phase'[t] = NumPhases /\ phase[t] = NumPhases - 1
            BY <3>1, <3>3, <4>1, <5>2 DEF MorePhases
          <6> QED
            BY <3>1, <4>1, <5>2, <6>1 DEF Crossed, SecondHalf
        <5> QED
          BY <5>1, <5>2
      <4> QED
        BY <1>2, <4>1, <4>2 DEF StdPlace, Waiting, SecondHalf
    <3> QED
      BY <3>2, <3>3
  <2>2. CASE Publish(t)
    BY <1>1, <2>2 DEF Publish, StdPlace, Waiting, Go, Crossed, SecondHalf
  <2>3. CASE SecondPass(t)
    BY <1>1, <2>3
    DEF SecondPass, StdPlace, Waiting, Go, EndPhase, Opened, MorePhases, Crossed, SecondHalf
  <2> QED
    BY <2>1, <2>2, <2>3
<1>6. \A u \in Threads : StdPlace(u)'
  <2> SUFFICES ASSUME NEW u \in Threads, u # t
               PROVE  StdPlace(u)'
    BY <1>5
  <2>1. StdPlace(u) /\ Crossed(u)' = Crossed(u) /\ (u \in Waiting' <=> u \in Waiting)
    BY <1>2 DEF StdInv, Crossed, Waiting
  <2> QED
    BY <1>2, <2>1 DEF StdPlace
<1>7. bench = "with_work" => Published'
  <2> SUFFICES ASSUME bench = "with_work"
               PROVE  Published'
    OBVIOUS
  <2>1. Published
    BY DEF StdInv
  <2>2. CASE t # Zero
    BY <1>2, <2>1, <2>2 DEF Published, FirstPass, Publish, SecondPass
  <2>3. CASE t = Zero /\ FirstPass(t)
    BY <1>1, <2>1, <2>3
    DEF Published, FirstPass, StdPlace, Go, EndPhase, MorePhases, SecondHalf
  <2>4. CASE t = Zero /\ Publish(t)
    BY <1>1, <2>1, <2>4 DEF Published, Publish, StdPlace, Go
  <2>5. CASE t = Zero /\ SecondPass(t)
    BY <1>1, <2>1, <2>5 DEF Published, SecondPass, StdPlace, Go, EndPhase
  <2> QED
    BY <2>2, <2>3, <2>4, <2>5
<1> QED
  BY <1>2, <1>4, <1>6, <1>7 DEF StdInv, count_

\* Every step of the std::barrier benchmarks keeps their invariant.
LEMMA StdStepKeeps ==
    ASSUME BenchTypes, StdInv, NEW t \in Threads, StdStep(t)
    PROVE  BenchTypes' /\ StdInv'
<1>1. StdPlace(t)
  BY DEF StdInv
<1>2. CASE FirstArrive(t)
  BY <1>1, <1>2, LibraryArriveKeeps
  DEF StdStep, FirstArrive, Go, Waiting, SecondHalf, BenchTypes
<1>3. CASE SecondArrive(t)
  <2>1. phase[t] < NumPhases
    BY <1>1, <1>3, BarrierAssumption DEF SecondArrive, Go, StdPlace, SecondHalf, BenchTypes
  <2> QED
    BY <1>3, <2>1, LibraryArriveKeeps DEF StdStep, SecondArrive, Go, Waiting, SecondHalf
<1>4. CASE FirstPass(t) \/ Publish(t) \/ SecondPass(t)
  BY <1>4, StdMoveKeeps DEF StdStep
<1> QED
  BY <1>2, <1>3, <1>4 DEF StdStep

-----------------------------------------------------------------------------
(* Every state satisfies the invariant *)

\* A step of any of the benchmarks keeps the invariant.
LEMMA BenchInvStep == BenchInv /\ [BenchNext]_benchVars => BenchInv'
<1> SUFFICES ASSUME BenchInv, [BenchNext]_benchVars
             PROVE  BenchInv'
  OBVIOUS
<1>1. ASSUME NEW t \in Threads, StdStep(t)
      PROVE  BenchInv'
  BY <1>1, StdStepKeeps DEF BenchInv, StdStep
<1>2. ASSUME NEW t \in Threads, ManualStep(t)
      PROVE  BenchInv'
  BY <1>2, ManualStepKeeps DEF BenchInv, ManualStep
<1>3. CASE UNCHANGED benchVars
  <2>1. /\ Inside' = Inside /\ Arrived' = Arrived /\ count_' = count_
        /\ \A t \in Threads : (ManualPlace(t)' <=> ManualPlace(t)) /\ (StdPlace(t)' <=> StdPlace(t))
        /\ Published' <=> Published
    BY <1>3 DEF benchVars, vars, barrier, Inside, Arrived, Waiting, count_, ManualPlace,
                StdPlace, Crossed, Published
  <2> QED
    BY <1>3, <2>1 DEF benchVars, vars, barrier, BenchInv, BenchTypes, ManualInv, StdInv
<1> QED
  BY <1>1, <1>2, <1>3 DEF BenchNext

\* The inductive invariant of the barrier benchmarks: what the place of a thread
\* tells of its generation and phase, and what waiting_ and arrivals count.
THEOREM BarrierInvariance == BenchSpec => []BenchInv
  BY BenchInvInit, BenchInvStep, PTL DEF BenchSpec

\* waiting_ counts exactly the threads that arrived in the generation under way,
\* never all of them, and nobody of an older generation sleeps on (lines 48-63).
THEOREM BarrierCounts == BenchSpec => []WaitingCounts
<1>1. BenchInv => WaitingCounts
  <2> SUFFICES ASSUME BenchInv
               PROVE  WaitingCounts
    OBVIOUS
  <2>1. CASE bench = "manual"
    BY <2>1 DEF BenchInv, BenchTypes, ManualInv, ManualPlace, WaitingCounts, Inside
  <2>2. CASE bench # "manual"
    <3>1. Inside = {} /\ \A t \in Threads : pc[t] # "asleep"
      BY <2>2 DEF BenchInv, StdInv, StdPlace, SecondHalf, Inside
    <3>2. count_ \in Nat /\ (Threads # {} => 0 < count_)
      BY FS_CardinalityType, FS_EmptySet, BarrierAssumption DEF count_
    <3> QED
      BY <2>2, <3>1, <3>2, FS_EmptySet DEF BenchInv, StdInv, WaitingCounts
  <2> QED
    BY <2>1, <2>2
<1> QED
  BY <1>1, BarrierInvariance, PTL

\* "phase_starts[phase] is published before this phase begins" (lines 101-103):
\* a thread that is a phase ahead of thread 0 has crossed the barrier at which
\* thread 0 still waits, and thread 0 published before it arrived there.
THEOREM PhasesPublished == BenchSpec => []PublishedBeforeRead
<1>1. BenchInv => PublishedBeforeRead
  <2> SUFFICES ASSUME BenchInv, bench = "with_work",
                      NEW t \in Threads, phase[t] < NumPhases
               PROVE  phase[t] \in phase_starts
    BY DEF PublishedBeforeRead
  <2> USE BarrierAssumption, BenchmarksAssumption DEF BenchInv, BenchTypes
  <2>1. StdPlace(t) /\ StdPlace(Zero) /\ Published
    BY DEF StdInv
  <2>2. CASE phase[t] <= phase[Zero]
    BY <2>1, <2>2 DEF Published
  <2>3. CASE phase[t] > phase[Zero]
    <3>1. 2 * phase[t] <= Crossed(t) /\ Crossed(t) <= Crossed(Zero) + 1
      BY <2>1 DEF StdPlace, Crossed
    <3>2. phase[t] = phase[Zero] + 1 /\ pc[Zero] \in SecondHalf
      BY <2>3, <3>1 DEF Crossed
    <3>3. pc[Zero] # "publish"
      BY <2>1, <2>3, <3>1, <3>2 DEF StdPlace, Waiting, Crossed, SecondHalf
    <3> QED
      BY <2>1, <3>2, <3>3 DEF Published, SecondHalf
  <2> QED
    BY <2>2, <2>3
<1> QED
  BY <1>1, BarrierInvariance, PTL

\* Threads that wait in one generation wait at the same line in the same phase:
\* the first and the second crossing of a phase are never paired (lines 107, 116).
THEOREM CrossingsMatch == BenchSpec => []SameCrossing
<1>1. BenchInv => SameCrossing
  <2> SUFFICES ASSUME BenchInv, NEW t \in Threads, NEW u \in Threads,
                      {pc[t], pc[u]} \subseteq {"wait", "wait_again"},
                      ticket[t] = ticket[u]
               PROVE  pc[t] = pc[u] /\ phase[t] = phase[u]
    BY DEF SameCrossing
  <2> USE BarrierAssumption, BenchmarksAssumption DEF BenchInv, BenchTypes
  <2>1. bench # "manual"
    BY DEF ManualInv, ManualPlace
  <2>2. /\ StdPlace(t) /\ StdPlace(u)
        /\ Crossed(t) = Crossed(u) /\ phase[t] < NumPhases /\ phase[u] < NumPhases
    BY <2>1 DEF StdInv, StdPlace, Waiting
  <2>3. CASE bench = "completion"
    BY <2>2, <2>3 DEF Crossed, StdPlace, SecondHalf
  <2>4. CASE bench = "with_work"
    BY <2>2, <2>4 DEF Crossed, SecondHalf
  <2> QED
    BY <2>1, <2>3, <2>4
<1> QED
  BY <1>1, BarrierInvariance, PTL

-----------------------------------------------------------------------------
(* The barriers implement PhaseBarrier *)

\* A thread that goes to the barrier with everybody else where they were, to the
\* eyes of PhaseBarrier, arrives.
LEMMA GoesToBarrier ==
    ASSUME BenchTypes, NEW t \in Threads, phase' = phase,
           pc[t] = "work", pc'[t] # "work",
           \A u \in Threads \ {t} : pc'[u] = "work" <=> pc[u] = "work"
    PROVE  Abstract!Arrive(t)
  BY BarrierAssumption DEF Abstract!Arrive, BenchTypes

\* A thread that ends its phase passes, when everybody has come as far as it has.
LEMMA EndsPhase ==
    ASSUME BenchTypes, NEW t \in Threads, phase' = [phase EXCEPT ![t] = @ + 1],
           pc[t] # "work", pc'[t] = "work",
           \A u \in Threads \ {t} : pc'[u] = pc[u],
           \A u \in Threads : IF pc[u] = "work" THEN phase[u] > phase[t]
                                                ELSE phase[u] >= phase[t]
    PROVE  Abstract!Pass(t)
  BY BarrierAssumption DEF Abstract!Pass, BenchTypes

\* Moves within the barrier are not visible.
LEMMA MovesInside ==
    ASSUME BenchTypes, phase' = phase,
           \A u \in Threads : pc'[u] = "work" <=> pc[u] = "work"
    PROVE  UNCHANGED Abstract!vars
  BY DEF Abstract!vars, BenchTypes

\* ManualBarrier: a thread that leaves belongs to the generation before, so that
\* everybody else has arrived as often as it has.
LEMMA ManualStepRefines ==
    ASSUME BenchTypes, ManualInv, NEW t \in Threads, ManualStep(t)
    PROVE  [Abstract!Next]_Abstract!vars
<1> USE BarrierAssumption
<1>1. CASE Arrive(t)
  <2>1. /\ pc[t] = "work" /\ pc'[t] # "work" /\ phase' = phase
        /\ \A u \in Threads \ {t} : pc'[u] = "work" <=> pc[u] = "work"
    BY <1>1 DEF Arrive, ArriveLast, ArriveEarly, BenchTypes
  <2> QED
    BY <2>1, GoesToBarrier DEF Abstract!Next
<1>2. CASE Leave(t)
  <2>1. /\ pc[t] = "leave" /\ pc'[t] = "work" /\ phase' = [phase EXCEPT ![t] = @ + 1]
        /\ \A u \in Threads \ {t} : pc'[u] = pc[u]
    BY <1>2 DEF Leave, BenchTypes
  <2>2. \A u \in Threads : IF pc[u] = "work" THEN phase[u] > phase[t]
                                             ELSE phase[u] >= phase[t]
    BY <2>1 DEF ManualInv, ManualPlace, BenchTypes
  <2>3. Abstract!Pass(t)
    BY <2>1, <2>2, EndsPhase
  <2> QED
    BY <2>3 DEF Abstract!Next
<1>3. CASE Check(t) \/ WakeSpuriously(t)
  <2>1. phase' = phase /\ \A u \in Threads : pc'[u] = "work" <=> pc[u] = "work"
    BY <1>3 DEF Check, WakeSpuriously, BenchTypes
  <2> QED
    BY <2>1, MovesInside
<1> QED
  BY <1>1, <1>2, <1>3 DEF ManualStep, ThreadStep

\* std::barrier: a thread that ends its phase was let through by a generation in
\* which everybody had arrived, in this phase or in the second half of it.
LEMMA StdStepRefines ==
    ASSUME BenchTypes, StdInv, NEW t \in Threads, StdStep(t)
    PROVE  [Abstract!Next]_Abstract!vars
<1> USE BarrierAssumption, BenchmarksAssumption
<1>1. StdPlace(t) /\ bench \in {"with_work", "completion"}
  BY DEF StdInv, StdStep, BenchTypes
<1>2. CASE FirstArrive(t)
  <2>1. /\ pc[t] = "work" /\ pc'[t] # "work" /\ phase' = phase
        /\ \A u \in Threads \ {t} : pc'[u] = "work" <=> pc[u] = "work"
    BY <1>2 DEF FirstArrive, Go, BenchTypes
  <2> QED
    BY <2>1, GoesToBarrier DEF Abstract!Next
<1>3. ASSUME t \in Waiting, Opened(t), EndPhase(t),
             pc' = [pc EXCEPT ![t] = "work"],
             bench = "with_work" /\ MorePhases(t) => pc[t] = "wait_again"
      PROVE  Abstract!Pass(t)
  <2>1. /\ pc[t] # "work" /\ pc'[t] = "work" /\ phase' = [phase EXCEPT ![t] = @ + 1]
        /\ \A u \in Threads \ {t} : pc'[u] = pc[u]
        /\ completions = Crossed(t) + 1 /\ phase[t] < NumPhases
    BY <1>1, <1>3 DEF Waiting, EndPhase, BenchTypes, Opened, StdPlace, Crossed
  <2>2. ASSUME NEW u \in Threads
        PROVE  IF pc[u] = "work" THEN phase[u] > phase[t] ELSE phase[u] >= phase[t]
    <3>1. StdPlace(u)
      BY DEF StdInv
    <3>2. CASE bench = "completion"
      BY <2>1, <3>1, <3>2 DEF StdPlace, Crossed, Waiting, BenchTypes
    <3>3. CASE bench = "with_work" /\ MorePhases(t)
      <4>1. Crossed(t) = 2 * phase[t] + 1
        BY <1>3, <2>1, <3>3 DEF Crossed, SecondHalf, BenchTypes
      <4> QED
        BY <2>1, <3>1, <3>3, <4>1 DEF StdPlace, Crossed, Waiting, BenchTypes, SecondHalf
    <3>4. CASE bench = "with_work" /\ ~MorePhases(t)
      <4>1. phase[t] = NumPhases - 1 /\ Crossed(t) = 2 * NumPhases - 2
        BY <1>1, <2>1, <3>4 DEF MorePhases, Crossed, BenchTypes, StdPlace
      <4> QED
        BY <2>1, <3>1, <3>4, <4>1 DEF StdPlace, Crossed, Waiting, BenchTypes, SecondHalf
    <3> QED
      BY <1>1, <3>2, <3>3, <3>4
  <2> QED
    BY <2>1, <2>2, EndsPhase
<1>4. CASE FirstPass(t)
  <2>1. t \in Waiting /\ Opened(t)
    BY <1>4 DEF FirstPass, Go, Waiting
  <2>2. CASE bench = "with_work" /\ MorePhases(t)
    <3>1. phase' = phase /\ \A u \in Threads : pc'[u] = "work" <=> pc[u] = "work"
      BY <1>4, <2>2 DEF FirstPass, Go, BenchTypes
    <3> QED
      BY <3>1, MovesInside
  <2>3. CASE ~(bench = "with_work" /\ MorePhases(t))
    <3>1. EndPhase(t) /\ pc' = [pc EXCEPT ![t] = "work"]
      BY <1>4, <2>3 DEF FirstPass, Go
    <3>2. Abstract!Pass(t)
      BY <1>3, <2>1, <2>3, <3>1
    <3> QED
      BY <3>2 DEF Abstract!Next
  <2> QED
    BY <2>2, <2>3
<1>5. CASE Publish(t) \/ SecondArrive(t)
  <2>1. phase' = phase /\ \A u \in Threads : pc'[u] = "work" <=> pc[u] = "work"
    BY <1>5 DEF Publish, SecondArrive, Go, BenchTypes
  <2> QED
    BY <2>1, MovesInside
<1>6. CASE SecondPass(t)
  <2>1. /\ t \in Waiting /\ Opened(t) /\ EndPhase(t)
        /\ pc' = [pc EXCEPT ![t] = "work"] /\ pc[t] = "wait_again"
    BY <1>6 DEF SecondPass, Go, Waiting
  <2>2. Abstract!Pass(t)
    BY <1>3, <2>1
  <2> QED
    BY <2>2 DEF Abstract!Next
<1> QED
  BY <1>2, <1>4, <1>5, <1>6 DEF StdStep

\* Every benchmark implements PhaseBarrier: nobody leaves a phase before everybody
\* has arrived in it, with ManualBarrier reused at once and woken spuriously, and
\* with one or two crossings of std::barrier in a phase.
THEOREM BarrierRefinement == BenchSpec => ImplementsBarrier
<1>1. BenchInit => Abstract!Init
  BY DEF BenchInit, Init, Abstract!Init
<1>2. BenchInv /\ [BenchNext]_benchVars => [Abstract!Next]_Abstract!vars
  <2> SUFFICES ASSUME BenchInv, [BenchNext]_benchVars
               PROVE  [Abstract!Next]_Abstract!vars
    OBVIOUS
  <2>1. ASSUME NEW t \in Threads, StdStep(t)
        PROVE  [Abstract!Next]_Abstract!vars
    BY <2>1, StdStepRefines DEF BenchInv, StdStep
  <2>2. ASSUME NEW t \in Threads, ManualStep(t)
        PROVE  [Abstract!Next]_Abstract!vars
    BY <2>2, ManualStepRefines DEF BenchInv, ManualStep
  <2>3. CASE UNCHANGED benchVars
    BY <2>3, MovesInside DEF BenchInv, benchVars, vars
  <2> QED
    BY <2>1, <2>2, <2>3 DEF BenchNext
<1> QED
  BY <1>1, <1>2, BarrierInvariance, PTL DEF BenchSpec, ImplementsBarrier, Abstract!Spec

-----------------------------------------------------------------------------
(* Not everybody waits at the barrier *)

\* A thread can go on: the guards of the actions of ManualBarrier, without
\* spurious wake-ups, and of BarrierBenchmarks.
ThreadMoves(t) == \/ pc[t] = "work" /\ phase[t] < NumPhases
                  \/ pc[t] \in {"check", "leave", "publish", "arrive_again"}
                  \/ pc[t] \in {"wait", "wait_again"} /\ Opened(t)

\* With ManualBarrier: a thread that is out has seen the last generation end, so
\* the others cannot wait for it, and not all threads wait for each other.
LEMMA ManualMoves ==
    ASSUME BenchInv, bench = "manual", ~AllOut
    PROVE  \E t \in Threads : ThreadMoves(t)
<1> SUFFICES ASSUME \A t \in Threads : ~ThreadMoves(t)
             PROVE  FALSE
  OBVIOUS
<1>1. ManualInv /\ BenchTypes
  BY DEF BenchInv
<1>2. \A t \in Threads : phase[t] \in 0..NumPhases /\ NumPhases \in Nat
  BY <1>1, BarrierAssumption DEF BenchTypes
<1>3. ASSUME NEW t \in Threads
      PROVE  \/ pc[t] = "work" /\ phase[t] = NumPhases /\ generation_ = NumPhases
             \/ /\ pc[t] = "asleep" /\ current_gen[t] = generation_
                /\ phase[t] = generation_ /\ phase[t] < NumPhases
  <2>1. ManualPlace(t) /\ ~ThreadMoves(t)
    BY <1>1 DEF ManualInv
  <2>2. ~(phase[t] < NumPhases) => phase[t] = NumPhases
    BY <1>2
  <2> QED
    BY <2>1, <2>2 DEF ManualPlace, ThreadMoves
<1>4. PICK s \in Threads : ~(pc[s] = "work" /\ phase[s] = NumPhases)
  BY DEF AllOut
<1>5. generation_ # NumPhases
  <2>1. phase[s] = generation_ /\ phase[s] < NumPhases
    BY <1>3, <1>4
  <2> QED
    BY <1>2, <2>1
<1>6. Inside = Threads
  BY <1>3, <1>5 DEF Inside
<1>7. Cardinality(Threads) \in Nat
  BY FS_CardinalityType, BarrierAssumption
<1> QED
  BY <1>1, <1>6, <1>7 DEF ManualInv, count_

\* With std::barrier: the same, and a thread that has left its last phase has no
\* crossing behind it that another has still to make.
LEMMA StdMoves ==
    ASSUME BenchInv, bench # "manual", ~AllOut
    PROVE  \E t \in Threads : ThreadMoves(t)
<1> SUFFICES ASSUME \A t \in Threads : ~ThreadMoves(t)
             PROVE  FALSE
  OBVIOUS
<1>1. StdInv /\ BenchTypes /\ completions \in Nat /\ bench \in {"with_work", "completion"}
  BY DEF BenchInv, BenchTypes
<1>2. \A t \in Threads : phase[t] \in 0..NumPhases /\ NumPhases \in Nat /\ ticket[t] \in Nat
  BY <1>1, BarrierAssumption DEF BenchTypes
<1>3. ASSUME NEW t \in Threads
      PROVE  \/ pc[t] = "work" /\ phase[t] = NumPhases /\ Crossed(t) = completions
             \/ /\ t \in Arrived /\ Crossed(t) = completions
                /\ phase[t] < NumPhases
                /\ pc[t] = "wait_again" => phase[t] + 1 < NumPhases
                /\ pc[t] \in {"wait", "wait_again"}
  <2>1. StdPlace(t) /\ ~ThreadMoves(t)
    BY <1>1 DEF StdInv
  <2>2. ~(phase[t] < NumPhases) => phase[t] = NumPhases
    BY <1>2
  <2>3. ASSUME t \in Waiting
        PROVE  ticket[t] = completions
    <3>1. /\ ticket[t] = Crossed(t)
          /\ Crossed(t) \in {completions, completions - 1}
          /\ ~(completions > ticket[t])
      BY <2>1, <2>3 DEF StdPlace, ThreadMoves, Opened, Waiting
    <3> QED
      BY <1>1, <1>2, <3>1
  <2>4. CASE t \in Waiting
    BY <2>1, <2>3, <2>4 DEF StdPlace, Arrived, Waiting, SecondHalf
  <2>5. CASE t \notin Waiting
    BY <2>1, <2>2, <2>5 DEF StdPlace, ThreadMoves, Waiting, SecondHalf
  <2> QED
    BY <2>4, <2>5
<1>4. PICK s \in Threads : ~(pc[s] = "work" /\ phase[s] = NumPhases)
  BY DEF AllOut
<1>5. /\ Crossed(s) = completions /\ phase[s] < NumPhases
      /\ pc[s] = "wait_again" => phase[s] + 1 < NumPhases
      /\ pc[s] \in {"wait", "wait_again"}
  BY <1>3, <1>4
<1>6. ASSUME NEW t \in Threads, phase[t] = NumPhases, Crossed(t) = completions
      PROVE  FALSE
  <2>1. CASE bench = "completion"
    BY <1>2, <1>5, <1>6, <2>1 DEF Crossed
  <2>2. CASE bench = "with_work"
    <3>1. completions = 2 * NumPhases - 1
      BY <1>6, <2>2 DEF Crossed
    <3>2. completions = 2 * phase[s] + (IF pc[s] = "wait_again" THEN 1 ELSE 0)
      BY <1>2, <1>5, <2>2 DEF Crossed, SecondHalf
    <3> QED
      BY <1>2, <1>5, <3>1, <3>2
  <2> QED
    BY <1>1, <2>1, <2>2
<1>7. Arrived = Threads
  BY <1>3, <1>6 DEF Arrived, Waiting
<1>8. Cardinality(Threads) \in Nat
  BY FS_CardinalityType, BarrierAssumption
<1> QED
  BY <1>1, <1>7, <1>8 DEF StdInv, count_

\* Until every thread is out some thread can go on, without a spurious wake-up:
\* nobody has missed the notification of its generation, tests it against the
\* wrong one, or waits for a thread that does not come to the barrier any more.
THEOREM BarrierNeverStuck == BenchSpec => [](~AllOut => \E t \in Threads : ThreadMoves(t))
<1>1. BenchInv => (~AllOut => \E t \in Threads : ThreadMoves(t))
  BY ManualMoves, StdMoves
<1> QED
  BY <1>1, BarrierInvariance, PTL
=============================================================================
