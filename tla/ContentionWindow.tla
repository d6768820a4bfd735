-------------------------- MODULE ContentionWindow --------------------------
(***************************************************************************)
(* One call of bench_harness::run_contention_window (bench_harness.hpp)    *)
(* with the critical sections that the counter benchmarks give it:         *)
(*   "lock"    a lock around counter.value++ (spinlock::lock of            *)
(*             spinlock.hpp in bench_counter_spin.cpp, std::mutex in       *)
(*             bench_counter_mutex.cpp);                                   *)
(*   "try"     try_lock, with failures not counted (Counter_Spin_Fairness);*)
(*   "atomic"  counter.fetch_add (bench_counter_atomic.cpp).               *)
(* The increment of the plain counter is a read and a write, so that it is *)
(* only whole if the lock excludes.                                        *)
(***************************************************************************)
EXTENDS Integers, FiniteSets, Functions, Places

CONSTANTS NumThreads,  \* num_threads
          Machines,    \* [cores |-> what hardware_concurrency() returns, 0 if
                       \*  unknown, pins |-> whether threads can be pinned]
          Callables,   \* which of the three critical sections are examined
          MaxOps       \* operations a worker counts (bounds the model)

ASSUME WindowAssumption ==
    /\ NumThreads \in Nat
    /\ Machines \subseteq [cores : Nat, pins : BOOLEAN]
    /\ Callables \subseteq {"lock", "try", "atomic"}
    /\ MaxOps \in Nat

\* Line 64: the workers are known by thread_id.
Workers == 0..(NumThreads - 1)

VARIABLES callable,  \* the critical section of this window
          machine,   \* the machine this runs on
          core,      \* the core that each worker is pinned to, or Anywhere
          start, stop,
          flag,      \* the atomic_flag of the spinlock, or the mutex's owner bit
          counter,   \* the counter that the critical section increments
          counts,    \* counts[thread_id]
          pc,        \* where each worker is
          seen,      \* the value of the counter that a worker has read
          main,      \* where the calling thread is
          ops        \* result.ops

vars == <<callable, machine, core, start, stop, flag, counter, counts, pc, seen, main, ops>>
setting == <<callable, machine, core>>
data == <<setting, main, ops>>

Anywhere == -1

Zero == [t \in Workers |-> 0]

Init == /\ callable \in Callables
        /\ machine \in Machines
        /\ core = [t \in Workers |-> Anywhere]
        /\ start = FALSE /\ stop = FALSE
        /\ flag = FALSE
        /\ counter = 0
        /\ counts = Zero
        /\ pc = [t \in Workers |-> "spawned"]
        /\ seen = Zero
        /\ main = "spawned"
        /\ ops = 0

Go(t, place) == pc' = [pc EXCEPT ![t] = place]

-----------------------------------------------------------------------------
(* Pinning: maybe_pin (lines 26-37) and src/common/affinity.cpp *)

\* An unknown number of cores counts as one.
get_num_logical_cores == IF machine.cores = 0 THEN 1 ELSE machine.cores

get_available_cores == 0..(get_num_logical_cores - 1)

\* Seeded fault: the first worker goes to the first core.
CoreOf_First(t) == t % get_num_logical_cores

\* Lines 34-35: available cores are numbered from 0, so an index is its core.
CoreOf(t) == (t + 1) % get_num_logical_cores

-----------------------------------------------------------------------------
(* A worker: lines 64-81 *)

\* Line 65.  Nobody looks at the result of pin_thread_to_core (line 36): a thread
\* that could not be pinned goes on, wherever the scheduler puts it.
Pin(t) == /\ pc[t] = "spawned"
          /\ core' = [core EXCEPT ![t] = IF machine.pins THEN CoreOf(t) ELSE Anywhere]
          /\ Go(t, "wait")
          /\ UNCHANGED <<callable, machine, start, stop, flag, counter, counts, seen, main, ops>>

\* Lines 66-68.
WaitStart(t) == /\ pc[t] = "wait" /\ start
                /\ Go(t, "test")
                /\ UNCHANGED <<start, stop, flag, counter, counts, seen, data>>

\* Line 69, then the call of critical_section.
TestStop(t) == /\ pc[t] = "test"
               /\ IF stop THEN Go(t, "out")
                  ELSE counts[t] < MaxOps /\ Go(t, "enter")
               /\ UNCHANGED <<start, stop, flag, counter, counts, seen, data>>

\* Seeded fault: the flag is tested, and set as another step.
Lock_TestThenSet(t) ==
    /\ pc[t] \in {"enter", "set"} /\ callable = "lock"
    /\ IF pc[t] = "enter" THEN ~flag /\ Go(t, "set") /\ UNCHANGED flag
                          ELSE flag' = TRUE /\ Go(t, "read")
    /\ UNCHANGED <<start, stop, counter, counts, seen, data>>

\* spinlock::lock, lines 19-31: test_and_set until it finds the flag clear.
Lock(t) == /\ pc[t] = "enter" /\ callable = "lock"
           /\ ~flag
           /\ flag' = TRUE
           /\ Go(t, "read")
           /\ UNCHANGED <<start, stop, counter, counts, seen, data>>

\* Seeded fault: a try_lock that fails is counted as an operation.
TryLock_CountsFailure(t) ==
    /\ pc[t] = "enter" /\ callable = "try"
    /\ flag' = TRUE
    /\ Go(t, IF flag THEN "count" ELSE "read")
    /\ UNCHANGED <<start, stop, counter, counts, seen, data>>

\* spinlock::try_lock, lines 37-39: one test_and_set; the callable returns
\* false if the flag was set already, and line 75 does not count it.
TryLock(t) == /\ pc[t] = "enter" /\ callable = "try"
              /\ flag' = TRUE
              /\ Go(t, IF flag THEN "test" ELSE "read")
              /\ UNCHANGED <<start, stop, counter, counts, seen, data>>

\* counter.value++ of the plain counter: the read.
Read(t) == /\ pc[t] = "read"
           /\ seen' = [seen EXCEPT ![t] = counter]
           /\ Go(t, "write")
           /\ UNCHANGED <<start, stop, flag, counter, counts, data>>

\* counter.value++ of the plain counter: the write.
Write(t) == /\ pc[t] = "write"
            /\ counter' = seen[t] + 1
            /\ Go(t, "unlock")
            /\ UNCHANGED <<start, stop, flag, counts, seen, data>>

\* spinlock::unlock, lines 33-35.
Unlock(t) == /\ pc[t] = "unlock"
             /\ flag' = FALSE
             /\ Go(t, "count")
             /\ UNCHANGED <<start, stop, counter, counts, seen, data>>

\* counter.fetch_add, bench_counter_atomic.cpp line 30.
FetchAdd(t) == /\ pc[t] = "enter" /\ callable = "atomic"
               /\ counter' = counter + 1
               /\ Go(t, "count")
               /\ UNCHANGED <<start, stop, flag, counts, seen, data>>

\* Lines 72-73 and 76-77.
Count(t) == /\ pc[t] = "count"
            /\ counts' = [counts EXCEPT ![t] = @ + 1]
            /\ Go(t, "test")
            /\ UNCHANGED <<start, stop, flag, counter, seen, data>>

-----------------------------------------------------------------------------
(* The caller: lines 84-100 *)

MainStart == /\ main = "spawned"
             /\ start' = TRUE
             /\ main' = "sleeping"
             /\ UNCHANGED <<setting, stop, flag, counter, counts, pc, seen, ops>>

\* Seeded fault: the window ends without telling the workers.
MainStop_Silent == /\ main = "sleeping"
                   /\ main' = "joining"
                   /\ UNCHANGED <<setting, start, stop, flag, counter, counts, pc, seen, ops>>

\* Lines 85-86: sleep_for returns at any time.
MainStop == /\ main = "sleeping"
            /\ stop' = TRUE
            /\ main' = "joining"
            /\ UNCHANGED <<setting, start, flag, counter, counts, pc, seen, ops>>

\* Lines 88-98: every worker is joined, then the counts are added up.
MainResult == /\ main = "joining"
              /\ \A t \in Workers : pc[t] = "out"
              /\ ops' = SumFunction(counts)
              /\ main' = "returned"
              /\ UNCHANGED <<setting, start, stop, flag, counter, counts, pc, seen>>

-----------------------------------------------------------------------------
WorkerStep(t) == \/ Pin(t)
                 \/ WaitStart(t) \/ TestStop(t)
                 \/ Lock(t) \/ TryLock(t)
                 \/ Read(t) \/ Write(t) \/ Unlock(t)
                 \/ FetchAdd(t)
                 \/ Count(t)

MainStep == MainStart \/ MainStop \/ MainResult

Returned == main = "returned" /\ UNCHANGED vars

Next == (\E t \in Workers : WorkerStep(t)) \/ MainStep \/ Returned

\* Every thread is scheduled; which waiting thread gets the lock is up to chance.
Spec == /\ Init /\ [][Next]_vars
        /\ \A t \in Workers : WF_vars(WorkerStep(t))
        /\ WF_vars(MainStep)

-----------------------------------------------------------------------------
(* Properties *)

\* The variables stay in their types.
TypeOK == /\ callable \in {"lock", "try", "atomic"}
          /\ machine \in Machines
          /\ core \in [Workers -> get_available_cores \cup {Anywhere}]
          /\ start \in BOOLEAN /\ stop \in BOOLEAN /\ flag \in BOOLEAN
          /\ counter \in Nat /\ ops \in Nat
          /\ counts \in [Workers -> 0..MaxOps]
          /\ seen \in [Workers -> Nat]
          /\ pc \in [Workers -> {"spawned", "wait", "test", "enter", "read", "write", "unlock",
                                 "count", "out"}]
          /\ main \in {"spawned", "sleeping", "joining", "returned"}

\* The lock excludes, whether it was taken by lock() or by try_lock(), and its
\* flag is set exactly while somebody is inside.
Holders == {t \in Workers : pc[t] \in {"read", "write", "unlock"}}
LockExcludes == /\ Cardinality(Holders) <= 1
                /\ flag <=> Holders # {}

\* "window ops should match the shared counter" (bench_counter_mutex.cpp:38):
\* the operations the window reports are the increments that were made, those
\* that were under way when stop was set included and failed try_locks not.
OpsMatchCounter == main = "returned" => ops = counter

\* "Leave core 0 freer for the main / OS threads when possible" (line 34): workers
\* that are all pinned are spread evenly over the cores, and no core has fewer of
\* them than core 0, which gets one only if every other core has one.
PinnedEvenly ==
    LET Load(c) == Cardinality({t \in Workers : core[t] = c})
    IN At(pc, "spawned") = {} /\ machine.pins =>
         \A c \in get_available_cores : Load(0) <= Load(c) /\ Load(c) <= Load(0) + 1

\* The window ends: once sleep_for has returned, every worker leaves its loop,
\* also one that is spinning on the lock, and the joins return.
WindowEnds == main = "joining" ~> main = "returned"
=============================================================================
