---------------------------- MODULE AsyncFutures ----------------------------
(***************************************************************************)
(* One iteration of the benchmarks of src/bench_async_future.cpp.  Main    *)
(* obtains one future per task, the tasks run where the pattern says, and  *)
(* main collects the futures in their order:                               *)
(*                                                                         *)
(*   "async"     std::async, a thread per task (also the StdAsync_*        *)
(*               baselines of src/bench_thread_pool.cpp)                   *)
(*   "deferred"  std::async, run by main in get()                          *)
(*   "promise"   worker threads share task_index and set promises          *)
(*   "risky"     "async", and some tasks end with an exception             *)
(*   "timeout"   "async", and main waits for each with a time limit        *)
(*   "chain"     "async", and a task gets the future of the one before     *)
(*                                                                         *)
(* A task's result is its number, a chain's the number of its steps.  A    *)
(* task runs in one step: others see only its future become ready.         *)
(***************************************************************************)
EXTENDS Integers, FiniteSets, FiniteSetsExt

CONSTANTS NumTasks,
          Patterns,    \* the patterns in the model
          Workers,     \* hardware_concurrency() of them, for "promise"
          Throwing,    \* tasks for which line 50 can be true
          ChainLength

AllPatterns == {"async", "deferred", "promise", "risky", "timeout", "chain"}

ASSUME AsyncAssumption ==
    /\ ChainLength \in Nat \ {0}
    /\ NumTasks \in Nat /\ NumTasks % ChainLength = 0
    /\ Patterns \subseteq AllPatterns
    /\ IsFiniteSet(Workers) /\ Workers # {}
    /\ Throwing \subseteq 1..NumTasks

Tasks == 1..NumTasks

VARIABLES
    pattern,
    shared,     \* the shared state of each task's future
    value,      \* the value in it
    task_index, \* line 150, counted from 0
    wpc, job,   \* where each worker is, and the task it has claimed
    main,       \* where the main thread is
    launched,   \* tasks launched
    collected,  \* tasks up to this one are collected
    tally       \* what main has added up

vars == <<pattern, shared, value, task_index, wpc, job, main, launched, collected, tally>>
workers == <<task_index, wpc, job>>
mains == <<main, launched, collected, tally>>

Init == /\ pattern \in Patterns
        /\ shared = [i \in Tasks |-> IF pattern = "promise" THEN "running" ELSE "none"]
        /\ value = [i \in Tasks |-> 0]
        /\ task_index = 0
        /\ wpc = [w \in Workers |-> IF pattern = "promise" THEN "claim" ELSE "out"]
        /\ job = [w \in Workers |-> 0]
        /\ main = IF pattern = "promise" THEN "join" ELSE "launch"
        /\ launched = 0
        /\ collected = 0
        /\ tally = [total |-> 0, exceptions |-> 0, completed |-> 0, timeouts |-> 0]

-----------------------------------------------------------------------------
(* Launching and running tasks *)

\* Lines 67-74 and their like.
Launch == /\ main = "launch" /\ launched < NumTasks
          /\ launched' = launched + 1
          /\ shared' = [shared EXCEPT ![launched + 1] =
                          IF pattern = "deferred" THEN "deferred" ELSE "running"]
          /\ UNCHANGED <<pattern, value, workers, main, collected, tally>>

Launched == /\ main = "launch" /\ launched = NumTasks
            /\ main' = "collect"
            /\ UNCHANGED <<pattern, shared, value, workers, launched, collected, tally>>

First(i) == (i - 1) % ChainLength = 0

Result(i) == CASE pattern = "chain"   -> IF First(i) THEN 1 ELSE value[i - 1] + 1
               [] pattern = "timeout" -> 0
               [] OTHER               -> i

\* Lines 49-54: an exception only for the values that line 50 lets through.
Outcomes(i) == {"value"} \cup IF pattern = "risky" /\ i \in Throwing THEN {"exception"} ELSE {}

Finish(i, outcome) == /\ shared' = [shared EXCEPT ![i] = outcome]
                      /\ value' = [value EXCEPT ![i] = IF outcome = "value" THEN Result(i) ELSE 0]

\* Seeded fault: a chained task does not get the future of the one before.
Run_Unchained(i) == /\ pattern # "promise" /\ shared[i] = "running"
                    /\ \E outcome \in Outcomes(i) : Finish(i, outcome)
                    /\ UNCHANGED <<pattern, workers, mains>>

\* A thread of std::async runs its task; a chained one waits in line 308.
Run(i) == /\ pattern # "promise" /\ shared[i] = "running"
          /\ IF pattern = "chain" /\ ~First(i) THEN shared[i - 1] = "value" ELSE TRUE
          /\ \E outcome \in Outcomes(i) : Finish(i, outcome)
          /\ UNCHANGED <<pattern, workers, mains>>

-----------------------------------------------------------------------------
(* Workers that set promises: lines 148-166 *)

\* Seeded fault: the index is advanced only after the work.
Claim_NotYet(w) == /\ wpc[w] = "claim"
                   /\ IF task_index >= NumTasks
                      THEN wpc' = [wpc EXCEPT ![w] = "out"] /\ UNCHANGED job
                      ELSE /\ wpc' = [wpc EXCEPT ![w] = "work"]
                           /\ job' = [job EXCEPT ![w] = task_index + 1]
                   /\ UNCHANGED <<pattern, shared, value, task_index, mains>>

\* Lines 155-156.
Claim(w) == /\ wpc[w] = "claim"
            /\ task_index' = task_index + 1
            /\ IF task_index >= NumTasks
               THEN wpc' = [wpc EXCEPT ![w] = "out"] /\ UNCHANGED job
               ELSE /\ wpc' = [wpc EXCEPT ![w] = "work"]
                    /\ job' = [job EXCEPT ![w] = task_index + 1]
            /\ UNCHANGED <<pattern, shared, value, mains>>

\* Seeded fault: the worker leaves after one task.
SetPromise_Once(w) == /\ wpc[w] = "work"
                      /\ Finish(job[w], "value")
                      /\ wpc' = [wpc EXCEPT ![w] = "out"]
                      /\ UNCHANGED <<pattern, task_index, job, mains>>

\* Lines 158-163.
SetPromise(w) == /\ wpc[w] = "work"
                 /\ Finish(job[w], "value")
                 /\ wpc' = [wpc EXCEPT ![w] = "claim"]
                 /\ UNCHANGED <<pattern, task_index, job, mains>>

\* Lines 169-171.
Join == /\ main = "join"
        /\ \A w \in Workers : wpc[w] = "out"
        /\ main' = "collect"
        /\ UNCHANGED <<pattern, shared, value, workers, launched, collected, tally>>

-----------------------------------------------------------------------------
(* Collecting: main keeps the last future of each chain (line 313) *)

Stride == IF pattern = "chain" THEN ChainLength ELSE 1

\* The task whose future is next.
Turn == collected + Stride

Collecting == main = "collect" /\ collected < NumTasks

Add(counter, n) == tally' = [tally EXCEPT ![counter] = @ + n]

\* Lines 76-80: get() returns a value.
Get == /\ Collecting /\ pattern # "timeout"
       /\ shared[Turn] = "value"
       /\ Add("total", value[Turn])
       /\ collected' = Turn
       /\ UNCHANGED <<pattern, shared, value, workers, main, launched>>

\* Lines 113-117: get() runs a deferred task.
GetDeferred == /\ Collecting
               /\ shared[Turn] = "deferred"
               /\ Finish(Turn, "value")
               /\ Add("total", Result(Turn))
               /\ collected' = Turn
               /\ UNCHANGED <<pattern, workers, main, launched>>

\* Lines 218-224: get() throws what the task threw.
GetThrows == /\ Collecting
             /\ shared[Turn] = "exception"
             /\ Add("exceptions", 1)
             /\ collected' = Turn
             /\ UNCHANGED <<pattern, shared, value, workers, main, launched>>

\* Lines 264-267: the future is ready in time.
WaitInTime == /\ Collecting /\ pattern = "timeout"
              /\ shared[Turn] = "value"
              /\ Add("completed", 1)
              /\ collected' = Turn
              /\ UNCHANGED <<pattern, shared, value, workers, main, launched>>

\* Seeded fault: main does not wait for a task that is late.
WaitTimesOut_NoGet == /\ Collecting /\ pattern = "timeout"
                      /\ shared[Turn] = "running"
                      /\ Add("timeouts", 1)
                      /\ collected' = Turn
                      /\ UNCHANGED <<pattern, shared, value, workers, main, launched>>

\* Lines 264 and 268-269: the time is over.
WaitTimesOut == /\ Collecting /\ pattern = "timeout"
                /\ shared[Turn] = "running"
                /\ Add("timeouts", 1)
                /\ main' = "get"
                /\ UNCHANGED <<pattern, shared, value, workers, launched, collected>>

\* Line 271: main waits all the same.
GetLate == /\ main = "get"
           /\ shared[Turn] = "value"
           /\ collected' = Turn
           /\ main' = "collect"
           /\ UNCHANGED <<pattern, shared, value, workers, launched, tally>>

\* Lines 82-87 and their like.
Report == /\ main = "collect" /\ collected = NumTasks
          /\ main' = "over"
          /\ UNCHANGED <<pattern, shared, value, workers, launched, collected, tally>>

-----------------------------------------------------------------------------
WorkerStep(w) == Claim(w) \/ SetPromise(w)

MainStep == \/ Launch \/ Launched \/ Join
            \/ Get \/ GetDeferred \/ GetThrows
            \/ WaitInTime \/ WaitTimesOut \/ GetLate
            \/ Report

Over == main = "over" /\ UNCHANGED vars

Next == \/ \E i \in Tasks : Run(i)
        \/ \E w \in Workers : WorkerStep(w)
        \/ MainStep
        \/ Over

\* Every thread is scheduled.
Spec == /\ Init /\ [][Next]_vars
        /\ \A i \in Tasks : WF_vars(Run(i))
        /\ \A w \in Workers : WF_vars(WorkerStep(w))
        /\ WF_vars(MainStep)

-----------------------------------------------------------------------------
(* Properties *)

\* The variables stay in their types; task_index ends up past the tasks by one
\* for each worker (line 155).
TypeOK == /\ pattern \in Patterns
          /\ shared \in [Tasks -> {"none", "deferred", "running", "value", "exception"}]
          /\ value \in [Tasks -> 0..NumTasks]
          /\ task_index \in 0..(NumTasks + Cardinality(Workers))
          /\ wpc \in [Workers -> {"claim", "work", "out"}]
          /\ job \in [Workers -> 0..NumTasks]
          /\ main \in {"launch", "join", "collect", "get", "over"}
          /\ launched \in 0..NumTasks /\ collected \in 0..NumTasks
          /\ tally \in [{"total", "exceptions", "completed", "timeouts"} -> Nat]

\* A promise is set once: a worker about to set one (line 160) finds it unset
\* and no other worker has claimed it.  A second set_value would throw, and so
\* would the set_exception of line 162, which ends the program.
PromisesSetOnce ==
    \A w \in Workers : wpc[w] = "work" =>
        /\ shared[job[w]] = "running"
        /\ \A v \in Workers \ {w} : wpc[v] = "work" => job[v] # job[w]

\* What the iteration reports is what its tasks did: the sum of the values, the
\* number of exceptions, and every task in time or late; the order in which main
\* collects does not depend on the one in which tasks end.
TallyComplete ==
    main = "over" =>
      LET threw == {i \in Tasks : shared[i] = "exception"}
      IN /\ tally.total = CASE pattern = "chain" -> NumTasks
                            [] pattern = "timeout" -> 0
                            [] OTHER -> SumSet(Tasks \ threw)
         /\ tally.exceptions = Cardinality(threw)
         /\ tally.completed + tally.timeouts = IF pattern = "timeout" THEN NumTasks ELSE 0

\* No task or worker of an iteration outlives it, the late ones included
\* ("Still need to wait for cleanup", line 271).
NothingOutlives == main = "over" => /\ \A i \in Tasks : shared[i] \in {"value", "exception"}
                                    /\ \A w \in Workers : wpc[w] = "out"

\* Every iteration ends: no get() waits for ever.
BenchmarkEnds == <>(main = "over")
=============================================================================
