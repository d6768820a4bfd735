----------------------------- MODULE Coroutines -----------------------------
(***************************************************************************)
(* One iteration of a coroutine benchmark (src/bench_coroutines.cpp): the  *)
(* main thread launches tasks that suspend once, in TimerService::schedule,*)
(* waits for their flags, then destroys the coroutine frames and the timer *)
(* service; the service's worker resumes each task when its delay is over. *)
(*                                                                         *)
(* Atomicity.  A critical section of mu_ is one step.  The worker's steps  *)
(* outside it are those after which it touches the frame of the task: the  *)
(* resumption, the store to done_flag (line 106), and the read of          *)
(* `continuation' from the final awaiter, which lives in the frame (108).  *)
(* Time is the number of ticks since the start; it advances only while an  *)
(* entry of the heap waits for it, as nothing else depends on it.          *)
(***************************************************************************)
EXTENDS Integers, Sequences, FiniteSets

CONSTANTS NumTasks,
          Delays     \* delays, in ticks: 0 for YieldAwaiter, else for IoAwaiter

ASSUME CoroutineAssumption == NumTasks \in Nat /\ Delays \subseteq Nat

Tasks == 1..NumTasks
\* An entry of the heap, and the worker's local variable when it has none.
Entries == [when : Nat, task : Tasks]
NoEntry == [when |-> 0, task |-> 0]

VARIABLES
    delay,       \* the delay of this benchmark's tasks
    now,         \* steady_clock
    heap_,       \* entries, guarded by mu_
    stop_,
    worker,      \* where the worker of TimerService is
    entry,       \* the entry that the worker has popped
    until,       \* the deadline of the worker's wait_until
    frame,       \* state of each task's coroutine frame
    done_flag,   \* done[i] of line 235, which the coroutine has as its done_flag
    main_thread, \* where the main thread is
    launched,    \* tasks launched so far
    when         \* the deadline that main has computed (line 43)

timer_vars == <<delay, now, heap_, stop_, worker, entry, until, frame, done_flag,
                main_thread, launched, when>>
workers == <<worker, entry, until>>
mains == <<main_thread, launched, when>>

TimerInit == /\ delay \in Delays
             /\ now = 0
             /\ heap_ = {}
             /\ stop_ = FALSE
             /\ worker = "loop"
             /\ entry = NoEntry
             /\ until = 0
             /\ frame = [i \in Tasks |-> "none"]
             /\ done_flag = [i \in Tasks |-> FALSE]
             /\ main_thread = "launch"
             /\ launched = 0
             /\ when = 0

-----------------------------------------------------------------------------
(* The main thread: lines 239-246 and the destructors that follow *)

\* Lines 241-244: the frame is created and runs to its co_await, where
\* schedule computes the deadline (line 43) before it takes the mutex.
Launch == /\ main_thread = "launch" /\ launched < NumTasks
          /\ launched' = launched + 1
          /\ frame' = [frame EXCEPT ![launched + 1] = "suspended"]
          /\ when' = now + delay
          /\ main_thread' = "schedule"
          /\ UNCHANGED <<delay, now, heap_, stop_, workers, done_flag>>

\* Lines 44-47.
Schedule == /\ main_thread = "schedule"
            /\ heap_' = heap_ \cup {[when |-> when, task |-> launched]}
            /\ main_thread' = "notify"
            /\ UNCHANGED <<delay, now, stop_, workers, frame, done_flag, launched, when>>

\* The worker is woken, whichever wait it is in.
Wake == worker' = IF worker \in {"wait", "wait_until"} THEN "loop" ELSE worker

\* Seeded fault: schedule does not notify.
Notify_Nobody == /\ main_thread = "notify"
                 /\ main_thread' = "launch"
                 /\ UNCHANGED <<delay, now, heap_, stop_, workers,
                                frame, done_flag, launched, when>>

\* Line 48.
Notify == /\ main_thread = "notify"
          /\ Wake
          /\ main_thread' = "launch"
          /\ UNCHANGED <<delay, now, heap_, stop_, entry, until,
                         frame, done_flag, launched, when>>

\* Seeded fault: main waits for the task it launched last.
WaitAll_Last == /\ main_thread = "launch" /\ launched = NumTasks
                /\ NumTasks > 0 => done_flag[NumTasks]
                /\ main_thread' = "destroy_tasks"
                /\ UNCHANGED <<delay, now, heap_, stop_, workers,
                               frame, done_flag, launched, when>>

\* Lines 213-227: flags are only ever set, so the scan that returns answers as
\* one read of them all.
WaitAll == /\ main_thread = "launch" /\ launched = NumTasks
           /\ \A i \in Tasks : done_flag[i]
           /\ main_thread' = "destroy_tasks"
           /\ UNCHANGED <<delay, now, heap_, stop_, workers, frame, done_flag, launched, when>>

\* Line 255: tasks go out of scope and ~Task (123-127) destroys every frame.
DestroyTasks == /\ main_thread = "destroy_tasks"
                /\ frame' = [i \in Tasks |-> "destroyed"]
                /\ main_thread' = "stop"
                /\ UNCHANGED <<delay, now, heap_, stop_, workers, done_flag, launched, when>>

\* Lines 29-32.
Stop == /\ main_thread = "stop"
        /\ stop_' = TRUE
        /\ main_thread' = "notify_all"
        /\ UNCHANGED <<delay, now, heap_, workers, frame, done_flag, launched, when>>

\* Line 33.
NotifyStop == /\ main_thread = "notify_all"
              /\ Wake
              /\ main_thread' = "join"
              /\ UNCHANGED <<delay, now, heap_, stop_, entry, until,
                             frame, done_flag, launched, when>>

\* Lines 34-36.
Join == /\ main_thread = "join"
        /\ worker = "returned"
        /\ main_thread' = "over"
        /\ UNCHANGED <<delay, now, heap_, stop_, workers, frame, done_flag, launched, when>>

-----------------------------------------------------------------------------
(* The worker of TimerService: lines 58-78 *)

\* Seeded fault: the heap has no std::greater, and its top is the last deadline.
First_Last == {e \in heap_ : \A f \in heap_ : f.when <= e.when}

\* Line 82.
First == {e \in heap_ : \A f \in heap_ : e.when <= f.when}

\* Lines 61-67: with an empty heap the worker returns or waits; the predicate
\* is false, as it has just been tested with the mutex held.
Idle == /\ worker = "loop"
        /\ heap_ = {}
        /\ worker' = IF stop_ THEN "returned" ELSE "wait"
        /\ UNCHANGED <<delay, now, heap_, stop_, entry, until, frame, done_flag, mains>>

\* Lines 68-72.
Doze == /\ worker = "loop"
        /\ \E e \in First : e.when > now /\ until' = e.when
        /\ worker' = "wait_until"
        /\ UNCHANGED <<delay, now, heap_, stop_, entry, frame, done_flag, mains>>

\* Seeded fault: after the wait the worker goes on to line 73.
Alarm_NoRetest == /\ worker = "wait_until"
                  /\ \E e \in First : /\ heap_' = heap_ \ {e}
                                      /\ entry' = e
                  /\ worker' = "resume"
                  /\ UNCHANGED <<delay, now, stop_, until, frame, done_flag, mains>>

\* Line 70: wait_until returns at its deadline.
Alarm == /\ worker = "wait_until"
         /\ now >= until
         /\ worker' = "loop"
         /\ UNCHANGED <<delay, now, heap_, stop_, entry, until, frame, done_flag, mains>>

\* Lines 65 and 70: a wait returns for no reason.
WakeEarly == /\ worker \in {"wait", "wait_until"}
             /\ worker' = "loop"
             /\ UNCHANGED <<delay, now, heap_, stop_, entry, until, frame, done_flag, mains>>

\* Lines 68-74: an entry that is due is popped and the mutex is released.
Pop == /\ worker = "loop"
       /\ \E e \in First : /\ e.when <= now
                           /\ heap_' = heap_ \ {e}
                           /\ entry' = e
       /\ worker' = "resume"
       /\ UNCHANGED <<delay, now, stop_, until, frame, done_flag, mains>>

\* Line 75: the rest of the coroutine's body runs, up to final_suspend.
Resume == /\ worker = "resume"
          /\ frame' = [frame EXCEPT ![entry.task] = "final"]
          /\ worker' = "set_flag"
          /\ UNCHANGED <<delay, now, heap_, stop_, entry, until, done_flag, mains>>

\* Lines 105-107.
SetFlag == /\ worker = "set_flag"
           /\ done_flag' = [done_flag EXCEPT ![entry.task] = TRUE]
           /\ worker' = "continue"
           /\ UNCHANGED <<delay, now, heap_, stop_, entry, until, frame, mains>>

\* Line 108: `continuation' is read from the frame; it is the no-op coroutine,
\* so resume() returns and the mutex is taken again (line 76).
Continue == /\ worker = "continue"
            /\ entry' = NoEntry
            /\ worker' = "loop"
            /\ UNCHANGED <<delay, now, heap_, stop_, until, frame, done_flag, mains>>

\* Time passes while an entry, or the one main is about to add, waits for it.
Tick == /\ (\E e \in heap_ : e.when > now) \/ (main_thread = "schedule" /\ when > now)
        /\ now' = now + 1
        /\ UNCHANGED <<delay, heap_, stop_, workers, frame, done_flag, mains>>

-----------------------------------------------------------------------------
MainThreadStep == \/ Launch \/ Schedule \/ Notify
                  \/ WaitAll \/ DestroyTasks
                  \/ Stop \/ NotifyStop \/ Join

WorkerStep == Idle \/ Doze \/ Alarm \/ Pop \/ Resume \/ SetFlag \/ Continue

SessionOver == main_thread = "over" /\ UNCHANGED timer_vars

TimerNext == MainThreadStep \/ WorkerStep \/ WakeEarly \/ Tick \/ SessionOver

\* Both threads are scheduled and time goes on; no spurious wake-up is owed.
TimerSpec == /\ TimerInit /\ [][TimerNext]_timer_vars
             /\ WF_timer_vars(MainThreadStep)
             /\ WF_timer_vars(WorkerStep)
             /\ WF_timer_vars(Tick)

-----------------------------------------------------------------------------
(* Properties *)

\* The variables stay in their types.
TimerTypeOK == /\ delay \in Delays /\ now \in Nat /\ until \in Nat /\ when \in Nat
               /\ heap_ \subseteq Entries
               /\ stop_ \in BOOLEAN
               /\ worker \in {"loop", "wait", "wait_until", "resume", "set_flag", "continue",
                              "returned"}
               /\ entry \in Entries \cup {NoEntry}
               /\ frame \in [Tasks -> {"none", "suspended", "final", "destroyed"}]
               /\ done_flag \in [Tasks -> BOOLEAN]
               /\ main_thread \in {"launch", "schedule", "notify", "destroy_tasks", "stop",
                                   "notify_all", "join", "over"}
               /\ launched \in 0..NumTasks

\* A handle that is in the heap or that the worker is about to resume (line 75)
\* is one of a coroutine that is suspended at its co_await: wait_all lets main
\* destroy the frames only when no handle is left, and no task is resumed twice.
HandlesSuspended ==
    /\ \A e \in heap_ : frame[e.task] = "suspended"
    /\ worker = "resume" => frame[entry.task] = "suspended"
    /\ worker = "resume" => \A e \in heap_ : e.task # entry.task

\* A coroutine is never resumed before its delay is over, although schedule
\* notifies a worker that waits for another deadline and waits may return early.
NeverEarly == worker = "resume" => now >= entry.when

\* The worker sleeps although it has something to do: an entry whose deadline comes
\* before the one it sleeps for, if it sleeps for any, or stop_.
Oversleeps == \/ worker = "wait" /\ heap_ # {}
              \/ worker = "wait_until" /\ \E e \in heap_ : e.when < until
              \/ worker \in {"wait", "wait_until"} /\ stop_

\* No coroutine is forgotten: when the worker must not sleep on, main is about to
\* notify it (lines 48 and 33), which it does without mu_, after it has changed
\* what the worker's waits (lines 65 and 70) have looked at.
NeverOverslept == Oversleeps => main_thread \in {"notify", "notify_all"}

\* The iteration ends: every flag is set, and the destructor joins the worker.
SessionEnds == <>(main_thread = "over")

\* "... avoids detached-thread use-after-free on awaiter temporaries" (line 19):
\* the worker never touches a frame that main has destroyed.
FramesLive == worker \in {"resume", "set_flag", "continue"} => frame[entry.task] # "destroyed"
=============================================================================
