----------------------------- MODULE ThreadPool -----------------------------
(***************************************************************************)
(* class thread_pool of include/thread_pool.hpp: workers that sleep on     *)
(* condition_ until there is a task, clients that submit, a destructor.    *)
(* Main is the thread that owns the pool; a task that is running may also  *)
(* submit.                                                                 *)
(*                                                                         *)
(* Atomicity.  queue_mutex_ is held across steps at two places:            *)
(*  - "falling": a worker has found its predicate false (line 47) and is   *)
(*    not yet asleep in wait(), which releases the mutex;                  *)
(*  - "insert": a submitter has read stop_ (line 82) and has not yet put   *)
(*    the task into tasks_ (line 85).                                      *)
(* The destructor takes the mutex at neither line 62 nor line 63, so its   *)
(* steps can fall into both.  A worker may wake up spuriously.             *)
(***************************************************************************)
EXTENDS Integers, Sequences, FiniteSets, Places

CONSTANTS Workers,  \* threads of the pool, at least one (lines 37-39)
          Main,     \* the thread that owns the pool
          Tasks,    \* all the tasks that may be submitted (bounds the model)
          None      \* no task

ASSUME PoolAssumption ==
    /\ IsFiniteSet(Workers) /\ Workers # {}
    /\ Main \notin Workers
    /\ IsFiniteSet(Tasks)
    /\ None \notin Tasks

Threads == Workers \cup {Main}

VARIABLES tasks_,    \* the queue, guarded by queue_mutex_
          stop_,
          pc,        \* where each thread is
          running,   \* the task that each worker has taken
          offering,  \* the task that each thread is submitting
          accepted,  \* history: tasks whose submit did not throw
          rejected,  \* history: tasks whose submit threw
          ran        \* history: tasks that were run, as often as they were

vars == <<tasks_, stop_, pc, running, offering, accepted, rejected, ran>>

MutexFree == At(pc, "falling") = {} /\ At(pc, "insert") = {}

\* Where a thread can call submit: Main anywhere, a worker inside a task.
Home(t) == IF t = Main THEN "main" ELSE "run"

Init == /\ tasks_ = <<>>
        /\ stop_ = FALSE
        /\ pc = [t \in Threads |-> IF t = Main THEN "main" ELSE "check"]
        /\ running = [w \in Workers |-> None]
        /\ offering = [t \in Threads |-> None]
        /\ accepted = {}
        /\ rejected = {}
        /\ ran = <<>>

-----------------------------------------------------------------------------
(* A worker: lines 42-56 *)

Exit(w) == /\ stop_ /\ tasks_ = <<>>
           /\ pc' = [pc EXCEPT ![w] = "exited"]
           /\ UNCHANGED <<tasks_, running>>

Take(w) == /\ tasks_ # <<>>
           /\ running' = [running EXCEPT ![w] = Head(tasks_)]
           /\ tasks_' = Tail(tasks_)
           /\ pc' = [pc EXCEPT ![w] = "run"]

\* Seeded fault: a worker exits as soon as the pool is stopped.
WorkerCheck_ExitsEarly(w) ==
    /\ pc[w] = "check"
    /\ MutexFree
    /\ \/ /\ stop_
          /\ pc' = [pc EXCEPT ![w] = "exited"]
          /\ UNCHANGED <<tasks_, running>>
       \/ ~stop_ /\ Take(w)
       \/ /\ ~stop_ /\ tasks_ = <<>>
          /\ pc' = [pc EXCEPT ![w] = "falling"]
          /\ UNCHANGED <<tasks_, running>>
    /\ UNCHANGED <<stop_, offering, accepted, rejected, ran>>

\* Lines 45-54: with the mutex, the worker takes a task, exits, or finds the
\* predicate of wait() false and goes to sleep with the mutex still held.
WorkerCheck(w) ==
    /\ pc[w] = "check"
    /\ MutexFree
    /\ \/ Exit(w)
       \/ Take(w)
       \/ /\ ~stop_ /\ tasks_ = <<>>
          /\ pc' = [pc EXCEPT ![w] = "falling"]
          /\ UNCHANGED <<tasks_, running>>
    /\ UNCHANGED <<stop_, offering, accepted, rejected, ran>>

\* Line 46: wait() puts the worker to sleep and releases the mutex at once.
WorkerSleep(w) ==
    /\ pc[w] = "falling"
    /\ pc' = [pc EXCEPT ![w] = "asleep"]
    /\ UNCHANGED <<tasks_, stop_, running, offering, accepted, rejected, ran>>

\* Line 46: wait() may return without a notification and tests its predicate.
WorkerWakesSpuriously(w) ==
    /\ pc[w] = "asleep"
    /\ pc' = [pc EXCEPT ![w] = "check"]
    /\ UNCHANGED <<tasks_, stop_, running, offering, accepted, rejected, ran>>

\* Line 55: the task returns, its future is ready, and the loop starts over.
WorkerRun(w) ==
    /\ pc[w] = "run"
    /\ ran' = Append(ran, running[w])
    /\ running' = [running EXCEPT ![w] = None]
    /\ pc' = [pc EXCEPT ![w] = "check"]
    /\ UNCHANGED <<tasks_, stop_, offering, accepted, rejected>>

-----------------------------------------------------------------------------
(* submit: lines 71-89 *)

Fresh == Tasks \ (accepted \cup rejected \cup {offering[t] : t \in Threads})

\* Lines 81-84: with the mutex, a stopped pool throws.
SubmitCheck(t) ==
    /\ pc[t] = Home(t)
    /\ MutexFree
    /\ \E x \in Fresh :
         IF stop_
         THEN /\ rejected' = rejected \cup {x}
              /\ UNCHANGED <<pc, offering>>
         ELSE /\ pc' = [pc EXCEPT ![t] = "insert"]
              /\ offering' = [offering EXCEPT ![t] = x]
              /\ UNCHANGED rejected
    /\ UNCHANGED <<tasks_, stop_, running, accepted, ran>>

\* Seeded fault: the newest task goes to the front.
SubmitInsert_AtFront(t) ==
    /\ pc[t] = "insert"
    /\ tasks_' = <<offering[t]>> \o tasks_
    /\ accepted' = accepted \cup {offering[t]}
    /\ offering' = [offering EXCEPT ![t] = None]
    /\ pc' = [pc EXCEPT ![t] = "notify"]
    /\ UNCHANGED <<stop_, running, rejected, ran>>

\* Lines 85-86: the task enters the queue and the mutex is released.
SubmitInsert(t) ==
    /\ pc[t] = "insert"
    /\ tasks_' = Append(tasks_, offering[t])
    /\ accepted' = accepted \cup {offering[t]}
    /\ offering' = [offering EXCEPT ![t] = None]
    /\ pc' = [pc EXCEPT ![t] = "notify"]
    /\ UNCHANGED <<stop_, running, rejected, ran>>

Asleep == {w \in Workers : pc[w] = "asleep"}

\* Seeded fault: notify_one is left out.
SubmitNotify_Nobody(t) ==
    /\ pc[t] = "notify"
    /\ pc' = [pc EXCEPT ![t] = Home(t)]
    /\ UNCHANGED <<tasks_, stop_, running, offering, accepted, rejected, ran>>

\* Seeded fault: a task is only announced when it is alone in the queue.
SubmitNotify_IfAlone(t) ==
    /\ pc[t] = "notify"
    /\ IF Asleep = {} \/ Len(tasks_) > 1
       THEN pc' = [pc EXCEPT ![t] = Home(t)]
       ELSE \E w \in Asleep : pc' = [pc EXCEPT ![t] = Home(t), ![w] = "check"]
    /\ UNCHANGED <<tasks_, stop_, running, offering, accepted, rejected, ran>>

\* Lines 87-88: notify_one, outside the mutex, wakes one sleeper if there is one.
SubmitNotify(t) ==
    /\ pc[t] = "notify"
    /\ IF Asleep = {}
       THEN pc' = [pc EXCEPT ![t] = Home(t)]
       ELSE \E w \in Asleep : pc' = [pc EXCEPT ![t] = Home(t), ![w] = "check"]
    /\ UNCHANGED <<tasks_, stop_, running, offering, accepted, rejected, ran>>

-----------------------------------------------------------------------------
(* The destructor: lines 61-69 *)

\* Line 62.
DestroyStop ==
    /\ pc[Main] = "main"
    /\ stop_' = TRUE
    /\ pc' = [pc EXCEPT ![Main] = "notify_all"]
    /\ UNCHANGED <<tasks_, running, offering, accepted, rejected, ran>>

\* Line 63: every worker that is asleep now is woken.
DestroyNotify ==
    /\ pc[Main] = "notify_all"
    /\ pc' = [t \in Threads |-> IF t = Main THEN "join"
                                ELSE IF pc[t] = "asleep" THEN "check" ELSE pc[t]]
    /\ UNCHANGED <<tasks_, stop_, running, offering, accepted, rejected, ran>>

\* Lines 64-68.
DestroyJoin ==
    /\ pc[Main] = "join"
    /\ \A w \in Workers : pc[w] = "exited"
    /\ pc' = [pc EXCEPT ![Main] = "destroyed"]
    /\ UNCHANGED <<tasks_, stop_, running, offering, accepted, rejected, ran>>

-----------------------------------------------------------------------------
WorkerStep(w) == WorkerCheck(w) \/ WorkerSleep(w) \/ WorkerRun(w)

SubmitStep(t) == SubmitInsert(t) \/ SubmitNotify(t)

Destroy == DestroyNotify \/ DestroyJoin

Destroyed == pc[Main] = "destroyed" /\ UNCHANGED vars

Next == \/ \E w \in Workers : WorkerStep(w) \/ WorkerWakesSpuriously(w)
        \/ \E t \in Threads : SubmitCheck(t) \/ SubmitStep(t)
        \/ DestroyStop
        \/ Destroy
        \/ Destroyed

\* Threads that can run do run.  Nobody is obliged to submit or to destroy the
\* pool, and no spurious wake-up is owed.
Fairness == /\ \A w \in Workers : WF_vars(WorkerStep(w))
            /\ \A t \in Threads : WF_vars(SubmitStep(t))
            /\ WF_vars(Destroy)

Spec == Init /\ [][Next]_vars /\ Fairness

-----------------------------------------------------------------------------
(* Properties *)

\* The variables stay in their types.
TypeOK == /\ tasks_ \in Seq(Tasks)
          /\ stop_ \in BOOLEAN
          /\ pc \in [Threads -> {"main", "check", "falling", "asleep", "run",
                                 "exited", "insert", "notify", "notify_all",
                                 "join", "destroyed"}]
          /\ running \in [Workers -> Tasks \cup {None}]
          /\ offering \in [Threads -> Tasks \cup {None}]
          /\ accepted \subseteq Tasks
          /\ rejected \subseteq Tasks
          /\ ran \in Seq(Tasks)

\* While a worker sleeps, every task in the queue has a worker of its own that is
\* about to look (line 46) or a notify_one on its way (line 87): no task waits
\* behind another with an idle worker in the pool, although notify_one is called
\* outside the mutex and may find nobody, or a worker that is already awake.
SleepersNotNeeded ==
    At(pc, "asleep") # {} =>
      Len(tasks_) <= Cardinality(At(pc, "check")) + Cardinality(At(pc, "notify"))

\* "Graceful shutdown": when the destructor has returned, every task whose submit
\* did not throw has run, and run once, so no future is left unready.
NothingLeftBehind ==
    pc[Main] = "destroyed" =>
      /\ tasks_ = <<>>
      /\ Len(ran) = Cardinality(accepted)
      /\ accepted = {ran[i] : i \in 1..Len(ran)}

\* The class implements the pool of TaskPool.tla.  A task counts as accepted from
\* the check under queue_mutex_ (line 82) on: a destructor that stores stop_
\* between that check and line 85 does not make submit throw.
AcceptedTasks ==
    IF At(pc, "insert") = {} THEN tasks_
    ELSE Append(tasks_, offering[CHOOSE t \in Threads : pc[t] = "insert"])

Abstract == INSTANCE TaskPool
              WITH NumWorkers <- Cardinality(Workers),
                   queue <- AcceptedTasks, busy <- {running[w] : w \in Workers} \ {None},
                   refused <- rejected, open <- ~stop_,
                   destroyed <- (pc[Main] = "destroyed")

ImplementsTaskPool == Abstract!Spec

\* A task that was accepted is run some time, whether or not the destructor has
\* been called since, and even if it is the destructor that hangs.
AcceptedTasksRun ==
    \A x \in Tasks : x \in accepted ~> \E i \in 1..Len(ran) : ran[i] = x

\* "Graceful shutdown" (line 23): the destructor returns.
DestructorReturns == stop_ ~> pc[Main] = "destroyed"
=============================================================================
