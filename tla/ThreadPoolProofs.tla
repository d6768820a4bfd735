-------------------------- MODULE ThreadPoolProofs --------------------------
(***************************************************************************)
(* Theorems about ThreadPool for any number of workers and of tasks.       *)
(***************************************************************************)
EXTENDS ThreadPool, ThreadCounting

-----------------------------------------------------------------------------
(* The inductive invariant *)

\* Each thread is in code of its own, and carries a task where it should.
PlacesOK ==
    /\ \A w \in Workers : pc[w] \in {"check", "falling", "asleep", "run", "exited",
                                     "insert", "notify"}
    /\ pc[Main] \in {"main", "insert", "notify", "notify_all", "join", "destroyed"}
    /\ \A w \in Workers : running[w] # None <=> pc[w] \in {"run", "insert", "notify"}
    /\ \A t \in Threads : offering[t] # None <=> pc[t] = "insert"

\* queue_mutex_ has one holder at most; who falls asleep has just found the queue
\* empty and nobody can have put a task into it since.
MutexOK ==
    /\ \A t, u \in Threads : {pc[t], pc[u]} \subseteq {"falling", "insert"} => t = u
    /\ At(pc, "falling") # {} => tasks_ = <<>>

\* The destructor; no task can come after the first worker has exited.
StopOK ==
    /\ stop_ <=> pc[Main] \in {"notify_all", "join", "destroyed"}
    /\ At(pc, "exited") # {} => stop_ /\ tasks_ = <<>> /\ At(pc, "insert") = {}
    /\ pc[Main] = "destroyed" => \A w \in Workers : pc[w] = "exited"

Elements(s) == {s[i] : i \in 1..Len(s)}
Distinct(s) == \A i, j \in 1..Len(s) : s[i] = s[j] => i = j

Busy == {running[w] : w \in Workers} \ {None}

\* Every accepted task is at one place: in the queue, with a worker, or done.
TasksOK ==
    /\ Distinct(tasks_) /\ Distinct(ran)
    /\ \A v, w \in Workers : running[v] = running[w] /\ running[v] # None => v = w
    /\ Elements(tasks_) \cap Elements(ran) = {}
    /\ Busy \cap (Elements(tasks_) \cup Elements(ran)) = {}
    /\ accepted = Elements(tasks_) \cup Elements(ran) \cup Busy
    /\ \A t \in Threads : offering[t] \notin accepted

PoolInv == TypeOK /\ PlacesOK /\ MutexOK /\ StopOK /\ TasksOK /\ SleepersNotNeeded

-----------------------------------------------------------------------------
(* Queues without repetition *)

\* A task that is new to the queue is added at its end.
LEMMA AppendElement ==
    ASSUME NEW S, NEW s \in Seq(S), NEW x \in S
    PROVE  /\ Elements(Append(s, x)) = Elements(s) \cup {x}
           /\ Distinct(s) /\ x \notin Elements(s) => Distinct(Append(s, x))
<1> DEFINE a == Append(s, x)
<1>1. Len(s) \in Nat /\ Len(a) = Len(s) + 1 /\ a[Len(s) + 1] = x
  OBVIOUS
<1>2. \A i \in 1..Len(s) : a[i] = s[i]
  OBVIOUS
<1>3. 1..Len(a) = 1..Len(s) \cup {Len(s) + 1}
  BY <1>1
<1>4. Elements(a) = Elements(s) \cup {x}
  <2> HIDE DEF a
  <2>1. ASSUME NEW y \in Elements(a)
        PROVE  y \in Elements(s) \cup {x}
    BY <1>1, <1>2, <1>3 DEF Elements
  <2>2. ASSUME NEW y \in Elements(s) \cup {x}
        PROVE  y \in Elements(a)
    BY <1>1, <1>2, <1>3 DEF Elements
  <2> QED
    BY <2>1, <2>2
<1>5. ASSUME Distinct(s), x \notin Elements(s)
      PROVE  Distinct(a)
  <2> HIDE DEF a
  <2> QED
    BY <1>1, <1>2, <1>3, <1>5 DEF Distinct, Elements
<1> QED
  BY <1>4, <1>5

\* The head of a queue that is not empty is taken from it.
LEMMA TakeElement ==
    ASSUME NEW S, NEW s \in Seq(S), s # <<>>
    PROVE  /\ Head(s) \in S /\ Tail(s) \in Seq(S) /\ Len(Tail(s)) = Len(s) - 1
           /\ Elements(s) = Elements(Tail(s)) \cup {Head(s)}
           /\ Distinct(s) => Distinct(Tail(s)) /\ Head(s) \notin Elements(Tail(s))
<1> DEFINE r == Tail(s)
<1>1. /\ Len(s) \in Nat /\ Len(s) > 0 /\ Head(s) = s[1] /\ Head(s) \in S
      /\ r \in Seq(S) /\ Len(r) = Len(s) - 1
  OBVIOUS
<1>2. \A i \in 1..Len(r) : r[i] = s[i + 1] /\ i + 1 \in 1..Len(s)
  OBVIOUS
<1>3. \A i \in 1..Len(s) : i = 1 \/ \E j \in 1..Len(r) : i = j + 1
  <2> TAKE i \in 1..Len(s)
  <2>1. CASE i # 1
    <3>1. i - 1 \in 1..Len(r) /\ i = (i - 1) + 1
      BY <1>1, <2>1
    <3> QED
      BY <3>1
  <2> QED
    BY <2>1
<1> HIDE DEF r
<1>4. Elements(s) = Elements(r) \cup {Head(s)}
  <2>1. ASSUME NEW y \in Elements(s)
        PROVE  y \in Elements(r) \cup {Head(s)}
    <3>1. PICK i \in 1..Len(s) : y = s[i]
      BY DEF Elements
    <3>2. CASE i = 1
      BY <1>1, <3>1, <3>2
    <3>3. CASE \E j \in 1..Len(r) : i = j + 1
      BY <1>2, <3>1, <3>3 DEF Elements
    <3> QED
      BY <1>3, <3>2, <3>3
  <2>2. ASSUME NEW y \in Elements(r) \cup {Head(s)}
        PROVE  y \in Elements(s)
    BY <1>1, <1>2 DEF Elements
  <2> QED
    BY <2>1, <2>2
<1>5. ASSUME Distinct(s)
      PROVE  Distinct(r) /\ Head(s) \notin Elements(r)
  <2>1. \A i \in 1..Len(r) : i \in Nat /\ i > 0
    BY <1>1
  <2>2. Distinct(r)
    BY <1>2, <1>5, <2>1 DEF Distinct
  <2>3. Head(s) \notin Elements(r)
    BY <1>1, <1>2, <1>5, <2>1 DEF Distinct, Elements
  <2> QED
    BY <2>2, <2>3
<1> QED
  BY <1>1, <1>4, <1>5 DEF r

\* A queue without repetition is as long as it has elements.
LEMMA ElementsCounted ==
    ASSUME NEW S, NEW s \in Seq(S), Distinct(s)
    PROVE  IsFiniteSet(Elements(s)) /\ Cardinality(Elements(s)) = Len(s)
<1> DEFINE f == [i \in 1..Len(s) |-> s[i]]
<1>1. IsFiniteSet(1..Len(s)) /\ Cardinality(1..Len(s)) = Len(s)
  <2>1. Len(s) \in Nat /\ 1 \in Int /\ Len(s) \in Int
    OBVIOUS
  <2>2. /\ IsFiniteSet(1..Len(s))
        /\ Cardinality(1..Len(s)) = IF 1 > Len(s) THEN 0 ELSE Len(s) - 1 + 1
    BY <2>1, FS_Interval
  <2> QED
    BY <2>1, <2>2
<1>2. f \in Bijection(1..Len(s), Elements(s))
  <2>1. f \in [1..Len(s) -> Elements(s)]
    BY DEF Elements
  <2>2. IsInjective(f)
    BY DEF IsInjective, Distinct
  <2>3. \A y \in Elements(s) : \E i \in 1..Len(s) : f[i] = y
    BY DEF Elements
  <2> HIDE DEF f
  <2> QED
    BY <2>1, <2>2, <2>3 DEF Bijection, Injection, Surjection
<1>3. ExistsBijection(1..Len(s), Elements(s))
  BY <1>2 DEF ExistsBijection
<1> QED
  BY <1>1, <1>3, FS_Bijection

-----------------------------------------------------------------------------
(* The invariant holds at first *)

\* The queue is empty and everybody is at the start of their code.
LEMMA PoolInvInit == Init => PoolInv
<1> SUFFICES ASSUME Init
             PROVE  PoolInv
  OBVIOUS
<1> USE PoolAssumption DEF Init
<1>1. TypeOK
  <2>1. tasks_ \in Seq(Tasks) /\ ran \in Seq(Tasks)
    OBVIOUS
  <2>2. pc \in [Threads -> {"main", "check"}]
    OBVIOUS
  <2>3. /\ running \in [Workers -> Tasks \cup {None}]
        /\ offering \in [Threads -> Tasks \cup {None}]
    OBVIOUS
  <2> QED
    BY <2>1, <2>2, <2>3 DEF TypeOK
<1>2. PlacesOK
  BY DEF PlacesOK, Threads
<1>3. MutexOK
  BY DEF MutexOK, Threads, At
<1>4. StopOK
  BY DEF StopOK, Threads, At
<1>5. TasksOK
  <2>1. Elements(<<>>) = {} /\ Distinct(<<>>)
    BY DEF Elements, Distinct
  <2>2. Busy = {}
    BY DEF Busy
  <2> QED
    BY <2>1, <2>2 DEF TasksOK
<1>6. SleepersNotNeeded
  BY DEF SleepersNotNeeded, Threads, At
<1> QED
  BY <1>1, <1>2, <1>3, <1>4, <1>5, <1>6 DEF PoolInv

-----------------------------------------------------------------------------
(* Where the threads are *)

\* What every proof about a step may use.
Control == TypeOK /\ PlacesOK /\ MutexOK /\ StopOK

\* A worker that has the mutex finds it free, and takes a task, exits or starts to
\* fall asleep.
LEMMA WorkerCheckControl ==
    ASSUME Control, NEW w \in Workers, WorkerCheck(w)
    PROVE  Control'
<1> USE PoolAssumption DEF Control, Threads
<1>1. TypeOK'
  <2>1. CASE tasks_ # <<>>
    <3>1. Head(tasks_) \in Tasks /\ Tail(tasks_) \in Seq(Tasks)
      BY <2>1, TakeElement DEF TypeOK
    <3>2. Take(w) /\ UNCHANGED <<stop_, offering, accepted, rejected, ran>>
      BY <2>1 DEF WorkerCheck, Exit
    <3> QED
      BY <3>1, <3>2 DEF Take, TypeOK
  <2>2. CASE tasks_ = <<>>
    BY <2>2 DEF WorkerCheck, Exit, Take, TypeOK
  <2> QED
    BY <2>1, <2>2
<1>2. CASE Exit(w)
  <2>1. PlacesOK'
    BY <1>2 DEF WorkerCheck, Exit, TypeOK, PlacesOK
  <2>2. MutexOK'
    BY <1>2 DEF WorkerCheck, Exit, TypeOK, PlacesOK, MutexOK, At
  <2>3. StopOK'
    BY <1>2 DEF WorkerCheck, Exit, TypeOK, PlacesOK, StopOK, MutexFree, At
  <2> QED
    BY <1>1, <2>1, <2>2, <2>3
<1>3. CASE Take(w)
  <2>1. Head(tasks_) # None
    BY <1>3, TakeElement DEF Take, TypeOK
  <2>2. PlacesOK'
    BY <1>3, <2>1 DEF WorkerCheck, Take, TypeOK, PlacesOK
  <2>3. MutexOK'
    BY <1>3 DEF WorkerCheck, Take, TypeOK, PlacesOK, MutexOK, MutexFree, At
  <2>4. StopOK'
    BY <1>3 DEF WorkerCheck, Take, TypeOK, PlacesOK, StopOK, At
  <2> QED
    BY <1>1, <2>2, <2>3, <2>4
<1>4. CASE /\ ~stop_ /\ tasks_ = <<>>
           /\ pc' = [pc EXCEPT ![w] = "falling"]
           /\ UNCHANGED <<tasks_, running>>
  <2>1. PlacesOK'
    BY <1>4 DEF WorkerCheck, TypeOK, PlacesOK
  <2>2. MutexOK'
    BY <1>4 DEF WorkerCheck, TypeOK, PlacesOK, MutexOK, MutexFree, At
  <2>3. StopOK'
    BY <1>4 DEF WorkerCheck, TypeOK, PlacesOK, StopOK, At
  <2> QED
    BY <1>1, <2>1, <2>2, <2>3
<1> QED
  BY <1>2, <1>3, <1>4 DEF WorkerCheck

\* Falling asleep and waking up concern no other thread; a worker that has run
\* its task carries none.
LEMMA WorkerMoveControl ==
    ASSUME Control, NEW w \in Workers,
           WorkerSleep(w) \/ WorkerWakesSpuriously(w) \/ WorkerRun(w)
    PROVE  Control'
<1> USE PoolAssumption DEF Control, Threads
<1>1. /\ tasks_' = tasks_ /\ stop_' = stop_ /\ offering' = offering
      /\ accepted' = accepted /\ rejected' = rejected
      /\ pc' = [pc EXCEPT ![w] = IF pc[w] = "falling" THEN "asleep" ELSE "check"]
      /\ pc[w] \in {"falling", "asleep", "run"}
      /\ running' = IF pc[w] = "run" THEN [running EXCEPT ![w] = None] ELSE running
      /\ ran' = IF pc[w] = "run" THEN Append(ran, running[w]) ELSE ran
  BY DEF WorkerSleep, WorkerWakesSpuriously, WorkerRun
<1>2. TypeOK'
  <2>1. pc[w] = "run" => running[w] \in Tasks
    BY DEF TypeOK, PlacesOK
  <2>2. ran' \in Seq(Tasks)
    BY <1>1, <2>1 DEF TypeOK
  <2> QED
    BY <1>1, <2>2 DEF TypeOK
<1>3. PlacesOK'
  BY <1>1 DEF TypeOK, PlacesOK
<1>4. MutexOK'
  BY <1>1 DEF TypeOK, PlacesOK, MutexOK, At
<1>5. StopOK'
  BY <1>1 DEF TypeOK, PlacesOK, StopOK, At
<1> QED
  BY <1>2, <1>3, <1>4, <1>5

\* A submitter that has the mutex finds it free; a stopped pool changes nothing
\* but the tasks that were refused.
LEMMA SubmitCheckControl ==
    ASSUME Control, NEW t \in Threads, SubmitCheck(t)
    PROVE  Control'
<1> USE PoolAssumption DEF Control, Threads
<1>1. PICK x \in Tasks :
        IF stop_
        THEN rejected' = rejected \cup {x} /\ UNCHANGED <<pc, offering>>
        ELSE /\ pc' = [pc EXCEPT ![t] = "insert"]
             /\ offering' = [offering EXCEPT ![t] = x]
             /\ UNCHANGED rejected
  BY DEF SubmitCheck, Fresh
<1>2. /\ tasks_' = tasks_ /\ stop_' = stop_ /\ running' = running
      /\ accepted' = accepted /\ ran' = ran
      /\ pc[t] = Home(t) /\ MutexFree
  BY DEF SubmitCheck
<1>3. CASE stop_
  <2>1. TypeOK'
    BY <1>1, <1>2, <1>3 DEF TypeOK
  <2>2. PlacesOK' /\ MutexOK' /\ StopOK'
    BY <1>1, <1>2, <1>3 DEF PlacesOK, MutexOK, StopOK
  <2> QED
    BY <2>1, <2>2
<1>4. CASE ~stop_
  <2>1. /\ pc' = [pc EXCEPT ![t] = "insert"]
        /\ offering' = [offering EXCEPT ![t] = x]
        /\ rejected' = rejected
    BY <1>1, <1>4
  <2>2. TypeOK'
    BY <1>2, <2>1 DEF TypeOK
  <2>3. PlacesOK'
    BY <1>2, <2>1 DEF TypeOK, PlacesOK, Home
  <2>4. MutexOK'
    BY <1>2, <2>1 DEF TypeOK, MutexOK, MutexFree, At
  <2>5. StopOK'
    BY <1>2, <1>4, <2>1 DEF TypeOK, PlacesOK, StopOK, MutexFree, At, Home
  <2> QED
    BY <2>2, <2>3, <2>4, <2>5
<1> QED
  BY <1>3, <1>4

\* A submitter that inserts is the only one, and no worker has exited or is
\* falling asleep.
LEMMA SubmitInsertControl ==
    ASSUME Control, NEW t \in Threads, SubmitInsert(t)
    PROVE  Control'
<1> USE PoolAssumption DEF Control, Threads, SubmitInsert
<1>1. offering[t] \in Tasks
  BY DEF TypeOK, PlacesOK
<1>2. TypeOK'
  BY <1>1 DEF TypeOK
<1>3. PlacesOK'
  BY DEF TypeOK, PlacesOK
<1>4. MutexOK'
  <2>1. At(pc, "falling") = {} /\ At(pc', "falling") = {}
    BY DEF TypeOK, MutexOK, At
  <2> QED
    BY <2>1 DEF TypeOK, MutexOK, At
<1>5. StopOK'
  BY DEF TypeOK, PlacesOK, StopOK, At
<1> QED
  BY <1>2, <1>3, <1>4, <1>5

\* notify_one returns the submitter to where it came from, and wakes a sleeper.
LEMMA SubmitNotifyControl ==
    ASSUME Control, NEW t \in Threads, SubmitNotify(t)
    PROVE  Control'
<1> USE PoolAssumption DEF Control, Threads
<1>1. /\ tasks_' = tasks_ /\ stop_' = stop_ /\ running' = running
      /\ offering' = offering /\ accepted' = accepted
      /\ rejected' = rejected /\ ran' = ran
      /\ pc[t] = "notify"
  BY DEF SubmitNotify
<1>2. CASE pc' = [pc EXCEPT ![t] = Home(t)]
  <2>1. TypeOK'
    BY <1>1, <1>2 DEF TypeOK, Home
  <2>2. PlacesOK'
    BY <1>1, <1>2 DEF TypeOK, PlacesOK, Home
  <2>3. MutexOK'
    BY <1>1, <1>2 DEF TypeOK, MutexOK, At, Home
  <2>4. StopOK'
    BY <1>1, <1>2 DEF TypeOK, PlacesOK, StopOK, At, Home
  <2> QED
    BY <2>1, <2>2, <2>3, <2>4
<1>3. ASSUME NEW w \in Asleep, pc' = [pc EXCEPT ![t] = Home(t), ![w] = "check"]
      PROVE  Control'
  <2>1. w \in Workers /\ pc[w] = "asleep" /\ w # t
    BY <1>1, <1>3 DEF Asleep
  <2>2. TypeOK'
    BY <1>1, <1>3, <2>1 DEF TypeOK, Home
  <2>3. PlacesOK'
    BY <1>1, <1>3, <2>1 DEF TypeOK, PlacesOK, Home
  <2>4. MutexOK'
    BY <1>1, <1>3, <2>1 DEF TypeOK, MutexOK, At, Home
  <2>5. StopOK'
    BY <1>1, <1>3, <2>1 DEF TypeOK, PlacesOK, StopOK, At, Home
  <2> QED
    BY <2>2, <2>3, <2>4, <2>5
<1> QED
  BY <1>2, <1>3 DEF SubmitNotify

\* The destructor stores stop_, wakes the sleepers and joins the workers.
LEMMA DestructorControl ==
    ASSUME Control, DestroyStop \/ DestroyNotify \/ DestroyJoin
    PROVE  Control'
<1> USE PoolAssumption DEF Control, Threads
<1>1. CASE DestroyStop
  <2> USE <1>1 DEF DestroyStop
  <2>1. TypeOK'
    BY DEF TypeOK
  <2>2. PlacesOK'
    BY DEF TypeOK, PlacesOK
  <2>3. MutexOK'
    BY DEF TypeOK, MutexOK, At
  <2>4. StopOK'
    BY DEF TypeOK, PlacesOK, StopOK, At
  <2> QED
    BY <2>1, <2>2, <2>3, <2>4
<1>2. CASE DestroyNotify
  <2> USE <1>2 DEF DestroyNotify
  <2>1. TypeOK'
    BY DEF TypeOK
  <2>2. PlacesOK'
    BY DEF TypeOK, PlacesOK
  <2>3. MutexOK'
    BY DEF TypeOK, MutexOK, At
  <2>4. StopOK'
    BY DEF TypeOK, PlacesOK, StopOK, At
  <2> QED
    BY <2>1, <2>2, <2>3, <2>4
<1>3. CASE DestroyJoin
  <2> USE <1>3 DEF DestroyJoin
  <2>1. TypeOK'
    BY DEF TypeOK
  <2>2. PlacesOK'
    BY DEF TypeOK, PlacesOK
  <2>3. MutexOK'
    BY DEF TypeOK, MutexOK, At
  <2>4. StopOK'
    BY DEF TypeOK, PlacesOK, StopOK, At
  <2> QED
    BY <2>1, <2>2, <2>3, <2>4
<1> QED
  BY <1>1, <1>2, <1>3

\* Every step keeps the threads where they belong.
LEMMA ControlStep ==
    ASSUME Control, [Next]_vars
    PROVE  Control'
<1>1. CASE Next
  BY <1>1, WorkerCheckControl, WorkerMoveControl, SubmitCheckControl, SubmitInsertControl,
     SubmitNotifyControl, DestructorControl
     DEF Next, WorkerStep, SubmitStep, Destroy, Destroyed, vars, Control, TypeOK,
         PlacesOK, MutexOK, StopOK
<1>2. CASE UNCHANGED vars
  BY <1>2 DEF vars, Control, TypeOK, PlacesOK, MutexOK, StopOK
<1> QED
  BY <1>1, <1>2

-----------------------------------------------------------------------------
(* Where the tasks are *)

\* A worker takes the oldest task, which is nowhere else.
LEMMA TakeTasks ==
    ASSUME Control, TasksOK, NEW w \in Workers, WorkerCheck(w), Take(w)
    PROVE  TasksOK' /\ Busy' = Busy \cup {Head(tasks_)}
<1> USE PoolAssumption DEF Control, Threads
<1> DEFINE x == Head(tasks_)
<1>1. /\ x \in Tasks /\ x # None
      /\ Elements(tasks_) = Elements(tasks_') \cup {x}
      /\ Distinct(tasks_') /\ x \notin Elements(tasks_')
  BY TakeElement DEF Take, TypeOK, TasksOK
<1>2. /\ running \in [Workers -> Tasks \cup {None}] /\ running[w] = None
      /\ running' = [running EXCEPT ![w] = x]
      /\ ran' = ran /\ accepted' = accepted /\ offering' = offering
  BY DEF WorkerCheck, Take, TypeOK, PlacesOK
<1> HIDE DEF x
<1>3. Busy' = Busy \cup {x} /\ x \notin Busy
  <2>1. x \notin Busy
    BY <1>1 DEF TasksOK
  <2>2. ASSUME NEW y \in Busy'
        PROVE  y \in Busy \cup {x}
    BY <1>2, <2>2 DEF Busy
  <2>3. ASSUME NEW y \in Busy \cup {x}
        PROVE  y \in Busy'
    BY <1>1, <1>2, <2>3 DEF Busy
  <2> QED
    BY <2>1, <2>2, <2>3
<1>4. \A v \in Workers : v # w => running'[v] = running[v] /\ running[v] # x
  BY <1>1, <1>2, <1>3 DEF Busy
<1>5. \A u, v \in Workers : running'[u] = running'[v] /\ running'[u] # None => u = v
  BY <1>2, <1>4 DEF TasksOK
<1>6. x \notin Elements(ran)
  BY <1>1 DEF TasksOK
<1> QED
  BY <1>1, <1>2, <1>3, <1>5, <1>6 DEF TasksOK, x

\* A task that has been run is no longer with its worker, and was not run before.
LEMMA RunTasks ==
    ASSUME Control, TasksOK, NEW w \in Workers, WorkerRun(w)
    PROVE  /\ TasksOK'
           /\ running[w] \in Busy /\ Busy' = Busy \ {running[w]}
<1> USE PoolAssumption DEF Control, Threads
<1> DEFINE x == running[w]
<1>1. /\ running \in [Workers -> Tasks \cup {None}]
      /\ x \in Tasks /\ x # None /\ x \in Busy
      /\ running' = [running EXCEPT ![w] = None]
      /\ tasks_' = tasks_ /\ accepted' = accepted /\ offering' = offering
      /\ ran' = Append(ran, x)
  BY DEF WorkerRun, TypeOK, PlacesOK, Busy
<1> HIDE DEF x
<1>2. x \notin Elements(ran) /\ x \notin Elements(tasks_)
  BY <1>1 DEF TasksOK
<1>3. Elements(ran') = Elements(ran) \cup {x} /\ Distinct(ran')
  BY <1>1, <1>2, AppendElement DEF TypeOK, TasksOK
<1>4. \A v \in Workers : v # w => running'[v] = running[v] /\ running[v] # x
  BY <1>1 DEF TasksOK, x
<1>5. Busy' = Busy \ {x}
  <2>1. ASSUME NEW y \in Busy'
        PROVE  y \in Busy \ {x}
    BY <1>1, <1>4, <2>1 DEF Busy
  <2>2. ASSUME NEW y \in Busy \ {x}
        PROVE  y \in Busy'
    BY <1>1, <1>4, <2>2 DEF Busy, x
  <2> QED
    BY <2>1, <2>2
<1>6. \A u, v \in Workers : running'[u] = running'[v] /\ running'[u] # None => u = v
  BY <1>1, <1>4 DEF TasksOK
<1> QED
  BY <1>1, <1>2, <1>3, <1>5, <1>6 DEF TasksOK, x

\* A task that is inserted was in no place before, and nobody else offers it.
LEMMA InsertTasks ==
    ASSUME Control, TasksOK, NEW t \in Threads, SubmitInsert(t)
    PROVE  TasksOK'
<1> USE PoolAssumption DEF Control, Threads
<1> DEFINE x == offering[t]
<1>1. /\ offering \in [Threads -> Tasks \cup {None}]
      /\ x \in Tasks /\ x # None
      /\ offering' = [offering EXCEPT ![t] = None]
      /\ running' = running /\ ran' = ran
      /\ tasks_' = Append(tasks_, x) /\ accepted' = accepted \cup {x}
  BY DEF SubmitInsert, TypeOK, PlacesOK
<1>2. x \notin accepted
  BY DEF TasksOK
<1>3. \A u \in Threads : offering'[u] # x /\ offering'[u] \notin accepted
  <2> TAKE u \in Threads
  <2>1. CASE u = t
    BY <1>1, <2>1 DEF TypeOK
  <2>2. CASE u # t
    <3>1. pc[u] # "insert"
      BY <2>2 DEF SubmitInsert, MutexOK
    <3>2. offering'[u] = offering[u] /\ offering[u] = None
      BY <1>1, <2>2, <3>1 DEF PlacesOK
    <3> QED
      BY <1>1, <3>2 DEF TypeOK
  <2> QED
    BY <2>1, <2>2
<1> HIDE DEF x
<1>4. Busy' = Busy
  BY <1>1 DEF Busy
<1>5. x \notin Elements(tasks_) /\ x \notin Elements(ran) /\ x \notin Busy
  BY <1>2 DEF TasksOK
<1>6. Elements(tasks_') = Elements(tasks_) \cup {x} /\ Distinct(tasks_')
  BY <1>1, <1>5, AppendElement DEF TypeOK, TasksOK
<1> QED
  BY <1>1, <1>3, <1>4, <1>5, <1>6 DEF TasksOK

\* What is offered after the check of submit was never offered before.
LEMMA OfferTasks ==
    ASSUME Control, TasksOK, NEW t \in Threads, SubmitCheck(t)
    PROVE  TasksOK'
<1>1. /\ tasks_' = tasks_ /\ running' = running /\ ran' = ran /\ accepted' = accepted
      /\ offering \in [Threads -> Tasks \cup {None}]
  BY DEF SubmitCheck, Control, TypeOK
<1>2. \A u \in Threads : offering'[u] \notin accepted
  <2> TAKE u \in Threads
  <2>1. offering'[u] = offering[u] \/ offering'[u] \in Fresh
    BY <1>1 DEF SubmitCheck
  <2> QED
    BY <2>1 DEF TasksOK, Fresh
<1>3. Busy' = Busy
  BY <1>1 DEF Busy
<1> QED
  BY <1>1, <1>2, <1>3 DEF TasksOK

\* A step that leaves the queue, the workers' tasks and the submitters' alone.
LEMMA SameTasks ==
    ASSUME TasksOK, UNCHANGED <<tasks_, running, ran, accepted, offering>>
    PROVE  TasksOK'
  BY DEF TasksOK, Busy

\* No step loses a task, runs one twice or invents one.
LEMMA TasksStep ==
    ASSUME Control, TasksOK, [Next]_vars
    PROVE  TasksOK'
<1>1. ASSUME NEW w \in Workers, WorkerCheck(w)
      PROVE  TasksOK'
  <2>1. CASE Take(w)
    BY <1>1, <2>1, TakeTasks
  <2>2. CASE ~Take(w)
    BY <1>1, <2>2, SameTasks DEF WorkerCheck, Exit
  <2> QED
    BY <2>1, <2>2
<1>2. ASSUME NEW w \in Workers, WorkerSleep(w) \/ WorkerWakesSpuriously(w)
      PROVE  TasksOK'
  BY <1>2, SameTasks DEF WorkerSleep, WorkerWakesSpuriously
<1>3. ASSUME NEW t \in Threads, SubmitNotify(t)
      PROVE  TasksOK'
  BY <1>3, SameTasks DEF SubmitNotify
<1>4. CASE DestroyStop \/ Destroy \/ UNCHANGED vars
  BY <1>4, SameTasks DEF DestroyStop, Destroy, DestroyNotify, DestroyJoin, vars
<1> QED
  BY <1>1, <1>2, <1>3, <1>4, RunTasks, InsertTasks, OfferTasks
     DEF Next, WorkerStep, SubmitStep, Destroyed

-----------------------------------------------------------------------------
(* Sleepers *)

\* The numbers that the property compares.
LEMMA Counts ==
    ASSUME TypeOK
    PROVE  /\ DOMAIN pc = Threads /\ IsFiniteSet(Threads)
           /\ Len(tasks_) \in Nat
           /\ \A place : /\ IsFiniteSet(At(pc, place))
                         /\ Cardinality(At(pc, place)) \in Nat
<1>1. IsFiniteSet(Threads) /\ DOMAIN pc = Threads
  BY PoolAssumption, FS_AddElement DEF Threads, TypeOK
<1> QED
  BY <1>1, AtFinite DEF TypeOK

\* Nobody waits behind an idle worker: a worker that takes a task leaves "check"
\* with it, a new task comes with a submitter that has yet to notify, and a
\* notification that does not wake a worker has found none asleep.
LEMMA SleepersStep ==
    ASSUME Control, SleepersNotNeeded, [Next]_vars
    PROVE  SleepersNotNeeded'
<1> USE DEF Control
<1> SUFFICES ASSUME At(pc', "asleep") # {}
             PROVE  Len(tasks_') <= Cardinality(At(pc', "check"))
                                      + Cardinality(At(pc', "notify"))
  BY DEF SleepersNotNeeded
<1>0. /\ DOMAIN pc = Threads /\ IsFiniteSet(Threads) /\ Len(tasks_) \in Nat
      /\ Cardinality(At(pc, "check")) \in Nat /\ Cardinality(At(pc, "notify")) \in Nat
  BY Counts
<1>1. TypeOK'
  BY ControlStep
<1>2. /\ Len(tasks_') \in Nat
      /\ Cardinality(At(pc', "check")) \in Nat /\ Cardinality(At(pc', "notify")) \in Nat
  BY <1>1, AtFinite, PoolAssumption, <1>0 DEF TypeOK
<1>3. CASE tasks_' = <<>>
  BY <1>2, <1>3
<1>4. CASE At(pc, "falling") # {} /\ tasks_' = tasks_
  BY <1>3, <1>4 DEF MutexOK
<1>5. ASSUME NEW w \in Workers, WorkerCheck(w), tasks_' # <<>>
      PROVE  Len(tasks_') <= Cardinality(At(pc', "check"))
                               + Cardinality(At(pc', "notify"))
  <2>1. /\ Take(w) /\ pc[w] = "check" /\ w \in Threads
        /\ pc' = [pc EXCEPT ![w] = "run"]
    BY <1>5 DEF WorkerCheck, Exit, Take, Threads
  <2>2. Len(tasks_') = Len(tasks_) - 1
    BY <2>1, TakeElement DEF Take, TypeOK
  <2>3. Recounts(pc, pc', "check", "run")
    BY <1>0, <2>1, AtMoves
  <2>4. /\ Cardinality(At(pc', "check")) = Cardinality(At(pc, "check")) - 1
        /\ Cardinality(At(pc', "notify")) = Cardinality(At(pc, "notify"))
    BY <1>0, <2>3 DEF Recounts
  <2>5. At(pc, "asleep") # {}
    BY <1>0, <2>1 DEF At
  <2> QED
    BY <1>0, <2>2, <2>4, <2>5 DEF SleepersNotNeeded
<1>6. ASSUME NEW w \in Workers, WorkerWakesSpuriously(w) \/ WorkerRun(w)
      PROVE  Len(tasks_') <= Cardinality(At(pc', "check"))
                               + Cardinality(At(pc', "notify"))
  <2>1. /\ pc[w] \in {"asleep", "run"} /\ w \in Threads
        /\ pc' = [pc EXCEPT ![w] = "check"] /\ tasks_' = tasks_
    BY <1>6 DEF WorkerWakesSpuriously, WorkerRun, Threads
  <2>2. Recounts(pc, pc', pc[w], "check")
    BY <1>0, <2>1, AtMoves
  <2>3. PICK from \in {"asleep", "run"} : Recounts(pc, pc', from, "check")
    BY <2>1, <2>2
  <2>4. /\ Cardinality(At(pc', "check")) = Cardinality(At(pc, "check")) + 1
        /\ Cardinality(At(pc', "notify")) = Cardinality(At(pc, "notify"))
    BY <1>0, <2>3 DEF Recounts
  <2>5. At(pc, "asleep") # {}
    BY <1>0, <2>1 DEF At
  <2> QED
    BY <1>0, <2>1, <2>4, <2>5 DEF SleepersNotNeeded
<1>7. ASSUME NEW t \in Threads, SubmitCheck(t)
      PROVE  Len(tasks_') <= Cardinality(At(pc', "check"))
                               + Cardinality(At(pc', "notify"))
  <2>1. CASE pc' = pc
    BY <1>7, <2>1 DEF SubmitCheck, SleepersNotNeeded
  <2>2. CASE pc' = [pc EXCEPT ![t] = "insert"]
    <3>1. pc[t] \in {"main", "run"} /\ tasks_' = tasks_
      BY <1>7 DEF SubmitCheck, Home
    <3>2. Recounts(pc, pc', pc[t], "insert")
      BY <1>0, <2>2, AtMoves
    <3>3. /\ Cardinality(At(pc', "check")) = Cardinality(At(pc, "check"))
          /\ Cardinality(At(pc', "notify")) = Cardinality(At(pc, "notify"))
      BY <1>0, <3>1, <3>2 DEF Recounts
    <3>4. At(pc, "asleep") # {}
      BY <1>0, <2>2 DEF At
    <3> QED
      BY <1>0, <3>1, <3>3, <3>4 DEF SleepersNotNeeded
  <2> QED
    BY <1>7, <2>1, <2>2 DEF SubmitCheck
<1>8. ASSUME NEW t \in Threads, SubmitInsert(t)
      PROVE  Len(tasks_') <= Cardinality(At(pc', "check"))
                               + Cardinality(At(pc', "notify"))
  <2>1. /\ pc[t] = "insert" /\ pc' = [pc EXCEPT ![t] = "notify"]
        /\ Len(tasks_') = Len(tasks_) + 1
    BY <1>8 DEF SubmitInsert, TypeOK
  <2>2. Recounts(pc, pc', "insert", "notify")
    BY <1>0, <2>1, AtMoves
  <2>3. /\ Cardinality(At(pc', "check")) = Cardinality(At(pc, "check"))
        /\ Cardinality(At(pc', "notify")) = Cardinality(At(pc, "notify")) + 1
    BY <1>0, <2>2 DEF Recounts
  <2>4. At(pc, "asleep") # {}
    BY <1>0, <2>1 DEF At
  <2> QED
    BY <1>0, <2>1, <2>3, <2>4 DEF SleepersNotNeeded
<1>9. ASSUME NEW t \in Threads, SubmitNotify(t)
      PROVE  Len(tasks_') <= Cardinality(At(pc', "check"))
                               + Cardinality(At(pc', "notify"))
  <2>1. Home(t) \in {"main", "run"} /\ pc[t] = "notify" /\ tasks_' = tasks_
    BY <1>9 DEF Home, SubmitNotify
  <2>2. PICK w \in Asleep : pc' = [pc EXCEPT ![t] = Home(t), ![w] = "check"]
    <3>1. CASE Asleep = {}
      <4>1. At(pc, "asleep") = {}
        BY <1>0, <3>1 DEF Asleep, At, Threads, PlacesOK
      <4>2. pc' = [pc EXCEPT ![t] = Home(t)]
        BY <1>9, <3>1 DEF SubmitNotify
      <4>3. At(pc', "asleep") = {}
        BY <1>0, <2>1, <4>1, <4>2 DEF At
      <4> QED
        BY <4>3
    <3> QED
      BY <1>9, <3>1 DEF SubmitNotify
  <2> DEFINE mid == [pc EXCEPT ![t] = Home(t)]
  <2>3. /\ w \in Threads /\ mid[w] = "asleep" /\ DOMAIN mid = Threads
        /\ pc' = [mid EXCEPT ![w] = "check"]
        /\ At(pc, "asleep") # {}
    BY <1>0, <2>1, <2>2 DEF Asleep, Threads, At
  <2>4. Recounts(pc, mid, "notify", Home(t))
    BY <1>0, <2>1, AtMoves
  <2>5. Recounts(mid, pc', "asleep", "check")
    <3> HIDE DEF mid
    <3> QED
      BY <1>0, <2>3, AtMoves
  <2>6. Cardinality(At(mid, "check")) \in Nat /\ Cardinality(At(mid, "notify")) \in Nat
    BY <1>0, <2>3, AtFinite
  <2> HIDE DEF mid
  <2>7. /\ Cardinality(At(mid, "check")) = Cardinality(At(pc, "check"))
        /\ Cardinality(At(mid, "notify")) = Cardinality(At(pc, "notify")) - 1
    BY <1>0, <2>1, <2>4 DEF Recounts
  <2>8. /\ Cardinality(At(pc', "check")) = Cardinality(At(mid, "check")) + 1
        /\ Cardinality(At(pc', "notify")) = Cardinality(At(mid, "notify"))
    BY <2>5, <2>6 DEF Recounts
  <2> QED
    BY <1>0, <2>1, <2>3, <2>7, <2>8 DEF SleepersNotNeeded
<1>10. ASSUME DestroyStop \/ DestroyJoin
       PROVE  Len(tasks_') <= Cardinality(At(pc', "check"))
                                + Cardinality(At(pc', "notify"))
  <2>1. PICK from \in {"main", "join"}, place \in {"notify_all", "destroyed"} :
          /\ pc' = [pc EXCEPT ![Main] = place] /\ tasks_' = tasks_
          /\ pc[Main] = from /\ Main \in Threads
    BY <1>10 DEF DestroyStop, DestroyJoin, Threads
  <2>2. Recounts(pc, pc', from, place)
    BY <1>0, <2>1, AtMoves
  <2>3. /\ Cardinality(At(pc', "check")) = Cardinality(At(pc, "check"))
        /\ Cardinality(At(pc', "notify")) = Cardinality(At(pc, "notify"))
    <3>1. from # "check" /\ from # "notify" /\ place # "check" /\ place # "notify"
      OBVIOUS
    <3> QED
      BY <1>0, <2>2, <3>1 DEF Recounts
  <2>4. At(pc, "asleep") # {}
    BY <1>0, <2>1 DEF At
  <2> QED
    BY <1>0, <2>1, <2>3, <2>4 DEF SleepersNotNeeded
<1>11. ~DestroyNotify
  BY DEF DestroyNotify, At
<1>12. ASSUME NEW w \in Workers, WorkerSleep(w)
       PROVE  Len(tasks_') <= Cardinality(At(pc', "check"))
                                + Cardinality(At(pc', "notify"))
  <2>1. At(pc, "falling") # {} /\ tasks_' = tasks_
    BY <1>0, <1>12 DEF WorkerSleep, At, Threads
  <2> QED
    BY <1>4, <2>1
<1>13. CASE UNCHANGED vars
  BY <1>13 DEF vars, SleepersNotNeeded
<1> QED
  BY <1>3, <1>5, <1>6, <1>7, <1>8, <1>9, <1>10, <1>11, <1>12, <1>13
     DEF Next, WorkerStep, SubmitStep, Destroy, Destroyed

-----------------------------------------------------------------------------
(* The theorems *)

\* Every step keeps the invariant.
LEMMA PoolInvStep == PoolInv /\ [Next]_vars => PoolInv'
  BY ControlStep, TasksStep, SleepersStep DEF PoolInv, Control

\* The inductive invariant of thread_pool: where the threads and the tasks are,
\* who holds queue_mutex_, when a worker may exit and when one may sleep.
THEOREM PoolInvariance == Spec => []PoolInv
  BY PoolInvInit, PoolInvStep, PTL DEF Spec

\* Type correctness, for any number of workers and of tasks.
THEOREM PoolTypes == Spec => []TypeOK
<1>1. PoolInv => TypeOK
  BY DEF PoolInv
<1> QED
  BY <1>1, PoolInvariance, PTL

\* No task waits behind an idle worker, although notify_one is called outside
\* queue_mutex_ (lines 86-87).
THEOREM NoTaskWaits == Spec => []SleepersNotNeeded
<1>1. PoolInv => SleepersNotNeeded
  BY DEF PoolInv
<1> QED
  BY <1>1, PoolInvariance, PTL

\* "Graceful shutdown": when the destructor has returned, every accepted task has
\* run, once.
THEOREM GracefulShutdown == Spec => []NothingLeftBehind
<1>1. PoolInv => NothingLeftBehind
  <2> SUFFICES ASSUME PoolInv, pc[Main] = "destroyed"
               PROVE  /\ tasks_ = <<>>
                      /\ Len(ran) = Cardinality(accepted)
                      /\ accepted = {ran[i] : i \in 1..Len(ran)}
    BY DEF NothingLeftBehind
  <2> USE DEF PoolInv
  <2>1. \A w \in Workers : pc[w] = "exited"
    BY DEF StopOK
  <2>2. At(pc, "exited") # {}
    BY <2>1, PoolAssumption DEF At, TypeOK, Threads
  <2>3. tasks_ = <<>>
    BY <2>2 DEF StopOK
  <2>4. Busy = {}
    BY <2>1 DEF Busy, PlacesOK
  <2>5. Elements(tasks_) = {}
    BY <2>3 DEF Elements
  <2>6. accepted = Elements(ran)
    BY <2>4, <2>5 DEF TasksOK
  <2>7. Len(ran) = Cardinality(Elements(ran))
    BY ElementsCounted DEF TypeOK, TasksOK
  <2> QED
    BY <2>3, <2>6, <2>7 DEF Elements
<1> QED
  BY <1>1, PoolInvariance, PTL

-----------------------------------------------------------------------------
(* The class implements TaskPool *)

\* The accepted tasks are those in the queue, and the one of a submitter that has
\* read stop_ and not yet inserted it.
LEMMA AcceptedAre ==
    ASSUME Control
    PROVE  /\ At(pc, "insert") = {} => AcceptedTasks = tasks_
           /\ \A t \in Threads :
                pc[t] = "insert" => AcceptedTasks = Append(tasks_, offering[t])
<1>1. ASSUME NEW t \in Threads, pc[t] = "insert"
      PROVE  AcceptedTasks = Append(tasks_, offering[t])
  <2>1. At(pc, "insert") # {}
    BY <1>1 DEF At, Control, TypeOK
  <2>2. (CHOOSE u \in Threads : pc[u] = "insert") = t
    BY <1>1 DEF Control, MutexOK
  <2> QED
    BY <2>1, <2>2 DEF AcceptedTasks
<1> QED
  BY <1>1 DEF AcceptedTasks

\* The same after a step.
LEMMA AcceptedAreNext ==
    ASSUME Control'
    PROVE  /\ At(pc', "insert") = {} => AcceptedTasks' = tasks_'
           /\ \A t \in Threads :
                pc'[t] = "insert" => AcceptedTasks' = Append(tasks_', offering'[t])
<1>1. ASSUME NEW t \in Threads, pc'[t] = "insert"
      PROVE  AcceptedTasks' = Append(tasks_', offering'[t])
  <2>1. At(pc', "insert") # {}
    BY <1>1 DEF At, Control, TypeOK
  <2>2. (CHOOSE u \in Threads : pc'[u] = "insert") = t
    BY <1>1 DEF Control, MutexOK
  <2> QED
    BY <2>1, <2>2 DEF AcceptedTasks
<1> QED
  BY <1>1 DEF AcceptedTasks

\* Steps that concern no submitter between its check and its insertion.
LEMMA SameAccepted ==
    ASSUME Control, Control', tasks_' = tasks_, offering' = offering,
           \A t \in Threads : pc'[t] = "insert" <=> pc[t] = "insert"
    PROVE  AcceptedTasks' = AcceptedTasks
<1>1. CASE \E t \in Threads : pc[t] = "insert"
  BY <1>1, AcceptedAre, AcceptedAreNext
<1>2. CASE \A t \in Threads : pc[t] # "insert"
  <2>1. At(pc, "insert") = {} /\ At(pc', "insert") = {}
    BY <1>2 DEF At, Control, TypeOK
  <2> QED
    BY <2>1, AcceptedAre, AcceptedAreNext
<1> QED
  BY <1>1, <1>2

\* A worker that looks for a task has none: fewer tasks are being run than there
\* are workers.
LEMMA IdleWorker ==
    ASSUME Control, TasksOK, NEW w \in Workers, pc[w] = "check"
    PROVE  Cardinality(Busy) < Cardinality(Workers)
<1> DEFINE others == Workers \ {w}
           worker == [x \in Busy |-> CHOOSE v \in Workers : running[v] = x]
<1>1. /\ IsFiniteSet(others) /\ Cardinality(others) = Cardinality(Workers) - 1
      /\ Cardinality(Workers) \in Nat
  BY PoolAssumption, FS_RemoveElement, FS_CardinalityType
<1>2. running[w] = None
  BY DEF Control, PlacesOK
<1>3. \A x \in Busy : worker[x] \in others /\ running[worker[x]] = x
  <2> TAKE x \in Busy
  <2>1. PICK v \in Workers : running[v] = x /\ x # None
    BY DEF Busy
  <2>2. worker[x] \in Workers /\ running[worker[x]] = x
    BY <2>1
  <2> QED
    BY <1>2, <2>1, <2>2
<1>4. worker \in [Busy -> others]
  BY <1>3
<1>5. IsInjective(worker)
  BY <1>3 DEF IsInjective
<1>6. worker \in Injection(Busy, others)
  <2> HIDE DEF worker, others
  <2> QED
    BY <1>4, <1>5 DEF Injection
<1>7. IsFiniteSet(Busy) /\ Cardinality(Busy) <= Cardinality(others)
  <2> HIDE DEF worker, others
  <2> QED
    BY <1>1, <1>6, FS_Injection
<1>8. Cardinality(Busy) \in Nat
  BY <1>7, FS_CardinalityType
<1> QED
  BY <1>1, <1>7, <1>8

\* A worker that takes a task begins the oldest one, and one that has run its task
\* finishes it; nothing else a worker does is visible.
LEMMA WorkerRefines ==
    ASSUME PoolInv, PoolInv', NEW w \in Workers,
           WorkerStep(w) \/ WorkerWakesSpuriously(w)
    PROVE  [Abstract!Next]_Abstract!vars
<1> USE PoolAssumption DEF PoolInv, Control, Abstract!vars
<1>1. /\ Control /\ Control'
      /\ w # Main /\ w \in Threads /\ Main \in Threads
  BY DEF Threads
<1>2. pc'[Main] = pc[Main]
  BY <1>1 DEF WorkerStep, WorkerCheck, Exit, Take, WorkerSleep, WorkerRun,
              WorkerWakesSpuriously, TypeOK
<1>3. ASSUME WorkerCheck(w), Take(w)
      PROVE  Abstract!Begin
  <2>1. At(pc, "insert") = {} /\ At(pc', "insert") = {}
    BY <1>1, <1>3 DEF WorkerCheck, Take, MutexFree, At, TypeOK
  <2>2. AcceptedTasks = tasks_ /\ AcceptedTasks' = tasks_'
    BY <1>1, <2>1, AcceptedAre, AcceptedAreNext
  <2>3. Busy' = Busy \cup {Head(tasks_)}
    BY <1>1, <1>3, TakeTasks
  <2>4. Cardinality(Busy) < Cardinality(Workers)
    BY <1>1, <1>3, IdleWorker DEF WorkerCheck
  <2>5. Abstract!Cardinality(Busy) = Cardinality(Busy)
    BY DEF Abstract!Cardinality, Cardinality
  <2> QED
    BY <1>2, <1>3, <2>2, <2>3, <2>4, <2>5 DEF Abstract!Begin, WorkerCheck, Take, Busy
<1>4. ASSUME WorkerRun(w)
      PROVE  \E x \in Tasks : Abstract!Finish(x)
  <2>1. \A t \in Threads : pc'[t] = "insert" <=> pc[t] = "insert"
    BY <1>1, <1>4 DEF WorkerRun, TypeOK
  <2>2. AcceptedTasks' = AcceptedTasks
    BY <1>1, <1>4, <2>1, SameAccepted DEF WorkerRun
  <2>3. running[w] \in Busy /\ Busy' = Busy \ {running[w]} /\ running[w] \in Tasks
    <3>1. Busy \subseteq Tasks
      BY DEF TypeOK, Busy
    <3> HIDE DEF PoolInv, Control
    <3>2. Control /\ TasksOK
      BY <1>1 DEF PoolInv
    <3>3. running[w] \in Busy /\ Busy' = Busy \ {running[w]}
      BY <1>4, <3>2, RunTasks
    <3> QED
      BY <3>1, <3>3
  <2>4. PICK x \in Tasks : x = running[w]
    BY <2>3
  <2>5. Abstract!Finish(x)
    BY <1>2, <1>4, <2>2, <2>3, <2>4 DEF Abstract!Finish, WorkerRun, Busy
  <2> QED
    BY <2>5
<1>5. ASSUME \/ WorkerCheck(w) /\ ~Take(w)
             \/ WorkerSleep(w)
             \/ WorkerWakesSpuriously(w)
      PROVE  UNCHANGED Abstract!vars
  <2>1. \A t \in Threads : pc'[t] = "insert" <=> pc[t] = "insert"
    BY <1>1, <1>5 DEF WorkerCheck, Exit, WorkerSleep, WorkerWakesSpuriously, TypeOK
  <2>2. UNCHANGED <<tasks_, stop_, running, offering, rejected, ran>>
    BY <1>5 DEF WorkerCheck, Exit, WorkerSleep, WorkerWakesSpuriously
  <2>3. AcceptedTasks' = AcceptedTasks
    BY <1>1, <2>1, <2>2, SameAccepted
  <2> QED
    BY <1>2, <2>2, <2>3
<1>6. CASE WorkerCheck(w) /\ Take(w)
  BY <1>3, <1>6 DEF Abstract!Next
<1>7. CASE WorkerRun(w)
  BY <1>4, <1>7 DEF Abstract!Next
<1>8. CASE \/ WorkerCheck(w) /\ ~Take(w)
           \/ WorkerSleep(w)
           \/ WorkerWakesSpuriously(w)
  BY <1>5, <1>8
<1> QED
  BY <1>6, <1>7, <1>8 DEF WorkerStep

\* submit is decided when it reads stop_: it refuses or accepts there, and its
\* insertion and notification are not visible.
LEMMA SubmitRefines ==
    ASSUME PoolInv, PoolInv', NEW t \in Threads, SubmitCheck(t) \/ SubmitStep(t)
    PROVE  [Abstract!Next]_Abstract!vars
<1> USE PoolAssumption DEF PoolInv, Control, Abstract!vars
<1>1. Control /\ Control' /\ Main \in Threads
  BY DEF Threads
<1>2. pc'[Main] = "destroyed" <=> pc[Main] = "destroyed"
  <2>1. CASE SubmitCheck(t)
    BY <1>1, <2>1 DEF SubmitCheck, Home, TypeOK
  <2>2. CASE SubmitInsert(t)
    BY <1>1, <2>2 DEF SubmitInsert, TypeOK
  <2>3. CASE SubmitNotify(t)
    BY <1>1, <2>3 DEF SubmitNotify, Home, TypeOK, Asleep
  <2> QED
    BY <2>1, <2>2, <2>3 DEF SubmitStep
<1>3. UNCHANGED <<stop_, running, ran>>
  BY DEF SubmitCheck, SubmitStep, SubmitInsert, SubmitNotify
<1>4. ASSUME SubmitCheck(t)
      PROVE  Abstract!Next
  <2>1. PICK x \in Tasks :
          IF stop_
          THEN rejected' = rejected \cup {x} /\ UNCHANGED <<pc, offering>>
          ELSE /\ pc' = [pc EXCEPT ![t] = "insert"]
               /\ offering' = [offering EXCEPT ![t] = x]
               /\ UNCHANGED rejected
    BY <1>4 DEF SubmitCheck, Fresh
  <2>2. tasks_' = tasks_ /\ At(pc, "insert") = {}
    BY <1>4 DEF SubmitCheck, MutexFree
  <2>3. AcceptedTasks = tasks_
    BY <1>1, <2>2, AcceptedAre
  <2>4. CASE stop_
    <3>1. AcceptedTasks' = tasks_'
      BY <1>1, <2>1, <2>2, <2>4, AcceptedAreNext
    <3>2. Abstract!Refuse(x)
      BY <1>2, <1>3, <2>1, <2>2, <2>3, <2>4, <3>1 DEF Abstract!Refuse
    <3> QED
      BY <3>2 DEF Abstract!Next
  <2>5. CASE ~stop_
    <3>1. pc'[t] = "insert" /\ offering'[t] = x
      BY <2>1, <2>5 DEF TypeOK
    <3>2. AcceptedTasks' = Append(tasks_, x)
      BY <1>1, <2>2, <3>1, AcceptedAreNext
    <3>3. Abstract!Accept(x)
      BY <1>2, <1>3, <2>1, <2>3, <2>5, <3>2 DEF Abstract!Accept
    <3> QED
      BY <3>3 DEF Abstract!Next
  <2> QED
    BY <2>4, <2>5
<1>5. ASSUME SubmitInsert(t)
      PROVE  UNCHANGED Abstract!vars
  <2>1. AcceptedTasks = Append(tasks_, offering[t])
    BY <1>1, <1>5, AcceptedAre DEF SubmitInsert
  <2>2. At(pc', "insert") = {}
    BY <1>5 DEF SubmitInsert, At, TypeOK, MutexOK
  <2>3. AcceptedTasks' = tasks_'
    BY <1>1, <2>2, AcceptedAreNext
  <2> QED
    BY <1>2, <1>3, <1>5, <2>1, <2>3 DEF SubmitInsert
<1>6. ASSUME SubmitNotify(t)
      PROVE  UNCHANGED Abstract!vars
  <2>1. \A u \in Threads : pc'[u] = "insert" <=> pc[u] = "insert"
    BY <1>6 DEF SubmitNotify, Home, Asleep, TypeOK
  <2>2. UNCHANGED <<tasks_, offering, rejected>>
    BY <1>6 DEF SubmitNotify
  <2>3. AcceptedTasks' = AcceptedTasks
    BY <1>1, <2>1, <2>2, SameAccepted
  <2> QED
    BY <1>2, <1>3, <2>2, <2>3
<1> QED
  BY <1>4, <1>5, <1>6 DEF SubmitStep

\* The destructor stops the pool, and returns when everything has been run.
LEMMA DestructorRefines ==
    ASSUME PoolInv, PoolInv', DestroyStop \/ Destroy
    PROVE  [Abstract!Next]_Abstract!vars
<1> USE PoolAssumption DEF PoolInv, Control, Abstract!vars
<1>1. Control /\ Control' /\ Main \in Threads
  BY DEF Threads
<1>2. \A t \in Threads : pc'[t] = "insert" <=> pc[t] = "insert"
  BY <1>1 DEF DestroyStop, Destroy, DestroyNotify, DestroyJoin, TypeOK
<1>3. UNCHANGED <<tasks_, running, offering, rejected, ran>>
  BY DEF DestroyStop, Destroy, DestroyNotify, DestroyJoin
<1>4. AcceptedTasks' = AcceptedTasks
  BY <1>1, <1>2, <1>3, SameAccepted
<1>5. ASSUME DestroyStop
      PROVE  Abstract!Stop
  <2>1. ~stop_ /\ stop_' = TRUE
    BY <1>5 DEF DestroyStop, StopOK
  <2>2. pc[Main] # "destroyed" /\ pc'[Main] # "destroyed"
    BY <1>1, <1>5 DEF DestroyStop, TypeOK
  <2> QED
    BY <1>3, <1>4, <2>1, <2>2 DEF Abstract!Stop
<1>6. ASSUME DestroyNotify
      PROVE  UNCHANGED Abstract!vars
  <2>1. stop_' = stop_ /\ pc[Main] # "destroyed" /\ pc'[Main] # "destroyed"
    BY <1>1, <1>6 DEF DestroyNotify
  <2> QED
    BY <1>3, <1>4, <2>1
<1>7. ASSUME DestroyJoin
      PROVE  Abstract!Return
  <2>1. stop_ /\ stop_' = stop_ /\ pc'[Main] = "destroyed"
    BY <1>1, <1>7 DEF DestroyJoin, StopOK, TypeOK
  <2>2. \A w \in Workers : pc[w] = "exited" /\ w \in Threads
    BY <1>7 DEF DestroyJoin, Threads
  <2>3. At(pc, "exited") # {}
    BY <2>2 DEF At, TypeOK
  <2>4. tasks_ = <<>> /\ At(pc, "insert") = {}
    BY <2>3 DEF StopOK
  <2>5. AcceptedTasks = <<>>
    BY <1>1, <2>4, AcceptedAre
  <2>6. Busy = {}
    BY <2>2 DEF Busy, PlacesOK
  <2> QED
    BY <1>3, <1>4, <2>1, <2>5, <2>6 DEF Abstract!Return, Busy
<1> QED
  BY <1>5, <1>6, <1>7 DEF Destroy, Abstract!Next

\* The class implements TaskPool: tasks are begun in the order in which submit
\* accepted them, at most one for each worker at a time, each is run once, none is
\* accepted after the pool was stopped, and none is left when it is destroyed.
THEOREM PoolRefinement == Spec => ImplementsTaskPool
<1>1. Init => Abstract!Init
  <2> SUFFICES ASSUME Init
               PROVE  Abstract!Init
    OBVIOUS
  <2>1. At(pc, "insert") = {}
    BY DEF Init, At, Threads
  <2>2. {running[w] : w \in Workers} \ {None} = {}
    BY DEF Init
  <2> QED
    BY <2>1, <2>2 DEF Init, Abstract!Init, AcceptedTasks, Threads
<1>2. PoolInv /\ PoolInv' /\ [Next]_vars => [Abstract!Next]_Abstract!vars
  <2> SUFFICES ASSUME PoolInv, PoolInv', [Next]_vars
               PROVE  [Abstract!Next]_Abstract!vars
    OBVIOUS
  <2>1. CASE UNCHANGED vars
    BY <2>1 DEF vars, Abstract!vars, AcceptedTasks
  <2> QED
    BY <2>1, WorkerRefines, SubmitRefines, DestructorRefines DEF Next, Destroyed
<1> QED
  BY <1>1, <1>2, PoolInvariance, PTL DEF Spec, ImplementsTaskPool, Abstract!Spec

-----------------------------------------------------------------------------
(* Who can be stuck *)

\* A thread can go on: the guards of the actions of ThreadPool, without spurious
\* wake-ups, and without a first step of submit or of the destructor, which nobody
\* is obliged to call.
ThreadMoves(t) == \/ pc[t] = "check" /\ MutexFree
                  \/ pc[t] \in {"falling", "run", "insert", "notify", "notify_all"}
                  \/ pc[t] = "join" /\ \A w \in Workers : pc[w] = "exited"

\* When no thread can go on every worker is asleep or has returned, and nothing
\* is left to do: a sleeper is not needed, and a worker that returned left nothing.
LEMMA AllAsleep ==
    ASSUME PoolInv, \A t \in Threads : ~ThreadMoves(t)
    PROVE  /\ \A w \in Workers : pc[w] \in {"asleep", "exited"}
           /\ tasks_ = <<>> /\ accepted = Elements(ran)
           /\ \/ pc[Main] \in {"main", "destroyed"}
              \/ pc[Main] = "join" /\ \E w \in Workers : pc[w] = "asleep"
<1>1. TypeOK /\ PlacesOK /\ StopOK /\ TasksOK /\ SleepersNotNeeded
  BY DEF PoolInv
<1>2. Workers \subseteq Threads /\ Main \in Threads /\ Workers # {} /\ DOMAIN pc = Threads
  BY <1>1, PoolAssumption DEF Threads, TypeOK
<1>3. MutexFree
  BY <1>2 DEF MutexFree, At, ThreadMoves
<1>4. \A w \in Workers : pc[w] \in {"asleep", "exited"}
  BY <1>1, <1>2, <1>3 DEF PlacesOK, ThreadMoves
<1>5. pc[Main] \in {"main", "join", "destroyed"}
  BY <1>1, <1>2 DEF PlacesOK, ThreadMoves
<1>6. At(pc, "check") = {} /\ At(pc, "notify") = {}
  BY <1>2, <1>4, <1>5 DEF At, Threads
<1>7. tasks_ = <<>>
  <2>1. CASE At(pc, "asleep") # {}
    <3>1. Len(tasks_) <= 0 + 0
      BY <1>1, <1>6, <2>1, FS_EmptySet DEF SleepersNotNeeded
    <3> QED
      BY <1>1, <3>1 DEF TypeOK
  <2>2. CASE At(pc, "asleep") = {}
    <3>1. PICK w \in Workers : pc[w] = "exited"
      BY <1>2, <1>4, <2>2 DEF At
    <3>2. At(pc, "exited") # {}
      BY <1>2, <3>1 DEF At
    <3> QED
      BY <1>1, <3>2 DEF StopOK
  <2> QED
    BY <2>1, <2>2
<1>8. Busy = {}
  <2>1. \A w \in Workers : running[w] = None
    BY <1>1, <1>4 DEF PlacesOK
  <2> QED
    BY <2>1 DEF Busy
<1>9. Elements(tasks_) = {}
  BY <1>7 DEF Elements
<1>10. accepted = Elements(ran)
  BY <1>1, <1>8, <1>9 DEF TasksOK
<1>11. pc[Main] = "join" => \E w \in Workers : pc[w] = "asleep"
  BY <1>2, <1>4 DEF ThreadMoves
<1> QED
  BY <1>4, <1>5, <1>7, <1>10, <1>11

\* Threads are stuck only when every accepted task has run, and then only workers
\* that sleep, with the destructor that joins them if it has been called: what the
\* notification of line 63 can miss is a worker that has nothing to do.  A task that
\* was accepted is never left behind, not even by a destructor that hangs.
THEOREM StuckOnlyIdle ==
    Spec => [](\/ \E t \in Threads : ThreadMoves(t)
               \/ /\ \A w \in Workers : pc[w] \in {"asleep", "exited"}
                  /\ tasks_ = <<>> /\ accepted = Elements(ran)
                  /\ \/ pc[Main] \in {"main", "destroyed"}
                     \/ pc[Main] = "join" /\ \E w \in Workers : pc[w] = "asleep")
<1>1. PoolInv => \/ \E t \in Threads : ThreadMoves(t)
                 \/ /\ \A w \in Workers : pc[w] \in {"asleep", "exited"}
                    /\ tasks_ = <<>> /\ accepted = Elements(ran)
                    /\ \/ pc[Main] \in {"main", "destroyed"}
                       \/ pc[Main] = "join" /\ \E w \in Workers : pc[w] = "asleep"
  BY AllAsleep
<1> QED
  BY <1>1, PoolInvariance, PTL
=============================================================================
