----------------------- MODULE ContentionWindowProofs -----------------------
(***************************************************************************)
(* Theorems about ContentionWindow for any number of threads and of cores: *)
(* the lock excludes, no operation is lost, threads are pinned evenly.     *)
(***************************************************************************)
EXTENDS ContentionWindow, ThreadCounting

-----------------------------------------------------------------------------
(* The inductive invariant *)

\* A thread within an operation has still to count it.
OpsBounded == \A t \in Workers :
                pc[t] \in {"enter", "read", "write", "unlock", "count"} => counts[t] < MaxOps

\* One thread at most is between test_and_set and clear, and the flag says so.
HolderAlone == /\ \A t, u \in Holders : t = u
               /\ flag <=> Holders # {}
               /\ callable = "atomic" => Holders = {}

\* What the holder has read is still the value of the counter when it writes.
ReadIsCurrent == \A t \in Workers : pc[t] = "write" => seen[t] = counter

\* Increments that were made are counted, or about to be counted.
Uncounted == Cardinality(At(pc, "unlock")) + Cardinality(At(pc, "count"))

NoneLost == counter = SumFunction(counts) + Uncounted

\* Each thread has gone to its core, if threads can be pinned.
PinsMade == \A t \in Workers :
              core[t] = IF pc[t] # "spawned" /\ machine.pins THEN CoreOf(t) ELSE Anywhere

Reported == main = "returned" => /\ \A t \in Workers : pc[t] = "out"
                                 /\ ops = SumFunction(counts)

WindowInv == /\ TypeOK
             /\ OpsBounded /\ HolderAlone /\ ReadIsCurrent
             /\ NoneLost /\ PinsMade /\ Reported

-----------------------------------------------------------------------------
(* Facts about the constants and the counts *)

\* The workers are finitely many; there is at least one core.
LEMMA Setting ==
    /\ IsFiniteSet(Workers) /\ Workers \subseteq Nat
    /\ machine \in Machines => /\ get_num_logical_cores \in Nat
                               /\ get_num_logical_cores > 0
                               /\ \A t \in Workers : CoreOf(t) \in get_available_cores
<1>1. IsFiniteSet(Workers) /\ Workers \subseteq Nat
  BY FS_Interval, WindowAssumption DEF Workers
<1>2. ASSUME machine \in Machines
      PROVE  /\ get_num_logical_cores \in Nat /\ get_num_logical_cores > 0
             /\ \A t \in Workers : CoreOf(t) \in get_available_cores
  <2>1. get_num_logical_cores \in Nat /\ get_num_logical_cores > 0
    BY <1>2, WindowAssumption DEF get_num_logical_cores
  <2> DEFINE m == get_num_logical_cores
  <2>2. \A k \in Nat : k % m \in 0..(m - 1)
    <3>1. m \in Int /\ m > 0
      BY <2>1
    <3> HIDE DEF m
    <3> QED
      BY <3>1
  <2> QED
    BY <1>1, <2>1, <2>2 DEF CoreOf, get_available_cores
<1> QED
  BY <1>1, <1>2

\* What is about to be counted, when a thread moves.
LEMMA UncountedMoves ==
    ASSUME TypeOK, NEW t \in Workers, NEW place, Go(t, place)
    PROVE  /\ Uncounted \in Nat
           /\ Uncounted' = Uncounted + (IF place \in {"unlock", "count"} THEN 1 ELSE 0)
                                     - (IF pc[t] \in {"unlock", "count"} THEN 1 ELSE 0)
<1>1. DOMAIN pc = Workers /\ pc' = [pc EXCEPT ![t] = place]
  BY DEF TypeOK, Go
<1>2. Recounts(pc, pc', pc[t], place)
  BY <1>1, Setting, AtMoves
<1>3. \A p : Cardinality(At(pc, p)) \in Nat
  BY <1>1, Setting, AtFinite
<1> QED
  BY <1>2, <1>3 DEF Recounts, Uncounted

-----------------------------------------------------------------------------
(* The invariant holds at first *)

\* Nobody has counted, nobody is pinned and nobody is inside.
LEMMA WindowInvInit == Init => WindowInv
<1> SUFFICES ASSUME Init
             PROVE  WindowInv
  OBVIOUS
<1> USE WindowAssumption DEF Init
<1>1. TypeOK
  <2>1. core \in [Workers -> get_available_cores \cup {Anywhere}]
    OBVIOUS
  <2>2. counts \in [Workers -> 0..MaxOps] /\ seen \in [Workers -> Nat]
    BY DEF Zero
  <2> QED
    BY <2>1, <2>2 DEF TypeOK
<1>2. Holders = {} /\ OpsBounded /\ HolderAlone /\ ReadIsCurrent /\ PinsMade /\ Reported
  BY DEF Holders, OpsBounded, HolderAlone, ReadIsCurrent, PinsMade, Reported
<1>3. SumFunction(counts) = 0
  <2>1. SumFunction(counts) = Cardinality(Workers) * 0 /\ Cardinality(Workers) \in Nat
    BY Setting, SumConstant, FS_CardinalityType DEF Zero
  <2> QED
    BY <2>1
<1>4. At(pc, "unlock") = {} /\ At(pc, "count") = {}
  BY DEF At
<1>5. NoneLost
  <2>1. Uncounted = 0
    BY <1>4, FS_EmptySet DEF Uncounted
  <2> QED
    BY <1>3, <2>1 DEF NoneLost
<1> QED
  BY <1>1, <1>2, <1>5 DEF WindowInv

-----------------------------------------------------------------------------
(* Every step keeps it *)

\* The types.
LEMMA WindowTypeStep ==
    ASSUME WindowInv, NEW t \in Workers, WorkerStep(t)
    PROVE  TypeOK' /\ OpsBounded'
<1> USE WindowAssumption DEF WindowInv, TypeOK, OpsBounded, Go, setting, data
<1>1. CASE Pin(t)
  <2>1. CoreOf(t) \in get_available_cores
    BY Setting
  <2>2. machine' = machine /\ get_available_cores' = get_available_cores
    BY <1>1 DEF Pin, get_available_cores, get_num_logical_cores
  <2>3. core' \in [Workers -> get_available_cores \cup {Anywhere}]
    BY <1>1, <2>1 DEF Pin
  <2> QED
    BY <1>1, <2>2, <2>3 DEF Pin
<1>2. CASE WaitStart(t) \/ TestStop(t)
  BY <1>2 DEF WaitStart, TestStop, get_available_cores, get_num_logical_cores
<1>3. CASE Lock(t) \/ TryLock(t)
  BY <1>3 DEF Lock, TryLock, get_available_cores, get_num_logical_cores
<1>4. CASE Read(t)
  BY <1>4 DEF Read, get_available_cores, get_num_logical_cores
<1>5. CASE Write(t)
  BY <1>5 DEF Write, get_available_cores, get_num_logical_cores
<1>6. CASE Unlock(t)
  BY <1>6 DEF Unlock, get_available_cores, get_num_logical_cores
<1>7. CASE FetchAdd(t)
  BY <1>7 DEF FetchAdd, get_available_cores, get_num_logical_cores
<1>8. CASE Count(t)
  BY <1>8 DEF Count, get_available_cores, get_num_logical_cores
<1> QED
  BY <1>1, <1>2, <1>3, <1>4, <1>5, <1>6, <1>7, <1>8 DEF WorkerStep

\* The lock: it is taken when nobody holds it, and only the holder clears it.
LEMMA HolderStep ==
    ASSUME WindowInv, NEW t \in Workers, WorkerStep(t)
    PROVE  HolderAlone' /\ ReadIsCurrent'
<1> USE DEF WindowInv, TypeOK, HolderAlone, ReadIsCurrent, Holders, Go, setting, data
<1>1. CASE Pin(t) \/ WaitStart(t) \/ TestStop(t) \/ Count(t)
  BY <1>1 DEF Pin, WaitStart, TestStop, Count
<1>2. CASE Lock(t)
  BY <1>2 DEF Lock
<1>3. CASE TryLock(t)
  BY <1>3 DEF TryLock
<1>4. CASE Read(t)
  BY <1>4 DEF Read
<1>5. CASE Write(t)
  BY <1>5 DEF Write
<1>6. CASE Unlock(t)
  BY <1>6 DEF Unlock
<1>7. CASE FetchAdd(t)
  BY <1>7 DEF FetchAdd
<1> QED
  BY <1>1, <1>2, <1>3, <1>4, <1>5, <1>6, <1>7 DEF WorkerStep

\* The counts: what the holder or fetch_add adds to the counter is uncounted until
\* the thread adds it to its own count.
LEMMA NoneLostStep ==
    ASSUME WindowInv, NEW t \in Workers, WorkerStep(t)
    PROVE  NoneLost'
<1> USE DEF WindowInv, TypeOK
<1>1. \A place : Go(t, place) =>
        Uncounted' = Uncounted + (IF place \in {"unlock", "count"} THEN 1 ELSE 0)
                               - (IF pc[t] \in {"unlock", "count"} THEN 1 ELSE 0)
  BY UncountedMoves
<1>2. Uncounted \in Nat
  <2>1. DOMAIN pc = Workers
    OBVIOUS
  <2> QED
    BY <2>1, Setting, AtFinite DEF Uncounted
<1>3. counts \in [Workers -> Nat] /\ counts \in [Workers -> Int]
  BY WindowAssumption
<1>4. SumFunction(counts) \in Nat
  BY <1>3, Setting, SumType
<1>5. CASE Pin(t) \/ WaitStart(t) \/ TestStop(t) \/ Lock(t) \/ TryLock(t) \/ Read(t)
  <2>1. /\ counter' = counter /\ counts' = counts
        /\ \E place \in {"wait", "test", "out", "enter", "read", "write"} : Go(t, place)
        /\ pc[t] \notin {"unlock", "count"}
    BY <1>5 DEF Pin, WaitStart, TestStop, Lock, TryLock, Read
  <2>2. Uncounted' = Uncounted
    BY <1>1, <1>2, <2>1
  <2> QED
    BY <2>1, <2>2 DEF NoneLost
<1>6. CASE Write(t) \/ FetchAdd(t)
  <2>1. /\ counter' = counter + 1 /\ counts' = counts
        /\ \E place \in {"unlock", "count"} : Go(t, place)
        /\ pc[t] \notin {"unlock", "count"}
    BY <1>6 DEF Write, FetchAdd, ReadIsCurrent
  <2>2. Uncounted' = Uncounted + 1
    BY <1>1, <1>2, <2>1
  <2> QED
    BY <1>2, <1>4, <2>1, <2>2 DEF NoneLost
<1>7. CASE Unlock(t)
  <2>1. counter' = counter /\ counts' = counts /\ Go(t, "count") /\ pc[t] = "unlock"
    BY <1>7 DEF Unlock
  <2>2. Uncounted' = Uncounted
    BY <1>1, <1>2, <2>1
  <2> QED
    BY <2>1, <2>2 DEF NoneLost
<1>8. CASE Count(t)
  <2>1. /\ counter' = counter /\ Go(t, "test") /\ pc[t] = "count"
        /\ counts' = [counts EXCEPT ![t] = counts[t] + 1] /\ counts[t] \in Nat
    BY <1>3, <1>8 DEF Count
  <2>2. Uncounted' = Uncounted - 1
    BY <1>1, <1>2, <2>1
  <2>3. SumFunction(counts') = SumFunction(counts) + (counts[t] + 1) - counts[t]
    <3>1. counts[t] + 1 \in Int
      BY <2>1
    <3>2. IsFiniteSet(Workers)
      BY Setting
    <3> HIDE DEF WindowInv
    <3> QED
      BY <1>3, <2>1, <3>1, <3>2, SumChanges
  <2> QED
    BY <1>2, <1>4, <2>1, <2>2, <2>3 DEF NoneLost
<1> QED
  BY <1>5, <1>6, <1>7, <1>8 DEF WorkerStep

\* The places of the workers.
LEMMA PinsStep ==
    ASSUME WindowInv, NEW t \in Workers, WorkerStep(t)
    PROVE  PinsMade' /\ Reported'
<1> USE DEF WindowInv, TypeOK, Go, setting, data
<1>1. /\ machine' = machine /\ main' = main /\ ops' = ops
      /\ pc[t] \notin {"out"}
      /\ pc'[t] # "spawned"
      /\ \A u \in Workers \ {t} : pc'[u] = pc[u]
  BY DEF WorkerStep, Pin, WaitStart, TestStop, Lock, TryLock, Read, Write, Unlock, FetchAdd, Count
<1>2. Reported'
  <2>1. main # "returned"
    BY <1>1 DEF Reported
  <2> QED
    BY <1>1, <2>1 DEF Reported
<1>3. \A u \in Workers : CoreOf(u)' = CoreOf(u)
  BY <1>1 DEF CoreOf, get_num_logical_cores
<1>4. CASE Pin(t)
  <2>1. core' = [core EXCEPT ![t] = IF machine.pins THEN CoreOf(t) ELSE Anywhere]
    BY <1>4 DEF Pin
  <2> QED
    BY <1>1, <1>2, <1>3, <2>1 DEF PinsMade
<1>5. CASE ~Pin(t)
  <2>1. core' = core /\ pc[t] # "spawned"
    BY <1>5 DEF WorkerStep, WaitStart, TestStop, Lock, TryLock, Read, Write, Unlock, FetchAdd, Count
  <2> QED
    BY <1>1, <1>2, <1>3, <2>1 DEF PinsMade
<1> QED
  BY <1>4, <1>5

\* The caller changes nothing that the workers count; the result is their sum.
LEMMA MainStepKeeps ==
    ASSUME WindowInv, MainStep
    PROVE  WindowInv'
<1> USE WindowAssumption DEF setting
<1>1. /\ machine' = machine /\ callable' = callable /\ core' = core
      /\ flag' = flag /\ counter' = counter /\ counts' = counts /\ pc' = pc /\ seen' = seen
  BY DEF MainStep, MainStart, MainStop, MainResult
<1>2. /\ OpsBounded' /\ HolderAlone' /\ ReadIsCurrent' /\ NoneLost' /\ PinsMade'
      /\ get_available_cores' = get_available_cores
  BY <1>1 DEF WindowInv, OpsBounded, HolderAlone, Holders, ReadIsCurrent, NoneLost, Uncounted,
              PinsMade, CoreOf, get_available_cores, get_num_logical_cores
<1>3. SumFunction(counts) \in Nat
  <2>1. counts \in [Workers -> Nat] /\ counts \in [Workers -> Int]
    BY DEF WindowInv, TypeOK
  <2> QED
    BY <2>1, Setting, SumType
<1>4. ops' \in Nat /\ start' \in BOOLEAN /\ stop' \in BOOLEAN
      /\ main' \in {"spawned", "sleeping", "joining", "returned"}
  BY <1>3 DEF MainStep, MainStart, MainStop, MainResult, WindowInv, TypeOK
<1>5. TypeOK'
  BY <1>1, <1>2, <1>4 DEF WindowInv, TypeOK
<1>6. Reported'
  BY <1>1 DEF MainStep, MainStart, MainStop, MainResult, Reported
<1> QED
  BY <1>2, <1>5, <1>6 DEF WindowInv

\* Every step keeps the invariant.
LEMMA WindowInvStep == WindowInv /\ [Next]_vars => WindowInv'
<1> SUFFICES ASSUME WindowInv, [Next]_vars
             PROVE  WindowInv'
  OBVIOUS
<1>1. ASSUME NEW t \in Workers, WorkerStep(t)
      PROVE  WindowInv'
  BY <1>1, WindowTypeStep, HolderStep, NoneLostStep, PinsStep DEF WindowInv
<1>2. CASE UNCHANGED vars
  BY <1>2 DEF vars, WindowInv, TypeOK, OpsBounded, HolderAlone, Holders, ReadIsCurrent, NoneLost,
              Uncounted, PinsMade, CoreOf, Reported, get_available_cores, get_num_logical_cores
<1> QED
  BY <1>1, <1>2, MainStepKeeps DEF Next, Returned

\* The inductive invariant of the contention window.
THEOREM WindowInvariance == Spec => []WindowInv
  BY WindowInvInit, WindowInvStep, PTL DEF Spec

-----------------------------------------------------------------------------
(* What follows from it *)

\* The lock excludes, by lock() and by try_lock(), and its flag is set exactly
\* while somebody is inside (spinlock.hpp lines 19-39).
THEOREM Exclusion == Spec => []LockExcludes
<1>1. WindowInv => LockExcludes
  <2> SUFFICES ASSUME WindowInv
               PROVE  LockExcludes
    OBVIOUS
  <2>1. HolderAlone
    BY DEF WindowInv
  <2>2. CASE Holders = {}
    BY <2>1, <2>2, FS_EmptySet DEF HolderAlone, LockExcludes
  <2>3. CASE Holders # {}
    <3>1. PICK t \in Holders : Holders = {t}
      BY <2>1, <2>3 DEF HolderAlone
    <3>2. Cardinality(Holders) = 1
      BY <3>1, FS_Singleton
    <3> QED
      BY <2>1, <3>2 DEF HolderAlone, LockExcludes
  <2> QED
    BY <2>2, <2>3
<1> QED
  BY <1>1, WindowInvariance, PTL

\* "window ops should match the shared counter" (bench_counter_mutex.cpp:38): the
\* operations that the window reports are the increments that were made.
THEOREM NoOperationLost == Spec => []OpsMatchCounter
<1>1. WindowInv => OpsMatchCounter
  <2> SUFFICES ASSUME WindowInv, main = "returned"
               PROVE  ops = counter
    BY DEF OpsMatchCounter
  <2>1. At(pc, "unlock") = {} /\ At(pc, "count") = {} /\ ops = SumFunction(counts)
    BY DEF WindowInv, TypeOK, Reported, At
  <2>2. Uncounted = 0
    BY <2>1, FS_EmptySet DEF Uncounted
  <2>3. SumFunction(counts) \in Nat
    <3>1. counts \in [Workers -> Nat] /\ counts \in [Workers -> Int]
      BY WindowAssumption DEF WindowInv, TypeOK
    <3> QED
      BY <3>1, Setting, SumType
  <2> QED
    BY <2>1, <2>2, <2>3 DEF WindowInv, NoneLost
<1> QED
  BY <1>1, WindowInvariance, PTL

-----------------------------------------------------------------------------
(* Pinning: thread t goes to core (t + 1) % m *)

\* Division with remainder: one way to write a number by quotient and remainder.
LEMMA Division ==
    ASSUME NEW m \in Int, m > 0, NEW k \in Nat
    PROVE  /\ k \div m \in Nat /\ k % m \in 0..(m - 1)
           /\ k = m * (k \div m) + (k % m)
  OBVIOUS

\* A number that is written so has that remainder.
LEMMA Remainder ==
    ASSUME NEW m \in Nat \ {0}, NEW q \in Nat, NEW r \in 0..(m - 1)
    PROVE  (m * q + r) % m = r
  OBVIOUS

\* A positive multiple of m can be shifted down to a number with remainder c.
LEMMA ShiftUp ==
    ASSUME NEW m \in Nat \ {0}, NEW k \in Nat, k > 0, k % m = 0, NEW c \in 1..(m - 1)
    PROVE  k >= m /\ \E v \in Nat : v + m = k + c /\ v % m = c
<1> DEFINE q == k \div m
           p == q - 1
<1>1. q \in Nat /\ k = m * q
  BY Division
<1> HIDE DEF q
<1>2. q >= 1 /\ k >= m
  BY <1>1
<1>3. p \in Nat /\ m * p + c \in Nat /\ (m * p + c) + m = k + c /\ c \in 0..(m - 1)
  BY <1>1, <1>2
<1> HIDE DEF p
<1>4. (m * p + c) % m = c
  BY <1>3, Remainder, Zenon
<1> QED
  BY <1>2, <1>3, <1>4

\* A number with remainder c can be shifted down to a multiple of m, or to 0.
LEMMA ShiftDown ==
    ASSUME NEW m \in Nat \ {0}, NEW k \in Nat, NEW c \in 1..(m - 1), k % m = c
    PROVE  k >= c /\ (k - c) % m = 0
<1> DEFINE q == k \div m
<1>1. q \in Nat /\ k = m * q + c
  BY Division
<1> HIDE DEF q
<1>2. k - c = m * q + 0 /\ m * q >= 0
  BY <1>1
<1>3. (m * q + 0) % m = 0
  BY <1>1, Remainder
<1> QED
  BY <1>1, <1>2, <1>3

\* "Leave core 0 freer for the main / OS threads when possible" (line 34): however
\* many threads and cores there are, pinned threads are spread evenly and no core
\* has fewer of them than core 0.
THEOREM EvenPinning == Spec => []PinnedEvenly
<1>1. WindowInv => PinnedEvenly
  <2> SUFFICES ASSUME WindowInv, At(pc, "spawned") = {}, machine.pins,
                      NEW c \in get_available_cores
               PROVE  LET Load(d) == Cardinality({t \in Workers : core[t] = d})
                      IN  Load(0) <= Load(c) /\ Load(c) <= Load(0) + 1
    BY DEF PinnedEvenly
  <2> DEFINE m == get_num_logical_cores
             On(d) == {t \in Workers : core[t] = d}
  <2>1. m \in Nat \ {0} /\ c \in 0..(m - 1)
    BY Setting DEF WindowInv, TypeOK, get_available_cores
  <2>2. \A t \in Workers : core[t] = (t + 1) % m
    BY DEF WindowInv, TypeOK, PinsMade, CoreOf, At
  <2>3. Workers = 0..(NumThreads - 1) /\ NumThreads \in Nat
    BY WindowAssumption DEF Workers
  <2>4. /\ IsFiniteSet(On(0)) /\ IsFiniteSet(On(c))
        /\ Cardinality(On(0)) \in Nat /\ Cardinality(On(c)) \in Nat
    BY Setting, FS_Subset, FS_CardinalityType
  <2> HIDE DEF m
  <2>5. CASE c = 0
    BY <2>4, <2>5
  <2>6. CASE c # 0
    <3>1. c \in 1..(m - 1)
      BY <2>1, <2>6
    <3>2. Cardinality(On(0)) <= Cardinality(On(c))
      <4> DEFINE f == [t \in On(0) |-> (t + 1) - m + c - 1]
      <4>1. ASSUME NEW t \in On(0)
            PROVE  (t + 1) - m + c - 1 \in On(c)
        <5>1. t \in Nat /\ t < NumThreads /\ (t + 1) % m = 0 /\ t + 1 \in Nat
          BY <2>2, <2>3
        <5>2. t + 1 >= m /\ ((t + 1) - m + c) % m = c
          <6> DEFINE k == t + 1
          <6>1. k \in Nat /\ k > 0 /\ k % m = 0
            BY <5>1
          <6> HIDE DEF k
          <6>2. k >= m /\ \E v \in Nat : v + m = k + c /\ v % m = c
            BY <2>1, <3>1, <6>1, ShiftUp
          <6>3. PICK v \in Nat : v + m = k + c /\ v % m = c
            BY <6>2
          <6>4. v = k - m + c
            BY <2>1, <3>1, <6>1, <6>3
          <6> QED
            BY <6>2, <6>3, <6>4 DEF k
        <5>3. (t + 1) - m + c - 1 \in Workers
          BY <2>1, <2>3, <3>1, <5>1, <5>2
        <5>4. ((t + 1) - m + c - 1) + 1 = (t + 1) - m + c
          BY <2>1, <3>1, <5>1
        <5> QED
          BY <2>2, <5>2, <5>3, <5>4
      <4>2. f \in [On(0) -> On(c)]
        BY <4>1
      <4>3. \A t, u \in On(0) : f[t] = f[u] => t = u
        BY <2>1, <2>3, <3>1
      <4>4. f \in Injection(On(0), On(c))
        BY <4>2, <4>3 DEF Injection, IsInjective
      <4> HIDE DEF f, On
      <4> QED
        BY <2>4, <4>4, FS_Injection
    <3>3. Cardinality(On(c)) <= Cardinality(On(0)) + 1
      <4> DEFINE f == [t \in On(c) |-> t - c]
                 Extended == On(0) \cup {-1}
      <4>1. IsFiniteSet(Extended) /\ Cardinality(Extended) = Cardinality(On(0)) + 1
        <5>1. -1 \notin On(0)
          BY <2>3
        <5> HIDE DEF On
        <5> QED
          BY <2>4, <5>1, FS_AddElement
      <4>2. ASSUME NEW t \in On(c)
            PROVE  t - c \in Extended
        <5>1. t \in Nat /\ t < NumThreads /\ (t + 1) % m = c /\ t + 1 \in Nat
          BY <2>2, <2>3
        <5>2. t + 1 >= c /\ ((t + 1) - c) % m = 0
          <6> DEFINE k == t + 1
          <6>1. k \in Nat /\ k % m = c
            BY <5>1
          <6> HIDE DEF k
          <6>2. k >= c /\ (k - c) % m = 0
            BY <2>1, <3>1, <6>1, ShiftDown
          <6> QED
            BY <6>2 DEF k
        <5>3. CASE t + 1 = c
          BY <3>1, <5>1, <5>3
        <5>4. CASE t + 1 # c
          <6>1. t - c \in Workers /\ (t - c) + 1 = (t + 1) - c
            BY <2>1, <2>3, <3>1, <5>1, <5>2, <5>4
          <6> QED
            BY <2>2, <5>2, <6>1
        <5> QED
          BY <5>3, <5>4
      <4>3. f \in [On(c) -> Extended]
        BY <4>2
      <4>4. \A t, u \in On(c) : f[t] = f[u] => t = u
        BY <2>1, <2>3, <3>1
      <4>5. f \in Injection(On(c), Extended)
        BY <4>3, <4>4 DEF Injection, IsInjective
      <4>6. Cardinality(On(c)) <= Cardinality(Extended)
        <5> HIDE DEF f, On, Extended
        <5> QED
          BY <4>1, <4>5, FS_Injection
      <4> QED
        BY <4>1, <4>6
    <3> QED
      BY <3>2, <3>3
  <2> QED
    BY <2>5, <2>6
<1> QED
  BY <1>1, WindowInvariance, PTL

-----------------------------------------------------------------------------
(* No update is lost, and the window does not get stuck *)

\* The shared counter moves by one operation at a time.
CounterSteps == counter' = counter \/ counter' = counter + 1

\* The plain counter++ of the benchmarks, a read and a write, is never made from
\* a value that somebody has meanwhile replaced: each write adds one operation to
\* what is there, under lock() and under try_lock().
THEOREM NoLostUpdate == Spec => [][CounterSteps]_vars
<1>1. WindowInv /\ [Next]_vars => [CounterSteps]_vars
  <2> SUFFICES ASSUME WindowInv, Next
               PROVE  CounterSteps \/ UNCHANGED vars
    OBVIOUS
  <2>1. ASSUME NEW t \in Workers, Write(t)
        PROVE  counter' = counter + 1
    <3>1. seen[t] = counter
      BY <2>1 DEF Write, WindowInv, ReadIsCurrent
    <3> QED
      BY <2>1, <3>1 DEF Write
  <2>2. ASSUME NEW t \in Workers, WorkerStep(t)
        PROVE  CounterSteps
    BY <2>1, <2>2 DEF WorkerStep, Pin, WaitStart, TestStop, Lock, TryLock, Read, Unlock,
                      FetchAdd, Count, CounterSteps
  <2>3. CASE MainStep
    BY <2>3 DEF MainStep, MainStart, MainStop, MainResult, CounterSteps
  <2>4. CASE Returned
    BY <2>4 DEF Returned
  <2> QED
    BY <2>2, <2>3, <2>4 DEF Next
<1> QED
  BY <1>1, WindowInvariance, PTL DEF Spec

\* What main has told the workers.
Told == /\ main # "spawned" => start
        /\ main \in {"joining", "returned"} => stop

\* Only main tells them, and it takes nothing back.
LEMMA ToldStep == Told /\ [Next]_vars => Told'
<1> SUFFICES ASSUME Told, [Next]_vars
             PROVE  Told'
  OBVIOUS
<1>1. ASSUME UNCHANGED <<start, stop, main>>
      PROVE  Told'
  BY <1>1 DEF Told
<1>2. ASSUME NEW t \in Workers, WorkerStep(t)
      PROVE  Told'
  BY <1>1, <1>2 DEF WorkerStep, Pin, WaitStart, TestStop, Lock, TryLock, Read, Write,
                    Unlock, FetchAdd, Count, data
<1>3. CASE MainStep
  BY <1>3 DEF MainStep, MainStart, MainStop, MainResult, Told
<1>4. CASE Returned \/ UNCHANGED vars
  BY <1>1, <1>4 DEF Returned, vars
<1> QED
  BY <1>2, <1>3, <1>4 DEF Next

\* A worker can go on: the guards of the actions of ContentionWindow.
WorkerMoves(t) == \/ pc[t] \in {"spawned", "read", "write", "unlock", "count"}
                  \/ pc[t] = "wait" /\ start
                  \/ pc[t] = "test" /\ (stop \/ counts[t] < MaxOps)
                  \/ pc[t] = "enter" /\ (callable = "lock" => ~flag)

\* Main can go on: it sleeps, or all workers are out.
MainMoves == main = "joining" => \A t \in Workers : pc[t] = "out"

\* A window never comes to a point where everybody waits: a worker that spins has
\* another one to wait for that is inside, and main joins when all are out, those
\* that were spinning on the lock when stop was set included.
THEOREM WindowNeverStuck ==
    Spec => [](main # "returned" => MainMoves \/ \E t \in Workers : WorkerMoves(t))
<1>1. Init => Told
  BY DEF Init, Told
<1>2. WindowInv /\ Told =>
        (main # "returned" => MainMoves \/ \E t \in Workers : WorkerMoves(t))
  <2> SUFFICES ASSUME WindowInv, Told, main = "joining",
                      \A t \in Workers : ~WorkerMoves(t)
               PROVE  \A t \in Workers : pc[t] = "out"
    BY DEF MainMoves
  <2>1. start /\ stop
    BY DEF Told
  <2>2. \A t \in Workers : pc[t] \in {"spawned", "wait", "test", "enter", "read", "write",
                                      "unlock", "count", "out"}
    BY DEF WindowInv, TypeOK
  <2>3. \A t \in Workers : pc[t] \in {"enter", "out"}
    BY <2>1, <2>2 DEF WorkerMoves
  <2>4. Holders = {}
    BY <2>3 DEF Holders
  <2>5. ~flag
    BY <2>4 DEF WindowInv, HolderAlone
  <2> QED
    BY <2>3, <2>5 DEF WorkerMoves
<1> QED
  BY <1>1, <1>2, ToldStep, WindowInvariance, PTL DEF Spec
=============================================================================
