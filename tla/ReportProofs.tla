---------------------------- MODULE ReportProofs ----------------------------
(***************************************************************************)
(* Theorems about what is reported: the counts and the fairness of         *)
(* LockWorkload, for any number of threads, of operations and of           *)
(* iterations, under every kind of lock; and the summary, the report and   *)
(* the decision matrix of BenchmarkRunner, for any suites, any functions   *)
(* of the benchmarks and any cells of the matrix.  The two models have no  *)
(* variable and no constant in common.                                     *)
(***************************************************************************)
EXTENDS LockWorkload, BenchmarkRunner, ThreadCounting

-----------------------------------------------------------------------------
(* The inductive invariant *)

Uncounted == {t \in Threads : pc[t] # "choose"}

\* Each thread's operations are left, under way or counted, as reads or writes;
\* under the semaphore there are no reads.
OwnCounts(t) ==
    /\ left[t] + reader_tracker[t] + writer_tracker[t]
         + (IF pc[t] = "choose" THEN 0 ELSE 1) = Ops
    /\ lock = "binary" => /\ pc[t] \in {"choose", "write_lock", "write", "count_write"}
                          /\ reader_tracker[t] = 0

WorkloadInv == /\ TypeOK
               /\ RaceFree
               /\ CountsAgree
               /\ \A t \in Threads : OwnCounts(t)
               /\ reported => AllOut

-----------------------------------------------------------------------------
(* The invariant holds at first *)

\* Nobody has made an operation.
LEMMA WorkloadInvInit == Init => WorkloadInv
<1> SUFFICES ASSUME Init
             PROVE  WorkloadInv
  OBVIOUS
<1> USE WorkloadAssumption
<1>1. TypeOK
  <2>1. /\ left \in [Threads -> 0..Ops]
        /\ reader_tracker \in [Threads -> 0..Ops]
        /\ writer_tracker \in [Threads -> 0..Ops]
    BY DEF Init, None
  <2>2. pc \in [Threads -> {"choose", "read_lock", "read", "count_read",
                            "write_lock", "write", "count_write"}]
    BY DEF Init
  <2>3. iteration \in 1..Iterations
    BY DEF Init
  <2>4. lock \in Locks /\ total_reads \in Nat /\ total_writes \in Nat
    BY DEF Init
  <2>5. reported \in BOOLEAN
    BY DEF Init
  <2> QED
    BY <2>1, <2>2, <2>3, <2>4, <2>5 DEF TypeOK
<1>2. RaceFree
  BY DEF Init, RaceFree, Writing, At
<1>3. \A t \in Threads : OwnCounts(t)
  BY DEF Init, OwnCounts, None
<1>4. CountsAgree
  <2>1. Uncounted = {} /\ Cardinality({}) = 0
    BY FS_EmptySet DEF Init, Uncounted
  <2>2. Cardinality(Threads) \in Nat
    BY FS_CardinalityType
  <2>3. SumFunction(None) = 0
    BY <2>2, SumConstant DEF None
  <2>4. SumFunction(left) = Cardinality(Threads) * Ops
    BY SumConstant DEF Init
  <2>5. Cardinality(Threads) * Ops \in Nat
    BY <2>2
  <2> DEFINE all == Cardinality(Threads) * Ops
  <2>6. 0 + 0 + all + 0 = all
    BY <2>5
  <2> QED
    BY <2>1, <2>3, <2>4, <2>6 DEF CountsAgree, Init, Uncounted
<1>5. reported => AllOut
  BY DEF Init
<1> QED
  BY <1>1, <1>2, <1>3, <1>4, <1>5 DEF WorkloadInv

-----------------------------------------------------------------------------
(* Steps *)

\* The numbers in CountsAgree are numbers.
LEMMA SumsAreNumbers ==
    ASSUME TypeOK
    PROVE  /\ SumFunction(left) \in Nat
           /\ SumFunction(reader_tracker) \in Nat /\ SumFunction(writer_tracker) \in Nat
           /\ IsFiniteSet(Uncounted) /\ Cardinality(Uncounted) \in Nat
           /\ Cardinality(Threads) \in Nat
<1>1. /\ left \in [Threads -> Int] /\ left \in [Threads -> Nat]
      /\ reader_tracker \in [Threads -> Int] /\ reader_tracker \in [Threads -> Nat]
      /\ writer_tracker \in [Threads -> Int] /\ writer_tracker \in [Threads -> Nat]
  BY WorkloadAssumption DEF TypeOK
<1>2. IsFiniteSet(Uncounted)
  <2>1. Uncounted \subseteq Threads
    BY DEF Uncounted
  <2> QED
    BY <2>1, FS_Subset, WorkloadAssumption
<1> QED
  BY <1>1, <1>2, SumType, FS_CardinalityType, WorkloadAssumption

\* A thread that chooses takes one of its operations and has yet to count it.
LEMMA ChooseKeeps ==
    ASSUME WorkloadInv, NEW t \in Threads, Choose(t)
    PROVE  WorkloadInv'
<1> USE WorkloadAssumption DEF WorkloadInv
<1>1. /\ pc[t] = "choose" /\ left[t] > 0 /\ left[t] \in Int
      /\ left' = [left EXCEPT ![t] = left[t] - 1]
      /\ UNCHANGED <<lock, iteration, counts, reported>>
  BY DEF Choose, Move, TypeOK
<1>2. PICK step \in {"read_lock", "write_lock"} :
        /\ pc' = [pc EXCEPT ![t] = step]
        /\ lock = "binary" => step = "write_lock"
  BY DEF Choose, Move
<1>3. TypeOK'
  BY <1>1, <1>2 DEF TypeOK, counts
<1>4. RaceFree'
  BY <1>1, <1>2 DEF RaceFree, Writing, Reading, At, TypeOK
<1>5. \A u \in Threads : OwnCounts(u)'
  BY <1>1, <1>2 DEF OwnCounts, TypeOK, counts
<1>6. CountsAgree'
  <2>1. SumFunction(left') = SumFunction(left) + (left[t] - 1) - left[t]
    <3>1. left \in [Threads -> Int] /\ left[t] - 1 \in Int
      BY <1>1 DEF TypeOK
    <3> QED
      BY <1>1, <3>1, SumChanges
  <2>2. t \notin Uncounted /\ Uncounted' = Uncounted \cup {t}
    BY <1>1, <1>2 DEF Uncounted, TypeOK
  <2>3. Cardinality(Uncounted') = Cardinality(Uncounted) + 1
    BY <2>2, SumsAreNumbers, FS_AddElement
  <2> QED
    BY <1>1, <2>1, <2>3, SumsAreNumbers DEF CountsAgree, Uncounted, counts, TypeOK
<1>7. (reported => AllOut)'
  BY <1>1 DEF AllOut, Out, TypeOK
<1> QED
  BY <1>3, <1>4, <1>5, <1>6, <1>7

\* Taking and leaving the lock changes no count; who takes it finds it free.
LEMMA LockKeeps ==
    ASSUME WorkloadInv, NEW t \in Threads,
           ReadLock(t) \/ ReadUnlock(t) \/ WriteLock(t) \/ WriteUnlock(t)
    PROVE  WorkloadInv'
<1> USE WorkloadAssumption DEF WorkloadInv
<1>1. UNCHANGED <<lock, iteration, left, counts, reported>>
  BY DEF ReadLock, ReadUnlock, WriteLock, WriteUnlock
<1>2. PICK step \in {"read", "count_read", "write", "count_write"} :
        /\ pc' = [pc EXCEPT ![t] = step] /\ pc[t] # "choose"
        /\ lock = "binary" => step \in {"write", "count_write"}
  <2>1. OwnCounts(t)
    OBVIOUS
  <2> QED
    BY <2>1 DEF ReadLock, ReadUnlock, WriteLock, WriteUnlock, Move, OwnCounts
<1>3. TypeOK'
  BY <1>1, <1>2 DEF TypeOK, counts
<1>4. RaceFree'
  <2>1. CASE ReadLock(t)
    BY <2>1 DEF ReadLock, Move, RaceFree, Writing, Reading, At, TypeOK
  <2>2. CASE WriteLock(t)
    BY <2>2 DEF WriteLock, Move, RaceFree, Writing, Reading, At, TypeOK
  <2>3. CASE ReadUnlock(t)
    BY <2>3 DEF ReadUnlock, Move, RaceFree, Writing, Reading, At, TypeOK
  <2>4. CASE WriteUnlock(t)
    BY <2>4 DEF WriteUnlock, Move, RaceFree, Writing, Reading, At, TypeOK
  <2> QED
    BY <2>1, <2>2, <2>3, <2>4
<1>5. \A u \in Threads : OwnCounts(u)'
  BY <1>1, <1>2 DEF OwnCounts, TypeOK, counts
<1>6. CountsAgree'
  <2>1. Uncounted' = Uncounted
    BY <1>1, <1>2 DEF Uncounted, TypeOK
  <2> QED
    BY <1>1, <2>1 DEF CountsAgree, Uncounted, counts
<1>7. (reported => AllOut)'
  BY <1>1, <1>2 DEF AllOut, Out, TypeOK
<1> QED
  BY <1>3, <1>4, <1>5, <1>6, <1>7

\* An operation that is counted adds one to the thread's count and to the total.
LEMMA CountReadKeeps ==
    ASSUME WorkloadInv, NEW t \in Threads, CountRead(t)
    PROVE  WorkloadInv'
<1> USE WorkloadAssumption DEF WorkloadInv
<1>1. /\ pc[t] = "count_read" /\ pc' = [pc EXCEPT ![t] = "choose"]
      /\ reader_tracker' = [reader_tracker EXCEPT ![t] = reader_tracker[t] + 1]
      /\ reader_tracker[t] + 1 \in Int /\ reader_tracker \in [Threads -> Int]
      /\ total_reads' = total_reads + 1
      /\ UNCHANGED <<lock, iteration, left, writer_tracker, total_writes, reported>>
  BY DEF CountRead, Move, TypeOK
<1>2. OwnCounts(t)
  OBVIOUS
<1>3. TypeOK'
  <2>1. reader_tracker[t] + 1 \in 0..Ops
    BY <1>1, <1>2 DEF OwnCounts, TypeOK
  <2> QED
    BY <1>1, <2>1 DEF TypeOK
<1>4. RaceFree'
  BY <1>1 DEF RaceFree, Writing, Reading, At, TypeOK
<1>5. \A u \in Threads : OwnCounts(u)'
  <2> TAKE u \in Threads
  <2>1. OwnCounts(u)
    OBVIOUS
  <2>2. CASE u = t
    BY <1>1, <1>2, <2>2 DEF OwnCounts, TypeOK
  <2>3. CASE u # t
    BY <1>1, <2>1, <2>3 DEF OwnCounts, TypeOK
  <2> QED
    BY <2>2, <2>3
<1>6. CountsAgree'
  <2>1. SumFunction(reader_tracker')
          = SumFunction(reader_tracker) + (reader_tracker[t] + 1) - reader_tracker[t]
    BY <1>1, SumChanges
  <2>2. t \in Uncounted /\ Uncounted' = Uncounted \ {t}
    BY <1>1 DEF Uncounted, TypeOK
  <2>3. Cardinality(Uncounted') = Cardinality(Uncounted) - 1
    BY <2>2, SumsAreNumbers, FS_RemoveElement
  <2> QED
    BY <1>1, <2>1, <2>3, SumsAreNumbers DEF CountsAgree, Uncounted, TypeOK
<1>7. (reported => AllOut)'
  BY <1>1 DEF AllOut, Out, TypeOK
<1> QED
  BY <1>3, <1>4, <1>5, <1>6, <1>7

\* The same for a write.
LEMMA CountWriteKeeps ==
    ASSUME WorkloadInv, NEW t \in Threads, CountWrite(t)
    PROVE  WorkloadInv'
<1> USE WorkloadAssumption DEF WorkloadInv
<1>1. /\ pc[t] = "count_write" /\ pc' = [pc EXCEPT ![t] = "choose"]
      /\ writer_tracker' = [writer_tracker EXCEPT ![t] = writer_tracker[t] + 1]
      /\ writer_tracker[t] + 1 \in Int /\ writer_tracker \in [Threads -> Int]
      /\ total_writes' = total_writes + 1
      /\ UNCHANGED <<lock, iteration, left, reader_tracker, total_reads, reported>>
  BY DEF CountWrite, Move, TypeOK
<1>2. OwnCounts(t)
  OBVIOUS
<1>3. TypeOK'
  <2>1. writer_tracker[t] + 1 \in 0..Ops
    BY <1>1, <1>2 DEF OwnCounts, TypeOK
  <2> QED
    BY <1>1, <2>1 DEF TypeOK
<1>4. RaceFree'
  BY <1>1 DEF RaceFree, Writing, Reading, At, TypeOK
<1>5. \A u \in Threads : OwnCounts(u)'
  BY <1>1 DEF OwnCounts, TypeOK
<1>6. CountsAgree'
  <2>1. SumFunction(writer_tracker')
          = SumFunction(writer_tracker) + (writer_tracker[t] + 1) - writer_tracker[t]
    BY <1>1, SumChanges
  <2>2. t \in Uncounted /\ Uncounted' = Uncounted \ {t}
    BY <1>1 DEF Uncounted, TypeOK
  <2>3. Cardinality(Uncounted') = Cardinality(Uncounted) - 1
    BY <2>2, SumsAreNumbers, FS_RemoveElement
  <2> QED
    BY <1>1, <2>1, <2>3, SumsAreNumbers DEF CountsAgree, Uncounted, TypeOK
<1>7. (reported => AllOut)'
  BY <1>1 DEF AllOut, Out, TypeOK
<1> QED
  BY <1>3, <1>4, <1>5, <1>6, <1>7

\* The next iteration starts from zero, when nothing is left of the last one.
LEMMA NextIterationKeeps ==
    ASSUME WorkloadInv, NextIteration
    PROVE  WorkloadInv'
<1> USE WorkloadAssumption DEF WorkloadInv
<1>1. /\ \A t \in Threads : pc[t] = "choose"
      /\ ~reported /\ UNCHANGED <<lock, pc, reported>>
      /\ left' = [t \in Threads |-> Ops]
      /\ reader_tracker' = None /\ writer_tracker' = None
      /\ total_reads' = 0 /\ total_writes' = 0
  BY DEF NextIteration, AllOut, Out
<1>2. TypeOK'
  <2>1. None \in [Threads -> 0..Ops] /\ left' \in [Threads -> 0..Ops]
    BY <1>1 DEF None
  <2>2. iteration' \in 1..Iterations
    BY DEF NextIteration, TypeOK
  <2> QED
    BY <1>1, <2>1, <2>2 DEF TypeOK
<1>3. RaceFree'
  BY <1>1 DEF RaceFree, Writing, Reading, At
<1>4. \A u \in Threads : OwnCounts(u)'
  BY <1>1 DEF OwnCounts, None
<1>5. CountsAgree'
  <2>1. Uncounted' = {} /\ Cardinality({}) = 0
    BY <1>1, FS_EmptySet DEF Uncounted
  <2>2. Cardinality(Threads) \in Nat
    BY FS_CardinalityType
  <2>3. SumFunction(None) = 0
    BY <2>2, SumConstant DEF None
  <2>4. SumFunction(left') = Cardinality(Threads) * Ops
    BY <1>1, SumConstant
  <2>5. Cardinality(Threads) * Ops \in Nat
    BY <2>2
  <2> DEFINE all == Cardinality(Threads) * Ops
  <2>6. 0 + 0 + all + 0 = all
    BY <2>5
  <2> QED
    BY <1>1, <2>1, <2>3, <2>4, <2>6 DEF CountsAgree, Uncounted
<1> QED
  BY <1>1, <1>2, <1>3, <1>4, <1>5

\* Main reports when everybody is out; nothing else changes.
LEMMA ReportKeeps ==
    ASSUME WorkloadInv, Report \/ UNCHANGED vars
    PROVE  WorkloadInv'
<1> USE WorkloadAssumption DEF WorkloadInv
<1>1. UNCHANGED <<lock, iteration, pc, left, counts>> /\ reported' \in BOOLEAN
  BY DEF Report, vars, counts, TypeOK
<1>2. TypeOK' /\ RaceFree' /\ CountsAgree'
  BY <1>1 DEF TypeOK, RaceFree, CountsAgree, Reading, Writing, At, counts
<1>3. \A u \in Threads : OwnCounts(u)'
  BY <1>1 DEF OwnCounts, counts
<1>4. (reported => AllOut)'
  BY <1>1 DEF Report, AllOut, Out, vars
<1> QED
  BY <1>2, <1>3, <1>4

-----------------------------------------------------------------------------
(* The theorems about the locks *)

\* Every step keeps the invariant.
LEMMA WorkloadInvStep == WorkloadInv /\ [Next]_vars => WorkloadInv'
  BY ChooseKeeps, LockKeeps, CountReadKeeps, CountWriteKeeps, NextIterationKeeps, ReportKeeps
     DEF Next, ThreadStep, MainStep, Over

\* The inductive invariant of the lock benchmarks: who holds the lock, and where
\* each operation of each thread is counted.
THEOREM WorkloadInvariance == Spec => []WorkloadInv
  BY WorkloadInvInit, WorkloadInvStep, PTL DEF Spec

\* No map is read while it is written, and writers exclude each other.
THEOREM NoRace == Spec => []RaceFree
<1>1. WorkloadInv => RaceFree
  BY DEF WorkloadInv
<1> QED
  BY <1>1, WorkloadInvariance, PTL

\* The counts of the threads agree with the totals at any moment, and nothing of
\* an earlier iteration is left in them.
THEOREM OperationsCounted == Spec => []CountsAgree
<1>1. WorkloadInv => CountsAgree
  BY DEF WorkloadInv
<1> QED
  BY <1>1, WorkloadInvariance, PTL

-----------------------------------------------------------------------------
(* No thread waits for a lock that nobody holds *)

\* A thread can go on: the guards of the actions of LockWorkload.
ThreadMoves(t) ==
    \/ pc[t] = "choose" /\ left[t] > 0
    \/ pc[t] = "read_lock" /\ Writing = {} /\ (lock = "exclusive" => Reading = {})
    \/ pc[t] = "write_lock" /\ Writing = {} /\ Reading = {}
    \/ pc[t] \in {"read", "write", "count_read", "count_write"}

\* Until the benchmark has reported, a thread can go on or main has joined them all
\* (lines 139-141): a reader or a writer that waits for the lock (lines 52, 58, 63
\* and 69) waits for a thread that is inside and comes out.
THEOREM WorkloadNeverStuck ==
    Spec => [](~reported => AllOut \/ \E t \in Threads : ThreadMoves(t))
<1>1. WorkloadInv => (~reported => AllOut \/ \E t \in Threads : ThreadMoves(t))
  <2> SUFFICES ASSUME WorkloadInv, \A t \in Threads : ~ThreadMoves(t)
               PROVE  AllOut
    OBVIOUS
  <2>1. TypeOK /\ DOMAIN pc = Threads
    BY DEF WorkloadInv, TypeOK
  <2>2. Reading = {} /\ Writing = {}
    BY <2>1 DEF Reading, Writing, At, ThreadMoves
  <2>3. \A t \in Threads : pc[t] = "choose" /\ ~(left[t] > 0)
    BY <2>1, <2>2 DEF ThreadMoves, TypeOK
  <2>4. \A t \in Threads : left[t] \in Nat
    BY <2>1, WorkloadAssumption DEF TypeOK
  <2>5. \A t \in Threads : left[t] = 0
    BY <2>3, <2>4
  <2> QED
    BY <2>3, <2>5 DEF AllOut, Out
<1> QED
  BY <1>1, WorkloadInvariance, PTL

-----------------------------------------------------------------------------
(* The coefficient of variation *)

\* The sum of the squared deviations, n times each, from the sum of the counts.
LEMMA Deviations ==
    ASSUME NEW c \in [Threads -> Nat]
    PROVE  LET n == Cardinality(Threads)
               s == SumFunction(c)
               Q == SumFunction([t \in Threads |-> c[t] * c[t]])
           IN  /\ n \in Nat /\ n > 0 /\ s \in Nat /\ Q \in Nat
               /\ SumOfSquares(c) = n * n * Q - n * (s * s)
<1> DEFINE n == Cardinality(Threads)
           s == SumFunction(c)
           h == [t \in Threads |-> c[t] * c[t]]
           Q == SumFunction(h)
           d == [t \in Threads |-> Square(n * c[t] - s)]
<1>1. c \in [Threads -> Int] /\ h \in [Threads -> Nat] /\ h \in [Threads -> Int]
  <2>1. \A x \in Nat : x * x \in Nat
    OBVIOUS
  <2> QED
    BY <2>1
<1>2. n \in Nat /\ n > 0
  BY WorkloadAssumption, FS_CardinalityType, FS_EmptySet
<1>3. s \in Nat
  BY <1>1, SumType, WorkloadAssumption
<1>4. Q \in Nat
  <2> HIDE DEF h
  <2> QED
    BY <1>1, SumType, WorkloadAssumption
<1> DEFINE p == n * n
           q == 0 - 2 * (n * s)
           r == s * s
<1>5. p \in Int /\ q \in Int /\ r \in Int
  BY <1>2, <1>3
<1>6. d = [t \in Threads |-> p * h[t] + q * c[t] + r]
  <2> SUFFICES ASSUME NEW t \in Threads
               PROVE  Square(n * c[t] - s) = p * h[t] + q * c[t] + r
    OBVIOUS
  <2> DEFINE x == c[t]
  <2>1. x \in Int /\ h[t] = x * x
    OBVIOUS
  <2> HIDE DEF x, n, s, h
  <2>2. (n * x - s) * (n * x - s) = (n * n) * (x * x) + (0 - 2 * (n * s)) * x + s * s
    BY <1>2, <1>3, <2>1
  <2> QED
    BY <2>1, <2>2 DEF Square, x
<1>7. SumFunction(d) = p * Q + q * s + r * n
  <2> HIDE DEF h, p, q, r, d
  <2> QED
    BY <1>1, <1>5, <1>6, SumLinear, WorkloadAssumption
<1>8. SumOfSquares(c) = SumFunction(d)
  BY DEF SumOfSquares
<1> HIDE DEF n, s, Q, d, h
<1>9. (n * n) * Q + (0 - 2 * (n * s)) * s + (s * s) * n = n * n * Q - n * (s * s)
  BY <1>2, <1>3, <1>4
<1>10. SumOfSquares(c) = n * n * Q - n * (s * s)
  BY <1>7, <1>8, <1>9
<1> QED
  BY <1>2, <1>3, <1>4, <1>10 DEF n, s, Q, h

\* The deviations are all 0 if and only if all threads have the same count.
LEMMA EvenCounts ==
    ASSUME NEW c \in [Threads -> Nat]
    PROVE  SumOfSquares(c) = 0 <=> Cardinality({c[t] : t \in Threads}) = 1
<1> DEFINE n == Cardinality(Threads)
           s == SumFunction(c)
           d == [t \in Threads |-> Square(n * c[t] - s)]
           values == {c[t] : t \in Threads}
<1>1. n \in Nat /\ n > 0 /\ s \in Nat
  BY Deviations
<1>2. d \in [Threads -> Nat]
  <2>1. \A z \in Int : Square(z) \in Nat /\ (Square(z) = 0 => z = 0)
    BY DEF Square
  <2>2. \A t \in Threads : n * c[t] - s \in Int
    BY <1>1
  <2> HIDE DEF n, s
  <2> QED
    BY <2>1, <2>2
<1>3. SumOfSquares(c) = 0 <=> \A t \in Threads : d[t] = 0
  <2>1. SumOfSquares(c) = SumFunction(d)
    BY DEF SumOfSquares
  <2> HIDE DEF d
  <2> QED
    BY <1>2, <2>1, SumZero, WorkloadAssumption
<1>4. ASSUME \A t \in Threads : d[t] = 0
      PROVE  \E k : values = {k}
  <2>1. PICK u \in Threads : TRUE
    BY WorkloadAssumption
  <2>2. \A t \in Threads : c[t] = c[u]
    <3> TAKE t \in Threads
    <3> DEFINE x == c[t]
               y == c[u]
    <3>1. x \in Int /\ y \in Int /\ Square(n * x - s) = 0 /\ Square(n * y - s) = 0
      BY <1>4
    <3> HIDE DEF n, s, x, y
    <3>2. \A z \in Int : Square(z) = 0 => z = 0
      BY DEF Square
    <3>3. n * x \in Int /\ n * y \in Int
      BY <1>1, <3>1
    <3>4. n * x - s = 0 /\ n * y - s = 0
      BY <1>1, <3>1, <3>2, <3>3
    <3>5. n * x = n * y
      BY <1>1, <3>3, <3>4
    <3>6. x = y
      BY <1>1, <3>1, <3>5
    <3> QED
      BY <3>6 DEF x, y
  <2> QED
    BY <2>2
<1>5. ASSUME NEW k, values = {k}
      PROVE  \A t \in Threads : d[t] = 0
  <2>1. \A t \in Threads : c[t] = k /\ k \in Nat
    BY <1>5
  <2>2. c = [t \in Threads |-> k] /\ k \in Nat
    BY <2>1, WorkloadAssumption
  <2>3. s = n * k
    BY <2>2, SumConstant, WorkloadAssumption
  <2> HIDE DEF n, s
  <2>4. Square(n * k - s) = 0
    BY <1>1, <2>2, <2>3 DEF Square
  <2> QED
    BY <2>1, <2>4
<1>6. IsFiniteSet(values)
  <2>1. c \in Surjection(Threads, values)
    BY DEF Surjection
  <2> HIDE DEF values
  <2> QED
    BY <2>1, FS_Surjection, WorkloadAssumption
<1>7. Cardinality(values) = 1 <=> \E k : values = {k}
  <2> HIDE DEF values
  <2> QED
    BY <1>6, FS_Singleton
<1> HIDE DEF d, values
<1>8. Cardinality(values) = 1 <=> \A t \in Threads : d[t] = 0
  BY <1>4, <1>5, <1>7
<1> QED
  BY <1>3, <1>8 DEF values

\* What the reported coefficient says of any counts: 0 exactly if they are even, at
\* most the square root of n - 1, and that if one thread made all the operations.
LEMMA MeaningOfCV ==
    ASSUME NEW c \in [Threads -> Nat]
    PROVE  LET cv2 == CVSquared(c)
               n   == Cardinality(Threads)
               made == {t \in Threads : c[t] > 0}
           IN /\ cv2.num = 0 <=> Cardinality({c[t] : t \in Threads}) = 1
              /\ cv2.num <= (n - 1) * cv2.den
              /\ Cardinality(made) = 1 => cv2.num = (n - 1) * cv2.den
<1> DEFINE n == Cardinality(Threads)
           s == SumFunction(c)
           h == [t \in Threads |-> c[t] * c[t]]
           Q == SumFunction(h)
           made == {t \in Threads : c[t] > 0}
<1>1. /\ n \in Nat /\ n > 0 /\ s \in Nat /\ Q \in Nat
      /\ SumOfSquares(c) = n * n * Q - n * (s * s)
  BY Deviations
<1>2. Q <= s * s
  BY SumOfSquaresBound, WorkloadAssumption
<1>3. SumOfSquares(c) = 0 <=> Cardinality({c[t] : t \in Threads}) = 1
  BY EvenCounts
<1>4. s = 0 <=> \A t \in Threads : c[t] = 0
  BY SumZero, WorkloadAssumption
<1>5. Cardinality(made) = 1 => Q = s * s /\ s # 0
  <2> SUFFICES ASSUME Cardinality(made) = 1
               PROVE  Q = s * s /\ s # 0
    OBVIOUS
  <2>1. IsFiniteSet(made)
    BY FS_Subset, WorkloadAssumption
  <2>2. PICK m : made = {m}
    <3> HIDE DEF made
    <3> QED
      BY <2>1, FS_Singleton
  <2>3. m \in Threads /\ c[m] > 0 /\ \A t \in Threads : t # m => c[t] = 0
    BY <2>2
  <2>4. s = c[m]
    <3>1. c \in [Threads -> Int]
      OBVIOUS
    <3> QED
      BY <2>3, <3>1, SumSingle, WorkloadAssumption
  <2>5. Q = h[m]
    <3>1. h \in [Threads -> Int] /\ \A t \in Threads : t # m => h[t] = 0
      <4>1. \A x \in Nat : x * x \in Int
        OBVIOUS
      <4> QED
        BY <2>3, <4>1
    <3> HIDE DEF h
    <3> QED
      BY <2>3, <3>1, SumSingle, WorkloadAssumption
  <2>6. h[m] = c[m] * c[m]
    BY <2>3
  <2> QED
    BY <2>3, <2>4, <2>5, <2>6
<1>6. CASE s = 0
  <2>1. CVSquared(c) = [num |-> 0, den |-> 1]
    BY <1>6 DEF CVSquared
  <2>2. SumOfSquares(c) = 0
    <3> HIDE DEF n, s, Q
    <3>1. Q = 0
      BY <1>1, <1>2, <1>6
    <3> QED
      BY <1>1, <1>6, <3>1
  <2>3. 0 <= (n - 1) * 1
    BY <1>1
  <2> HIDE DEF n, s, Q, made
  <2> QED
    BY <1>3, <1>5, <1>6, <2>1, <2>2, <2>3 DEF n, made
<1>7. CASE s # 0
  <2>1. CVSquared(c) = [num |-> SumOfSquares(c), den |-> n * (s * s)]
    BY <1>7 DEF CVSquared, Square
  <2> HIDE DEF n, s, Q, made
  <2> DEFINE z == s * s
             p == n * n
  <2>2. z \in Nat /\ p \in Nat
    BY <1>1
  <2>3. p * z - n * z = (n - 1) * (n * z)
    BY <1>1, <2>2
  <2>4. SumOfSquares(c) = p * Q - n * z
    BY <1>1
  <2>5. Q <= z
    BY <1>2
  <2>6. Cardinality(made) = 1 => Q = z
    BY <1>5
  <2> HIDE DEF z, p
  <2>7. p * Q <= p * z /\ p * Q \in Nat /\ p * z \in Nat /\ n * z \in Nat
    BY <1>1, <2>2, <2>5
  <2>8. SumOfSquares(c) <= (n - 1) * (n * z)
    BY <2>3, <2>4, <2>7
  <2>9. Cardinality(made) = 1 => SumOfSquares(c) = (n - 1) * (n * z)
    BY <2>3, <2>4, <2>6
  <2>10. CVSquared(c) = [num |-> SumOfSquares(c), den |-> n * z]
    BY <2>1 DEF z
  <2> QED
    BY <1>3, <2>8, <2>9, <2>10 DEF n, made
<1> QED
  BY <1>6, <1>7

\* Under the semaphore every thread has made the same number of reads, none, and
\* the same number of writes when main reports.
LEMMA BinaryEven ==
    ASSUME WorkloadInv, reported, lock = "binary",
           NEW c \in {reader_tracker, writer_tracker}
    PROVE  \E k : \A t \in Threads : c[t] = k
<1> USE WorkloadAssumption DEF WorkloadInv, OwnCounts
<1>1. CASE c = reader_tracker
  BY <1>1
<1>2. CASE c = writer_tracker
  <2>1. \A t \in Threads : writer_tracker[t] = Ops
    BY DEF TypeOK, AllOut, Out
  <2> QED
    BY <1>2, <2>1
<1> QED
  BY <1>1, <1>2

\* "CV = 0.0: Perfect fairness" (variance_tracker.cpp:16): what the reported
\* coefficients of variation mean, and that the one of BinarySemaphore_vs_Mutex is
\* always 0, for any number of threads and of operations.
THEOREM CoefficientMeaning == Spec => []FairnessMeaning
<1>1. WorkloadInv => FairnessMeaning
  <2> SUFFICES ASSUME WorkloadInv, reported, NEW c \in {reader_tracker, writer_tracker}
               PROVE  LET cv2 == CVSquared(c)
                          n   == Cardinality(Threads)
                          made == {t \in Threads : c[t] > 0}
                      IN /\ cv2.num = 0 <=> Cardinality({c[t] : t \in Threads}) = 1
                         /\ cv2.num <= (n - 1) * cv2.den
                         /\ Cardinality(made) = 1 => cv2.num = (n - 1) * cv2.den
                         /\ lock = "binary" => cv2.num = 0
    BY DEF FairnessMeaning
  <2>1. c \in [Threads -> Nat]
    BY WorkloadAssumption DEF WorkloadInv, TypeOK
  <2>2. lock = "binary" => Cardinality({c[t] : t \in Threads}) = 1
    <3> SUFFICES ASSUME lock = "binary"
                 PROVE  Cardinality({c[t] : t \in Threads}) = 1
      OBVIOUS
    <3>1. PICK k : \A t \in Threads : c[t] = k
      BY BinaryEven
    <3>2. {c[t] : t \in Threads} = {k}
      BY <3>1, WorkloadAssumption
    <3> QED
      BY <3>2, FS_Singleton
  <2> QED
    BY <2>1, <2>2, MeaningOfCV
<1> QED
  BY <1>1, WorkloadInvariance, PTL

-----------------------------------------------------------------------------
(* Sequences: the first element that is in a set *)

FirstIn(s, P, x) == \E k \in 1..Len(s) : /\ s[k] = x /\ x \in P
                                         /\ \A j \in 1..(k - 1) : s[j] \notin P

NoneIn(s, P) == \A k \in 1..Len(s) : s[k] \notin P

\* The first element of the first part is that of the whole, and the first of the
\* second part if the first part has none.
LEMMA FirstOfTwo ==
    ASSUME NEW R, NEW s \in Seq(R), NEW t \in Seq(R), NEW P
    PROVE  /\ s \o t \in Seq(R)
           /\ NoneIn(s, P) /\ NoneIn(t, P) => NoneIn(s \o t, P)
           /\ \A x : FirstIn(s, P, x) => FirstIn(s \o t, P, x)
           /\ \A x : NoneIn(s, P) /\ FirstIn(t, P, x) => FirstIn(s \o t, P, x)
<1> DEFINE w == s \o t
<1>1. /\ w \in Seq(R) /\ Len(s) \in Nat /\ Len(t) \in Nat /\ Len(w) = Len(s) + Len(t)
      /\ \A i \in 1..Len(s) : w[i] = s[i]
      /\ \A i \in 1..Len(t) : w[Len(s) + i] = t[i]
  OBVIOUS
<1> HIDE DEF w
<1>2. \A i \in 1..Len(w) : i \in 1..Len(s) \/ (i - Len(s)) \in 1..Len(t)
  BY <1>1
<1>3. \A i \in 1..Len(w) : i \notin 1..Len(s) => w[i] = t[i - Len(s)]
  <2> SUFFICES ASSUME NEW i \in 1..Len(w), i \notin 1..Len(s)
               PROVE  w[i] = t[i - Len(s)]
    OBVIOUS
  <2>1. (i - Len(s)) \in 1..Len(t) /\ Len(s) + (i - Len(s)) = i
    BY <1>1, <1>2
  <2> QED
    BY <1>1, <2>1
<1>4. NoneIn(s, P) /\ NoneIn(t, P) => NoneIn(w, P)
  BY <1>1, <1>2, <1>3 DEF NoneIn
<1>5. ASSUME NEW x, FirstIn(s, P, x)
      PROVE  FirstIn(w, P, x)
  <2>1. PICK k \in 1..Len(s) : /\ s[k] = x /\ x \in P
                               /\ \A j \in 1..(k - 1) : s[j] \notin P
    BY <1>5 DEF FirstIn
  <2>2. k \in 1..Len(w) /\ w[k] = x /\ \A j \in 1..(k - 1) : j \in 1..Len(s)
    BY <1>1, <2>1
  <2> QED
    BY <1>1, <2>1, <2>2 DEF FirstIn
<1>6. ASSUME NEW x, NoneIn(s, P), FirstIn(t, P, x)
      PROVE  FirstIn(w, P, x)
  <2>1. PICK k \in 1..Len(t) : /\ t[k] = x /\ x \in P
                               /\ \A j \in 1..(k - 1) : t[j] \notin P
    BY <1>6 DEF FirstIn
  <2> DEFINE m == Len(s) + k
  <2>2. m \in 1..Len(w) /\ w[m] = x
    BY <1>1, <2>1
  <2>3. ASSUME NEW j \in 1..(m - 1)
        PROVE  w[j] \notin P
    <3>1. j \in 1..Len(w)
      BY <1>1, <2>1
    <3>2. CASE j \in 1..Len(s)
      BY <1>1, <1>6, <3>2 DEF NoneIn
    <3>3. CASE j \notin 1..Len(s)
      <4>1. j - Len(s) \in 1..(k - 1)
        BY <1>1, <3>1, <3>3
      <4> QED
        BY <1>3, <2>1, <3>1, <3>3, <4>1
    <3> QED
      BY <3>2, <3>3
  <2> QED
    BY <2>1, <2>2, <2>3 DEF FirstIn
<1> QED
  BY <1>1, <1>4, <1>5, <1>6 DEF w

\* The recursive function within FlattenSeq.
IsFlat(ss, m, g) == g = [i \in 1..m |-> IF i = 1 THEN ss[i] ELSE g[i - 1] \o ss[i]]

\* There is such a function.
LEMMA FlatExists ==
    ASSUME NEW ss, NEW n \in Nat
    PROVE  \E g : IsFlat(ss, n, g)
<1> DEFINE Bad == {m \in Nat : ~\E g : IsFlat(ss, m, g)}
<1> SUFFICES ASSUME Bad # {}
             PROVE  FALSE
  OBVIOUS
<1>1. PICK m \in Bad : \A k \in Bad : m <= k
  <2>1. Bad \in SUBSET Nat
    OBVIOUS
  <2> HIDE DEF Bad
  <2> QED
    BY <2>1, LeastNumber
<1>2. CASE m = 0
  <2> DEFINE g == [i \in 1..m |-> ss[i]]
  <2>1. IsFlat(ss, m, g)
    BY <1>2 DEF IsFlat
  <2> QED
    BY <2>1
<1>3. CASE m > 0
  <2>1. m - 1 \in Nat /\ m - 1 \notin Bad
    BY <1>1, <1>3
  <2>2. PICK h : IsFlat(ss, m - 1, h)
    BY <2>1
  <2> DEFINE g == [i \in 1..m |-> IF i < m THEN h[i] ELSE IF m = 1 THEN ss[1]
                                                          ELSE h[m - 1] \o ss[m]]
  <2>3. ASSUME NEW i \in 1..m
        PROVE  g[i] = IF i = 1 THEN ss[i] ELSE g[i - 1] \o ss[i]
    <3>1. CASE i = m
      <4>1. i # 1 => g[i - 1] = h[i - 1]
        BY <2>1, <3>1
      <4> QED
        BY <2>1, <3>1, <4>1
    <3>2. CASE i < m
      <4>1. i \in 1..(m - 1) /\ g[i] = h[i] /\ (i # 1 => g[i - 1] = h[i - 1])
        BY <2>1, <3>2
      <4>2. h[i] = IF i = 1 THEN ss[i] ELSE h[i - 1] \o ss[i]
        BY <2>2, <4>1 DEF IsFlat
      <4> QED
        BY <4>1, <4>2
    <3> QED
      BY <2>1, <3>1, <3>2
  <2>4. IsFlat(ss, m, g)
    <3>1. g = [i \in 1..m |-> g[i]]
      OBVIOUS
    <3> HIDE DEF g
    <3> QED
      BY <2>3, <3>1 DEF IsFlat
  <2> QED
    BY <2>4
<1> QED
  BY <1>1, <1>2, <1>3

\* What is true of the parts of a sequence is true of the whole: their elements,
\* the first of them in a set, and that there is none in it.
LEMMA Flattened ==
    ASSUME NEW R, NEW ss \in Seq(Seq(R)), NEW P
    PROVE  /\ FlattenSeq(ss) \in Seq(R)
           /\ (\A i \in 1..Len(ss) : NoneIn(ss[i], P)) => NoneIn(FlattenSeq(ss), P)
           /\ \A k \in 1..Len(ss) : \A x :
                /\ FirstIn(ss[k], P, x)
                /\ \A i \in 1..(k - 1) : NoneIn(ss[i], P)
                => FirstIn(FlattenSeq(ss), P, x)
<1>1. CASE Len(ss) = 0
  <2>1. FlattenSeq(ss) = << >>
    BY <1>1 DEF FlattenSeq
  <2> QED
    BY <1>1, <2>1 DEF NoneIn
<1>2. CASE Len(ss) # 0
  <2> DEFINE n == Len(ss)
  <2>0. n \in Nat /\ n # 0
    BY <1>2
  <2>1. FlattenSeq(ss) = (CHOOSE g : IsFlat(ss, n, g))[n]
    BY <1>2 DEF FlattenSeq, IsFlat
  <2>2. PICK g : IsFlat(ss, n, g) /\ FlattenSeq(ss) = g[n]
    <3>1. \E g : IsFlat(ss, n, g)
      BY <2>0, FlatExists
    <3> QED
      BY <2>1, <3>1
  <2>3. \A i \in 1..n : g[i] = IF i = 1 THEN ss[i] ELSE g[i - 1] \o ss[i]
    BY <2>2 DEF IsFlat
  <2>4. \A i \in 1..n : ss[i] \in Seq(R)
    OBVIOUS
  <2> DEFINE Good(i) == /\ g[i] \in Seq(R)
                        /\ (\A j \in 1..i : NoneIn(ss[j], P)) => NoneIn(g[i], P)
                        /\ \A k \in 1..i : \A x :
                             /\ FirstIn(ss[k], P, x)
                             /\ \A j \in 1..(k - 1) : NoneIn(ss[j], P)
                             => FirstIn(g[i], P, x)
             Bad == {i \in 1..n : ~Good(i)}
  <2> HIDE DEF n
  <2>5. Bad = {}
    <3> SUFFICES ASSUME Bad # {}
                 PROVE  FALSE
      OBVIOUS
    <3>1. PICK m \in Bad : \A k \in Bad : m <= k
      <4>1. Bad \in SUBSET Nat
        BY <2>0
      <4> HIDE DEF Bad
      <4> QED
        BY <4>1, LeastNumber
    <3>2. m \in 1..n /\ ~Good(m)
      OBVIOUS
    <3>3. CASE m = 1
      <4>1. g[m] = ss[1] /\ ss[1] \in Seq(R)
        BY <2>3, <2>4, <3>2, <3>3
      <4>2. Good(m)
        BY <3>3, <4>1
      <4> QED
        BY <3>2, <4>2
    <3>4. CASE m # 1
      <4>1. m - 1 \in 1..n /\ m - 1 \notin Bad /\ m \in Nat
        <5>1. m \in Nat /\ m - 1 \in 1..n /\ ~(m <= m - 1)
          BY <2>0, <3>2, <3>4
        <5> HIDE DEF Bad
        <5> QED
          BY <3>1, <5>1
      <4>2. Good(m - 1)
        BY <4>1
      <4>3. g[m] = g[m - 1] \o ss[m] /\ ss[m] \in Seq(R) /\ g[m - 1] \in Seq(R)
        BY <2>3, <2>4, <3>2, <3>4, <4>2
      <4> DEFINE s == g[m - 1]
                 t == ss[m]
      <4>4. /\ g[m] \in Seq(R)
            /\ NoneIn(s, P) /\ NoneIn(t, P) => NoneIn(g[m], P)
            /\ \A x : FirstIn(s, P, x) => FirstIn(g[m], P, x)
            /\ \A x : NoneIn(s, P) /\ FirstIn(t, P, x) => FirstIn(g[m], P, x)
        <5>1. s \in Seq(R) /\ t \in Seq(R) /\ g[m] = s \o t
          BY <4>3
        <5> HIDE DEF s, t
        <5> QED
          BY <5>1, FirstOfTwo
      <4>5. ASSUME \A j \in 1..m : NoneIn(ss[j], P)
            PROVE  NoneIn(g[m], P)
        <5>1. NoneIn(t, P) /\ \A j \in 1..(m - 1) : NoneIn(ss[j], P)
          BY <3>2, <4>1, <4>5
        <5> QED
          BY <4>2, <4>4, <5>1
      <4>6. ASSUME NEW k \in 1..m, NEW x, FirstIn(ss[k], P, x),
                   \A j \in 1..(k - 1) : NoneIn(ss[j], P)
            PROVE  FirstIn(g[m], P, x)
        <5>1. CASE k = m
          BY <4>2, <4>4, <4>6, <5>1
        <5>2. CASE k # m
          <6>1. k \in 1..(m - 1)
            BY <4>1, <5>2
          <6>2. FirstIn(s, P, x)
            BY <4>2, <4>6, <6>1
          <6> QED
            BY <4>4, <6>2
        <5> QED
          BY <5>1, <5>2
      <4>7. Good(m)
        BY <4>4, <4>5, <4>6
      <4> QED
        BY <3>2, <4>7
    <3> QED
      BY <3>3, <3>4
  <2>6. Good(n)
    <3>1. n \in 1..n
      BY <2>0
    <3> QED
      BY <2>5, <3>1
  <2> QED
    BY <2>2, <2>6 DEF n
<1> QED
  BY <1>1, <1>2

\* A sequence is a function; it has a first element unless it is empty.
LEMMA SequenceFacts ==
    ASSUME NEW S, NEW s \in Seq(S)
    PROVE  /\ DOMAIN s = 1..Len(s) /\ Len(s) \in Nat
           /\ \A i \in 1..Len(s) : s[i] \in S
           /\ s # << >> => 1 \in 1..Len(s) /\ Head(s) = s[1]
  OBVIOUS

\* A function on an initial part of the numbers is a sequence.
LEMMA FunctionSequence ==
    ASSUME NEW S, NEW n \in Nat, NEW s \in [1..n -> S]
    PROVE  s \in Seq(S) /\ Len(s) = n
  OBVIOUS

-----------------------------------------------------------------------------
(* The rows of a result file *)

AllFunctions == UNION {ToSet(Functions[b]) : b \in Benchmarks}

Rows == [source : Benchmarks, function : AllFunctions, arg : ToSet(Args),
         aggregate : {"mean", "median", "stddev", "cv"}]

Of(f) == {r \in Rows : r.function = f}
Means(f) == {r \in Rows : r.function = f /\ r.aggregate = "mean"}

\* The functions that a benchmark is asked to run.
FunctionsRun(b) == IF mode = "simple" THEN <<Filter[b]>> ELSE Functions[b]

\* The entry that the matrix should have.
MeanRow(b, f) == Row(b, f, Args[1], "mean")

\* A function of one argument leaves a row for each aggregate, the mean first.
LEMMA AggregateRows ==
    ASSUME SuitesFit,
           NEW b \in Benchmarks, NEW f \in ToSet(Functions[b]),
           NEW a \in ToSet(Args),
           NEW s, s = [k \in DOMAIN Aggregates |->
                         Row(b, f, a, Aggregates[k])]
    PROVE  /\ s \in Seq(Rows)
           /\ \A g : g # f => NoneIn(s, Of(g))
           /\ FirstIn(s, Means(f), Row(b, f, a, "mean"))
           /\ FirstIn(s, Rows, Row(b, f, a, "mean"))
<1>1. /\ DOMAIN Aggregates = 1..4
      /\ Aggregates[1] = "mean" /\ Aggregates[2] = "median"
      /\ Aggregates[3] = "stddev" /\ Aggregates[4] = "cv"
  BY DEF Aggregates
<1>2. f \in AllFunctions
  BY DEF AllFunctions
<1>3. \A k \in 1..4 : Row(b, f, a, Aggregates[k]) \in Rows
  BY <1>1, <1>2 DEF Row, Rows
<1>4. s \in [1..4 -> Rows]
  BY <1>1, <1>3
<1>5. s \in Seq(Rows) /\ Len(s) = 4
  BY <1>4
<1>6. /\ \A k \in 1..4 : s[k] \in Rows /\ s[k].function = f
      /\ s[1] = Row(b, f, a, "mean") /\ s[1].aggregate = "mean"
  BY <1>1, <1>4 DEF Row
<1>7. 1 \in 1..Len(s) /\ \A j \in 1..(1 - 1) : FALSE
  BY <1>5
<1> QED
  BY <1>5, <1>6, <1>7 DEF NoneIn, FirstIn, Of, Means

\* A function leaves its rows for one argument after the other.
LEMMA FunctionRows ==
    ASSUME SuitesFit,
           NEW b \in Benchmarks, NEW f \in ToSet(Functions[b]),
           NEW as \in Seq(ToSet(Args)), as # << >>, as[1] = Args[1],
           NEW w,
           w = FlattenSeq([j \in DOMAIN as |->
                 [k \in DOMAIN Aggregates |->
                    Row(b, f, as[j], Aggregates[k])]])
    PROVE  /\ w \in Seq(Rows)
           /\ \A g : g # f => NoneIn(w, Of(g))
           /\ FirstIn(w, Means(f), MeanRow(b, f))
           /\ FirstIn(w, Rows, MeanRow(b, f))
<1> DEFINE ss == [j \in DOMAIN as |-> [k \in DOMAIN Aggregates |->
                                         Row(b, f, as[j], Aggregates[k])]]
<1>1. /\ DOMAIN as = 1..Len(as) /\ Len(as) \in Nat /\ 1 \in 1..Len(as)
      /\ \A j \in 1..Len(as) : as[j] \in ToSet(Args)
  BY SequenceFacts
<1>2. ASSUME NEW j \in 1..Len(as)
      PROVE  /\ ss[j] \in Seq(Rows)
             /\ \A g : g # f => NoneIn(ss[j], Of(g))
             /\ FirstIn(ss[j], Means(f), Row(b, f, as[j], "mean"))
             /\ FirstIn(ss[j], Rows, Row(b, f, as[j], "mean"))
  <2>1. as[j] \in ToSet(Args)
    BY <1>1
  <2>2. ss[j] = [k \in DOMAIN Aggregates |->
                   Row(b, f, as[j], Aggregates[k])]
    BY <1>1
  <2> HIDE DEF ss
  <2> QED
    BY <2>1, <2>2, AggregateRows
<1> w = FlattenSeq(ss)
  OBVIOUS
<1>3. ss \in [1..Len(as) -> Seq(Rows)]
  <2>1. ss = [j \in 1..Len(as) |-> ss[j]]
    BY <1>1
  <2> HIDE DEF ss
  <2> QED
    BY <1>2, <2>1
<1> HIDE DEF ss
<1>4. ss \in Seq(Seq(Rows)) /\ Len(ss) = Len(as)
  BY <1>1, <1>3, FunctionSequence
<1>5. w \in Seq(Rows)
  BY <1>4, Flattened
<1>6. \A g : g # f => NoneIn(w, Of(g))
  BY <1>2, <1>4, Flattened
<1>7. /\ FirstIn(ss[1], Means(f), MeanRow(b, f))
      /\ FirstIn(ss[1], Rows, MeanRow(b, f))
  BY <1>1, <1>2 DEF MeanRow
<1>8. 1 \in 1..Len(ss) /\ \A i \in 1..(1 - 1) : FALSE
  <2>1. \A i \in 1..(1 - 1) : FALSE
    OBVIOUS
  <2> QED
    BY <1>1, <1>4, <2>1
<1>9. FirstIn(w, Means(f), MeanRow(b, f))
  <2>1. \A i \in 1..(1 - 1) : NoneIn(ss[i], Means(f))
    BY <1>8
  <2> QED
    BY <1>4, <1>7, <1>8, <2>1, Flattened
<1>10. FirstIn(w, Rows, MeanRow(b, f))
  <2>1. \A i \in 1..(1 - 1) : NoneIn(ss[i], Rows)
    BY <1>8
  <2> QED
    BY <1>4, <1>7, <1>8, <2>1, Flattened
<1> QED
  BY <1>5, <1>6, <1>9, <1>10

\* A benchmark writes the rows of the functions that it is asked to run; the mean
\* of a function at its first argument is the first of its means, and that of the
\* first function is the first row of all.
LEMMA WrittenRows ==
    ASSUME SuitesFit, mode \in {"simple", "full"}, NEW b \in Benchmarks,
           b \in ToSet(Suite)
    PROVE  /\ Written(b) \in Seq(Rows)
           /\ \A f : f \notin ToSet(FunctionsRun(b)) => NoneIn(Written(b), Of(f))
           /\ \A f \in ToSet(FunctionsRun(b)) :
                FirstIn(Written(b), Means(f), MeanRow(b, f))
           /\ FirstIn(Written(b), Rows, MeanRow(b, FunctionsRun(b)[1]))
           /\ FunctionsRun(b)[1] \in ToSet(FunctionsRun(b))
           /\ ToSet(FunctionsRun(b)) \subseteq ToSet(Functions[b])
<1>1. PICK fs : fs = FunctionsRun(b)
  OBVIOUS
<1>2. PICK as : as = IF mode = "simple" THEN <<Args[1]>> ELSE Args
  OBVIOUS
<1>3. as \in Seq(ToSet(Args)) /\ as # << >> /\ as[1] = Args[1]
  <2>1. Args \in Seq(ToSet(Args)) /\ Args # << >>
    BY DEF SuitesFit
  <2>2. Args[1] \in ToSet(Args)
    BY <2>1, SequenceFacts
  <2> QED
    BY <1>2, <2>1, <2>2
<1>4. fs \in Seq(ToSet(Functions[b])) /\ fs # << >>
  <2>1. CASE mode = "simple"
    <3>1. Filter[b] \in ToSet(Functions[b])
      BY <2>1 DEF SuitesFit, Suite
    <3> QED
      BY <1>1, <2>1, <3>1 DEF FunctionsRun
  <2>2. CASE mode # "simple"
    BY <1>1, <2>2 DEF FunctionsRun, SuitesFit
  <2> QED
    BY <2>1, <2>2
<1>5. /\ DOMAIN fs = 1..Len(fs) /\ Len(fs) \in Nat /\ 1 \in 1..Len(fs)
      /\ \A i \in 1..Len(fs) : fs[i] \in ToSet(Functions[b])
  BY <1>4, SequenceFacts
<1>6. /\ ToSet(fs) = {fs[i] : i \in 1..Len(fs)}
      /\ fs[1] \in ToSet(fs)
      /\ ToSet(fs) \subseteq ToSet(Functions[b])
  <2>1. ToSet(fs) = {fs[i] : i \in 1..Len(fs)}
    BY <1>5 DEF ToSet
  <2> QED
    BY <1>5, <2>1
<1> DEFINE Part(f) == FlattenSeq([j \in DOMAIN as |->
                        [k \in DOMAIN Aggregates |->
                           Row(b, f, as[j], Aggregates[k])]])
           ss == [i \in DOMAIN fs |-> Part(fs[i])]
<1>7. Written(b) = FlattenSeq(ss)
  BY <1>1, <1>2 DEF Written, FunctionsRun
<1>8. ASSUME NEW i \in 1..Len(fs)
      PROVE  /\ ss[i] \in Seq(Rows)
             /\ \A g : g # fs[i] => NoneIn(ss[i], Of(g))
             /\ FirstIn(ss[i], Means(fs[i]), MeanRow(b, fs[i]))
             /\ FirstIn(ss[i], Rows, MeanRow(b, fs[i]))
  <2>1. ss[i] = Part(fs[i])
    BY <1>5
  <2>2. fs[i] \in ToSet(Functions[b])
    BY <1>5
  <2>3. PICK w, f : w = ss[i] /\ f = fs[i]
    OBVIOUS
  <2>4. w = Part(f) /\ f \in ToSet(Functions[b])
    BY <2>1, <2>2, <2>3
  <2> HIDE DEF ss
  <2>5. /\ w \in Seq(Rows)
        /\ \A g : g # f => NoneIn(w, Of(g))
        /\ FirstIn(w, Means(f), MeanRow(b, f))
        /\ FirstIn(w, Rows, MeanRow(b, f))
    BY <1>3, <2>4, FunctionRows
  <2> QED
    BY <2>3, <2>5
<1>9. ss \in [1..Len(fs) -> Seq(Rows)]
  <2>1. ss = [i \in 1..Len(fs) |-> ss[i]]
    BY <1>5
  <2> HIDE DEF ss
  <2> QED
    BY <1>8, <2>1
<1> HIDE DEF ss
<1>10. ss \in Seq(Seq(Rows)) /\ Len(ss) = Len(fs)
  BY <1>5, <1>9, FunctionSequence
<1>11. Written(b) \in Seq(Rows)
  BY <1>7, <1>10, Flattened
<1>12. ASSUME NEW f, f \notin ToSet(fs)
       PROVE  NoneIn(Written(b), Of(f))
  <2>1. \A i \in 1..Len(ss) : NoneIn(ss[i], Of(f))
    BY <1>6, <1>8, <1>10, <1>12
  <2> QED
    BY <1>7, <1>10, <2>1, Flattened
<1>13. ASSUME NEW f \in ToSet(fs)
       PROVE  FirstIn(Written(b), Means(f), MeanRow(b, f))
  <2> DEFINE At_f == {i \in 1..Len(fs) : fs[i] = f}
  <2>1. At_f # {} /\ At_f \in SUBSET Nat
    BY <1>6
  <2>2. PICK i \in At_f : \A m \in At_f : i <= m
    <3> HIDE DEF At_f
    <3> QED
      BY <2>1, LeastNumber
  <2>3. ASSUME NEW j \in 1..(i - 1)
        PROVE  NoneIn(ss[j], Means(f))
    <3>1. j \in 1..Len(fs) /\ fs[j] # f
      BY <1>5, <2>2
    <3>2. NoneIn(ss[j], Of(f))
      BY <1>8, <3>1
    <3> QED
      BY <3>2 DEF NoneIn, Of, Means
  <2>4. i \in 1..Len(ss) /\ FirstIn(ss[i], Means(f), MeanRow(b, f))
    BY <1>8, <1>10, <2>2
  <2> QED
    BY <1>7, <1>10, <2>3, <2>4, Flattened
<1>14. FirstIn(Written(b), Rows, MeanRow(b, fs[1]))
  <2>1. 1 \in 1..Len(ss) /\ FirstIn(ss[1], Rows, MeanRow(b, fs[1]))
    BY <1>5, <1>8, <1>10
  <2>2. \A i \in 1..(1 - 1) : NoneIn(ss[i], Rows)
    OBVIOUS
  <2> QED
    BY <1>7, <1>10, <2>1, <2>2, Flattened
<1> QED
  BY <1>1, <1>6, <1>11, <1>12, <1>13, <1>14

\* pick_best gives the first mean of a function, and nothing if it has no row.
LEMMA PickedRow ==
    ASSUME NEW rows \in Seq(Rows), NEW f
    PROVE  /\ NoneIn(rows, Of(f)) => pick_best(rows, f) = NoRow
           /\ \A x : FirstIn(rows, Means(f), x) => pick_best(rows, f) = x
<1> DEFINE matches == {i \in DOMAIN rows : /\ rows[i].function = f
                                           /\ rows[i].aggregate \notin Dropped}
           means == {i \in matches : rows[i].aggregate = "mean"}
<1>1. pick_best(rows, f) = IF means # {} THEN rows[Min(means)]
                                  ELSE IF matches # {} THEN rows[Min(matches)]
                                  ELSE NoRow
  BY DEF pick_best
<1>2. /\ DOMAIN rows = 1..Len(rows) /\ Len(rows) \in Nat
      /\ \A i \in 1..Len(rows) : rows[i] \in Rows
  BY SequenceFacts
<1>3. ASSUME NoneIn(rows, Of(f))
      PROVE  pick_best(rows, f) = NoRow
  <2>1. matches = {}
    BY <1>2, <1>3 DEF NoneIn, Of
  <2>2. means = {}
    BY <2>1
  <2> HIDE DEF matches, means
  <2> QED
    BY <1>1, <2>1, <2>2
<1>4. ASSUME NEW x, FirstIn(rows, Means(f), x)
      PROVE  pick_best(rows, f) = x
  <2>1. PICK k \in 1..Len(rows) : /\ rows[k] = x /\ x \in Means(f)
                                  /\ \A j \in 1..(k - 1) : rows[j] \notin Means(f)
    BY <1>4 DEF FirstIn
  <2>2. \A i \in 1..Len(rows) : i \in means <=> rows[i] \in Means(f)
    <3>1. "mean" \notin Dropped
      BY DEF Dropped
    <3> QED
      BY <1>2, <3>1 DEF Means
  <2>3. means \subseteq 1..Len(rows)
    BY <1>2
  <2> HIDE DEF means, matches
  <2>4. k \in means /\ \A j \in means : k <= j
    BY <1>2, <2>1, <2>2, <2>3
  <2>5. Min(means) = k
    <3>1. \A y \in means : (\A j \in means : y <= j) => y = k
      BY <1>2, <2>3, <2>4
    <3> QED
      BY <2>4, <3>1 DEF Min
  <2> QED
    BY <1>1, <2>1, <2>4, <2>5
<1> QED
  BY <1>3, <1>4

\* The file of a benchmark that has completed it.
Done(b) == [state |-> "complete", rows |-> Written(b)]

\* A file is not there, incomplete, replaced or complete; a complete one is of a
\* benchmark of the suite.
FilesOK == \A b \in Benchmarks :
             /\ dir[b] \in {NoFile, Partial, Error, Done(b)}
             /\ dir[b] # NoFile => b \in ToSet(Suite)

\* A file is complete, or no reader finds a row in it.
LEMMA CompleteFile ==
    ASSUME FilesOK, NEW b \in Benchmarks
    PROVE  /\ dir[b].state = "complete" <=> dir[b] = Done(b)
           /\ dir[b].state = "none" <=> dir[b] = NoFile
           /\ dir[b].state = "partial" <=> dir[b] = Partial
           /\ dir[b].state = "error" <=> dir[b] = Error
           /\ dir[b] = Done(b) => b \in ToSet(Suite)
<1>1. /\ NoFile.state = "none" /\ Partial.state = "partial"
      /\ Error.state = "error" /\ Done(b).state = "complete"
  BY DEF NoFile, Partial, Error, Done
<1>2. /\ dir[b] \in {NoFile, Partial, Error, Done(b)}
      /\ dir[b] # NoFile => b \in ToSet(Suite)
  BY DEF FilesOK
<1> QED
  BY <1>1, <1>2

\* The matrix has a function's mean if a complete file has it, wherever that file
\* is in the order of the names, and no entry if there is none.
LEMMA MatrixEntries ==
    ASSUME SuitesFit, mode \in {"simple", "full"}, FilesOK, NEW f,
           NEW entry, entry = pick_best(load_benchmarks(dir), f)
    PROVE  /\ \A b \in Benchmarks :
                dir[b] = Done(b) /\ f \in ToSet(FunctionsRun(b)) => entry = MeanRow(b, f)
           /\ (\A b \in Benchmarks :
                 dir[b] = Done(b) => f \notin ToSet(FunctionsRun(b)))
              => entry = NoRow
<1> DEFINE ss == [i \in DOMAIN Sorted |-> Kept(dir[Sorted[i]])]
           rows == load_benchmarks(dir)
<1>1. /\ DOMAIN Sorted = 1..Len(Sorted) /\ Len(Sorted) \in Nat
      /\ \A i \in 1..Len(Sorted) : Sorted[i] \in Benchmarks
  BY SequenceFacts DEF SuitesFit
<1>2. \A b \in Benchmarks : \E i \in 1..Len(Sorted) : Sorted[i] = b
  BY <1>1 DEF Benchmarks, ToSet
<1>3. rows = FlattenSeq(ss)
  BY DEF load_benchmarks
<1>4. ASSUME NEW i \in 1..Len(Sorted), NEW b, b = Sorted[i]
      PROVE  /\ ss[i] \in Seq(Rows)
             /\ dir[b] = Done(b) => ss[i] = Written(b)
             /\ dir[b] # Done(b) => ss[i] = << >>
  <2>1. ss[i] = Kept(dir[b]) /\ b \in Benchmarks
    BY <1>1, <1>4
  <2> HIDE DEF ss
  <2>2. dir[b] = Done(b) => /\ ss[i] = Written(b) /\ Written(b) \in Seq(Rows)
                            /\ b \in ToSet(Suite)
    <3> SUFFICES ASSUME dir[b] = Done(b)
                 PROVE  /\ ss[i] = Written(b) /\ Written(b) \in Seq(Rows)
                        /\ b \in ToSet(Suite)
      OBVIOUS
    <3>1. b \in ToSet(Suite)
      BY <2>1, CompleteFile
    <3>2. dir[b].state = "complete" /\ dir[b].rows = Written(b)
      BY DEF Done
    <3>3. ss[i] = Written(b)
      BY <2>1, <3>2 DEF Kept
    <3> QED
      BY <2>1, <3>1, <3>3, WrittenRows
  <2>3. dir[b] # Done(b) => ss[i] = << >>
    <3>1. dir[b] # Done(b) => dir[b].state # "complete"
      BY <2>1, CompleteFile
    <3> QED
      BY <2>1, <3>1 DEF Kept
  <2>4. << >> \in Seq(Rows)
    OBVIOUS
  <2> QED
    BY <2>2, <2>3, <2>4
<1>5. ss \in [1..Len(Sorted) -> Seq(Rows)]
  <2>1. ss = [i \in 1..Len(Sorted) |-> ss[i]]
    BY <1>1
  <2> HIDE DEF ss
  <2> QED
    BY <1>4, <2>1
<1> HIDE DEF ss, rows
<1>6. ss \in Seq(Seq(Rows)) /\ Len(ss) = Len(Sorted)
  BY <1>1, <1>5, FunctionSequence
<1>7. rows \in Seq(Rows)
  BY <1>3, <1>6, Flattened
<1>8. ASSUME NEW i \in 1..Len(Sorted), NEW b, b = Sorted[i],
             dir[b] = Done(b) => f \notin ToSet(FunctionsRun(b))
      PROVE  NoneIn(ss[i], Of(f))
  <2>1. b \in Benchmarks
    BY <1>1, <1>8
  <2>2. CASE dir[b] = Done(b)
    <3>1. ss[i] = Written(b) /\ b \in ToSet(Suite)
      BY <1>4, <1>8, <2>1, <2>2, CompleteFile
    <3> QED
      BY <1>8, <2>1, <2>2, <3>1, WrittenRows
  <2>3. CASE dir[b] # Done(b)
    <3>1. ss[i] = << >>
      BY <1>4, <1>8, <2>3
    <3> QED
      BY <3>1 DEF NoneIn
  <2> QED
    BY <2>2, <2>3
<1>9. ASSUME NEW b \in Benchmarks, dir[b] = Done(b),
             f \in ToSet(FunctionsRun(b))
      PROVE  entry = MeanRow(b, f)
  <2> DEFINE places == {i \in 1..Len(Sorted) : Sorted[i] = b}
  <2>1. places # {} /\ places \in SUBSET Nat
    BY <1>2
  <2>2. PICK i \in places : \A m \in places : i <= m
    <3> HIDE DEF places
    <3> QED
      BY <2>1, LeastNumber
  <2>3. b \in ToSet(Suite)
    BY <1>9, CompleteFile
  <2>4. /\ FirstIn(Written(b), Means(f), MeanRow(b, f))
        /\ ToSet(FunctionsRun(b)) \subseteq ToSet(Functions[b])
    BY <1>9, <2>3, WrittenRows
  <2>5. ASSUME NEW j \in 1..(i - 1)
        PROVE  NoneIn(ss[j], Means(f))
    <3>1. j \in 1..Len(Sorted) /\ Sorted[j] # b
      BY <1>1, <2>2
    <3>2. PICK d \in Benchmarks : d = Sorted[j]
      BY <1>1, <3>1
    <3>3. f \notin ToSet(Functions[d])
      BY <1>9, <2>4, <3>1, <3>2 DEF SuitesFit
    <3>4. dir[d] = Done(d) => f \notin ToSet(FunctionsRun(d))
      <4>1. dir[d] = Done(d) => d \in ToSet(Suite)
        BY CompleteFile
      <4> QED
        BY <3>3, <4>1, WrittenRows
    <3>5. NoneIn(ss[j], Of(f))
      BY <1>8, <3>1, <3>2, <3>4
    <3> QED
      BY <3>5 DEF NoneIn, Of, Means
  <2>6. i \in 1..Len(ss) /\ FirstIn(ss[i], Means(f), MeanRow(b, f))
    BY <1>4, <1>6, <1>9, <2>2, <2>4
  <2>7. FirstIn(rows, Means(f), MeanRow(b, f))
    BY <1>3, <1>6, <2>5, <2>6, Flattened
  <2> QED
    BY <1>7, <2>7, PickedRow DEF rows
<1>10. ASSUME \A b \in Benchmarks :
                dir[b] = Done(b) => f \notin ToSet(FunctionsRun(b))
       PROVE  entry = NoRow
  <2>1. \A i \in 1..Len(ss) : NoneIn(ss[i], Of(f))
    BY <1>1, <1>6, <1>8, <1>10
  <2>2. NoneIn(rows, Of(f))
    BY <1>3, <1>6, <2>1, Flattened
  <2> QED
    BY <1>7, <2>2, PickedRow DEF rows
<1> QED
  BY <1>9, <1>10

-----------------------------------------------------------------------------
(* The runner: the inductive invariant *)

Files == {NoFile, Partial, Error} \cup {Done(b) : b \in Benchmarks}

RunnerTypes ==
    /\ mode \in {"simple", "full"} /\ python \in BOOLEAN
    /\ place \in {"build", "run", "wait", "report", "matrix", "monitor", "over"}
    /\ next \in Nat /\ next > 0
    /\ child \in {"none", "working", "stuck"}
    /\ dir \in [Benchmarks -> Files]
    /\ outcome \in [Benchmarks ->
                      {"not run", "missing", "completed", "failed", "timed out"}]

\* The script waits while there is a child, whose file is not yet replaced.
Waiting ==
    /\ place = "wait" <=> child # "none"
    /\ place = "wait" => next <= Len(Suite) /\ Current \in built
    /\ child = "working" => dir[Current].state \in {"partial", "complete"}

\* How a benchmark ended is what its file tells, unless it is running again.
Settled(b) ==
    /\ outcome[b] \in {"not run", "missing"} <=> dir[b] = NoFile
    /\ outcome[b] = "completed" => dir[b] = Done(b)
    /\ outcome[b] = "timed out" <=> dir[b] = Error

EndsKnown == \A b \in Benchmarks :
               /\ dir[b] # NoFile => b \in built
               /\ (place = "wait" /\ b = Current) \/ Settled(b)

\* Summary, report and matrix are made of the same files.
Summarised ==
    mode = "simple" =>
      summary = [i \in DOMAIN SimpleSuite |-> extract_summary(dir[SimpleSuite[i]])]
Listing == {b \in Benchmarks : dir[b].state # "none"}
Reported_ == python => report = [b \in Listing |-> Line(dir[b])]

OutputsMade ==
    /\ place \notin {"monitor", "over"} => generated = Old
    /\ place \in {"report", "matrix"} => Summarised
    /\ place = "matrix" => Reported_
    /\ generated # Old =>
         python /\ Summarised /\ Reported_ /\ generated = Matrix(dir)

RunnerInv == RunnerTypes /\ FilesOK /\ Waiting /\ EndsKnown /\ OutputsMade

\* Nothing has been run.
LEMMA RunnerInvInit ==
    ASSUME RunnerInit
    PROVE  RunnerInv
<1> USE DEF RunnerInit
<1>1. RunnerTypes
  <2>2. dir \in [Benchmarks -> Files]
    BY DEF Files
  <2>3. outcome \in [Benchmarks ->
                      {"not run", "missing", "completed", "failed", "timed out"}]
    OBVIOUS
  <2>4. mode \in {"simple", "full"} /\ python \in BOOLEAN
    OBVIOUS
  <2>5. /\ place \in {"build", "run", "wait", "report", "matrix", "monitor", "over"}
        /\ child \in {"none", "working", "stuck"}
    OBVIOUS
  <2>6. next = 1
    OBVIOUS
  <2> HIDE DEF RunnerInit, Files
  <2>7. next \in Nat /\ next > 0
    BY <2>6
  <2> QED
    BY <2>2, <2>3, <2>4, <2>5, <2>7 DEF RunnerTypes
<1>2. \A b \in Benchmarks : dir[b] = NoFile /\ outcome[b] = "not run"
  OBVIOUS
<1>3. NoFile # Error
  BY DEF NoFile, Error
<1>4. FilesOK /\ EndsKnown
  BY <1>2, <1>3 DEF FilesOK, EndsKnown, Settled
<1>5. Waiting /\ OutputsMade
  BY DEF Waiting, OutputsMade
<1> QED
  BY <1>1, <1>4, <1>5 DEF RunnerInv

\* The suite and what is written for it are the same throughout.
LEMMA SameSuite ==
    ASSUME UNCHANGED mode
    PROVE  /\ UNCHANGED Suite
           /\ \A b : Written(b)' = Written(b) /\ Done(b)' = Done(b)
BY DEF Suite, Written, Done

\* The four states of a file are different.
LEMMA FileStatesDiffer ==
    \A b :
           /\ NoFile # Partial /\ NoFile # Error
           /\ Partial # Error
           /\ Done(b) \notin {NoFile, Partial, Error}
<1>1. /\ NoFile.state = "none" /\ Partial.state = "partial"
      /\ Error.state = "error" /\ \A b : Done(b).state = "complete"
  BY DEF NoFile, Partial, Error, Done
<1> QED
  BY <1>1

\* A benchmark that the script runs, or waits for, is one of the suite.
LEMMA CurrentInSuite ==
    ASSUME SuitesFit, RunnerTypes, next <= Len(Suite)
    PROVE  /\ Current \in Benchmarks
           /\ Current \in ToSet(Suite)
<1>1. PICK s : s = Suite
  OBVIOUS
<1>2. s \in Seq(Benchmarks)
  BY <1>1 DEF Suite, SuitesFit
<1>3. DOMAIN s = 1..Len(s) /\ Len(s) \in Nat /\ \A i \in 1..Len(s) : s[i] \in Benchmarks
  BY <1>2, SequenceFacts
<1>4. next \in 1..Len(s)
  <2>1. next \in Nat /\ next > 0
    BY DEF RunnerTypes
  <2>2. next <= Len(s)
    BY <1>1
  <2> QED
    BY <1>3, <2>1, <2>2
<1>5. s[next] \in Benchmarks /\ s[next] \in ToSet(s)
  BY <1>3, <1>4 DEF ToSet
<1> QED
  BY <1>1, <1>5 DEF Current

\* One benchmark's file and outcome change: what is known of the others stays.
LEMMA OneFile ==
    ASSUME SuitesFit, RunnerInv, UNCHANGED <<mode, built>>,
           NEW c \in Benchmarks, place = "wait" => c = Current,
           \A b \in Benchmarks \ {c} : dir'[b] = dir[b] /\ outcome'[b] = outcome[b],
           dir'[c] \in {NoFile, Partial, Error, Done(c)},
           dir'[c] # NoFile => c \in built /\ c \in ToSet(Suite),
           (place' = "wait" /\ c = Current') \/ Settled(c)'
    PROVE  FilesOK' /\ EndsKnown'
<1>1. /\ Suite' = Suite /\ \A b : Done(b)' = Done(b)
      /\ built' = built
  BY SameSuite
<1>2. FilesOK'
  <2> SUFFICES ASSUME NEW b \in Benchmarks
               PROVE  /\ dir'[b] \in {NoFile, Partial, Error, Done(b)}
                      /\ dir'[b] # NoFile => b \in ToSet(Suite)
    BY <1>1 DEF FilesOK
  <2>1. CASE b = c
    BY <2>1
  <2>2. CASE b # c
    BY <2>2 DEF RunnerInv, FilesOK
  <2> QED
    BY <2>1, <2>2
<1>3. EndsKnown'
  <2> SUFFICES ASSUME NEW b \in Benchmarks
               PROVE  /\ dir'[b] # NoFile => b \in built
                      /\ (place' = "wait" /\ b = Current') \/ Settled(b)'
    BY <1>1 DEF EndsKnown
  <2>1. CASE b = c
    BY <2>1
  <2>2. CASE b # c
    <3>1. (dir[b] # NoFile => b \in built) /\ Settled(b)
      BY <2>2 DEF RunnerInv, EndsKnown
    <3>2. dir'[b] = dir[b] /\ outcome'[b] = outcome[b]
      BY <2>2
    <3> QED
      BY <1>1, <3>1, <3>2 DEF Settled
  <2> QED
    BY <2>1, <2>2
<1> QED
  BY <1>2, <1>3

\* The script and the child change neither the outputs nor what they are made of,
\* before the outputs are made.
LEMMA NoOutputs ==
    ASSUME RunnerInv, place \notin {"monitor", "over"}, UNCHANGED generated,
           place' \in {"run", "wait"}
    PROVE  OutputsMade'
<1>1. generated = Old
  BY DEF RunnerInv, OutputsMade
<1> QED
  BY <1>1 DEF OutputsMade, Old

\* A position is a positive number.
LEMMA NextPosition == \A n \in Nat : n > 0 => n + 1 \in Nat /\ n + 1 > 0
OBVIOUS

\* run_benchmark returns with an outcome that the file tells.
LEMMA ReturnKeeps ==
    ASSUME SuitesFit, RunnerInv, UNCHANGED <<mode, python, built, generated>>,
           next <= Len(Suite), place \in {"run", "wait"},
           NEW o \in {"missing", "completed", "failed", "timed out"}, Return(o),
           NEW file \in {NoFile, Partial, Error, Done(Current)},
           dir' = [dir EXCEPT ![Current] = file],
           o = "missing" <=> file = NoFile,
           o = "completed" => file = Done(Current),
           o = "timed out" <=> file = Error,
           file # NoFile => Current \in built
    PROVE  RunnerInv'
<1>1. PICK c : c = Current
  OBVIOUS
<1>2. c \in Benchmarks /\ c \in ToSet(Suite)
  BY <1>1, CurrentInSuite DEF RunnerInv
<1>3. /\ place' = "run" /\ child' = "none" /\ next' = next + 1
      /\ outcome' = [outcome EXCEPT ![c] = o] /\ dir' = [dir EXCEPT ![c] = file]
  BY <1>1 DEF Return
<1>4. /\ dir \in [Benchmarks -> Files]
      /\ outcome \in [Benchmarks ->
                        {"not run", "missing", "completed", "failed", "timed out"}]
      /\ next \in Nat /\ next > 0
      /\ mode \in {"simple", "full"} /\ python \in BOOLEAN
  BY DEF RunnerInv, RunnerTypes
<1>5. Files' = Files
  BY SameSuite DEF Files
<1>6. file \in Files
  BY <1>1, <1>2 DEF Files
<1>7. /\ dir'[c] = file /\ outcome'[c] = o
      /\ \A b \in Benchmarks \ {c} : dir'[b] = dir[b] /\ outcome'[b] = outcome[b]
  <2> HIDE DEF Files
  <2> QED
    BY <1>2, <1>3, <1>4
<1>8. RunnerTypes'
  <2> HIDE DEF Files
  <2>1. dir' \in [Benchmarks -> Files]
    BY <1>2, <1>3, <1>4, <1>6
  <2>2. outcome' \in [Benchmarks ->
                        {"not run", "missing", "completed", "failed", "timed out"}]
    BY <1>2, <1>3, <1>4
  <2>3. next' \in Nat /\ next' > 0
    <3>1. next \in Nat /\ next > 0 /\ next' = next + 1
      BY <1>3, <1>4
    <3> QED
      BY <3>1, NextPosition
  <2>4. mode' \in {"simple", "full"} /\ python' \in BOOLEAN
    BY <1>4
  <2>5. /\ place' \in {"build", "run", "wait", "report", "matrix", "monitor", "over"}
        /\ child' \in {"none", "working", "stuck"}
    BY <1>3
  <2> QED
    BY <1>5, <2>1, <2>2, <2>3, <2>4, <2>5 DEF RunnerTypes
<1>9. Settled(c)'
  <2>1. Done(c)' = Done(c)
    BY SameSuite
  <2> QED
    BY <1>1, <1>7, <2>1, FileStatesDiffer DEF Settled
<1>10. FilesOK' /\ EndsKnown'
  <2>1. place = "wait" => c = Current
    BY <1>1
  <2>2. dir'[c] \in {NoFile, Partial, Error, Done(c)}
    BY <1>1, <1>7
  <2>3. dir'[c] # NoFile => c \in built /\ c \in ToSet(Suite)
    BY <1>1, <1>2, <1>7
  <2> QED
    BY <1>2, <1>7, <1>9, <2>1, <2>2, <2>3, OneFile
<1>11. Waiting'
  BY <1>3 DEF Waiting
<1>12. OutputsMade'
  <2>1. place \notin {"monitor", "over"} /\ place' \in {"run", "wait"} /\ generated' = generated
    BY <1>3
  <2> QED
    BY <2>1, NoOutputs
<1> QED
  BY <1>8, <1>10, <1>11, <1>12 DEF RunnerInv

\* While the script waits for a benchmark, only its file is written.
LEMMA WaitKeeps ==
    ASSUME SuitesFit, RunnerInv,
           UNCHANGED <<mode, python, built, next, outcome, generated>>,
           place \in {"run", "wait"}, place' = "wait",
           next <= Len(Suite), Current \in built,
           child' \in {"working", "stuck"},
           NEW file \in {Partial, Error, Done(Current)},
           child' = "working" => file # Error,
           dir' = [dir EXCEPT ![Current] = file]
    PROVE  RunnerInv'
<1>1. PICK c : c = Current
  OBVIOUS
<1>2. c \in Benchmarks /\ c \in ToSet(Suite)
  BY <1>1, CurrentInSuite DEF RunnerInv
<1>3. /\ Suite' = Suite /\ \A b : Done(b)' = Done(b)
      /\ Current' = c
  <2>1. Suite' = Suite /\ \A b : Done(b)' = Done(b)
    BY SameSuite
  <2> QED
    BY <1>1, <2>1 DEF Current
<1>4. dir \in [Benchmarks -> Files] /\ dir' = [dir EXCEPT ![c] = file]
  BY <1>1 DEF RunnerInv, RunnerTypes
<1>5. file \in Files /\ Files' = Files
  BY <1>1, <1>2, <1>3 DEF Files
<1>6. /\ dir'[c] = file /\ dir' \in [Benchmarks -> Files]
      /\ \A b \in Benchmarks \ {c} : dir'[b] = dir[b] /\ outcome'[b] = outcome[b]
  <2> HIDE DEF Files
  <2> QED
    BY <1>2, <1>4, <1>5
<1>7. RunnerTypes'
  <2> HIDE DEF Files
  <2>1. /\ mode \in {"simple", "full"} /\ python \in BOOLEAN
        /\ next \in Nat /\ next > 0
        /\ outcome \in [Benchmarks ->
                          {"not run", "missing", "completed", "failed", "timed out"}]
    BY DEF RunnerInv, RunnerTypes
  <2>2. /\ mode' = mode /\ python' = python /\ next' = next /\ outcome' = outcome
    OBVIOUS
  <2>3. /\ place' \in {"build", "run", "wait", "report", "matrix", "monitor", "over"}
        /\ child' \in {"none", "working", "stuck"}
    OBVIOUS
  <2> QED
    BY <1>5, <1>6, <2>1, <2>2, <2>3 DEF RunnerTypes
<1>8. FilesOK' /\ EndsKnown'
  <2>1. /\ place = "wait" => c = Current
        /\ place' = "wait" /\ c = Current'
    BY <1>1, <1>3
  <2>2. dir'[c] \in {NoFile, Partial, Error, Done(c)}
    BY <1>1, <1>6
  <2>3. dir'[c] # NoFile => c \in built /\ c \in ToSet(Suite)
    BY <1>1, <1>2
  <2> QED
    BY <1>2, <1>6, <2>1, <2>2, <2>3, OneFile
<1>9. Waiting'
  <2>1. next' <= Len(Suite') /\ Current' \in built'
    BY <1>1, <1>3
  <2>2. child' = "working" => dir'[Current'].state \in {"partial", "complete"}
    <3>1. child' = "working" => file \in {Partial, Done(c)}
      BY <1>1
    <3>2. Partial.state = "partial" /\ Done(c).state = "complete"
      BY DEF Partial, Done
    <3> QED
      BY <1>3, <1>6, <3>1, <3>2
  <2> QED
    BY <2>1, <2>2 DEF Waiting
<1>10. OutputsMade'
  <2>1. place \notin {"monitor", "over"} /\ place' \in {"run", "wait"} /\ generated' = generated
    OBVIOUS
  <2> QED
    BY <2>1, NoOutputs
<1> QED
  BY <1>7, <1>8, <1>9, <1>10 DEF RunnerInv

\* A file may be replaced by itself.
LEMMA SameFile ==
    ASSUME RunnerTypes, UNCHANGED dir, NEW c \in Benchmarks
    PROVE  dir' = [dir EXCEPT ![c] = dir[c]]
<1>1. dir \in [Benchmarks -> Files] /\ dir' = dir
  BY DEF RunnerTypes
<1> HIDE DEF Files
<1> QED
  BY <1>1

\* Running a benchmark keeps the invariant.
LEMMA RunKeeps ==
    ASSUME SuitesFit, RunnerInv,
           NotFound \/ Start \/ ChildStep \/ TimedOut
    PROVE  RunnerInv'
<1>1. PICK c : c = Current
  OBVIOUS
<1>2. Waiting /\ FilesOK /\ EndsKnown /\ RunnerTypes
  BY DEF RunnerInv
<1>3. child # "none" => /\ place = "wait" /\ next <= Len(Suite) /\ c \in built
                        /\ c \in Benchmarks
  <2>1. child # "none" => place = "wait" /\ next <= Len(Suite) /\ c \in built
    BY <1>1, <1>2 DEF Waiting
  <2> QED
    BY <1>1, <1>2, <2>1, CurrentInSuite
<1>4. CASE NotFound
  <2>1. /\ UNCHANGED <<mode, python, built, generated>> /\ UNCHANGED dir
        /\ next <= Len(Suite) /\ place = "run" /\ c \notin built
        /\ Return("missing")
    BY <1>1, <1>4 DEF NotFound, host, results
  <2>2. c \in Benchmarks
    BY <1>1, <1>2, <2>1, CurrentInSuite
  <2>3. dir[c] = NoFile
    BY <1>2, <2>1, <2>2 DEF EndsKnown
  <2>4. dir' = [dir EXCEPT ![c] = NoFile]
    BY <1>2, <2>1, <2>2, <2>3, SameFile
  <2> QED
    BY <1>1, <2>1, <2>4, ReturnKeeps, FileStatesDiffer
<1>5. CASE Start
  <2>1. /\ UNCHANGED <<mode, python, built, next, outcome, generated>>
        /\ next <= Len(Suite) /\ place = "run" /\ c \in built
        /\ place' = "wait" /\ child' = "working"
        /\ dir' = [dir EXCEPT ![c] = Partial]
    BY <1>1, <1>5 DEF Start, host, results
  <2> QED
    BY <1>1, <2>1, WaitKeeps, FileStatesDiffer
<1>6. CASE WriteFile
  <2>1. /\ UNCHANGED <<mode, python, built, next, outcome, generated>>
        /\ child = "working" /\ place' = place /\ child' = child
        /\ dir' = [dir EXCEPT ![c] = Done(c)]
    BY <1>1, <1>6 DEF WriteFile, host, results, Done
  <2> QED
    BY <1>1, <1>3, <2>1, WaitKeeps, FileStatesDiffer
<1>7. CASE Hang
  <2>1. /\ UNCHANGED <<mode, python, built, next, outcome, generated>> /\ UNCHANGED dir
        /\ child = "working" /\ place' = place /\ child' = "stuck"
    BY <1>7 DEF Hang, host, results
  <2>2. dir[c] \in {Partial, Done(c)}
    <3>1. dir[c].state \in {"partial", "complete"}
      BY <1>1, <1>2, <2>1 DEF Waiting
    <3> QED
      BY <1>2, <1>3, <2>1, <3>1, CompleteFile
  <2>3. dir' = [dir EXCEPT ![c] = dir[c]]
    BY <1>2, <1>3, <2>1, SameFile
  <2> QED
    BY <1>1, <1>3, <2>1, <2>2, <2>3, WaitKeeps
<1>8. CASE Completed
  <2>1. /\ UNCHANGED <<mode, python, built, generated>> /\ UNCHANGED dir
        /\ child = "working" /\ dir[c].state = "complete" /\ Return("completed")
    BY <1>1, <1>8 DEF Completed, host, results
  <2>2. dir[c] = Done(c)
    BY <1>2, <1>3, <2>1, CompleteFile
  <2>3. dir' = [dir EXCEPT ![c] = Done(c)]
    BY <1>2, <1>3, <2>1, <2>2, SameFile
  <2> QED
    BY <1>1, <1>3, <2>1, <2>3, ReturnKeeps, FileStatesDiffer
<1>9. CASE Failed
  <2>1. /\ UNCHANGED <<mode, python, built, generated>> /\ UNCHANGED dir
        /\ child = "working" /\ Return("failed")
    BY <1>9 DEF Failed, host, results
  <2>2. dir[c] \in {Partial, Done(c)}
    <3>1. dir[c].state \in {"partial", "complete"}
      BY <1>1, <1>2, <2>1 DEF Waiting
    <3> QED
      BY <1>2, <1>3, <2>1, <3>1, CompleteFile
  <2>3. dir' = [dir EXCEPT ![c] = dir[c]]
    BY <1>2, <1>3, <2>1, SameFile
  <2> QED
    BY <1>1, <1>3, <2>1, <2>2, <2>3, ReturnKeeps, FileStatesDiffer
<1>10. CASE TimedOut
  <2>1. /\ UNCHANGED <<mode, python, built, generated>>
        /\ child # "none" /\ Return("timed out")
        /\ dir' = [dir EXCEPT ![c] = Error]
    BY <1>1, <1>10 DEF TimedOut, host, results
  <2> QED
    BY <1>1, <1>3, <2>1, ReturnKeeps, FileStatesDiffer
<1> QED
  BY <1>4, <1>5, <1>6, <1>7, <1>8, <1>9, <1>10 DEF ChildStep

\* What the outputs are made of stays the same.
LEMMA SameResults ==
    ASSUME UNCHANGED <<mode, python, dir>>
    PROVE  /\ UNCHANGED summary => Summarised' = Summarised
           /\ UNCHANGED report => Reported_' = Reported_
           /\ Matrix(dir)' = Matrix(dir)
BY DEF Summarised, Reported_, Listing, Line, extract_summary, Matrix

\* Between two benchmarks and after the last, only the outputs change.
LEMMA OutputFrame ==
    ASSUME RunnerInv, UNCHANGED <<mode, python, built, next, child, dir, outcome>>,
           place # "wait", place' \in {"run", "report", "matrix", "monitor", "over"},
           OutputsMade'
    PROVE  RunnerInv'
<1>1. /\ Suite' = Suite /\ \A b : Done(b)' = Done(b)
      /\ Files' = Files
  <2>1. Suite' = Suite /\ \A b : Done(b)' = Done(b)
    BY SameSuite
  <2> QED
    BY <2>1 DEF Files
<1>2. RunnerTypes'
  BY <1>1 DEF RunnerInv, RunnerTypes
<1>3. FilesOK'
  BY <1>1 DEF RunnerInv, FilesOK
<1>4. Waiting'
  <2>1. child = "none"
    BY DEF RunnerInv, Waiting
  <2> QED
    BY <2>1 DEF Waiting
<1>5. EndsKnown'
  <2> SUFFICES ASSUME NEW b \in Benchmarks
               PROVE  (dir'[b] # NoFile => b \in built') /\ Settled(b)'
    BY DEF EndsKnown
  <2>1. (dir[b] # NoFile => b \in built) /\ Settled(b)
    BY DEF RunnerInv, EndsKnown
  <2> QED
    BY <1>1, <2>1 DEF Settled
<1> QED
  BY <1>2, <1>3, <1>4, <1>5 DEF RunnerInv

\* Building the benchmarks and making the outputs keeps the invariant.
LEMMA OutputKeeps ==
    ASSUME RunnerInv,
           \/ Build \/ BuildFails \/ Summarise \/ WriteReport
           \/ Publish \/ Monitor
    PROVE  RunnerInv'
<1>1. OutputsMade /\ Old = << >>
  BY DEF RunnerInv, Old
<1>2. CASE Build \/ BuildFails
  <2>1. /\ UNCHANGED <<mode, python, built, next, child, dir, outcome, generated>>
        /\ place = "build" /\ place' \in {"run", "over"}
    BY <1>2 DEF Build, BuildFails, Go, host, results
  <2>2. OutputsMade'
    BY <1>1, <2>1 DEF OutputsMade, Old
  <2> QED
    BY <2>1, <2>2, OutputFrame
<1>3. CASE Summarise
  <2>1. /\ UNCHANGED <<mode, python, built, next, child, dir, outcome, generated>>
        /\ place = "run" /\ place' = "report"
        /\ summary' = IF mode = "full" THEN Unwritten
                      ELSE [i \in DOMAIN SimpleSuite |->
                              extract_summary(dir[SimpleSuite[i]])]
    BY <1>3 DEF Summarise, Go, host
  <2>2. Summarised'
    BY <2>1 DEF Summarised
  <2>3. OutputsMade'
    BY <1>1, <2>1, <2>2 DEF OutputsMade, Old
  <2> QED
    BY <2>1, <2>3, OutputFrame
<1>4. CASE WriteReport
  <2>1. /\ UNCHANGED <<mode, python, built, next, child, dir, outcome, summary, generated>>
        /\ place = "report" /\ place' = "matrix"
        /\ python => report' = [b \in Listing |-> Line(dir[b])]
    BY <1>4 DEF WriteReport, Go, host, Listing, Listed
  <2>2. Summarised' /\ generated = Old
    BY <1>1, <2>1, SameResults DEF OutputsMade
  <2>3. Reported_'
    BY <2>1 DEF Reported_, Listing
  <2>4. OutputsMade'
    BY <1>1, <2>1, <2>2, <2>3 DEF OutputsMade, Old
  <2> QED
    BY <2>1, <2>4, OutputFrame
<1>5. CASE Publish
  <2>1. /\ UNCHANGED <<mode, python, built, next, child, dir, outcome, summary, report>>
        /\ place = "matrix" /\ place' = "monitor"
        /\ generated' = IF python THEN Matrix(dir) ELSE generated
    BY <1>5 DEF Publish, Go, host
  <2>2. Summarised' /\ Reported_' /\ generated = Old
    BY <1>1, <2>1, SameResults DEF OutputsMade
  <2>3. Matrix(dir)' = Matrix(dir)
    BY <2>1, SameResults
  <2>4. generated' # Old =>
          python' /\ Summarised' /\ Reported_' /\ generated' = Matrix(dir)'
    BY <2>1, <2>2, <2>3
  <2>5. OutputsMade'
    BY <1>1, <2>1, <2>4 DEF OutputsMade, Old
  <2> QED
    BY <2>1, <2>5, OutputFrame
<1>6. CASE Monitor
  <2>1. /\ UNCHANGED <<mode, python, built, next, child, dir, outcome, summary, report,
                       generated>>
        /\ place = "monitor" /\ place' = "over"
    BY <1>6 DEF Monitor, Go, host
  <2>2. generated' # Old =>
          python' /\ Summarised' /\ Reported_' /\ generated' = Matrix(dir)'
    BY <1>1, <2>1, SameResults DEF OutputsMade
  <2>3. OutputsMade'
    BY <1>1, <2>1, <2>2 DEF OutputsMade, Old
  <2> QED
    BY <2>1, <2>3, OutputFrame
<1> QED
  BY <1>2, <1>3, <1>4, <1>5, <1>6

\* A step that changes nothing keeps the invariant.
LEMMA RunnerStutter ==
    ASSUME RunnerInv, UNCHANGED runner_vars
    PROVE  RunnerInv'
<1> USE DEF runner_vars
<1>1. /\ Suite' = Suite /\ \A b : Done(b)' = Done(b)
      /\ Files' = Files /\ Current' = Current
  <2>1. Suite' = Suite /\ \A b : Done(b)' = Done(b)
    BY SameSuite
  <2> QED
    BY <2>1 DEF Files, Current
<1>2. RunnerTypes'
  BY <1>1 DEF RunnerInv, RunnerTypes
<1>3. FilesOK'
  BY <1>1 DEF RunnerInv, FilesOK
<1>4. Waiting'
  BY <1>1 DEF RunnerInv, Waiting
<1>5. EndsKnown'
  BY <1>1 DEF RunnerInv, EndsKnown, Settled
<1>6. OutputsMade'
  <2>1. Summarised' = Summarised /\ Reported_' = Reported_ /\ Matrix(dir)' = Matrix(dir)
    BY SameResults
  <2>2. Old' = Old
    BY DEF Old
  <2> QED
    BY <2>1, <2>2 DEF RunnerInv, OutputsMade
<1> QED
  BY <1>2, <1>3, <1>4, <1>5, <1>6 DEF RunnerInv

\* Each step of the runner keeps the invariant, and so it always holds.
THEOREM RunnerInvariance == RunnerSpec => []RunnerInv
<1> USE RunnerAssumption
<1>1. RunnerInit => RunnerInv
  BY RunnerInvInit
<1>2. RunnerInv /\ [RunnerNext]_runner_vars => RunnerInv'
  <2> SUFFICES ASSUME RunnerInv, [RunnerNext]_runner_vars
               PROVE  RunnerInv'
    OBVIOUS
  <2>1. CASE UNCHANGED runner_vars
    BY <2>1, RunnerStutter
  <2>2. CASE NotFound \/ Start \/ ChildStep \/ TimedOut
    BY <2>2, RunKeeps
  <2>3. CASE \/ Build \/ BuildFails \/ Summarise \/ WriteReport
             \/ Publish \/ Monitor
    BY <2>3, OutputKeeps
  <2> QED
    BY <2>1, <2>2, <2>3 DEF RunnerNext, ScriptStep, RunOver
<1> QED
  BY <1>1, <1>2, PTL DEF RunnerSpec

-----------------------------------------------------------------------------
(* The outputs *)

\* A row is none of the texts that stand in for one.
LEMMA RowsAreMeasured ==
    ASSUME NEW b, NEW f
    PROVE  /\ MeanRow(b, f) \notin {NoRow, ParseError, Timeout,
                                    NotAvailable, Zero}
           /\ MeanRow(b, f).source = b /\ MeanRow(b, f).function = f
<1>1. "function" \in DOMAIN MeanRow(b, f)
  BY DEF MeanRow, Row
<1>2. \A t : "function" \notin DOMAIN [source |-> t]
  OBVIOUS
<1>3. MeanRow(b, f) \notin {NoRow, ParseError, Timeout,
                            NotAvailable, Zero}
  BY <1>1, <1>2 DEF NoRow, ParseError, Timeout, NotAvailable,
                    Zero
<1>4. MeanRow(b, f).source = b /\ MeanRow(b, f).function = f
  BY DEF MeanRow, Row
<1> QED
  BY <1>3, <1>4

\* What the report and the summary show of a file.
LEMMA ShownOfFile ==
    ASSUME SuitesFit, mode \in {"simple", "full"}, FilesOK,
           NEW b \in Benchmarks, NEW first, first = MeanRow(b, FunctionsRun(b)[1])
    PROVE  /\ dir[b] = Done(b) => /\ Line(dir[b]) = first
                                  /\ extract_summary(dir[b]) = first
           /\ dir[b] = Partial => /\ Line(dir[b]) = ParseError
                                         /\ extract_summary(dir[b]) = Zero
           /\ dir[b] = Error => /\ Line(dir[b]) = Timeout
                                       /\ extract_summary(dir[b]) = NotAvailable
           /\ dir[b] = NoFile => extract_summary(dir[b]) = NotAvailable
<1>1. ASSUME dir[b] = Done(b)
      PROVE  Head(dir[b].rows) = first
  <2>1. PICK w : w = Written(b)
    OBVIOUS
  <2>2. b \in ToSet(Suite)
    BY <1>1, CompleteFile
  <2>3. w \in Seq(Rows) /\ FirstIn(w, Rows, first)
    BY <2>1, <2>2, WrittenRows
  <2>4. PICK k \in 1..Len(w) : w[k] = first /\ \A j \in 1..(k - 1) : w[j] \notin Rows
    BY <2>3 DEF FirstIn
  <2>5. Len(w) \in Nat /\ \A i \in 1..Len(w) : w[i] \in Rows
    BY <2>3, SequenceFacts
  <2>6. k = 1
    <3>1. k # 1 => 1 \in 1..(k - 1) /\ 1 \in 1..Len(w)
      BY <2>4, <2>5
    <3> QED
      BY <2>4, <2>5, <3>1
  <2>7. w # << >>
    BY <2>4, <2>5
  <2>8. Head(w) = w[1]
    BY <2>3, <2>7, SequenceFacts
  <2> QED
    BY <1>1, <2>1, <2>4, <2>6, <2>8 DEF Done
<1>2. /\ NoFile.state = "none" /\ Partial.state = "partial"
      /\ Error.state = "error" /\ Done(b).state = "complete"
  BY DEF NoFile, Partial, Error, Done
<1> QED
  BY <1>1, <1>2 DEF Line, extract_summary

\* Once the matrix is published no benchmark runs, and the outputs are there.
LEMMA PublishedOutputs ==
    ASSUME RunnerInv, Published
    PROVE  /\ mode \in {"simple", "full"} /\ FilesOK /\ Summarised
           /\ report = [b \in Listing |-> Line(dir[b])]
           /\ generated = Matrix(dir)
           /\ \A b \in Benchmarks : Settled(b)
<1>1. place = "over" /\ generated # Old
  BY DEF Published
<1>2. /\ mode \in {"simple", "full"} /\ FilesOK /\ OutputsMade
      /\ \A b \in Benchmarks : Settled(b)
  BY <1>1 DEF RunnerInv, RunnerTypes, EndsKnown
<1>3. python /\ Summarised /\ Reported_ /\ generated = Matrix(dir)
  BY <1>1, <1>2 DEF OutputsMade
<1> QED
  BY <1>2, <1>3 DEF Reported_

\* Which benchmark an entry of the published matrix is from.
LEMMA PublishedEntries ==
    ASSUME SuitesFit, RunnerInv, Published, NEW c \in Cells,
           NEW f, f = c.pattern
    PROVE  /\ \A b \in Benchmarks :
                dir[b] = Done(b) /\ f \in ToSet(FunctionsRun(b))
                => generated[c] = MeanRow(b, f)
           /\ (\A b \in Benchmarks :
                 dir[b] = Done(b) => f \notin ToSet(FunctionsRun(b)))
              => generated[c] = NoRow
<1>1. mode \in {"simple", "full"} /\ FilesOK /\ generated = Matrix(dir)
  BY PublishedOutputs
<1>2. generated[c] = pick_best(load_benchmarks(dir), f)
  BY <1>1 DEF Matrix
<1> QED
  BY <1>1, <1>2, MatrixEntries

\* A published matrix has an entry if the benchmark of its function completed, the
\* mean of that function, and none if it was killed, is missing or was not asked.
LEMMA FaithfulMatrix ==
    ASSUME SuitesFit, RunnerInv
    PROVE  MatrixFaithful
<1> SUFFICES ASSUME Published, NEW c \in Cells, NEW b \in Benchmarks,
                    NEW f, f = c.pattern, f \in ToSet(Functions[b])
             PROVE  IF ~Asked(b, f) \/ outcome[b] \in {"missing", "timed out"}
                    THEN generated[c] = NoRow
                    ELSE IF outcome[b] = "completed" THEN generated[c] = MeanRow(b, f)
                    ELSE generated[c] \in {NoRow, MeanRow(b, f)}
  BY DEF MatrixFaithful, MeanRow
<1>1. mode \in {"simple", "full"} /\ FilesOK /\ Settled(b)
  BY PublishedOutputs
<1>2. \A d \in Benchmarks :
        dir[d] = Done(d) /\ f \in ToSet(FunctionsRun(d)) => d = b
  <2> SUFFICES ASSUME NEW d \in Benchmarks, dir[d] = Done(d),
                      f \in ToSet(FunctionsRun(d))
               PROVE  d = b
    OBVIOUS
  <2>1. d \in ToSet(Suite)
    BY <1>1, CompleteFile
  <2>2. f \in ToSet(Functions[d])
    BY <1>1, <2>1, WrittenRows
  <2> QED
    BY <2>2 DEF SuitesFit
<1>3. Asked(b, f) <=> /\ b \in ToSet(Suite)
                             /\ f \in ToSet(FunctionsRun(b))
  <2>1. CASE mode = "simple"
    <3>1. FunctionsRun(b) = <<Filter[b]>>
      BY <2>1 DEF FunctionsRun
    <3>2. ToSet(<<Filter[b]>>) = {Filter[b]}
      BY DEF ToSet
    <3> QED
      BY <2>1, <3>1, <3>2 DEF Asked
  <2>2. CASE mode = "full"
    BY <2>2 DEF Asked, FunctionsRun
  <2> QED
    BY <1>1, <2>1, <2>2
<1>4. CASE dir[b] = Done(b) /\ f \in ToSet(FunctionsRun(b))
  <2>1. generated[c] = MeanRow(b, f)
    BY <1>4, PublishedEntries
  <2>2. Asked(b, f)
    BY <1>1, <1>3, <1>4, CompleteFile
  <2>3. outcome[b] \notin {"missing", "timed out"}
    BY <1>1, <1>4, FileStatesDiffer DEF Settled
  <2> QED
    BY <2>1, <2>2, <2>3
<1>5. CASE ~(dir[b] = Done(b) /\ f \in ToSet(FunctionsRun(b)))
  <2>1. \A d \in Benchmarks :
          dir[d] = Done(d) => f \notin ToSet(FunctionsRun(d))
    BY <1>2, <1>5
  <2>2. generated[c] = NoRow
    BY <2>1, PublishedEntries
  <2>3. ~Asked(b, f) \/ outcome[b] # "completed"
    BY <1>1, <1>3, <1>5 DEF Settled
  <2> QED
    BY <2>2, <2>3
<1> QED
  BY <1>4, <1>5

\* Report, summary and matrix show the same numbers, of the same benchmarks.
LEMMA AgreeingOutputs ==
    ASSUME SuitesFit, RunnerInv
    PROVE  OutputsAgree
<1> SUFFICES ASSUME Published
             PROVE  OutputsAgree
  BY DEF OutputsAgree
<1> DEFINE first(b) == MeanRow(b, FunctionsRun(b)[1])
<1>1. /\ mode \in {"simple", "full"} /\ FilesOK /\ Summarised
      /\ report = [b \in Listing |-> Line(dir[b])]
      /\ \A b \in Benchmarks : Settled(b)
  BY PublishedOutputs
<1>2. \A b \in Benchmarks :
        /\ dir[b] \in {NoFile, Partial, Error, Done(b)}
        /\ dir[b].state # "none" <=> dir[b] # NoFile
        /\ dir[b] # NoFile <=> outcome[b] \notin {"not run", "missing"}
        /\ dir[b] = Error <=> outcome[b] = "timed out"
  BY <1>1, CompleteFile DEF FilesOK, Settled
<1>3. DOMAIN report = {b \in Benchmarks : dir[b] # NoFile}
  <2>1. DOMAIN report = Listing
    BY <1>1
  <2> QED
    BY <1>2, <2>1 DEF Listing
<1>4. ASSUME NEW b \in DOMAIN report
      PROVE  /\ b \in Benchmarks
             /\ dir[b] \in {Partial, Error, Done(b)}
             /\ dir[b] = Done(b) => report[b] = first(b)
             /\ dir[b] = Partial => report[b] = ParseError
             /\ dir[b] = Error => report[b] = Timeout
  <2>1. b \in Benchmarks /\ dir[b] \in {Partial, Error, Done(b)}
    BY <1>2, <1>3
  <2>2. report[b] = Line(dir[b])
    BY <1>1
  <2> QED
    BY <1>1, <2>1, <2>2, ShownOfFile
<1>5. /\ \A b : Measured(first(b)) /\ first(b) # Timeout
      /\ ParseError # Timeout
      /\ ~Measured(ParseError) /\ ~Measured(Timeout)
      /\ ~Measured(NotAvailable) /\ ~Measured(Zero)
  <2>1. \A b : Measured(first(b)) /\ first(b) # Timeout
    BY RowsAreMeasured DEF Measured
  <2>2. ParseError # Timeout
    <3>1. ParseError.source = "parse error" /\ Timeout.source = "timeout"
      BY DEF ParseError, Timeout
    <3> QED
      BY <3>1
  <2> QED
    BY <2>1, <2>2 DEF Measured
<1> HIDE DEF first
<1>6. DOMAIN report = {b \in Benchmarks : outcome[b] \notin {"not run", "missing"}}
  BY <1>2, <1>3
<1>7. \A b \in DOMAIN report : report[b] = Timeout <=> outcome[b] = "timed out"
  BY <1>2, <1>4, <1>5, FileStatesDiffer
<1>8. ASSUME NEW c \in Cells, generated[c] # NoRow
      PROVE  /\ generated[c].source \in DOMAIN report
             /\ Measured(report[generated[c].source])
  <2>1. PICK f : f = c.pattern
    OBVIOUS
  <2>2. PICK b \in Benchmarks : dir[b] = Done(b) /\ f \in ToSet(FunctionsRun(b))
    BY <1>8, <2>1, PublishedEntries
  <2>3. generated[c] = MeanRow(b, f)
    BY <2>1, <2>2, PublishedEntries
  <2>4. generated[c].source = b
    BY <2>3, RowsAreMeasured
  <2>5. b \in DOMAIN report
    BY <1>3, <2>2, FileStatesDiffer
  <2> QED
    BY <1>4, <1>5, <2>2, <2>4, <2>5
<1>9. ASSUME NEW b \in DOMAIN report, NEW c \in Cells, Measured(report[b]),
             report[b].function = c.pattern
      PROVE  generated[c] = report[b]
  <2>1. b \in Benchmarks /\ dir[b] = Done(b) /\ report[b] = first(b)
    BY <1>4, <1>5, <1>9
  <2>2. PICK f : f = FunctionsRun(b)[1]
    OBVIOUS
  <2>3. report[b] = MeanRow(b, f)
    BY <2>1, <2>2 DEF first
  <2>4. f = c.pattern
    BY <1>9, <2>3, RowsAreMeasured
  <2>5. b \in ToSet(Suite)
    BY <1>1, <2>1, CompleteFile
  <2>6. f \in ToSet(FunctionsRun(b))
    BY <1>1, <2>1, <2>2, <2>5, WrittenRows
  <2> QED
    BY <2>1, <2>3, <2>4, <2>6, PublishedEntries
<1>10. ASSUME mode = "simple", NEW i \in DOMAIN SimpleSuite, Measured(summary[i])
       PROVE  summary[i] = report[SimpleSuite[i]]
  <2>1. PICK b : b = SimpleSuite[i]
    OBVIOUS
  <2>2. b \in Benchmarks
    <3>1. SimpleSuite \in Seq(Benchmarks)
      BY DEF SuitesFit
    <3> QED
      BY <2>1, <3>1, SequenceFacts
  <2>3. summary[i] = extract_summary(dir[b])
    BY <1>1, <1>10, <2>1 DEF Summarised
  <2>4. dir[b] = Done(b) /\ summary[i] = first(b)
    <3>1. /\ dir[b] = NoFile => summary[i] = NotAvailable
          /\ dir[b] = Partial => summary[i] = Zero
          /\ dir[b] = Error => summary[i] = NotAvailable
          /\ dir[b] = Done(b) => summary[i] = first(b)
      BY <1>1, <2>2, <2>3, ShownOfFile DEF first
    <3> QED
      BY <1>2, <1>5, <1>10, <2>2, <3>1
  <2>5. b \in DOMAIN report
    BY <1>3, <2>2, <2>4, FileStatesDiffer
  <2> QED
    BY <1>4, <2>1, <2>4, <2>5
<1> QED
  BY <1>6, <1>7, <1>8, <1>9, <1>10 DEF OutputsAgree

\* Whatever becomes of the benchmarks, a published matrix has measured numbers only,
\* each under the function that it is of.
THEOREM MatrixIsFaithful == RunnerSpec => []MatrixFaithful
<1>1. RunnerInv => MatrixFaithful
  BY FaithfulMatrix, RunnerAssumption
<1> QED
  BY <1>1, RunnerInvariance, PTL

\* The report, the summary and the matrix of a run tell the same story.
THEOREM OutputsTellTheSame == RunnerSpec => []OutputsAgree
<1>1. RunnerInv => OutputsAgree
  BY AgreeingOutputs, RunnerAssumption
<1> QED
  BY <1>1, RunnerInvariance, PTL

-----------------------------------------------------------------------------
(* The runner: nobody is skipped, and what is published stays *)

\* Those of the suite before the current one have had their turn, and the script
\* goes on to its outputs when all have had theirs.
TurnsTaken ==
    /\ \A i \in DOMAIN Suite : i < next => outcome[Suite[i]] # "not run"
    /\ place \in {"report", "matrix", "monitor"} => next > Len(Suite)
    /\ generated # Old => next > Len(Suite) /\ place \in {"monitor", "over"}

\* The suite, once the mode is known.
LEMMA SuiteOrder ==
    ASSUME RunnerTypes
    PROVE  /\ Suite \in Seq(Benchmarks) /\ next \in Nat /\ Len(Suite) \in Nat
           /\ DOMAIN Suite = 1..Len(Suite)
           /\ next > 0
           /\ \A i \in DOMAIN Suite : i \in Nat /\ i > 0 /\ Suite[i] \in Benchmarks
<1>1. Suite \in Seq(Benchmarks)
  BY RunnerAssumption DEF Suite, SuitesFit
<1>2. next \in Nat /\ next > 0
  BY DEF RunnerTypes
<1>3. /\ DOMAIN Suite = 1..Len(Suite) /\ Len(Suite) \in Nat
      /\ \A i \in 1..Len(Suite) : Suite[i] \in Benchmarks
  BY <1>1, SequenceFacts
<1> QED
  BY <1>1, <1>2, <1>3

\* Who is before the one after n is n, or before it.
LEMMA BeforeNext == \A i, n \in Nat : i < n + 1 => i < n \/ i = n
OBVIOUS

\* A benchmark has its turn when run_benchmark returns, however it ended.
LEMMA TurnsTakenKept ==
    ASSUME RunnerInv, TurnsTaken, [RunnerNext]_runner_vars
    PROVE  TurnsTaken'
<1>0. /\ RunnerTypes /\ next \in Nat /\ next > 0 /\ Len(Suite) \in Nat
      /\ DOMAIN Suite = 1..Len(Suite)
      /\ \A i \in DOMAIN Suite : i \in Nat /\ Suite[i] \in Benchmarks
  BY SuiteOrder DEF RunnerInv
<1>1. Suite' = Suite
  BY DEF RunnerNext, ScriptStep, ChildStep, RunOver, Build, BuildFails, NotFound, Start,
         Summarise, WriteReport, Publish, Monitor, WriteFile, Hang, Completed, Failed,
         TimedOut, Suite, host, runner_vars
<1>2. ASSUME place \in {"run", "wait"}, next <= Len(Suite)
      PROVE  generated = Old
  BY <1>0, <1>2 DEF TurnsTaken
<1>3. ASSUME NEW o \in {"missing", "completed", "failed", "timed out"}, Return(o),
             place \in {"run", "wait"}, next <= Len(Suite), UNCHANGED generated
      PROVE  TurnsTaken'
  <2>1. /\ outcome' = [outcome EXCEPT ![Current] = o]
        /\ next' = next + 1 /\ place' = "run"
    BY <1>3 DEF Return
  <2>2. ASSUME NEW i \in DOMAIN Suite, i < next'
        PROVE  outcome'[Suite[i]] # "not run"
    <3>1. i < next \/ i = next
      <4>1. i \in Nat /\ next \in Nat /\ i < next + 1
        BY <1>0, <2>1, <2>2
      <4> QED
        BY <4>1, BeforeNext
    <3>2. i = next => Suite[i] = Current
      BY DEF Current
    <3>3. outcome'[Suite[i]] = IF Suite[i] = Current THEN o ELSE outcome[Suite[i]]
      BY <1>0, <2>1 DEF RunnerTypes
    <3> QED
      BY <1>3, <3>1, <3>2, <3>3 DEF TurnsTaken
  <2>3. generated' = Old
    BY <1>2, <1>3
  <2> QED
    BY <1>1, <2>1, <2>2, <2>3 DEF TurnsTaken, Old
<1>4. CASE NotFound
  BY <1>3, <1>4 DEF NotFound, results
<1>5. ASSUME child # "none"
      PROVE  place = "wait" /\ next <= Len(Suite)
  BY <1>5 DEF RunnerInv, Waiting
<1>6. CASE Completed
  <2>1. child # "none" /\ Return("completed") /\ UNCHANGED generated
    BY <1>6 DEF Completed, results
  <2> QED
    BY <1>3, <1>5, <2>1
<1>7. CASE Failed
  <2>1. child # "none" /\ Return("failed") /\ UNCHANGED generated
    BY <1>7 DEF Failed, results
  <2> QED
    BY <1>3, <1>5, <2>1
<1>8. CASE TimedOut
  <2>1. child # "none" /\ Return("timed out") /\ UNCHANGED generated
    BY <1>8 DEF TimedOut, results
  <2> QED
    BY <1>3, <1>5, <2>1
<1>9. CASE Start \/ WriteFile \/ Hang
  <2>1. UNCHANGED <<next, outcome, generated>>
    BY <1>9 DEF Start, WriteFile, Hang, results
  <2>2. place' = "wait" /\ place \in {"run", "wait"} /\ next <= Len(Suite)
    BY <1>5, <1>9 DEF Start, WriteFile, Hang
  <2>3. generated = Old
    BY <1>2, <2>2
  <2> QED
    BY <1>1, <2>1, <2>2, <2>3 DEF TurnsTaken, Old
<1>10. CASE Build \/ BuildFails
  <2>1. /\ UNCHANGED <<next, outcome, generated>> /\ place = "build"
        /\ place' \in {"run", "over"}
    BY <1>10 DEF Build, BuildFails, results, Go
  <2> QED
    BY <1>1, <2>1 DEF TurnsTaken, Old
<1>11. CASE Summarise \/ WriteReport \/ Publish \/ Monitor
  <2>1. /\ UNCHANGED <<next, outcome>> /\ place # "over"
        /\ place' \in {"report", "matrix", "monitor", "over"}
        /\ place = "run" => next > Len(Suite)
        /\ place \in {"run", "report", "matrix", "monitor"}
    BY <1>11 DEF Summarise, WriteReport, Publish, Monitor, Go
  <2>2. next > Len(Suite)
    BY <2>1 DEF TurnsTaken
  <2>3. generated' # Old => place' \in {"monitor", "over"}
    BY <1>11, <2>1 DEF Summarise, WriteReport, Publish, Monitor, Go, TurnsTaken, Old
  <2> QED
    BY <1>1, <2>1, <2>2, <2>3 DEF TurnsTaken, Old
<1>12. CASE RunOver \/ UNCHANGED runner_vars
  BY <1>1, <1>12 DEF RunOver, runner_vars, TurnsTaken, Old
<1> QED
  BY <1>4, <1>6, <1>7, <1>8, <1>9, <1>10, <1>11, <1>12
     DEF RunnerNext, ScriptStep, ChildStep

\* At first nobody has had a turn, and nobody is before the first.
LEMMA TurnsTakenInit ==
    ASSUME RunnerInit
    PROVE  TurnsTaken
<1>1. \A i \in DOMAIN Suite : i \in Nat /\ i > 0
  BY RunnerInvInit, SuiteOrder DEF RunnerInv
<1>2. next = 1 /\ place = "build" /\ generated = Old
  BY DEF RunnerInit
<1>3. \A i \in DOMAIN Suite : ~(i < 1)
  BY <1>1
<1> HIDE DEF RunnerInit
<1> QED
  BY <1>2, <1>3 DEF TurnsTaken

\* When summary, report and matrix are made, each benchmark of the suite has had
\* its turn, whatever became of those before it: nobody looks at what run_benchmark
\* returns, and a benchmark that hangs is killed (lines 113-131).
THEOREM NobodySkipped ==
    RunnerSpec => [](place \in {"report", "matrix", "monitor"} \/ generated # Old =>
                       \A b \in ToSet(Suite) : outcome[b] # "not run")
<1>1. RunnerInit => TurnsTaken
  BY TurnsTakenInit
<1>2. RunnerInv /\ TurnsTaken =>
        (place \in {"report", "matrix", "monitor"} \/ generated # Old =>
           \A b \in ToSet(Suite) : outcome[b] # "not run")
  <2> SUFFICES ASSUME RunnerInv, TurnsTaken, NEW b \in ToSet(Suite), next > Len(Suite)
               PROVE  outcome[b] # "not run"
    BY DEF TurnsTaken
  <2>1. PICK i \in DOMAIN Suite : Suite[i] = b
    BY DEF ToSet
  <2>2. i \in Nat /\ i <= Len(Suite) /\ Len(Suite) \in Nat /\ next \in Nat
    BY <2>1, SuiteOrder DEF RunnerInv
  <2>3. i < next
    BY <2>2
  <2> QED
    BY <2>1, <2>3 DEF TurnsTaken
<1> QED
  BY <1>1, <1>2, TurnsTakenKept, RunnerInvariance, PTL DEF RunnerSpec

\* Once a matrix is published, nothing changes that it, the report or the summary
\* was made of, nor any of these.
PublishedStays == generated # Old => UNCHANGED <<dir, outcome, summary, report, generated>>

\* What has been published remains what the result files say: no benchmark is
\* running any more that could write one, and nothing is published twice.
THEOREM PublishedIsFinal == RunnerSpec => [][PublishedStays]_runner_vars
<1>1. RunnerInit => TurnsTaken
  BY TurnsTakenInit
<1>2. RunnerInv /\ TurnsTaken /\ [RunnerNext]_runner_vars => [PublishedStays]_runner_vars
  <2> SUFFICES ASSUME RunnerInv, TurnsTaken, RunnerNext, generated # Old
               PROVE  UNCHANGED <<dir, outcome, summary, report, generated>>
    BY DEF PublishedStays
  <2>1. place \in {"monitor", "over"} /\ child = "none"
    BY DEF TurnsTaken, RunnerInv, Waiting
  <2>2. Monitor \/ RunOver
    BY <2>1 DEF RunnerNext, ScriptStep, ChildStep, Go, Build, BuildFails, NotFound, Start,
                Summarise, WriteReport, Publish, WriteFile, Hang, Completed, Failed, TimedOut
  <2> QED
    BY <2>2 DEF Monitor, RunOver, runner_vars
<1> QED
  BY <1>1, <1>2, TurnsTakenKept, RunnerInvariance, PTL DEF RunnerSpec
=============================================================================
