---------------------------- MODULE LockWorkload ----------------------------
(***************************************************************************)
(* The benchmarks in which each thread makes a fixed number of operations  *)
(* under a lock and main reports counts and their fairness:                *)
(*                                                                         *)
(*   "shared"     ReadWriteData with its shared_mutex                      *)
(*   "exclusive"  ReadWriteData with its mutex                             *)
(*   "binary"     binary_semaphore, and in its second half a mutex         *)
(*                (BinarySemaphore_vs_Mutex, src/bench_pc_semaphore.cpp)   *)
(*                                                                         *)
(* The maps are left out: their keys are all there from the start          *)
(* (src/bench_rw_shared_mutex.cpp:46-49), so what can go wrong is that a   *)
(* thread reads a value while another writes it.  Operations of "binary"   *)
(* are writes.  A thread is inside the lock from its lock step to its      *)
(* unlock step.                                                            *)
(***************************************************************************)
EXTENDS Integers, FiniteSets, Functions, Places

CONSTANTS Threads,
          Ops,         \* operations_per_thread
          Iterations,  \* iterations of the benchmark
          Locks        \* the kinds in the model

AllLocks == {"shared", "exclusive", "binary"}

ASSUME WorkloadAssumption == /\ IsFiniteSet(Threads) /\ Threads # {}
                             /\ Ops \in Nat
                             /\ Iterations \in Nat \ {0}
                             /\ Locks \subseteq AllLocks

VARIABLES
    lock,
    iteration,
    pc,
    left,           \* operations each thread has still to make
    reader_tracker, \* counts of the two variance_trackers
    writer_tracker,
    total_reads, total_writes,
    reported        \* the iteration is over and main reads the counts

vars == <<lock, iteration, pc, left, reader_tracker, writer_tracker, total_reads,
          total_writes, reported>>
counts == <<reader_tracker, writer_tracker, total_reads, total_writes>>

None == [t \in Threads |-> 0]

Init == /\ lock \in Locks
        /\ iteration = 1
        /\ pc = [t \in Threads |-> "choose"]
        /\ left = [t \in Threads |-> Ops]
        /\ reader_tracker = None /\ writer_tracker = None
        /\ total_reads = 0 /\ total_writes = 0
        /\ reported = FALSE

Reading == At(pc, "read")
Writing == At(pc, "write")

Move(t, from, to) == pc[t] = from /\ pc' = [pc EXCEPT ![t] = to]

-----------------------------------------------------------------------------
(* A thread: lines 116-136 *)

\* Line 122: at random a read or a write.
Choose(t) == /\ left[t] > 0
             /\ \E place \in {"write_lock"} \cup IF lock = "binary" THEN {} ELSE {"read_lock"} :
                  Move(t, "choose", place)
             /\ left' = [left EXCEPT ![t] = @ - 1]
             /\ UNCHANGED <<lock, iteration, counts, reported>>

\* Lines 52 and 63: shared_lock or lock_guard.
ReadLock(t) == /\ Writing = {}
               /\ lock = "exclusive" => Reading = {}
               /\ Move(t, "read_lock", "read")
               /\ UNCHANGED <<lock, iteration, left, counts, reported>>

\* Seeded fault: shared_write takes a shared_lock.
WriteLock_Shared(t) == /\ Writing = {}
                       /\ lock = "exclusive" => Reading = {}
                       /\ Move(t, "write_lock", "write")
                       /\ UNCHANGED <<lock, iteration, left, counts, reported>>

\* Seeded fault: a writer lets every other waiting thread go first.
WriteLock_AfterOthers(t) == /\ Writing = {} /\ Reading = {}
                            /\ At(pc, "read_lock") = {} /\ At(pc, "write_lock") = {t}
                            /\ Move(t, "write_lock", "write")
                            /\ UNCHANGED <<lock, iteration, left, counts, reported>>

\* Lines 58 and 69, and acquire() of the semaphore.
WriteLock(t) == /\ Writing = {} /\ Reading = {}
                /\ Move(t, "write_lock", "write")
                /\ UNCHANGED <<lock, iteration, left, counts, reported>>

\* The end of shared_read or exclusive_read.
ReadUnlock(t) == /\ Move(t, "read", "count_read")
                 /\ UNCHANGED <<lock, iteration, left, counts, reported>>

\* The end of shared_write or exclusive_write, or release().
WriteUnlock(t) == /\ Move(t, "write", "count_write")
                  /\ UNCHANGED <<lock, iteration, left, counts, reported>>

\* Lines 126-127.
CountRead(t) == /\ Move(t, "count_read", "choose")
                /\ reader_tracker' = [reader_tracker EXCEPT ![t] = @ + 1]
                /\ total_reads' = total_reads + 1
                /\ UNCHANGED <<lock, iteration, left, writer_tracker, total_writes, reported>>

\* Seeded fault: a write is counted twice.
CountWrite_Twice(t) == /\ Move(t, "count_write", "choose")
                       /\ writer_tracker' = [writer_tracker EXCEPT ![t] = @ + 1]
                       /\ total_writes' = total_writes + 2
                       /\ UNCHANGED <<lock, iteration, left, reader_tracker, total_reads, reported>>

\* Lines 132-133.
CountWrite(t) == /\ Move(t, "count_write", "choose")
                 /\ writer_tracker' = [writer_tracker EXCEPT ![t] = @ + 1]
                 /\ total_writes' = total_writes + 1
                 /\ UNCHANGED <<lock, iteration, left, reader_tracker, total_reads, reported>>

Out(t) == pc[t] = "choose" /\ left[t] = 0

-----------------------------------------------------------------------------
(* The main thread: lines 107-142 *)

AllOut == \A t \in Threads : Out(t)

\* Lines 139-141, then 108-111: the next iteration starts from zero.
NextIteration == /\ AllOut /\ ~reported /\ iteration < Iterations
                 /\ iteration' = iteration + 1
                 /\ left' = [t \in Threads |-> Ops]
                 /\ reader_tracker' = None /\ writer_tracker' = None
                 /\ total_reads' = 0 /\ total_writes' = 0
                 /\ UNCHANGED <<lock, pc, reported>>

\* Lines 139-149.
Report == /\ AllOut /\ ~reported /\ iteration = Iterations
          /\ reported' = TRUE
          /\ UNCHANGED <<lock, iteration, pc, left, counts>>

\* Line 149: the items by which Google Benchmark computes items_per_second, from
\* the time of all iterations; BinarySemaphore_vs_Mutex multiplies by their number.
ItemsProcessed == IF lock = "binary" THEN Iterations * Cardinality(Threads) * Ops
                  ELSE total_reads + total_writes

-----------------------------------------------------------------------------
(* coefficient_of_variation (src/common/variance_tracker.cpp:50-86)        *)
(*                                                                         *)
(* Its square, as a fraction: with n counts of sum s the mean is s / n and *)
(* the variance the sum of (n * c - s)^2 / n^3.                            *)

Square(n) == n * n

SumOfSquares(c) == LET n == Cardinality(Threads)
                       s == SumFunction(c)
                   IN SumFunction([t \in Threads |-> Square(n * c[t] - s)])

\* Seeded fault: the variance of a sample, divided by one count less.
CVSquared_Sample(c) ==
    LET n == Cardinality(Threads)
        s == SumFunction(c)
    IN IF s = 0 THEN [num |-> 0, den |-> 1]
       ELSE [num |-> n * SumOfSquares(c), den |-> (n - 1) * n * Square(s)]

CVSquared(c) == LET n == Cardinality(Threads)
                    s == SumFunction(c)
                IN IF s = 0 THEN [num |-> 0, den |-> 1]
                   ELSE [num |-> SumOfSquares(c), den |-> n * Square(s)]

-----------------------------------------------------------------------------
ThreadStep(t) == \/ Choose(t)
                 \/ ReadLock(t) \/ ReadUnlock(t) \/ CountRead(t)
                 \/ WriteLock(t) \/ WriteUnlock(t) \/ CountWrite(t)

MainStep == NextIteration \/ Report

Over == reported /\ UNCHANGED vars

Next == (\E t \in Threads : ThreadStep(t)) \/ MainStep \/ Over

\* Every thread is scheduled; a lock may let other threads in first.
Spec == /\ Init /\ [][Next]_vars
        /\ \A t \in Threads : WF_vars(ThreadStep(t))
        /\ WF_vars(MainStep)

-----------------------------------------------------------------------------
(* Properties *)

\* The variables stay in their types.
TypeOK == /\ lock \in Locks
          /\ iteration \in 1..Iterations
          /\ pc \in [Threads -> {"choose", "read_lock", "read", "count_read",
                                 "write_lock", "write", "count_write"}]
          /\ left \in [Threads -> 0..Ops]
          /\ reader_tracker \in [Threads -> 0..Ops]
          /\ writer_tracker \in [Threads -> 0..Ops]
          /\ total_reads \in Nat /\ total_writes \in Nat
          /\ reported \in BOOLEAN

\* No thread reads a map while another writes it (lines 53 and 59), and none
\* writes it together with another: whichever lock it is under, and although
\* readers of the shared_mutex may overlap.
RaceFree == \A t \in Writing : Reading = {} /\ Writing = {t}

\* The counts agree with each other at any moment, up to the operations that
\* have been made and not been counted, and in each iteration alone: nothing of
\* an earlier iteration is left in them (lines 108-111), and so the benchmark
\* reports threads times operations_per_thread.
CountsAgree ==
    LET uncounted == {t \in Threads : pc[t] # "choose"}
    IN /\ SumFunction(reader_tracker) = total_reads
       /\ SumFunction(writer_tracker) = total_writes
       /\ total_reads + total_writes + SumFunction(left) + Cardinality(uncounted)
            = Cardinality(Threads) * Ops

\* The coefficient of variation that is reported is 0 exactly if all threads made
\* as many operations, and at most the square root of n - 1, which is reached if
\* one thread made them all ("CV = 0.0: Perfect fairness", line 16, and "likely
\* starvation", line 20).  Under the semaphore every thread makes the same number
\* of operations, so that the fairness of lines 184-185 is always 0.
FairnessMeaning ==
    reported => \A c \in {reader_tracker, writer_tracker} :
      LET cv2 == CVSquared(c)
          n   == Cardinality(Threads)
          made == {t \in Threads : c[t] > 0}
      IN /\ cv2.num = 0 <=> Cardinality({c[t] : t \in Threads}) = 1
         /\ cv2.num <= (n - 1) * cv2.den
         /\ Cardinality(made) = 1 => cv2.num = (n - 1) * cv2.den
         /\ lock = "binary" => cv2.num = 0

\* "Throughput: Operations or items per second" (docs/METHODOLOGY.md:10): the items
\* that are reported are the operations made in the time they are divided by.
ItemsOfAllIterations == reported => ItemsProcessed = Iterations * Cardinality(Threads) * Ops

\* The benchmark ends: finitely many readers cannot keep a writer out for ever.
BenchmarkEnds == <>reported
=============================================================================
