---------------------------- MODULE CondVarProofs ----------------------------
(***************************************************************************)
(* Theorems about the two parts whose threads sleep on a condition         *)
(* variable until somebody gives them something to do: CondVarQueue, for   *)
(* any number of producers, consumers and items, and the TimerService of   *)
(* Coroutines, for any number of tasks and any delays.  The two have no    *)
(* variable and no constant in common.                                     *)
(***************************************************************************)
EXTENDS CondVarQueue, Coroutines, ThreadCounting

-----------------------------------------------------------------------------
(* CondVarQueue: the inductive invariant *)

\* Items are in the queue or with a consumer.
ItemsKept == Len(q) + Len(taken) = SumFunction(pushed)

\* done is set when the producers are joined, and consumers leave when it is set
\* and the queue is empty, which it then remains.  Nobody sleeps after line 67.
EndOK == /\ done <=> main # "join_producers"
         /\ done => \A p \in Producers : ProducerOut(p)
         /\ (\E c \in Consumers : cpc[c] = "out") => done /\ q = <<>>
         /\ main \in {"join_consumers", "over"} => Asleep = {}
         /\ main = "over" => \A c \in Consumers : cpc[c] = "out"

CondVarInv == TypeOK /\ ItemsKept /\ EndOK /\ SleepersNotNeeded

-----------------------------------------------------------------------------
(* Numbers *)

\* Producers push no more than N items together.
LEMMA PerProducer == /\ Per \in Nat /\ Per <= N
                     /\ Cardinality(Producers) \in Nat
                     /\ Cardinality(Producers) * Per <= N
                     /\ N % Cardinality(Producers) = 0 => Cardinality(Producers) * Per = N
<1> DEFINE k == Cardinality(Producers)
<1>1. k \in Nat /\ k > 0 /\ N \in Nat
  BY CondVarAssumption, FS_CardinalityType, FS_EmptySet
<1> HIDE DEF k
<1>2. /\ N \div k \in Int /\ N = k * (N \div k) + (N % k)
      /\ N % k \in Nat
  BY <1>1
<1>3. N \div k >= 0
  BY <1>1
<1>4. \A d \in Nat : d <= k * d
  BY <1>1
<1>5. N \div k <= k * (N \div k)
  BY <1>2, <1>3, <1>4
<1>6. k * (N \div k) \in Int
  BY <1>1, <1>2
<1> DEFINE d == N \div k
           r == N % k
           m == k * d
<1>7. /\ d \in Int /\ d >= 0 /\ m \in Int /\ r \in Nat /\ N = m + r /\ d <= m /\ N \in Nat
  BY <1>1, <1>2, <1>3, <1>5, <1>6
<1> HIDE DEF d, r, m
<1>8. d \in Nat /\ d <= N /\ m <= N /\ (r = 0 => m = N)
  BY <1>7
<1> QED
  BY <1>1, <1>8 DEF Per, k, d, r, m

\* Whatever the producers have pushed is at most N items.
LEMMA PushedAtMost ==
    ASSUME NEW f \in [Producers -> 0..Per]
    PROVE  SumFunction(f) <= N
<1>1. Per \in Nat /\ Cardinality(Producers) * Per <= N
  BY PerProducer
<1>2. SumFunction(f) <= Cardinality(Producers) * Per
  BY <1>1, SumAtMost, CondVarAssumption
<1>3. SumFunction(f) \in Nat
  <2>1. f \in [Producers -> Nat]
    BY <1>1
  <2> QED
    BY <2>1, SumType, CondVarAssumption
<1>4. N \in Nat /\ Cardinality(Producers) * Per \in Int
  BY PerProducer, CondVarAssumption
<1> HIDE DEF Per
<1> QED
  BY <1>1, <1>2, <1>3, <1>4

\* The numbers of the invariant are numbers.
LEMMA Numbers ==
    ASSUME TypeOK
    PROVE  /\ Len(q) \in Nat
           /\ Len(taken) \in Nat
           /\ pushed \in [Producers -> Int] /\ pushed \in [Producers -> Nat]
           /\ SumFunction(pushed) \in Nat
           /\ SumFunction(pushed) <= N
           /\ DOMAIN cpc = Consumers /\ DOMAIN ppc = Producers
           /\ \A place : /\ Cardinality(At(cpc, place)) \in Nat
                         /\ Cardinality(At(ppc, place)) \in Nat
<1>1. /\ Len(taken) \in Nat
      /\ pushed \in [Producers -> Int] /\ pushed \in [Producers -> Nat]
      /\ DOMAIN cpc = Consumers /\ DOMAIN ppc = Producers /\ Len(q) \in Nat
  BY PerProducer, CondVarAssumption DEF TypeOK
<1>2. SumFunction(pushed) \in Nat
  BY <1>1, SumType, CondVarAssumption
<1>3. SumFunction(pushed) <= N
  BY PushedAtMost DEF TypeOK
<1>4. \A place : /\ Cardinality(At(cpc, place)) \in Nat
                 /\ Cardinality(At(ppc, place)) \in Nat
  BY <1>1, AtFinite, CondVarAssumption
<1> QED
  BY <1>1, <1>2, <1>3, <1>4

\* Those that SleepersNotNeeded compares.
LEMMA SleepersCounted ==
    ASSUME TypeOK
    PROVE  /\ DOMAIN cpc = Consumers /\ DOMAIN ppc = Producers /\ Len(q) \in Nat
           /\ Cardinality(At(cpc, "check")) \in Nat
           /\ Cardinality(At(ppc, "notify")) \in Nat
  BY Numbers

-----------------------------------------------------------------------------
(* The invariant holds at first *)

\* Nothing has been pushed and nobody sleeps.
LEMMA CondVarInvInit == Init => CondVarInv
<1> SUFFICES ASSUME Init
             PROVE  CondVarInv
  OBVIOUS
<1> USE CondVarAssumption, PerProducer
<1>1. TypeOK
  <2>1. q \in Seq(0..N) /\ taken \in Seq(0..N)
    BY DEF Init
  <2>2. pushed \in [Producers -> 0..Per]
    BY DEF Init
  <2>3. ppc \in [Producers -> {"push", "notify"}] /\ cpc \in [Consumers -> {"check", "asleep", "out"}]
    BY DEF Init
  <2> QED
    BY <2>1, <2>2, <2>3 DEF Init, TypeOK
<1>2. ItemsKept
  <2>1. SumFunction(pushed) = Cardinality(Producers) * 0
    BY SumConstant DEF Init
  <2> QED
    BY <2>1 DEF Init, ItemsKept
<1>3. EndOK
  BY DEF Init, EndOK
<1>4. SleepersNotNeeded
  BY DEF Init, SleepersNotNeeded, Asleep, At
<1> QED
  BY <1>1, <1>2, <1>3, <1>4 DEF CondVarInv

-----------------------------------------------------------------------------
(* Steps *)

\* A producer pushes an item, whose notification is yet to come.
LEMMA PushKeeps ==
    ASSUME CondVarInv, NEW p \in Producers, Push(p)
    PROVE  CondVarInv'
<1> USE CondVarAssumption DEF CondVarInv
<1>0. /\ DOMAIN cpc = Consumers /\ DOMAIN ppc = Producers /\ Len(q) \in Nat
      /\ Cardinality(At(cpc, "check")) \in Nat
      /\ Cardinality(At(ppc, "notify")) \in Nat
  BY SleepersCounted
<1>1. /\ ppc[p] = "push" /\ pushed[p] < Per /\ pushed[p] \in 0..Per
      /\ q \in Seq(0..N) /\ q' = Append(q, pushed[p])
      /\ pushed' = [pushed EXCEPT ![p] = pushed[p] + 1]
      /\ ppc' = [ppc EXCEPT ![p] = "notify"]
      /\ UNCHANGED <<done, cpc, main, taken>>
  BY DEF Push, TypeOK
<1>2. Per \in Nat /\ Per <= N
  BY PerProducer
<1>3. pushed[p] \in 0..N /\ pushed[p] + 1 \in 0..Per /\ pushed[p] + 1 \in Int
  <2> HIDE DEF Per
  <2> QED
    BY <1>1, <1>2
<1>4. q' \in Seq(0..N) /\ Len(q') = Len(q) + 1
  BY <1>1, <1>3
<1>5. TypeOK'
  <2> HIDE DEF Per
  <2> QED
    BY <1>1, <1>3, <1>4 DEF TypeOK
<1>6. ItemsKept'
  <2>1. SumFunction(pushed') = SumFunction(pushed) + (pushed[p] + 1) - pushed[p]
    <3>1. pushed \in [Producers -> Int] /\ IsFiniteSet(Producers)
      BY Numbers
    <3> HIDE DEF CondVarInv
    <3> QED
      BY <1>1, <1>3, <3>1, SumChanges
  <2> QED
    BY <1>1, <1>3, <1>4, <2>1, Numbers DEF ItemsKept
<1>7. EndOK'
  <2>1. ~done
    <3> HIDE DEF Per
    <3> QED
      BY <1>1, <1>2 DEF EndOK, ProducerOut
  <2> QED
    BY <1>1, <2>1 DEF EndOK
<1>8. SleepersNotNeeded'
  <2>1. Recounts(ppc, ppc', "push", "notify")
    <3>1. /\ ppc[p] = "push" /\ ppc' = [ppc EXCEPT ![p] = "notify"]
          /\ DOMAIN ppc = Producers /\ IsFiniteSet(Producers)
      BY <1>1, <1>0
    <3> HIDE CondVarAssumption DEF CondVarInv
    <3> QED
      BY <3>1, AtMoves
  <2>2. Cardinality(At(ppc', "notify")) = Cardinality(At(ppc, "notify")) + 1
    <3> HIDE DEF CondVarInv
    <3> QED
      BY <2>1, <1>0 DEF Recounts
  <2> QED
    BY <1>1, <1>4, <2>2, <1>0 DEF SleepersNotNeeded, Asleep
<1> QED
  BY <1>5, <1>6, <1>7, <1>8

\* notify_one wakes a consumer, or finds none asleep.
LEMMA NotifyOneKeeps ==
    ASSUME CondVarInv, NEW p \in Producers, NotifyOne(p)
    PROVE  CondVarInv'
<1> USE CondVarAssumption DEF CondVarInv
<1>0. /\ DOMAIN cpc = Consumers /\ DOMAIN ppc = Producers /\ Len(q) \in Nat
      /\ Cardinality(At(cpc, "check")) \in Nat
      /\ Cardinality(At(ppc, "notify")) \in Nat
  BY SleepersCounted
<1>1. /\ ppc[p] = "notify" /\ ppc' = [ppc EXCEPT ![p] = "push"]
      /\ UNCHANGED <<q, done, pushed, main, taken>>
  BY DEF NotifyOne
<1>2. ItemsKept'
  BY <1>1 DEF ItemsKept
<1>3. ~done
  BY <1>1 DEF EndOK, ProducerOut
<1>4. Recounts(ppc, ppc', "notify", "push")
  BY <1>1, <1>0, AtMoves
<1>5. Cardinality(At(ppc', "notify")) = Cardinality(At(ppc, "notify")) - 1
  BY <1>4, <1>0 DEF Recounts
<1>6. CASE Asleep = {}
  <2>1. cpc' = cpc
    BY <1>6 DEF NotifyOne
  <2>2. TypeOK'
    BY <1>1, <2>1 DEF TypeOK
  <2>3. EndOK'
    BY <1>1, <1>3, <2>1 DEF EndOK
  <2>4. SleepersNotNeeded'
    BY <1>6, <2>1 DEF SleepersNotNeeded, Asleep
  <2> QED
    BY <1>2, <2>2, <2>3, <2>4
<1>7. ASSUME NEW c \in Asleep, cpc' = [cpc EXCEPT ![c] = "check"]
      PROVE  CondVarInv'
  <2>1. c \in Consumers /\ cpc[c] = "asleep"
    BY <1>7 DEF Asleep, At, TypeOK
  <2>2. TypeOK'
    BY <1>1, <1>7 DEF TypeOK
  <2>3. EndOK'
    BY <1>1, <1>3, <1>7, <2>1 DEF EndOK, TypeOK
  <2>4. Recounts(cpc, cpc', "asleep", "check")
    <3>1. /\ c \in Consumers /\ cpc[c] = "asleep" /\ cpc' = [cpc EXCEPT ![c] = "check"]
          /\ DOMAIN cpc = Consumers /\ IsFiniteSet(Consumers)
      BY <1>7, <2>1, <1>0
    <3> HIDE CondVarAssumption DEF CondVarInv
    <3> QED
      BY <3>1, AtMoves
  <2>5. Cardinality(At(cpc', "check")) = Cardinality(At(cpc, "check")) + 1
    <3> HIDE DEF CondVarInv
    <3> QED
      BY <2>4, <1>0 DEF Recounts
  <2>6. SleepersNotNeeded'
    BY <1>1, <1>5, <1>7, <2>5, <1>0 DEF SleepersNotNeeded
  <2> QED
    BY <1>2, <2>2, <2>3, <2>6
<1> QED
  BY <1>6, <1>7 DEF NotifyOne

\* A consumer takes an item, leaves, or falls asleep when the queue is empty.
LEMMA ConsumeKeeps ==
    ASSUME CondVarInv, NEW c \in Consumers, Consume(c)
    PROVE  CondVarInv'
<1> USE CondVarAssumption DEF CondVarInv
<1>1. cpc[c] = "check" /\ UNCHANGED <<done, pushed, ppc, main>>
  BY DEF Consume
<1>2. CASE /\ q # <<>> /\ q' = Tail(q)
           /\ taken' = Append(taken, Head(q))
           /\ UNCHANGED cpc
  <2>1. /\ q' \in Seq(0..N) /\ Len(q') = Len(q) - 1
        /\ Head(q) \in 0..N
    BY <1>2 DEF TypeOK
  <2>2. taken' \in Seq(0..N) /\ Len(taken') = Len(taken) + 1
    BY <1>2, <2>1 DEF TypeOK
  <2>3. ItemsKept'
    BY <1>1, <2>1, <2>2, Numbers DEF ItemsKept
  <2>4. TypeOK'
    <3> HIDE DEF Per
    <3> QED
      BY <1>1, <1>2, <2>1, <2>2 DEF TypeOK
  <2>5. EndOK'
    BY <1>1, <1>2 DEF EndOK, ProducerOut, Asleep
  <2>6. SleepersNotNeeded'
    BY SMTT(30), <1>1, <1>2, <2>1, Numbers DEF SleepersNotNeeded, Asleep
  <2> QED
    BY <2>3, <2>4, <2>5, <2>6
<1>3. CASE /\ q = <<>>
           /\ cpc' = [cpc EXCEPT ![c] = IF done THEN "out" ELSE "asleep"]
           /\ UNCHANGED <<q, taken>>
  <2>1. TypeOK'
    BY <1>1, <1>3 DEF TypeOK
  <2>2. ItemsKept'
    BY <1>1, <1>3 DEF ItemsKept
  <2>3. EndOK'
    BY <1>1, <1>3 DEF EndOK, ProducerOut, TypeOK, Asleep, At
  <2>4. Len(q') = 0
    BY <1>3
  <2>5. SleepersNotNeeded'
    <3>1. /\ Cardinality(At(cpc', "check")) \in Nat
          /\ Cardinality(At(ppc', "notify")) \in Nat
      BY <2>1, AtFinite DEF TypeOK
    <3> QED
      BY <2>4, <3>1 DEF SleepersNotNeeded
  <2> QED
    BY <2>1, <2>2, <2>3, <2>5
<1> QED
  BY <1>2, <1>3 DEF Consume

\* A consumer that wakes up is about to look.
LEMMA WakeKeeps ==
    ASSUME CondVarInv, NEW c \in Consumers, WakeSpuriously(c)
    PROVE  CondVarInv'
<1> USE CondVarAssumption DEF CondVarInv, WakeSpuriously
<1>0. /\ DOMAIN cpc = Consumers /\ DOMAIN ppc = Producers /\ Len(q) \in Nat
      /\ Cardinality(At(cpc, "check")) \in Nat
      /\ Cardinality(At(ppc, "notify")) \in Nat
  BY SleepersCounted
<1>1. TypeOK'
  BY DEF TypeOK
<1>2. ItemsKept'
  BY DEF ItemsKept
<1>3. EndOK'
  BY DEF EndOK, ProducerOut, TypeOK, Asleep, At
<1>4. Recounts(cpc, cpc', "asleep", "check")
  BY <1>0, AtMoves
<1>5. Cardinality(At(cpc', "check")) = Cardinality(At(cpc, "check")) + 1
  <2> HIDE DEF WakeSpuriously, CondVarInv
  <2> QED
    BY <1>4, <1>0 DEF Recounts
<1>6. Asleep # {}
  BY DEF Asleep, At, TypeOK
<1>7. SleepersNotNeeded'
  BY <1>5, <1>6, <1>0 DEF SleepersNotNeeded
<1> QED
  BY <1>1, <1>2, <1>3, <1>7

\* Main sets done when all is pushed, wakes everybody and joins the consumers.
LEMMA MainKeeps ==
    ASSUME CondVarInv, MainStep
    PROVE  CondVarInv'
<1> USE CondVarAssumption DEF CondVarInv
<1>1. UNCHANGED <<q, pushed, ppc, taken>>
  BY DEF MainStep, SetDone, NotifyAll, JoinConsumers
<1>2. ItemsKept'
  BY <1>1 DEF ItemsKept
<1>3. CASE SetDone \/ JoinConsumers
  <2>1. cpc' = cpc
    BY <1>3 DEF SetDone, JoinConsumers
  <2>2. TypeOK'
    BY <1>1, <1>3, <2>1 DEF TypeOK, SetDone, JoinConsumers
  <2>3. EndOK'
    BY <1>1, <1>3, <2>1 DEF EndOK, ProducerOut, Asleep, SetDone, JoinConsumers
  <2>4. SleepersNotNeeded'
    BY <1>1, <2>1 DEF SleepersNotNeeded, Asleep
  <2> QED
    BY <1>2, <2>2, <2>3, <2>4
<1>4. CASE NotifyAll
  <2>1. TypeOK'
    BY <1>1, <1>4 DEF TypeOK, NotifyAll
  <2>2. EndOK'
    BY <1>1, <1>4 DEF EndOK, ProducerOut, NotifyAll, TypeOK, Asleep, At
  <2>3. Asleep' = {}
    BY <1>4 DEF NotifyAll, Asleep, At
  <2>4. SleepersNotNeeded'
    BY <2>3 DEF SleepersNotNeeded
  <2> QED
    BY <1>2, <2>1, <2>2, <2>4
<1> QED
  BY <1>3, <1>4 DEF MainStep

\* Every step keeps the invariant.
LEMMA CondVarInvStep == CondVarInv /\ [Next]_vars => CondVarInv'
<1> SUFFICES ASSUME CondVarInv, [Next]_vars
             PROVE  CondVarInv'
  OBVIOUS
<1>1. CASE UNCHANGED vars
  BY <1>1 DEF vars, CondVarInv, TypeOK, ItemsKept, EndOK, ProducerOut, SleepersNotNeeded,
              Asleep
<1> QED
  BY <1>1, PushKeeps, NotifyOneKeeps, ConsumeKeeps, WakeKeeps, MainKeeps
     DEF Next, ProducerStep, Over

-----------------------------------------------------------------------------
(* The theorems *)

\* The inductive invariant of PC_CondVar.
THEOREM CondVarInvariance == Spec => []CondVarInv
  BY CondVarInvInit, CondVarInvStep, PTL DEF Spec

\* No item waits while a consumer sleeps and nobody is on the way to wake it,
\* although notify_one is called outside the mutex (line 31).
THEOREM NoItemWaits == Spec => []SleepersNotNeeded
<1>1. CondVarInv => SleepersNotNeeded
  BY DEF CondVarInv
<1> QED
  BY <1>1, CondVarInvariance, PTL

\* When the iteration is over, all items have been popped that the producers push:
\* N / producers each, by the integer division of line 25.
THEOREM QueueDrained ==
    Spec => [](main = "over" => /\ q = <<>>
                                /\ Len(taken) = Cardinality(Producers) * Per)
<1>1. CondVarInv => (main = "over" =>
                       /\ q = <<>>
                       /\ Len(taken) = Cardinality(Producers) * Per)
  <2> SUFFICES ASSUME CondVarInv, main = "over"
               PROVE  q = <<>> /\ Len(taken) = Cardinality(Producers) * Per
    OBVIOUS
  <2> USE DEF CondVarInv, EndOK
  <2>1. q = <<>> /\ done
    BY CondVarAssumption
  <2>2. pushed = [p \in Producers |-> Per]
    BY <2>1 DEF TypeOK, ProducerOut
  <2>3. SumFunction(pushed) = Cardinality(Producers) * Per
    BY <2>2, PerProducer, SumConstant, CondVarAssumption
  <2> QED
    BY <2>1, <2>3, Numbers DEF ItemsKept
<1> QED
  BY <1>1, CondVarInvariance, PTL

\* With numbers of producers that divide N, as all the arguments of the benchmark
\* do (lines 77-79), these are the N items that are reported (line 73).
THEOREM ItemsCounted ==
    ASSUME N % Cardinality(Producers) = 0
    PROVE  Spec => []ItemsReported
<1>1. (main = "over" => /\ q = <<>>
                        /\ Len(taken) = Cardinality(Producers) * Per)
        => ItemsReported
  BY PerProducer DEF ItemsReported
<1> QED
  BY <1>1, QueueDrained, PTL

\* A step of PC_CondVar is one of the queue that BoundedQueue.tla describes, or
\* leaves that queue as it is.
LEMMA QueueStep == CondVarInv /\ [Next]_vars => [Abstract!Next]_(Abstract!vars)
<1> SUFFICES ASSUME CondVarInv, [Next]_vars
             PROVE  Abstract!Next \/ UNCHANGED Abstract!vars
  OBVIOUS
<1> DEFINE Left == At(cpc, "out")
<1> USE DEF CondVarInv
\* Lines 26-30: there is room for all that the producers push, and nothing has
\* been stopped while one of them still pushes.
<1>1. ASSUME NEW p \in Producers, Push(p)
      PROVE  Abstract!Accept(pushed[p]) /\ pushed[p] \in 0..N
  <2>1. /\ pushed[p] < Per /\ pushed[p] \in 0..Per
        /\ pushed' = [pushed EXCEPT ![p] = pushed[p] + 1]
        /\ q' = Append(q, pushed[p])
        /\ UNCHANGED <<done, cpc, taken>>
    BY <1>1 DEF Push, TypeOK
  <2>2. Per \in Nat /\ Per <= N
    BY PerProducer
  <2>3. pushed[p] \in 0..N /\ pushed[p] + 1 \in Int /\ pushed[p] # Per
    <3> HIDE DEF Per
    <3> QED
      BY <2>1, <2>2, CondVarAssumption
  <2>4. ~done
    BY <2>3 DEF EndOK, ProducerOut
  <2>5. CondVarInv'
    BY <1>1, PushKeeps
  <2>6. SumFunction(pushed') = SumFunction(pushed) + (pushed[p] + 1) - pushed[p]
    <3>1. pushed \in [Producers -> Int] /\ IsFiniteSet(Producers)
      BY Numbers, CondVarAssumption
    <3> HIDE DEF CondVarInv
    <3> QED
      BY <2>1, <2>3, <3>1, SumChanges
  <2>7. SumFunction(pushed') <= N
    BY <2>5, PushedAtMost DEF TypeOK
  <2>8. Len(q) < N
    BY <2>3, <2>6, <2>7, Numbers, CondVarAssumption DEF ItemsKept
  <2> QED
    BY <2>1, <2>3, <2>4, <2>8 DEF Abstract!Accept
\* Lines 38-45: a consumer takes the oldest item, or leaves when there is none
\* and done is set, or falls asleep.
<1>2. ASSUME NEW c \in Consumers, Consume(c)
      PROVE  Abstract!Take \/ Abstract!EndOfStream(c) \/ UNCHANGED Abstract!vars
  <2>1. UNCHANGED done /\ cpc[c] = "check"
    BY <1>2 DEF Consume
  <2>2. CASE /\ q # <<>>
             /\ q' = Tail(q)
             /\ taken' = Append(taken, Head(q))
             /\ UNCHANGED cpc
    BY <2>1, <2>2 DEF Abstract!Take
  <2>3. CASE /\ q = <<>>
             /\ cpc' = [cpc EXCEPT ![c] = IF done THEN "out" ELSE "asleep"]
             /\ UNCHANGED <<q, taken>>
    <3>1. CASE done
      <4>1. At(cpc', "out") = Left \cup {c}
        BY <2>3, <3>1 DEF At, TypeOK
      <4> QED
        BY <2>1, <2>3, <3>1, <4>1 DEF Abstract!EndOfStream
    <3>2. CASE ~done
      <4>1. At(cpc', "out") = Left
        BY <2>1, <2>3, <3>2 DEF At, TypeOK
      <4> QED
        BY <2>1, <2>3, <4>1 DEF Abstract!vars
    <3> QED
      BY <3>1, <3>2
  <2> QED
    BY <1>2, <2>2, <2>3 DEF Consume
\* Lines 31, 39 and 67: whoever wakes up was asleep, so nobody leaves or returns.
<1>3. ASSUME \/ \E p \in Producers : NotifyOne(p)
             \/ \E c \in Consumers : WakeSpuriously(c)
             \/ NotifyAll
      PROVE  UNCHANGED Abstract!vars
  <2>1. UNCHANGED <<q, done, taken>>
    BY <1>3 DEF NotifyOne, WakeSpuriously, NotifyAll
  <2>2. At(cpc', "out") = Left
    BY <1>3 DEF NotifyOne, WakeSpuriously, NotifyAll, Asleep, At, TypeOK
  <2> QED
    BY <2>1, <2>2 DEF Abstract!vars
\* Line 65.
<1>4. ASSUME SetDone
      PROVE  Abstract!Stop
  <2>1. ~done /\ done' = TRUE /\ UNCHANGED <<q, cpc, taken>>
    BY <1>4 DEF SetDone, EndOK
  <2> QED
    BY <2>1 DEF Abstract!Stop
<1>5. ASSUME JoinConsumers \/ UNCHANGED vars
      PROVE  UNCHANGED Abstract!vars
  BY <1>5 DEF JoinConsumers, vars, Abstract!vars
<1> QED
  BY <1>1, <1>2, <1>3, <1>4, <1>5
     DEF Next, ProducerStep, MainStep, Over, Abstract!Next

\* q, m, cv and done of PC_CondVar keep the promises of BoundedQueue.tla for any
\* number of producers, consumers and items.
THEOREM QueueRefinement == Spec => ImplementsBoundedQueue
<1>1. Init => Abstract!Init
  BY DEF Init, Abstract!Init, At
<1> QED
  BY <1>1, CondVarInvariance, QueueStep, PTL DEF Spec, Abstract!Spec, ImplementsBoundedQueue

\* A thread of the iteration can move, other than by a spurious wake-up: main,
\* unless it waits for threads to return (lines 60 and 68); a producer that has
\* not returned; or a consumer that neither sleeps nor has left.
SomeThreadMoves ==
    \/ main = "join_producers" /\ \A p \in Producers : ProducerOut(p)
    \/ main = "notify"
    \/ main = "join_consumers" /\ \A c \in Consumers : cpc[c] = "out"
    \/ \E p \in Producers : ppc[p] = "notify" \/ pushed[p] < Per
    \/ \E c \in Consumers : cpc[c] = "check"

\* The iteration is never stuck before its end, even if no wait ever returns without
\* a reason: the notify_all of line 67 reaches all who sleep, and nobody falls
\* asleep after it.
THEOREM IterationNeverStuck == Spec => [](main # "over" => SomeThreadMoves)
<1>1. CondVarInv => (main # "over" => SomeThreadMoves)
  <2> SUFFICES ASSUME CondVarInv, main # "over", ~SomeThreadMoves
               PROVE  FALSE
    OBVIOUS
  <2> USE DEF CondVarInv
  <2>1. \A p \in Producers : ProducerOut(p)
    <3>1. Per \in Nat
      BY PerProducer
    <3> HIDE DEF Per
    <3> QED
      BY <3>1 DEF SomeThreadMoves, TypeOK, ProducerOut
  <2>2. main = "join_consumers"
    BY <2>1 DEF SomeThreadMoves, TypeOK
  <2>3. PICK c \in Consumers : cpc[c] = "asleep"
    BY <2>2 DEF SomeThreadMoves, TypeOK
  <2> QED
    BY <2>2, <2>3 DEF EndOK, Asleep, At, TypeOK
<1> QED
  BY <1>1, CondVarInvariance, PTL

-----------------------------------------------------------------------------
(* TimerService and its tasks: the inductive invariant *)

InHeap(i) == \E e \in heap_ : e.task = i

\* A handle is with main, which has yet to schedule it, in the heap, or with the
\* worker that resumes it: at one of these places, once.
EachHandleOnce ==
    /\ \A e \in heap_ : e.task <= launched
    /\ \A e, f \in heap_ : e.task = f.task => e = f
    /\ worker \in {"resume", "set_flag", "continue"} => entry \in Entries
    /\ worker = "resume" => entry.task <= launched /\ ~InHeap(entry.task)
    /\ main_thread = "schedule" => /\ launched > 0 /\ ~InHeap(launched)
                                   /\ worker = "resume" => entry.task # launched

Handled(i) == \/ InHeap(i)
              \/ worker = "resume" /\ entry.task = i
              \/ main_thread = "schedule" /\ launched = i

\* A coroutine is suspended while its handle is somewhere; its flag is set when
\* it has ended, and its frame is destroyed after that.
FrameStates ==
    \A i \in Tasks :
      /\ frame[i] = "none" <=> i > launched
      /\ Handled(i) => frame[i] = "suspended"
      /\ worker = "set_flag" /\ entry.task = i => frame[i] = "final" /\ ~done_flag[i]
      /\ done_flag[i] => frame[i] \in {"final", "destroyed"}
      /\ frame[i] = "destroyed" => done_flag[i]

\* Main goes past wait_all when all flags are set.
AllWaitedFor ==
    main_thread \in {"destroy_tasks", "stop", "notify_all", "join", "over"} =>
      launched = NumTasks /\ \A i \in Tasks : done_flag[i]

TimerInv == /\ TimerTypeOK
            /\ EachHandleOnce /\ FrameStates /\ AllWaitedFor
            /\ NeverEarly

-----------------------------------------------------------------------------
(* TimerService: every step keeps the invariant *)

\* No task is launched.
LEMMA TimerInvInit ==
    ASSUME TimerInit
    PROVE  TimerInv
<1> USE CoroutineAssumption DEF TimerInit
<1>1. TimerTypeOK
  <2>1. 0 \in 0..NumTasks /\ delay \in Nat
    OBVIOUS
  <2> QED
    BY <2>1 DEF TimerTypeOK
<1>2. EachHandleOnce /\ AllWaitedFor /\ NeverEarly
  BY DEF EachHandleOnce, InHeap, AllWaitedFor, NeverEarly
<1>3. FrameStates
  BY DEF FrameStates, Handled, InHeap, Tasks
<1> QED
  BY <1>1, <1>2, <1>3 DEF TimerInv

\* A task that is launched has its handle with main, until it is scheduled.
LEMMA LaunchKeepsTimer ==
    ASSUME TimerInv, Launch
    PROVE  TimerInv'
<1> USE CoroutineAssumption DEF TimerInv, Launch, mains, workers
<1> DEFINE new == launched + 1
<1>0. /\ launched \in Nat /\ launched < NumTasks /\ launched' = new
      /\ new \in Tasks /\ delay \in Nat /\ now \in Nat
  BY DEF TimerTypeOK, Tasks
<1>1. TimerTypeOK'
  BY <1>0 DEF TimerTypeOK
<1>2. EachHandleOnce'
  BY <1>0 DEF EachHandleOnce, InHeap, TimerTypeOK, Entries, Tasks
<1>3. FrameStates'
  <2> SUFFICES ASSUME NEW i \in Tasks
               PROVE  FrameStates!(i)'
    BY DEF FrameStates
  <2> QED
    BY <1>0 DEF FrameStates, Handled, InHeap, EachHandleOnce, TimerTypeOK, Tasks
<1>4. AllWaitedFor' /\ NeverEarly'
  BY DEF AllWaitedFor, NeverEarly
<1> QED
  BY <1>1, <1>2, <1>3, <1>4

\* schedule moves the handle from main to the heap, with the deadline it computed.
LEMMA ScheduleKeepsTimer ==
    ASSUME TimerInv, Schedule
    PROVE  TimerInv'
<1> USE CoroutineAssumption DEF TimerInv, Schedule, workers
<1> DEFINE new == [when |-> when, task |-> launched]
<1>1. /\ new \in Entries /\ new.task = launched /\ heap_' = heap_ \cup {new}
      /\ launched \in Tasks
  BY DEF TimerTypeOK, EachHandleOnce, Entries, Tasks
<1> HIDE DEF new
<1>2. TimerTypeOK'
  BY <1>1 DEF TimerTypeOK
<1>3. \A i : InHeap(i)' <=> InHeap(i) \/ i = launched
  BY <1>1 DEF InHeap
<1>4. EachHandleOnce'
  <2>1. \A e \in heap_' : e.task <= launched'
    BY <1>1 DEF EachHandleOnce, TimerTypeOK
  <2>2. \A e, f \in heap_' : e.task = f.task => e = f
    BY <1>1 DEF EachHandleOnce, InHeap
  <2>3. worker' = "resume" => entry'.task <= launched' /\ ~InHeap(entry.task)'
    BY <1>3 DEF EachHandleOnce
  <2> QED
    BY <2>1, <2>2, <2>3 DEF EachHandleOnce, InHeap
<1>5. FrameStates'
  BY <1>3 DEF FrameStates, Handled, InHeap
<1>6. AllWaitedFor' /\ NeverEarly'
  BY DEF AllWaitedFor, NeverEarly
<1> QED
  BY <1>2, <1>4, <1>5, <1>6

\* Main's other steps leave the handles where they are; it destroys the frames
\* when all flags are set, so that no coroutine is suspended.
LEMMA MainKeepsTimer ==
    ASSUME TimerInv, MainThreadStep
    PROVE  TimerInv'
<1> USE CoroutineAssumption DEF TimerInv, workers, mains
<1>1. CASE Notify \/ NotifyStop
  <2> USE <1>1 DEF Notify, NotifyStop, Wake
  <2>1. TimerTypeOK'
    BY DEF TimerTypeOK
  <2>2. EachHandleOnce'
    BY DEF EachHandleOnce, InHeap
  <2>3. FrameStates'
    BY DEF FrameStates, Handled, InHeap
  <2>4. AllWaitedFor' /\ NeverEarly'
    BY DEF AllWaitedFor, NeverEarly
  <2> QED
    BY <2>1, <2>2, <2>3, <2>4
<1>2. CASE WaitAll \/ Stop \/ Join
  <2> USE <1>2 DEF WaitAll, Stop, Join
  <2>1. TimerTypeOK'
    BY DEF TimerTypeOK
  <2>2. EachHandleOnce'
    BY DEF EachHandleOnce, InHeap
  <2>3. FrameStates'
    BY DEF FrameStates, Handled, InHeap
  <2>4. AllWaitedFor' /\ NeverEarly'
    BY DEF AllWaitedFor, NeverEarly
  <2> QED
    BY <2>1, <2>2, <2>3, <2>4
<1>3. CASE DestroyTasks
  <2> USE <1>3 DEF DestroyTasks
  <2>1. TimerTypeOK'
    BY DEF TimerTypeOK
  <2>2. EachHandleOnce'
    BY DEF EachHandleOnce, InHeap
  <2>3. AllWaitedFor' /\ NeverEarly'
    BY DEF AllWaitedFor, NeverEarly
  <2>4. FrameStates'
    <3> SUFFICES ASSUME NEW i \in Tasks
                 PROVE  FrameStates!(i)'
      BY DEF FrameStates
    <3>1. launched = NumTasks /\ done_flag[i] /\ done_flag' = done_flag
      BY DEF AllWaitedFor
    <3>2. frame[i] \in {"final", "destroyed"} /\ ~Handled(i)
      BY <3>1 DEF FrameStates
    <3>3. ~Handled(i)'
      BY <3>2 DEF Handled, InHeap
    <3>4. frame'[i] = "destroyed" /\ launched' = launched /\ ~(i > launched)
      BY <3>1 DEF Tasks
    <3>5. ~(worker = "set_flag" /\ entry.task = i)
      BY <3>1 DEF FrameStates
    <3> QED
      BY <3>1, <3>3, <3>4, <3>5
  <2> QED
    BY <2>1, <2>2, <2>3, <2>4
<1> QED
  BY <1>1, <1>2, <1>3, LaunchKeepsTimer, ScheduleKeepsTimer DEF MainThreadStep

\* The worker's steps while it has no handle, and time.
LEMMA IdleKeepsTimer ==
    ASSUME TimerInv, Idle \/ Doze \/ Alarm \/ WakeEarly \/ Tick
    PROVE  TimerInv'
<1> USE DEF TimerInv, workers, mains, Idle, Doze, Alarm, WakeEarly, Tick
<1>1. TimerTypeOK'
  <2>1. until' \in Nat
    BY DEF TimerTypeOK, First, Entries
  <2> QED
    BY <2>1 DEF TimerTypeOK
<1>2. UNCHANGED <<heap_, entry, frame, done_flag, main_thread, launched>>
  OBVIOUS
<1>3. /\ worker' \in {"resume", "set_flag", "continue"} => worker' = worker
      /\ now \in Nat /\ now' \in {now, now + 1}
  BY DEF TimerTypeOK
<1>4. EachHandleOnce'
  BY <1>2, <1>3 DEF EachHandleOnce, InHeap
<1>5. FrameStates'
  BY <1>2, <1>3 DEF FrameStates, Handled, InHeap
<1>6. AllWaitedFor'
  BY <1>2 DEF AllWaitedFor
<1>7. NeverEarly'
  BY <1>2, <1>3 DEF NeverEarly, EachHandleOnce, Entries
<1> QED
  BY <1>1, <1>4, <1>5, <1>6, <1>7

\* A handle that is due leaves the heap with the worker.
LEMMA PopKeepsTimer ==
    ASSUME TimerInv, Pop
    PROVE  TimerInv'
<1> USE DEF TimerInv, Pop, mains
<1>1. PICK e \in heap_ : e.when <= now /\ heap_' = heap_ \ {e} /\ entry' = e
  BY DEF First
<1>2. e \in Entries
  BY DEF TimerTypeOK
<1>3. TimerTypeOK'
  BY <1>1, <1>2 DEF TimerTypeOK
<1>4. \A i : InHeap(i)' <=> InHeap(i) /\ i # e.task
  BY <1>1 DEF InHeap, EachHandleOnce
<1>5. EachHandleOnce'
  <2>1. \A d \in heap_' : d.task <= launched'
    BY <1>1 DEF EachHandleOnce
  <2>2. \A d, f \in heap_' : d.task = f.task => d = f
    BY <1>1 DEF EachHandleOnce
  <2>3. entry'.task <= launched' /\ ~InHeap(entry.task)' /\ entry' \in Entries
    BY <1>1, <1>2, <1>4 DEF EachHandleOnce
  <2>4. main_thread' = "schedule" => /\ launched' > 0 /\ ~InHeap(launched)'
                                     /\ entry'.task # launched'
    BY <1>1, <1>4 DEF EachHandleOnce, InHeap
  <2>5. UNCHANGED Entries
    BY DEF Entries, Tasks
  <2> QED
    BY <2>1, <2>2, <2>3, <2>4, <2>5 DEF EachHandleOnce
<1>6. FrameStates'
  <2>1. \A i : Handled(i)' => Handled(i)
    BY <1>1, <1>4 DEF Handled, InHeap
  <2> QED
    BY <2>1 DEF FrameStates
<1>7. AllWaitedFor'
  BY DEF AllWaitedFor
<1>8. NeverEarly'
  BY <1>1, <1>2 DEF NeverEarly, Entries, TimerTypeOK
<1> QED
  BY <1>3, <1>5, <1>6, <1>7, <1>8

\* Resumed, the coroutine ends; its flag is set by the worker, before it goes on.
LEMMA ResumedKeepsTimer ==
    ASSUME TimerInv, Resume \/ SetFlag \/ Continue
    PROVE  TimerInv'
<1> USE DEF TimerInv, mains
<1> DEFINE k == entry.task
<1>1. worker \in {"resume", "set_flag", "continue"} /\ entry \in Entries
  BY DEF EachHandleOnce, Resume, SetFlag, Continue
<1>2. k \in Tasks
  BY <1>1 DEF Entries
<1>3. UNCHANGED <<delay, now, heap_, stop_, until, main_thread, launched, when>>
  BY DEF Resume, SetFlag, Continue
<1>4. \A i : InHeap(i)' <=> InHeap(i)
  BY <1>3 DEF InHeap
<1>5. TimerTypeOK'
  BY <1>1, <1>2, <1>3 DEF TimerTypeOK, Resume, SetFlag, Continue
<1>6. EachHandleOnce' /\ NeverEarly'
  BY <1>1, <1>3, <1>4
     DEF EachHandleOnce, NeverEarly, Entries, Resume, SetFlag, Continue
<1>7. AllWaitedFor'
  BY <1>3 DEF AllWaitedFor, Resume, SetFlag, Continue, TimerTypeOK
<1>8. CASE Resume
  <2> SUFFICES ASSUME NEW i \in Tasks
               PROVE  FrameStates!(i)'
    BY <1>5, <1>6, <1>7 DEF FrameStates
  <2>1. Handled(k) /\ frame[k] = "suspended" /\ ~done_flag[k] /\ k <= launched
    BY <1>2, <1>8 DEF FrameStates, Handled, EachHandleOnce, Resume
  <2>2. CASE i = k
    <3>1. frame'[i] = "final" /\ ~done_flag'[i]
      BY <1>2, <1>8, <2>1, <2>2 DEF Resume, TimerTypeOK
    <3>2. ~Handled(i)'
      BY <1>3, <1>4, <1>8, <2>2 DEF Handled, EachHandleOnce, Resume
    <3>3. launched \in Nat /\ i \in Nat /\ i <= launched
      BY <2>1, <2>2 DEF TimerTypeOK, Tasks
    <3> QED
      BY <1>3, <3>1, <3>2, <3>3
  <2>3. CASE i # k
    <3>1. frame'[i] = frame[i] /\ done_flag'[i] = done_flag[i]
      BY <1>8, <2>3 DEF Resume, TimerTypeOK
    <3>2. Handled(i)' => Handled(i)
      BY <1>3, <1>4, <1>8 DEF Handled, Resume
    <3>3. worker # "set_flag" /\ entry' = entry
      BY <1>8 DEF Resume
    <3> QED
      BY <1>3, <2>3, <3>1, <3>2, <3>3 DEF FrameStates
  <2> QED
    BY <2>2, <2>3
<1>9. CASE SetFlag
  <2>1. \A i : Handled(i)' => Handled(i)
    BY <1>3, <1>4, <1>9 DEF Handled, SetFlag
  <2>2. frame' = frame /\ worker' # "set_flag" /\ frame[k] = "final"
    BY <1>2, <1>9 DEF SetFlag, FrameStates
  <2>3. \A i \in Tasks : done_flag'[i] <=> done_flag[i] \/ i = k
    BY <1>2, <1>9 DEF SetFlag, TimerTypeOK
  <2>4. FrameStates'
    <3> HIDE DEF k
    <3> QED
      BY <1>3, <2>1, <2>2, <2>3 DEF FrameStates
  <2> QED
    BY <1>5, <1>6, <1>7, <2>4
<1>10. CASE Continue
  <2>1. \A i : Handled(i)' => Handled(i)
    BY <1>3, <1>4, <1>10 DEF Handled, Continue
  <2>2. UNCHANGED <<frame, done_flag>> /\ worker' # "set_flag"
    BY <1>10 DEF Continue
  <2>3. FrameStates'
    BY <1>3, <2>1, <2>2 DEF FrameStates
  <2> QED
    BY <1>5, <1>6, <1>7, <2>3
<1> QED
  BY <1>8, <1>9, <1>10

\* Every step keeps the invariant.
LEMMA TimerStep == TimerInv /\ [TimerNext]_timer_vars => TimerInv'
<1> SUFFICES ASSUME TimerInv, [TimerNext]_timer_vars
             PROVE  TimerInv'
  OBVIOUS
<1>1. CASE UNCHANGED timer_vars
  <2> USE <1>1 DEF timer_vars
  <2>1. TimerTypeOK'
    BY DEF TimerInv, TimerTypeOK
  <2>2. EachHandleOnce' /\ FrameStates' /\ AllWaitedFor' /\ NeverEarly'
    BY DEF TimerInv, EachHandleOnce, FrameStates, Handled, InHeap, AllWaitedFor,
           NeverEarly
  <2> QED
    BY <2>1, <2>2 DEF TimerInv
<1> QED
  BY <1>1, MainKeepsTimer, IdleKeepsTimer, PopKeepsTimer, ResumedKeepsTimer
     DEF TimerNext, WorkerStep, SessionOver

-----------------------------------------------------------------------------
(* TimerService: the theorems *)

\* The inductive invariant of TimerService and its tasks.
THEOREM TimerInvariance == TimerSpec => []TimerInv
<1>1. TimerInit => TimerInv
  BY TimerInvInit
<1>2. TimerInv /\ [TimerNext]_timer_vars => TimerInv'
  BY TimerStep
<1> QED
  BY <1>1, <1>2, PTL DEF TimerSpec

\* A handle in the heap or with the worker is that of a suspended coroutine, and
\* there is one only (lines 68-75): none is resumed twice, nor after its end.
THEOREM HandlesValid == TimerSpec => []HandlesSuspended
<1>1. TimerInv => HandlesSuspended
  <2> SUFFICES ASSUME TimerInv
               PROVE  HandlesSuspended
    OBVIOUS
  <2> USE DEF TimerInv
  <2>1. \A e \in heap_ : e.task \in Tasks /\ Handled(e.task)
    BY DEF TimerTypeOK, Entries, Handled, InHeap
  <2>2. worker = "resume" => /\ entry.task \in Tasks /\ Handled(entry.task)
                             /\ ~InHeap(entry.task)
    BY DEF EachHandleOnce, Entries, Handled
  <2> QED
    BY <2>1, <2>2 DEF FrameStates, InHeap, HandlesSuspended
<1> QED
  BY <1>1, TimerInvariance, PTL

\* No coroutine is resumed before its delay is over, for any delays (line 69).
THEOREM DelaysKept == TimerSpec => []NeverEarly
<1>1. TimerInv => NeverEarly
  BY DEF TimerInv
<1> QED
  BY <1>1, TimerInvariance, PTL

\* The frame that the worker resumes and whose flag it sets (lines 75 and 105-107)
\* has not been destroyed: that FramesLive fails is due to line 108 alone.
THEOREM FrameLostAtTheEndOnly ==
    TimerSpec => [](worker \in {"resume", "set_flag"} => frame[entry.task] # "destroyed")
<1>1. TimerInv => (worker \in {"resume", "set_flag"} => frame[entry.task] # "destroyed")
  <2> SUFFICES ASSUME TimerInv, worker \in {"resume", "set_flag"}
               PROVE  frame[entry.task] # "destroyed"
    OBVIOUS
  <2>1. entry.task \in Tasks
    BY DEF TimerInv, EachHandleOnce, Entries
  <2> QED
    BY <2>1 DEF TimerInv, FrameStates, Handled
<1> QED
  BY <1>1, TimerInvariance, PTL

-----------------------------------------------------------------------------
(* TimerService: nothing is forgotten *)

\* The handle of a task that has been launched and whose flag is not yet set is at
\* one of the places of Handled, or the worker is about to set the flag.
NoHandleLost ==
    \A i \in Tasks : i <= launched =>
      done_flag[i] \/ Handled(i) \/ (worker = "set_flag" /\ entry.task = i)

\* The worker sleeps for an entry that is there, and main tells it to stop at the
\* end only.
SleepOK == /\ worker = "wait_until" => \E e \in heap_ : e.when = until
           /\ stop_ <=> main_thread \in {"notify_all", "join", "over"}
           /\ worker = "returned" => stop_
           /\ main_thread = "over" => worker = "returned"

WakeInv == TimerInv /\ NoHandleLost /\ SleepOK /\ NeverOverslept

\* No thread has anything to do at first.
LEMMA WakeInvInit == TimerInit => WakeInv
<1> SUFFICES ASSUME TimerInit
             PROVE  WakeInv
  OBVIOUS
<1>1. NoHandleLost
  BY CoroutineAssumption DEF TimerInit, NoHandleLost, Tasks
<1>2. SleepOK /\ NeverOverslept
  BY DEF TimerInit, SleepOK, NeverOverslept, Oversleeps
<1> QED
  BY <1>1, <1>2, TimerInvInit DEF WakeInv

\* Once main has told the worker to stop, no handle is left.
LEMMA StoppedWithNone ==
    ASSUME TimerInv, SleepOK, stop_
    PROVE  heap_ = {}
<1>1. \A i \in Tasks : done_flag[i]
  BY DEF TimerInv, SleepOK, AllWaitedFor
<1>2. \A i \in Tasks : ~InHeap(i)
  BY <1>1 DEF TimerInv, FrameStates, Handled
<1> QED
  BY <1>2 DEF TimerInv, TimerTypeOK, Entries, InHeap

\* No step loses a handle.
LEMMA HandlesKept ==
    ASSUME WakeInv, TimerNext
    PROVE  NoHandleLost'
<1> USE DEF WakeInv, TimerInv
<1>1. CASE Launch
  <2>1. launched \in Nat /\ launched' = launched + 1 /\ main_thread' = "schedule"
        /\ UNCHANGED <<heap_, worker, entry, done_flag>> /\ main_thread = "launch"
    BY <1>1, CoroutineAssumption DEF Launch, workers, TimerTypeOK
  <2>2. \A i \in Tasks : i <= launched' => i <= launched \/ i = launched'
    BY <2>1 DEF Tasks
  <2> QED
    BY <2>1, <2>2 DEF NoHandleLost, Handled, InHeap
<1>2. CASE Schedule
  <2> DEFINE new == [when |-> when, task |-> launched]
  <2>1. /\ UNCHANGED <<worker, entry, done_flag, launched>>
        /\ heap_' = heap_ \cup {new} /\ new.task = launched
    BY <1>2 DEF Schedule, workers
  <2> HIDE DEF new
  <2>2. \A i : InHeap(i) \/ i = launched => InHeap(i)'
    BY <2>1 DEF InHeap
  <2>3. \A i : Handled(i) => Handled(i)'
    BY <2>1, <2>2 DEF Handled
  <2> QED
    BY <2>1, <2>3 DEF NoHandleLost
<1>3. CASE Notify \/ WaitAll \/ DestroyTasks \/ Stop \/ NotifyStop \/ Join
  <2>1. /\ UNCHANGED <<heap_, entry, done_flag, launched>>
        /\ worker \in {"resume", "set_flag"} => worker' = worker
        /\ main_thread # "schedule"
    BY <1>3 DEF Notify, WaitAll, DestroyTasks, Stop, NotifyStop, Join, Wake, workers
  <2> QED
    BY <2>1 DEF NoHandleLost, Handled, InHeap
<1>4. CASE Idle \/ Doze \/ Alarm \/ WakeEarly \/ Tick \/ SessionOver
  <2>1. /\ UNCHANGED <<heap_, entry, done_flag, main_thread, launched>>
        /\ worker \in {"resume", "set_flag"} => worker' = worker
    BY <1>4 DEF Idle, Doze, Alarm, WakeEarly, Tick, SessionOver, timer_vars, workers, mains
  <2> QED
    BY <2>1 DEF NoHandleLost, Handled, InHeap
<1>5. CASE Pop
  <2>1. PICK e \in heap_ : heap_' = heap_ \ {e} /\ entry' = e
    BY <1>5 DEF Pop, First
  <2>2. UNCHANGED <<done_flag, main_thread, launched>> /\ worker = "loop" /\ worker' = "resume"
    BY <1>5 DEF Pop, mains
  <2>3. \A i : InHeap(i) => InHeap(i)' \/ e.task = i
    BY <2>1 DEF InHeap
  <2> QED
    BY <2>1, <2>2, <2>3 DEF NoHandleLost, Handled
<1>6. CASE Resume \/ SetFlag \/ Continue
  <2>1. UNCHANGED <<heap_, main_thread, launched>>
    BY <1>6 DEF Resume, SetFlag, Continue, mains
  <2>2. \A i : InHeap(i) => InHeap(i)'
    BY <2>1 DEF InHeap
  <2>3. CASE Resume
    BY <2>1, <2>2, <2>3 DEF NoHandleLost, Handled, Resume
  <2>4. CASE SetFlag
    <3>1. entry.task \in Tasks
      BY <2>4 DEF SetFlag, EachHandleOnce, Entries
    <3>2. \A i \in Tasks : done_flag[i] \/ i = entry.task => done_flag'[i]
      BY <2>4, <3>1 DEF SetFlag, TimerTypeOK
    <3> QED
      BY <2>1, <2>2, <2>4, <3>2 DEF NoHandleLost, Handled, SetFlag
  <2>5. CASE Continue
    BY <2>1, <2>2, <2>5 DEF NoHandleLost, Handled, Continue
  <2> QED
    BY <1>6, <2>3, <2>4, <2>5
<1> QED
  BY <1>1, <1>2, <1>3, <1>4, <1>5, <1>6 DEF TimerNext, MainThreadStep, WorkerStep

\* The worker falls asleep for the entry with the first deadline, or with none in
\* the heap, and not once it has been told to stop.
LEMMA SleepKept ==
    ASSUME WakeInv, TimerNext
    PROVE  SleepOK' /\ NeverOverslept'
<1> USE DEF WakeInv, TimerInv
<1>1. CASE Launch \/ WaitAll \/ DestroyTasks \/ Join
  <2>1. UNCHANGED <<heap_, stop_, worker, until>>
    BY <1>1 DEF Launch, WaitAll, DestroyTasks, Join, workers
  <2>2. ~Oversleeps
    BY <1>1 DEF NeverOverslept, Launch, WaitAll, DestroyTasks, Join
  <2> QED
    BY <1>1, <2>1, <2>2
       DEF SleepOK, NeverOverslept, Oversleeps, Launch, WaitAll, DestroyTasks, Join
<1>2. CASE Schedule \/ Stop
  <2>1. UNCHANGED <<worker, until>> /\ heap_ \subseteq heap_'
    BY <1>2 DEF Schedule, Stop, workers
  <2> QED
    BY <1>2, <2>1 DEF SleepOK, NeverOverslept, Schedule, Stop
<1>3. CASE Notify \/ NotifyStop
  <2>1. worker' \notin {"wait", "wait_until"} /\ stop_' = stop_
        /\ (worker' = "returned" <=> worker = "returned")
    BY <1>3 DEF Notify, NotifyStop, Wake
  <2> QED
    BY <1>3, <2>1 DEF SleepOK, NeverOverslept, Oversleeps, Notify, NotifyStop
<1>4. CASE Idle
  <2>1. /\ UNCHANGED <<heap_, stop_, main_thread>> /\ heap_ = {}
        /\ worker' = IF stop_ THEN "returned" ELSE "wait"
    BY <1>4 DEF Idle, mains
  <2> QED
    BY <1>4, <2>1 DEF SleepOK, NeverOverslept, Oversleeps, Idle
<1>5. CASE Doze
  <2>1. /\ UNCHANGED <<heap_, stop_, main_thread>> /\ worker' = "wait_until"
        /\ worker = "loop"
    BY <1>5 DEF Doze, mains
  <2>2. PICK e \in First : until' = e.when
    BY <1>5 DEF Doze
  <2>3. e \in heap_ /\ \A f \in heap_ : e.when <= f.when
    BY <2>2 DEF First
  <2>4. \A f \in heap_ : f.when \in Nat
    BY DEF TimerTypeOK, Entries
  <2>5. ~stop_
    BY <2>3, StoppedWithNone
  <2>6. \A f \in heap_ : ~(f.when < until')
    BY <2>2, <2>3, <2>4
  <2> QED
    BY <2>1, <2>2, <2>3, <2>5, <2>6 DEF SleepOK, NeverOverslept, Oversleeps
<1>6. CASE Alarm \/ WakeEarly \/ Pop \/ Resume \/ SetFlag \/ Continue
  <2>1. /\ worker' \notin {"wait", "wait_until", "returned"} /\ worker # "returned"
        /\ UNCHANGED <<stop_, main_thread>>
    BY <1>6 DEF Alarm, WakeEarly, Pop, Resume, SetFlag, Continue, mains
  <2> QED
    BY <2>1 DEF SleepOK, NeverOverslept, Oversleeps
<1>7. CASE Tick \/ SessionOver
  <2>1. UNCHANGED <<heap_, stop_, worker, until, main_thread>>
    BY <1>7 DEF Tick, SessionOver, timer_vars, workers, mains
  <2> QED
    BY <2>1 DEF SleepOK, NeverOverslept, Oversleeps
<1> QED
  BY <1>1, <1>2, <1>3, <1>4, <1>5, <1>6, <1>7 DEF TimerNext, MainThreadStep, WorkerStep

\* The invariant with which nothing is forgotten.
THEOREM WakeInvariance == TimerSpec => []WakeInv
<1>1. WakeInv /\ [TimerNext]_timer_vars => WakeInv'
  <2> SUFFICES ASSUME WakeInv, [TimerNext]_timer_vars
               PROVE  WakeInv'
    OBVIOUS
  <2>1. TimerInv'
    BY TimerStep DEF WakeInv
  <2>2. CASE TimerNext
    BY <2>1, <2>2, HandlesKept, SleepKept DEF WakeInv
  <2>3. CASE UNCHANGED timer_vars
    <3>1. NoHandleLost'
      BY <2>3 DEF timer_vars, WakeInv, NoHandleLost, Handled, InHeap
    <3>2. SleepOK' /\ NeverOverslept'
      BY <2>3 DEF timer_vars, WakeInv, SleepOK, NeverOverslept, Oversleeps
    <3> QED
      BY <2>1, <3>1, <3>2 DEF WakeInv
  <2> QED
    BY <2>2, <2>3
<1> QED
  BY <1>1, WakeInvInit, PTL DEF TimerSpec

\* The worker never sleeps past an entry or past stop_ with nobody about to notify
\* it, although schedule and the destructor notify without mu_ (lines 33 and 48).
THEOREM NoneOverslept == TimerSpec => []NeverOverslept
<1>1. WakeInv => NeverOverslept
  BY DEF WakeInv
<1> QED
  BY <1>1, WakeInvariance, PTL

\* A thread of the session can move, other than by a spurious wake-up: main, unless
\* it waits for flags or for the worker to return (lines 213-227 and 34-36); the
\* worker, unless it sleeps; or time, which the worker sleeps for (line 70).
SomebodyMoves ==
    \/ main_thread \in {"schedule", "notify", "destroy_tasks", "stop", "notify_all"}
    \/ main_thread = "launch" /\ (launched < NumTasks \/ \A i \in Tasks : done_flag[i])
    \/ main_thread = "join" /\ worker = "returned"
    \/ worker \in {"resume", "set_flag", "continue"}
    \/ worker = "loop" /\ (heap_ = {} \/ First # {})
    \/ worker = "wait_until" /\ (now >= until \/ \E e \in heap_ : e.when > now)

\* The session is never stuck before its end: no thread waits for another one that
\* waits for it, and no deadline, notification or flag is missed, even if no wait
\* ever returns without a reason.
THEOREM TimerNeverStuck == TimerSpec => [](main_thread # "over" => SomebodyMoves)
<1>1. WakeInv => (main_thread # "over" => SomebodyMoves)
  <2> SUFFICES ASSUME WakeInv, main_thread # "over", ~SomebodyMoves
               PROVE  FALSE
    OBVIOUS
  <2> USE DEF WakeInv, TimerInv
  <2>1. main_thread \in {"launch", "join"} /\ worker \in {"loop", "wait", "wait_until", "returned"}
    BY DEF SomebodyMoves, TimerTypeOK
  <2>2. worker # "loop"
    <3> SUFFICES ASSUME heap_ # {}
                 PROVE  First # {}
      BY DEF SomebodyMoves
    <3> DEFINE whens == {e.when : e \in heap_}
    <3>1. whens \in SUBSET Nat /\ whens # {}
      BY DEF TimerTypeOK, Entries
    <3>2. PICK n \in whens : \A m \in whens : n <= m
      BY <3>1, LeastNumber
    <3> QED
      BY <3>2 DEF First
  <2>3. worker # "wait_until"
    <3> SUFFICES ASSUME worker = "wait_until"
                 PROVE  FALSE
      OBVIOUS
    <3>1. PICK e \in heap_ : e.when = until
      BY DEF SleepOK
    <3>2. now \in Nat /\ until \in Nat
      BY DEF TimerTypeOK
    <3> QED
      BY <3>1, <3>2 DEF SomebodyMoves
  <2>4. worker \in {"wait", "returned"}
    BY <2>1, <2>2, <2>3
  <2>5. CASE main_thread = "join"
    <3>1. worker = "wait" /\ stop_
      BY <2>4, <2>5 DEF SomebodyMoves, SleepOK
    <3> QED
      BY <2>5, <3>1 DEF NeverOverslept, Oversleeps
  <2>6. CASE main_thread = "launch"
    <3>1. worker = "wait"
      BY <2>4, <2>6 DEF SleepOK
    <3>2. heap_ = {}
      BY <2>6, <3>1 DEF NeverOverslept, Oversleeps
    <3>3. PICK i \in Tasks : ~done_flag[i] /\ ~(launched < NumTasks)
      BY <2>6 DEF SomebodyMoves
    <3>4. i <= launched
      BY <3>3, CoroutineAssumption DEF Tasks, TimerTypeOK
    <3> QED
      BY <2>6, <3>1, <3>2, <3>3, <3>4 DEF NoHandleLost, Handled, InHeap
  <2> QED
    BY <2>1, <2>5, <2>6
<1> QED
  BY <1>1, WakeInvariance, PTL

\* What may happen to a coroutine frame, and in which order: it is created with
\* its task, resumed once, from its co_await to its end, and destroyed (lines
\* 241-244, 75 and 123-127).
Lifetime == {<<"none", "suspended">>, <<"suspended", "final">>, <<"final", "destroyed">>}

LivesOn(i) == frame'[i] = frame[i] \/ <<frame[i], frame'[i]>> \in Lifetime
AllLiveOn == \A i \in Tasks : LivesOn(i)

\* No coroutine is resumed twice, and none is destroyed that has yet to end.
THEOREM FramesLiveOnce == TimerSpec => [][AllLiveOn]_timer_vars
<1>1. TimerInv /\ [TimerNext]_timer_vars => [AllLiveOn]_timer_vars
  <2> SUFFICES ASSUME TimerInv, TimerNext, NEW i \in Tasks, frame' # frame
               PROVE  LivesOn(i)
    BY DEF AllLiveOn, LivesOn
  <2> USE DEF TimerInv, Lifetime, LivesOn
  <2>1. CASE Launch
    <3>1. launched + 1 \in Tasks /\ launched + 1 > launched
      BY <2>1, CoroutineAssumption DEF Launch, Tasks, TimerTypeOK
    <3>2. frame[launched + 1] = "none"
      BY <3>1 DEF FrameStates
    <3> QED
      BY <2>1, <3>2 DEF Launch, TimerTypeOK
  <2>2. CASE DestroyTasks
    <3>1. frame[i] \in {"final", "destroyed"}
      BY <2>2 DEF DestroyTasks, AllWaitedFor, FrameStates
    <3> QED
      BY <2>2, <3>1 DEF DestroyTasks
  <2>3. CASE Resume
    <3>1. entry.task \in Tasks /\ Handled(entry.task)
      BY <2>3 DEF Resume, EachHandleOnce, Entries, Handled
    <3>2. frame[entry.task] = "suspended"
      BY <3>1 DEF FrameStates
    <3> QED
      BY <2>3, <3>2 DEF Resume, TimerTypeOK
  <2> QED
    BY <2>1, <2>2, <2>3
       DEF TimerNext, MainThreadStep, WorkerStep, Schedule, Notify, WaitAll, Stop, NotifyStop,
           Join, Idle, Doze, Alarm, Pop, SetFlag, Continue, WakeEarly, Tick, SessionOver,
           timer_vars
<1> QED
  BY <1>1, TimerInvariance, PTL DEF TimerSpec
=============================================================================
