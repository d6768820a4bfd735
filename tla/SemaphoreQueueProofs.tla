------------------------ MODULE SemaphoreQueueProofs ------------------------
(***************************************************************************)
(* Theorems about SemaphoreQueue and its clients, for any number of        *)
(* threads, any capacity and any number of pushes.  The clients use the    *)
(* queue as SemaphoreQueue allows, so that what is proved of it holds in   *)
(* them.                                                                   *)
(***************************************************************************)
EXTENDS PCSemaphoreSession, ThreadCounting, SequenceTheorems

-----------------------------------------------------------------------------
(* Types *)

\* The initial values have their types.
LEMMA TypeInit == Init => TypeOK
<1> SUFFICES ASSUME Init
             PROVE  TypeOK
  OBVIOUS
<1>1. queue_ \in Seq(Items) /\ taken \in Seq(Items)
  BY DEF Init
<1>2. wake \in 0..WakeTokens
  BY QueueAssumption DEF Init, WakeTokens
<1>3. /\ ppc \in [Producers -> {"idle"}]
      /\ sent \in [Producers -> 0..MaxPushes]
      /\ cpc \in [Consumers -> {"idle"}]
  BY QueueAssumption DEF Init
<1> QED
  BY <1>1, <1>2, <1>3, QueueAssumption DEF Init, TypeOK

\* A step of a producer keeps the types: the item it inserts is one of its own,
\* and a token is only taken from a semaphore that has one.
LEMMA TypeProducer ==
    ASSUME TypeOK, NEW p \in Producers, ProducerStep(p)
    PROVE  TypeOK'
<1> USE QueueAssumption DEF flags, owner, producer, consumer, GoP
<1>1. ppc[p] # "idle" => Item(p) \in Items
  BY DEF TypeOK, Item, Items
<1>2. CASE PushEnter(p)
  <2>1. /\ sent[p] + 1 \in 1..MaxPushes
        /\ <<p, sent[p] + 1>> \in Items
    BY <1>2 DEF PushEnter, TypeOK, Items
  <2>2. /\ sent' \in [Producers -> 0..MaxPushes]
        /\ sent'[p] > 0
        /\ \A t \in Producers \ {p} : sent'[t] = sent[t]
    BY <1>2, <2>1 DEF PushEnter, TypeOK
  <2>3. refused' \subseteq Items
    BY <1>2, <2>1 DEF PushEnter, TypeOK
  <2>4. /\ ppc' \in [Producers -> {"idle", "acquire", "recheck", "lock", "insert",
                                  "announce"}]
        /\ \A t \in Producers \ {p} : ppc'[t] = ppc[t]
    BY <1>2 DEF PushEnter, TypeOK
  <2>5. \A t \in Producers : ppc'[t] # "idle" => sent'[t] > 0
    BY <2>2, <2>4 DEF TypeOK
  <2> QED
    BY <1>2, <2>2, <2>3, <2>4, <2>5 DEF PushEnter, TypeOK
<1>3. CASE PushAcquire(p)
  BY <1>3 DEF PushAcquire, TypeOK
<1>4. CASE PushRecheck(p)
  <2>1. CASE PushRefuse(p)
    <3>1. ppc[p] # "idle"
      BY <1>4 DEF PushRecheck
    <3>2. refused' \subseteq Items
      BY <1>1, <2>1, <3>1 DEF PushRefuse, TypeOK
    <3> QED
      BY <1>4, <2>1, <3>2 DEF PushRecheck, PushRefuse, TypeOK
  <2>2. CASE ~PushRefuse(p)
    BY <1>4, <2>2 DEF PushRecheck, TypeOK
  <2> QED
    BY <2>1, <2>2
<1>5. CASE PushLock(p)
  <2>1. CASE PushRefuse(p)
    <3>1. ppc[p] # "idle"
      BY <1>5 DEF PushLock
    <3>2. refused' \subseteq Items
      BY <1>1, <2>1, <3>1 DEF PushRefuse, TypeOK
    <3> QED
      BY <1>5, <2>1, <3>2 DEF PushLock, PushRefuse, TypeOK
  <2>2. CASE ~PushRefuse(p)
    BY <1>5, <2>2 DEF PushLock, TypeOK
  <2> QED
    BY <2>1, <2>2
<1>6. CASE PushInsert(p)
  BY <1>1, <1>6 DEF PushInsert, TypeOK
<1>7. CASE PushAnnounce(p)
  BY <1>7 DEF PushAnnounce, TypeOK
<1> QED
  BY <1>2, <1>3, <1>4, <1>5, <1>6, <1>7 DEF ProducerStep

\* A step of a consumer keeps the types: it takes the front of a queue that has
\* one.
LEMMA TypeConsumer ==
    ASSUME TypeOK, NEW c \in Consumers, ConsumerStep(c)
    PROVE  TypeOK'
<1> USE QueueAssumption DEF flags, owner, producer, consumer, GoC
<1>1. CASE PopEnter(c)
  BY <1>1 DEF PopEnter, TypeOK
<1>2. CASE PopAcquire(c)
  BY <1>2 DEF PopAcquire, TypeOK
<1>3. CASE PopTake(c)
  <2>1. queue_ # <<>> => Head(queue_) \in Items /\ Tail(queue_) \in Seq(Items)
    BY DEF TypeOK
  <2>2. CASE queue_ # <<>>
    <3>1. /\ queue_' = Tail(queue_)
          /\ taken' = Append(taken, Head(queue_))
          /\ cpc' = [cpc EXCEPT ![c] = "idle"]
          /\ empty_slots_' = empty_slots_ + 1
      BY <1>3, <2>2 DEF PopTake
    <3>2. queue_' \in Seq(Items) /\ taken' \in Seq(Items)
      BY <2>1, <2>2, <3>1 DEF TypeOK
    <3> QED
      BY <1>3, <3>1, <3>2 DEF PopTake, TypeOK
  <2>3. CASE queue_ = <<>>
    BY <1>3, <2>3 DEF PopTake, TypeOK
  <2> QED
    BY <2>2, <2>3
<1>4. CASE PopRecheck(c)
  BY <1>4 DEF PopRecheck, TypeOK
<1> QED
  BY <1>1, <1>2, <1>3, <1>4 DEF ConsumerStep

\* A step of close or shutdown keeps the types.
LEMMA TypeOwner ==
    ASSUME TypeOK, Close \/ Shutdown \/ OwnerStep
    PROVE  TypeOK'
<1> USE QueueAssumption DEF flags, owner, producer, consumer, WakeTokens
<1>1. CASE Close
  BY <1>1 DEF Close, TypeOK
<1>2. CASE Shutdown
  BY <1>2 DEF Shutdown, TypeOK
<1>3. CASE ShutdownClose
  BY <1>3 DEF ShutdownClose, TypeOK
<1>4. CASE WakeConsumer
  BY <1>4 DEF WakeConsumer, TypeOK
<1>5. CASE WakeProducer
  BY <1>5 DEF WakeProducer, TypeOK
<1>6. CASE WakeDone
  BY <1>6 DEF WakeDone, TypeOK
<1> QED
  BY <1>1, <1>2, <1>3, <1>4, <1>5, <1>6 DEF OwnerStep

\* The types are kept by every step.
LEMMA TypeStep == TypeOK /\ [Next]_vars => TypeOK'
<1> SUFFICES ASSUME TypeOK, [Next]_vars
             PROVE  TypeOK'
  OBVIOUS
<1>1. CASE UNCHANGED vars
  BY <1>1 DEF vars, flags, owner, producer, consumer, TypeOK
<1>2. CASE Finished
  BY <1>1, <1>2 DEF Finished
<1> QED
  BY <1>1, <1>2, TypeProducer, TypeConsumer, TypeOwner DEF Next

\* The variables of the queue and of its threads stay in their types: no
\* semaphore counts below zero and nothing but offered items enters or leaves.
THEOREM TypeCorrect == Spec => []TypeOK
  BY TypeInit, TypeStep, PTL DEF Spec

-----------------------------------------------------------------------------
(* Tokens, capacity and the end of the stream *)

\* Spare tokens come from a wake-up, and the flags are set before it begins.
FlagsFirst ==
    /\ spare_filled > 0 => closed_
    /\ spare_empty > 0 => shutdown_
    /\ opc \in {"close_wake", "closed", "shutdown_wake_consumers",
                "shutdown_wake_producers", "shut_down"} => closed_
    /\ opc \in {"shutdown_close", "shutdown_wake_consumers",
                "shutdown_wake_producers", "shut_down"} => shutdown_

\* The inductive invariant.
Inv == /\ TypeOK
       /\ FlagsFirst
       /\ FilledBalance
       /\ EmptyBalance
       /\ WithinCapacity
       /\ EndOfStreamIsFinal

\* Places are counted in natural numbers.
LEMMA CountsType ==
    ASSUME TypeOK
    PROVE  \A place : /\ Cardinality(At(ppc, place)) \in Nat
                      /\ Cardinality(At(cpc, place)) \in Nat
<1>1. DOMAIN ppc = Producers /\ DOMAIN cpc = Consumers
  BY DEF TypeOK
<1> QED
  BY <1>1, AtFinite, QueueAssumption

\* What a producer's move does to the counts.
LEMMA ProducerMoves ==
    ASSUME TypeOK, NEW p \in Producers, NEW v, ppc' = [ppc EXCEPT ![p] = v]
    PROVE  Recounts(ppc, ppc', ppc[p], v)
<1>1. DOMAIN ppc = Producers
  BY DEF TypeOK
<1> QED
  BY <1>1, QueueAssumption, AtMoves

\* What a consumer's move does to the counts.
LEMMA ConsumerMoves ==
    ASSUME TypeOK, NEW c \in Consumers, NEW v, cpc' = [cpc EXCEPT ![c] = v]
    PROVE  Recounts(cpc, cpc', cpc[c], v)
<1>1. DOMAIN cpc = Consumers
  BY DEF TypeOK
<1> QED
  BY <1>1, QueueAssumption, AtMoves

\* The mutex is free when nobody is counted inside push's critical section.
LEMMA MutexCount ==
    ASSUME TypeOK
    PROVE  MutexFree <=> Cardinality(At(ppc, "insert")) = 0
<1>1. DOMAIN ppc = Producers
  BY DEF TypeOK
<1> QED
  BY <1>1, AtNone, QueueAssumption DEF MutexFree

\* The invariant holds at the start, when nobody is counted anywhere.
LEMMA InvInit == Init => Inv
<1> SUFFICES ASSUME Init
             PROVE  Inv
  OBVIOUS
<1>1. TypeOK
  BY TypeInit
<1>2. /\ At(ppc, "recheck") = {} /\ At(ppc, "lock") = {}
      /\ At(ppc, "insert") = {} /\ At(ppc, "announce") = {}
      /\ At(cpc, "take") = {} /\ At(cpc, "recheck") = {}
  BY DEF Init, At
<1>3. /\ Cardinality(At(ppc, "recheck")) = 0 /\ Cardinality(At(ppc, "lock")) = 0
      /\ Cardinality(At(ppc, "insert")) = 0 /\ Cardinality(At(ppc, "announce")) = 0
      /\ Cardinality(At(cpc, "take")) = 0 /\ Cardinality(At(cpc, "recheck")) = 0
  BY <1>2, FS_EmptySet
<1>4. /\ Len(queue_) = 0 /\ filled_slots_ = 0 /\ empty_slots_ = MaxSize
      /\ spare_filled = 0 /\ spare_empty = 0
  BY DEF Init
<1>5. FilledBalance /\ EmptyBalance /\ WithinCapacity
  BY <1>3, <1>4, QueueAssumption DEF FilledBalance, EmptyBalance, WithinCapacity
<1>6. FlagsFirst
  BY DEF Init, FlagsFirst
<1>7. EndOfStreamIsFinal
  BY DEF Init, EndOfStreamIsFinal
<1> QED
  BY <1>1, <1>5, <1>6, <1>7 DEF Inv

\* The invariant is kept by push.  The capacity holds because a slot that is not
\* a wake-up's is behind every insertion: the flags are read after the acquire.
LEMMA InvProducer ==
    ASSUME Inv, NEW p \in Producers, ProducerStep(p)
    PROVE  Inv'
<1> USE DEF flags, owner, producer, consumer, GoP
<1>1. /\ TypeOK /\ FlagsFirst /\ FilledBalance /\ EmptyBalance
      /\ WithinCapacity /\ EndOfStreamIsFinal
  BY DEF Inv
<1>2. TypeOK'
  BY <1>1, TypeProducer
<1>3. /\ queue_ \in Seq(Items) /\ Len(queue_) \in Nat
      /\ empty_slots_ \in Nat /\ filled_slots_ \in Nat
      /\ spare_filled \in Nat /\ spare_empty \in Nat /\ MaxSize \in Nat
  BY <1>1, QueueAssumption DEF TypeOK
<1>4. /\ Cardinality(At(ppc, "recheck")) \in Nat
      /\ Cardinality(At(ppc, "lock")) \in Nat
      /\ Cardinality(At(ppc, "insert")) \in Nat
      /\ Cardinality(At(ppc, "announce")) \in Nat
      /\ Cardinality(At(cpc, "take")) \in Nat
      /\ Cardinality(At(cpc, "recheck")) \in Nat
  BY <1>1, CountsType
<1>5. MutexFree <=> Cardinality(At(ppc, "insert")) = 0
  BY <1>1, MutexCount
<1>6. MutexFree' <=> Cardinality(At(ppc', "insert")) = 0
  <2>1. DOMAIN ppc' = Producers
    BY <1>2 DEF TypeOK
  <2>2. At(ppc', "insert") = {} <=> Cardinality(At(ppc', "insert")) = 0
    BY <2>1, AtNone, QueueAssumption
  <2> QED
    BY <2>2 DEF MutexFree
<1>7. FlagsFirst'
  BY <1>1 DEF FlagsFirst, ProducerStep, PushEnter, PushAcquire, PushRecheck,
     PushLock, PushInsert, PushAnnounce
<1>8. CASE PushEnter(p)
  <2>1. CASE UNCHANGED ppc
    BY <1>1, <1>2, <1>7, <1>8, <2>1
       DEF PushEnter, Inv, FilledBalance, EmptyBalance, WithinCapacity,
           EndOfStreamIsFinal, MutexFree, Stopped
  <2>2. CASE GoP(p, "acquire")
    <3>1. Recounts(ppc, ppc', "idle", "acquire")
      BY <1>1, <1>8, <2>2, ProducerMoves DEF PushEnter
    <3>2. /\ Cardinality(At(ppc', "recheck")) = Cardinality(At(ppc, "recheck"))
          /\ Cardinality(At(ppc', "lock")) = Cardinality(At(ppc, "lock"))
          /\ Cardinality(At(ppc', "insert")) = Cardinality(At(ppc, "insert"))
          /\ Cardinality(At(ppc', "announce")) = Cardinality(At(ppc, "announce"))
      BY <1>4, <3>1 DEF Recounts
    <3>3. /\ queue_' = queue_ /\ empty_slots_' = empty_slots_
          /\ filled_slots_' = filled_slots_ /\ closed_' = closed_
          /\ shutdown_' = shutdown_ /\ spare_filled' = spare_filled
          /\ spare_empty' = spare_empty /\ cpc' = cpc
      BY <1>8, <2>2 DEF PushEnter
    <3>4. FilledBalance' /\ EmptyBalance' /\ WithinCapacity'
      BY <1>1, <1>3, <1>4, <3>2, <3>3
         DEF FilledBalance, EmptyBalance, WithinCapacity
    <3>5. EndOfStreamIsFinal'
      BY <1>1, <1>4, <1>5, <1>6, <3>2, <3>3 DEF EndOfStreamIsFinal, Stopped
    <3> QED
      BY <1>2, <1>7, <3>4, <3>5 DEF Inv
  <2> QED
    BY <1>8, <2>1, <2>2 DEF PushEnter
<1>9. CASE PushAcquire(p)
  <2>1. Recounts(ppc, ppc', "acquire", "recheck")
    BY <1>1, <1>9, ProducerMoves DEF PushAcquire
  <2>2. /\ Cardinality(At(ppc', "recheck")) = Cardinality(At(ppc, "recheck")) + 1
        /\ Cardinality(At(ppc', "lock")) = Cardinality(At(ppc, "lock"))
        /\ Cardinality(At(ppc', "insert")) = Cardinality(At(ppc, "insert"))
        /\ Cardinality(At(ppc', "announce")) = Cardinality(At(ppc, "announce"))
    BY <1>4, <2>1 DEF Recounts
  <2>3. /\ queue_' = queue_ /\ empty_slots_' = empty_slots_ - 1
        /\ filled_slots_' = filled_slots_ /\ closed_' = closed_
        /\ shutdown_' = shutdown_ /\ spare_filled' = spare_filled
        /\ spare_empty' = spare_empty /\ cpc' = cpc
    BY <1>9 DEF PushAcquire
  <2>4. FilledBalance' /\ EmptyBalance' /\ WithinCapacity'
    BY <1>1, <1>3, <1>4, <2>2, <2>3
       DEF FilledBalance, EmptyBalance, WithinCapacity
  <2>5. EndOfStreamIsFinal'
    BY <1>1, <1>4, <1>5, <1>6, <2>2, <2>3 DEF EndOfStreamIsFinal, Stopped
  <2> QED
    BY <1>2, <1>7, <2>4, <2>5 DEF Inv
<1>10. CASE PushRecheck(p)
  <2>1. CASE PushRefuse(p)
    <3>1. Recounts(ppc, ppc', "recheck", "idle")
      BY <1>1, <1>10, <2>1, ProducerMoves DEF PushRecheck, PushRefuse
    <3>2. /\ Cardinality(At(ppc', "recheck")) = Cardinality(At(ppc, "recheck")) - 1
          /\ Cardinality(At(ppc', "lock")) = Cardinality(At(ppc, "lock"))
          /\ Cardinality(At(ppc', "insert")) = Cardinality(At(ppc, "insert"))
          /\ Cardinality(At(ppc', "announce")) = Cardinality(At(ppc, "announce"))
      BY <1>4, <3>1 DEF Recounts
    <3>3. /\ queue_' = queue_ /\ empty_slots_' = empty_slots_ + 1
          /\ filled_slots_' = filled_slots_ /\ closed_' = closed_
          /\ shutdown_' = shutdown_ /\ spare_filled' = spare_filled
          /\ spare_empty' = spare_empty /\ cpc' = cpc
      BY <1>10, <2>1 DEF PushRecheck, PushRefuse
    <3>4. FilledBalance' /\ EmptyBalance' /\ WithinCapacity'
      BY <1>1, <1>3, <1>4, <3>2, <3>3
         DEF FilledBalance, EmptyBalance, WithinCapacity
    <3>5. EndOfStreamIsFinal'
      BY <1>1, <1>4, <1>5, <1>6, <3>2, <3>3 DEF EndOfStreamIsFinal, Stopped
    <3> QED
      BY <1>2, <1>7, <3>4, <3>5 DEF Inv
  <2>2. CASE ~Stopped /\ GoP(p, "lock") /\ UNCHANGED empty_slots_
    <3>1. Recounts(ppc, ppc', "recheck", "lock")
      BY <1>1, <1>10, <2>2, ProducerMoves DEF PushRecheck
    <3>2. /\ Cardinality(At(ppc', "recheck")) = Cardinality(At(ppc, "recheck")) - 1
          /\ Cardinality(At(ppc', "lock")) = Cardinality(At(ppc, "lock")) + 1
          /\ Cardinality(At(ppc', "insert")) = Cardinality(At(ppc, "insert"))
          /\ Cardinality(At(ppc', "announce")) = Cardinality(At(ppc, "announce"))
      BY <1>4, <3>1 DEF Recounts
    <3>3. /\ queue_' = queue_ /\ empty_slots_' = empty_slots_
          /\ filled_slots_' = filled_slots_ /\ closed_' = closed_
          /\ shutdown_' = shutdown_ /\ spare_filled' = spare_filled
          /\ spare_empty' = spare_empty /\ cpc' = cpc
      BY <1>10, <2>2 DEF PushRecheck
    <3>4. FilledBalance' /\ EmptyBalance' /\ WithinCapacity'
      BY SMTT(30), <1>1, <1>3, <1>4, <3>2, <3>3
         DEF FilledBalance, EmptyBalance, WithinCapacity
    <3>5. EndOfStreamIsFinal'
      BY <1>1, <1>4, <1>5, <1>6, <3>2, <3>3 DEF EndOfStreamIsFinal, Stopped
    <3> QED
      BY <1>2, <1>7, <3>4, <3>5 DEF Inv
  <2> QED
    BY <1>10, <2>1, <2>2 DEF PushRecheck
<1>11. CASE PushLock(p)
  <2>1. CASE PushRefuse(p)
    <3>1. Recounts(ppc, ppc', "lock", "idle")
      BY <1>1, <1>11, <2>1, ProducerMoves DEF PushLock, PushRefuse
    <3>2. /\ Cardinality(At(ppc', "recheck")) = Cardinality(At(ppc, "recheck"))
          /\ Cardinality(At(ppc', "lock")) = Cardinality(At(ppc, "lock")) - 1
          /\ Cardinality(At(ppc', "insert")) = Cardinality(At(ppc, "insert"))
          /\ Cardinality(At(ppc', "announce")) = Cardinality(At(ppc, "announce"))
      BY <1>4, <3>1 DEF Recounts
    <3>3. /\ queue_' = queue_ /\ empty_slots_' = empty_slots_ + 1
          /\ filled_slots_' = filled_slots_ /\ closed_' = closed_
          /\ shutdown_' = shutdown_ /\ spare_filled' = spare_filled
          /\ spare_empty' = spare_empty /\ cpc' = cpc
      BY <1>11, <2>1 DEF PushLock, PushRefuse
    <3>4. FilledBalance' /\ EmptyBalance' /\ WithinCapacity'
      BY SMTT(30), <1>1, <1>3, <1>4, <3>2, <3>3
         DEF FilledBalance, EmptyBalance, WithinCapacity
    <3>5. EndOfStreamIsFinal'
      BY <1>1, <1>4, <1>5, <1>6, <3>2, <3>3 DEF EndOfStreamIsFinal, Stopped
    <3> QED
      BY <1>2, <1>7, <3>4, <3>5 DEF Inv
  <2>2. CASE ~Stopped /\ GoP(p, "insert") /\ UNCHANGED empty_slots_
    <3>1. Recounts(ppc, ppc', "lock", "insert")
      BY <1>1, <1>11, <2>2, ProducerMoves DEF PushLock
    <3>2. /\ Cardinality(At(ppc', "recheck")) = Cardinality(At(ppc, "recheck"))
          /\ Cardinality(At(ppc', "lock")) = Cardinality(At(ppc, "lock")) - 1
          /\ Cardinality(At(ppc', "insert")) = Cardinality(At(ppc, "insert")) + 1
          /\ Cardinality(At(ppc', "announce")) = Cardinality(At(ppc, "announce"))
      BY <1>4, <3>1 DEF Recounts
    <3>3. /\ queue_' = queue_ /\ empty_slots_' = empty_slots_
          /\ filled_slots_' = filled_slots_ /\ closed_' = closed_
          /\ shutdown_' = shutdown_ /\ spare_filled' = spare_filled
          /\ spare_empty' = spare_empty /\ cpc' = cpc
      BY <1>11, <2>2 DEF PushLock
    <3>4. FilledBalance' /\ EmptyBalance'
      BY SMTT(30), <1>1, <1>3, <1>4, <3>2, <3>3 DEF FilledBalance, EmptyBalance
    <3>5. spare_empty = 0
      BY <1>1, <1>3, <2>2 DEF FlagsFirst, Stopped
    <3>6. WithinCapacity'
      <4>1. Len(queue_) + Cardinality(At(ppc, "insert")) < MaxSize
        <5>1. Cardinality(At(ppc, "lock")) > 0
          BY <1>1, <1>11, AtSome, QueueAssumption DEF PushLock, TypeOK
        <5> QED
          BY <1>1, <1>3, <1>4, <3>5, <5>1 DEF EmptyBalance
      <4> QED
        BY <1>3, <1>4, <3>2, <3>3, <4>1 DEF WithinCapacity
    <3>7. EndOfStreamIsFinal'
      BY <1>1, <2>2, <3>3 DEF EndOfStreamIsFinal
    <3> QED
      BY <1>2, <1>7, <3>4, <3>6, <3>7 DEF Inv
  <2> QED
    BY <1>11, <2>1, <2>2 DEF PushLock
<1>12. CASE PushInsert(p)
  <2>1. Recounts(ppc, ppc', "insert", "announce")
    BY <1>1, <1>12, ProducerMoves DEF PushInsert
  <2>2. /\ Cardinality(At(ppc', "recheck")) = Cardinality(At(ppc, "recheck"))
        /\ Cardinality(At(ppc', "lock")) = Cardinality(At(ppc, "lock"))
        /\ Cardinality(At(ppc', "insert")) = Cardinality(At(ppc, "insert")) - 1
        /\ Cardinality(At(ppc', "announce")) = Cardinality(At(ppc, "announce")) + 1
    BY <1>4, <2>1 DEF Recounts
  <2>3. /\ empty_slots_' = empty_slots_ /\ filled_slots_' = filled_slots_
        /\ closed_' = closed_ /\ shutdown_' = shutdown_ /\ cpc' = cpc
        /\ spare_filled' = spare_filled /\ spare_empty' = spare_empty
    BY <1>12 DEF PushInsert
  <2>4. Len(queue_') = Len(queue_) + 1
    BY <1>3, <1>12 DEF PushInsert
  <2>5. FilledBalance' /\ EmptyBalance' /\ WithinCapacity'
    <3>1. FilledBalance'
      <4> DEFINE rest == filled_slots_ + Cardinality(At(cpc, "take"))
                         + Cardinality(At(cpc, "recheck"))
      <4>1. /\ rest \in Nat
            /\ rest + Cardinality(At(ppc, "announce")) = Len(queue_) + spare_filled
        BY <1>1, <1>3, <1>4 DEF FilledBalance
      <4>2. rest + Cardinality(At(ppc', "announce")) = Len(queue_') + spare_filled
        <5> HIDE DEF rest
        <5>1. Cardinality(At(ppc', "announce")) = Cardinality(At(ppc, "announce")) + 1
          BY <2>2
        <5>2. /\ Len(queue_) \in Nat /\ spare_filled \in Nat
              /\ Cardinality(At(ppc, "announce")) \in Nat
          BY <1>3, <1>4
        <5> QED
          BY <2>4, <4>1, <5>1, <5>2
      <4> QED
        BY <2>3, <4>2 DEF FilledBalance
    <3>2. EmptyBalance'
      <4> DEFINE rest == empty_slots_ + Cardinality(At(ppc, "recheck"))
                         + Cardinality(At(ppc, "lock"))
      <4>1. /\ rest \in Nat
            /\ rest + Cardinality(At(ppc, "insert")) + Len(queue_) = MaxSize + spare_empty
        BY <1>1, <1>3, <1>4 DEF EmptyBalance
      <4>2. rest + Cardinality(At(ppc', "insert")) + Len(queue_') = MaxSize + spare_empty
        <5> HIDE DEF rest
        <5>1. Cardinality(At(ppc', "insert")) = Cardinality(At(ppc, "insert")) - 1
          BY <2>2
        <5>2. /\ Len(queue_) \in Nat /\ spare_empty \in Nat /\ MaxSize \in Nat
              /\ Cardinality(At(ppc, "insert")) \in Nat
          BY <1>3, <1>4
        <5> QED
          BY <2>4, <4>1, <5>1, <5>2
      <4>3. /\ Cardinality(At(ppc', "recheck")) = Cardinality(At(ppc, "recheck"))
            /\ Cardinality(At(ppc', "lock")) = Cardinality(At(ppc, "lock"))
        BY <2>2
      <4> QED
        BY <2>3, <4>2, <4>3 DEF EmptyBalance
    <3>3. WithinCapacity'
      BY <1>1, <1>3, <1>4, <2>2, <2>4 DEF WithinCapacity
    <3> QED
      BY <3>1, <3>2, <3>3
  <2>6. EndOfStreamIsFinal'
    <3>1. ~MutexFree
      BY <1>1, <1>12 DEF PushInsert, MutexFree, At, TypeOK
    <3> QED
      BY <1>1, <2>3, <3>1 DEF EndOfStreamIsFinal
  <2> QED
    BY <1>2, <1>7, <2>5, <2>6 DEF Inv
<1>13. CASE PushAnnounce(p)
  <2>1. Recounts(ppc, ppc', "announce", "idle")
    BY <1>1, <1>13, ProducerMoves DEF PushAnnounce
  <2>2. /\ Cardinality(At(ppc', "recheck")) = Cardinality(At(ppc, "recheck"))
        /\ Cardinality(At(ppc', "lock")) = Cardinality(At(ppc, "lock"))
        /\ Cardinality(At(ppc', "insert")) = Cardinality(At(ppc, "insert"))
        /\ Cardinality(At(ppc', "announce")) = Cardinality(At(ppc, "announce")) - 1
    BY <1>4, <2>1 DEF Recounts
  <2>3. /\ queue_' = queue_ /\ empty_slots_' = empty_slots_
        /\ filled_slots_' = filled_slots_ + 1 /\ closed_' = closed_
        /\ shutdown_' = shutdown_ /\ spare_filled' = spare_filled
        /\ spare_empty' = spare_empty /\ cpc' = cpc
    BY <1>13 DEF PushAnnounce
  <2>4. FilledBalance' /\ EmptyBalance' /\ WithinCapacity'
    BY SMTT(30), <1>1, <1>3, <1>4, <2>2, <2>3
       DEF FilledBalance, EmptyBalance, WithinCapacity
  <2>5. EndOfStreamIsFinal'
    BY <1>1, <1>4, <1>5, <1>6, <2>2, <2>3 DEF EndOfStreamIsFinal, Stopped
  <2> QED
    BY <1>2, <1>7, <2>4, <2>5 DEF Inv
<1> QED
  BY <1>8, <1>9, <1>10, <1>11, <1>12, <1>13 DEF ProducerStep

\* The invariant is kept by pop.  A consumer that holds a token and finds the
\* queue empty holds a token of a wake-up, so a flag is set.
LEMMA InvConsumer ==
    ASSUME Inv, NEW c \in Consumers, ConsumerStep(c)
    PROVE  Inv'
<1> USE DEF flags, owner, producer, consumer, GoC
<1>1. /\ TypeOK /\ FlagsFirst /\ FilledBalance /\ EmptyBalance
      /\ WithinCapacity /\ EndOfStreamIsFinal
  BY DEF Inv
<1>2. TypeOK'
  BY <1>1, TypeConsumer
<1>3. /\ queue_ \in Seq(Items) /\ Len(queue_) \in Nat
      /\ empty_slots_ \in Nat /\ filled_slots_ \in Nat
      /\ spare_filled \in Nat /\ spare_empty \in Nat /\ MaxSize \in Nat
  BY <1>1, QueueAssumption DEF TypeOK
<1>4. /\ Cardinality(At(ppc, "recheck")) \in Nat
      /\ Cardinality(At(ppc, "lock")) \in Nat
      /\ Cardinality(At(ppc, "insert")) \in Nat
      /\ Cardinality(At(ppc, "announce")) \in Nat
      /\ Cardinality(At(cpc, "take")) \in Nat
      /\ Cardinality(At(cpc, "recheck")) \in Nat
  BY <1>1, CountsType
<1>5. /\ FlagsFirst' /\ ppc' = ppc /\ (MutexFree' <=> MutexFree)
      /\ closed_' = closed_ /\ shutdown_' = shutdown_ /\ (Stopped' <=> Stopped)
      /\ spare_filled' = spare_filled /\ spare_empty' = spare_empty
  BY <1>1 DEF FlagsFirst, ConsumerStep, PopEnter, PopAcquire, PopTake, PopRecheck,
              MutexFree, Stopped
<1>6. DOMAIN cpc = Consumers
  BY <1>1 DEF TypeOK
<1>7. CASE PopEnter(c)
  <2>1. /\ cpc[c] = "idle" /\ MutexFree
        /\ queue_' = queue_ /\ empty_slots_' = empty_slots_
        /\ filled_slots_' = filled_slots_
    BY <1>7 DEF PopEnter
  <2> DEFINE to == IF queue_ = <<>> /\ Stopped THEN "ended" ELSE "acquire"
  <2>2. cpc' = [cpc EXCEPT ![c] = to]
    BY <1>7 DEF PopEnter
  <2>3. Recounts(cpc, cpc', "idle", to)
    BY <1>1, <2>1, <2>2, ConsumerMoves
  <2>4. /\ Cardinality(At(cpc', "take")) = Cardinality(At(cpc, "take"))
        /\ Cardinality(At(cpc', "recheck")) = Cardinality(At(cpc, "recheck"))
    BY <1>4, <2>3 DEF Recounts
  <2>5. FilledBalance' /\ EmptyBalance' /\ WithinCapacity'
    BY <1>1, <1>3, <1>4, <1>5, <2>1, <2>4
       DEF FilledBalance, EmptyBalance, WithinCapacity
  <2>6. EndOfStreamIsFinal'
    BY <1>1, <1>5, <1>6, <2>1, <2>2 DEF EndOfStreamIsFinal
  <2> QED
    BY <1>2, <1>5, <2>5, <2>6 DEF Inv
<1>8. CASE PopAcquire(c)
  <2>1. /\ cpc[c] = "acquire" /\ cpc' = [cpc EXCEPT ![c] = "take"]
        /\ queue_' = queue_ /\ empty_slots_' = empty_slots_
        /\ filled_slots_' = filled_slots_ - 1
    BY <1>8 DEF PopAcquire
  <2>2. Recounts(cpc, cpc', "acquire", "take")
    BY <1>1, <2>1, ConsumerMoves
  <2>3. /\ Cardinality(At(cpc', "take")) = Cardinality(At(cpc, "take")) + 1
        /\ Cardinality(At(cpc', "recheck")) = Cardinality(At(cpc, "recheck"))
    BY <1>4, <2>2 DEF Recounts
  <2>4. FilledBalance' /\ EmptyBalance' /\ WithinCapacity'
    BY <1>1, <1>3, <1>4, <1>5, <2>1, <2>3
       DEF FilledBalance, EmptyBalance, WithinCapacity
  <2>5. EndOfStreamIsFinal'
    BY <1>1, <1>5, <1>6, <2>1 DEF EndOfStreamIsFinal
  <2> QED
    BY <1>2, <1>5, <2>4, <2>5 DEF Inv
<1>9. CASE PopTake(c)
  <2>1. CASE queue_ # <<>>
    <3>1. /\ cpc[c] = "take" /\ cpc' = [cpc EXCEPT ![c] = "idle"]
          /\ empty_slots_' = empty_slots_ + 1
          /\ filled_slots_' = filled_slots_
      BY <1>9, <2>1 DEF PopTake
    <3>2. Len(queue_') = Len(queue_) - 1
      BY <1>3, <1>9, <2>1 DEF PopTake
    <3>3. Recounts(cpc, cpc', "take", "idle")
      BY <1>1, <3>1, ConsumerMoves
    <3>4. /\ Cardinality(At(cpc', "take")) = Cardinality(At(cpc, "take")) - 1
          /\ Cardinality(At(cpc', "recheck")) = Cardinality(At(cpc, "recheck"))
      BY <1>4, <3>3 DEF Recounts
    <3>5. FilledBalance' /\ EmptyBalance' /\ WithinCapacity'
      <4>1. FilledBalance'
        <5> DEFINE f == filled_slots_
                   t == Cardinality(At(cpc, "take"))
                   t2 == Cardinality(At(cpc', "take"))
                   r == Cardinality(At(cpc, "recheck"))
                   a == Cardinality(At(ppc, "announce"))
                   l == Len(queue_)
                   l2 == Len(queue_')
                   s == spare_filled
        <5>1. f + t + r + a = l + s
          BY <1>1 DEF FilledBalance
        <5>2. t2 = t - 1 /\ l2 = l - 1
          BY <3>2, <3>4
        <5>3. f \in Nat /\ t \in Nat /\ r \in Nat /\ a \in Nat /\ l \in Nat /\ s \in Nat
          BY <1>3, <1>4
        <5>4. f + t2 + r + a = l2 + s
          <6> HIDE DEF f, t, t2, r, a, l, l2, s
          <6> QED
            BY <5>1, <5>2, <5>3
        <5> QED
          BY <1>5, <3>1, <3>4, <5>4 DEF FilledBalance
      <4>2. EmptyBalance'
        BY SMTT(30), <1>1, <1>3, <1>4, <1>5, <3>1, <3>2 DEF EmptyBalance
      <4>3. WithinCapacity'
        BY <1>1, <1>3, <1>4, <1>5, <3>2 DEF WithinCapacity
      <4> QED
        BY <4>1, <4>2, <4>3
    <3>6. EndOfStreamIsFinal'
      BY <1>1, <1>5, <1>6, <2>1, <3>1 DEF EndOfStreamIsFinal
    <3> QED
      BY <1>2, <1>5, <3>5, <3>6 DEF Inv
  <2>2. CASE queue_ = <<>>
    <3>1. /\ cpc[c] = "take" /\ cpc' = [cpc EXCEPT ![c] = "recheck"]
          /\ queue_' = queue_ /\ empty_slots_' = empty_slots_
          /\ filled_slots_' = filled_slots_ /\ MutexFree
      BY <1>9, <2>2 DEF PopTake
    <3>2. Recounts(cpc, cpc', "take", "recheck")
      BY <1>1, <3>1, ConsumerMoves
    <3>3. /\ Cardinality(At(cpc', "take")) = Cardinality(At(cpc, "take")) - 1
          /\ Cardinality(At(cpc', "recheck")) = Cardinality(At(cpc, "recheck")) + 1
      BY <1>4, <3>2 DEF Recounts
    <3>4. FilledBalance' /\ EmptyBalance' /\ WithinCapacity'
      BY SMTT(30), <1>1, <1>3, <1>4, <1>5, <3>1, <3>3
         DEF FilledBalance, EmptyBalance, WithinCapacity
    <3>5. Cardinality(At(cpc, "take")) > 0
      BY <1>6, <3>1, AtSome, QueueAssumption
    <3>6. Len(queue_) = 0
      BY <2>2
    <3>7. spare_filled > 0
      BY <1>1, <1>3, <1>4, <3>5, <3>6 DEF FilledBalance
    <3>8. EndOfStreamIsFinal'
      BY <1>1, <1>5, <2>2, <3>1, <3>7 DEF EndOfStreamIsFinal, FlagsFirst, Stopped
    <3> QED
      BY <1>2, <1>5, <3>4, <3>8 DEF Inv
  <2> QED
    BY <2>1, <2>2
<1>10. CASE PopRecheck(c)
  <2>1. Stopped
    BY <1>1, <1>10 DEF PopRecheck, EndOfStreamIsFinal
  <2>2. /\ cpc[c] = "recheck" /\ cpc' = [cpc EXCEPT ![c] = "ended"]
        /\ queue_' = queue_ /\ empty_slots_' = empty_slots_
        /\ filled_slots_' = filled_slots_ + 1
    BY <1>10, <2>1 DEF PopRecheck
  <2>3. Recounts(cpc, cpc', "recheck", "ended")
    BY <1>1, <2>2, ConsumerMoves
  <2>4. /\ Cardinality(At(cpc', "take")) = Cardinality(At(cpc, "take"))
        /\ Cardinality(At(cpc', "recheck")) = Cardinality(At(cpc, "recheck")) - 1
    BY <1>4, <2>3 DEF Recounts
  <2>5. FilledBalance' /\ EmptyBalance' /\ WithinCapacity'
    BY SMTT(30), <1>1, <1>3, <1>4, <1>5, <2>2, <2>4
       DEF FilledBalance, EmptyBalance, WithinCapacity
  <2>6. EndOfStreamIsFinal'
    BY <1>1, <1>5, <2>2 DEF EndOfStreamIsFinal
  <2> QED
    BY <1>2, <1>5, <2>5, <2>6 DEF Inv
<1> QED
  BY <1>7, <1>8, <1>9, <1>10 DEF ConsumerStep

\* The invariant is kept by close and shutdown: each sets its flag before the
\* first token is released.
LEMMA InvOwner ==
    ASSUME Inv, Close \/ Shutdown \/ OwnerStep
    PROVE  Inv'
<1> USE DEF flags, producer, consumer, WakeTokens
<1>1. /\ TypeOK /\ FlagsFirst /\ FilledBalance /\ EmptyBalance
      /\ WithinCapacity /\ EndOfStreamIsFinal
  BY DEF Inv
<1>2. TypeOK'
  BY <1>1, TypeOwner
<1>3. /\ Len(queue_) \in Nat /\ empty_slots_ \in Nat /\ filled_slots_ \in Nat
      /\ spare_filled \in Nat /\ spare_empty \in Nat /\ MaxSize \in Nat
  BY <1>1, QueueAssumption DEF TypeOK
<1>4. /\ Cardinality(At(ppc, "recheck")) \in Nat
      /\ Cardinality(At(ppc, "lock")) \in Nat
      /\ Cardinality(At(ppc, "insert")) \in Nat
      /\ Cardinality(At(ppc, "announce")) \in Nat
      /\ Cardinality(At(cpc, "take")) \in Nat
      /\ Cardinality(At(cpc, "recheck")) \in Nat
  BY <1>1, CountsType
<1>5. /\ queue_' = queue_ /\ ppc' = ppc /\ cpc' = cpc /\ (MutexFree' <=> MutexFree)
      /\ (Stopped => Stopped')
  BY DEF Close, Shutdown, OwnerStep, ShutdownClose, WakeConsumer, WakeProducer,
         WakeDone, MutexFree, Stopped
<1>6. /\ \/ filled_slots_' = filled_slots_ /\ spare_filled' = spare_filled
         \/ filled_slots_' = filled_slots_ + 1 /\ spare_filled' = spare_filled + 1
      /\ \/ empty_slots_' = empty_slots_ /\ spare_empty' = spare_empty
         \/ empty_slots_' = empty_slots_ + 1 /\ spare_empty' = spare_empty + 1
  BY <1>3 DEF Close, Shutdown, OwnerStep, ShutdownClose, WakeConsumer,
              WakeProducer, WakeDone
<1>7. /\ empty_slots_' \in Nat /\ filled_slots_' \in Nat
      /\ spare_filled' \in Nat /\ spare_empty' \in Nat
  BY <1>2 DEF TypeOK
<1>8. FilledBalance' /\ EmptyBalance' /\ WithinCapacity'
  <2>1. FilledBalance'
    <3> DEFINE held == Cardinality(At(cpc, "take")) + Cardinality(At(cpc, "recheck"))
                       + Cardinality(At(ppc, "announce"))
    <3>1. held \in Nat /\ filled_slots_ + held = Len(queue_) + spare_filled
      BY <1>1, <1>3, <1>4 DEF FilledBalance
    <3>2. filled_slots_' + held = Len(queue_) + spare_filled'
      <4> HIDE DEF held
      <4> QED
        BY <1>3, <1>6, <3>1
    <3> QED
      BY <1>4, <1>5, <1>7, <3>2 DEF FilledBalance
  <2>2. EmptyBalance'
    <3> DEFINE used == Cardinality(At(ppc, "recheck")) + Cardinality(At(ppc, "lock"))
                       + Cardinality(At(ppc, "insert")) + Len(queue_)
    <3>1. used \in Nat /\ empty_slots_ + used = MaxSize + spare_empty
      BY <1>1, <1>3, <1>4 DEF EmptyBalance
    <3>2. empty_slots_' + used = MaxSize + spare_empty'
      <4> HIDE DEF used
      <4> QED
        BY <1>3, <1>6, <3>1
    <3>3. /\ Cardinality(At(ppc, "recheck")) \in Nat
          /\ Cardinality(At(ppc, "lock")) \in Nat
          /\ Cardinality(At(ppc, "insert")) \in Nat
          /\ Len(queue_) \in Nat /\ empty_slots_' \in Nat
      BY <1>3, <1>4, <1>7
    <3>4. queue_' = queue_ /\ ppc' = ppc
      BY <1>5
    <3>5. empty_slots_' + Cardinality(At(ppc, "recheck")) + Cardinality(At(ppc, "lock"))
            + Cardinality(At(ppc, "insert")) + Len(queue_) = MaxSize + spare_empty'
      BY <3>2, <3>3
    <3> QED
      BY <3>4, <3>5 DEF EmptyBalance
  <2>3. WithinCapacity'
    BY <1>1, <1>5 DEF WithinCapacity
  <2> QED
    BY <2>1, <2>2, <2>3
<1>9. EndOfStreamIsFinal'
  BY <1>1, <1>5 DEF EndOfStreamIsFinal
<1>10. FlagsFirst'
  BY <1>1 DEF FlagsFirst, Close, Shutdown, OwnerStep, ShutdownClose, WakeConsumer,
              WakeProducer, WakeDone
<1> QED
  BY <1>2, <1>8, <1>9, <1>10 DEF Inv

\* The invariant is kept by every step.
LEMMA InvStep == Inv /\ [Next]_vars => Inv'
<1> SUFFICES ASSUME Inv, [Next]_vars
             PROVE  Inv'
  OBVIOUS
<1>1. CASE UNCHANGED vars
  BY <1>1 DEF vars, flags, owner, producer, consumer, Inv, TypeOK, FlagsFirst,
              FilledBalance, EmptyBalance, WithinCapacity, EndOfStreamIsFinal,
              MutexFree, Stopped
<1>2. CASE Finished
  BY <1>1, <1>2 DEF Finished
<1> QED
  BY <1>1, <1>2, InvProducer, InvConsumer, InvOwner DEF Next

\* The invariant holds in every behaviour.
LEMMA Invariance == Spec => []Inv
  BY InvInit, InvStep, PTL DEF Spec

\* No token is lost or made out of nothing, in any interleaving of push, pop,
\* close and shutdown.
THEOREM TokensBalance == Spec => []TokensAccounted
<1>1. Inv => TokensAccounted
  BY DEF Inv, TokensAccounted
<1> QED
  BY <1>1, Invariance, PTL

\* The queue never holds more than max_size items, shutdown or not.
THEOREM CapacityHolds == Spec => []WithinCapacity
<1>1. Inv => WithinCapacity
  BY DEF Inv
<1> QED
  BY <1>1, Invariance, PTL

\* When pop has returned false to one consumer, nothing is or ever will be left
\* for another.
THEOREM EndOfStream == Spec => []EndOfStreamIsFinal
<1>1. Inv => EndOfStreamIsFinal
  BY DEF Inv
<1> QED
  BY <1>1, Invariance, PTL

-----------------------------------------------------------------------------
(* Refinement *)

\* mtx_ admits one producer at a time to the critical section of push.
OneInserter == \A p, q \in At(ppc, "insert") : p = q

LEMMA InserterStep == TypeOK /\ OneInserter /\ [Next]_vars => OneInserter'
<1> SUFFICES ASSUME TypeOK, OneInserter, [Next]_vars
             PROVE  OneInserter'
  OBVIOUS
<1> USE DEF producer, consumer, GoP
<1>1. CASE UNCHANGED ppc
  BY <1>1 DEF OneInserter, At
<1>2. ASSUME NEW p \in Producers, PushLock(p)
      PROVE  OneInserter'
  BY <1>2 DEF PushLock, PushRefuse, MutexFree, OneInserter, At, TypeOK
<1>3. ASSUME NEW p \in Producers,
             PushEnter(p) \/ PushAcquire(p) \/ PushRecheck(p) \/ PushInsert(p)
               \/ PushAnnounce(p)
      PROVE  OneInserter'
  <2>1. PICK v \in {"idle", "acquire", "recheck", "lock", "announce"} :
          ppc' = [ppc EXCEPT ![p] = v] \/ ppc' = ppc
    BY <1>3 DEF PushEnter, PushAcquire, PushRecheck, PushRefuse, PushInsert,
                PushAnnounce
  <2> QED
    BY <2>1 DEF OneInserter, At, TypeOK
<1>4. ASSUME NEW c \in Consumers, ConsumerStep(c)
      PROVE  UNCHANGED ppc
  BY <1>4 DEF ConsumerStep, PopEnter, PopAcquire, PopTake, PopRecheck
<1>5. ASSUME Close \/ Shutdown \/ OwnerStep
      PROVE  UNCHANGED ppc
  BY <1>5 DEF Close, Shutdown, OwnerStep, ShutdownClose, WakeConsumer,
              WakeProducer, WakeDone
<1>6. ASSUME Finished \/ UNCHANGED vars
      PROVE  UNCHANGED ppc
  BY <1>6 DEF Finished, vars
<1> QED
  BY <1>1, <1>2, <1>3, <1>4, <1>5, <1>6 DEF Next, ProducerStep

LEMMA Inserter == Spec => []OneInserter
<1>1. Init => OneInserter
  BY DEF Init, OneInserter, At
<1> QED
  BY <1>1, InserterStep, TypeCorrect, PTL DEF Spec

\* When p is in the critical section its item is the last one accepted.
LEMMA AcceptedInside ==
    ASSUME OneInserter, NEW p \in Producers, p \in At(ppc, "insert")
    PROVE  AcceptedQueue = Append(queue_, Item(p))
<1>1. (CHOOSE q \in Producers : ppc[q] = "insert") = p
  BY DEF OneInserter, At
<1> QED
  BY <1>1 DEF AcceptedQueue, MutexFree

\* The accepted items do not change when neither the queue nor who is in the
\* critical section does.
LEMMA AcceptedSame ==
    ASSUME TypeOK, TypeOK', OneInserter, queue_' = queue_,
           At(ppc', "insert") = At(ppc, "insert"),
           \A q \in At(ppc, "insert") : sent'[q] = sent[q]
    PROVE  AcceptedQueue' = AcceptedQueue
<1>1. DOMAIN ppc = Producers /\ DOMAIN ppc' = Producers
  BY DEF TypeOK
<1>2. CASE At(ppc, "insert") = {}
  BY <1>2 DEF AcceptedQueue, MutexFree
<1>3. ASSUME NEW q \in At(ppc, "insert")
      PROVE  AcceptedQueue' = AcceptedQueue
  <2>1. q \in Producers /\ ppc[q] = "insert" /\ ppc'[q] = "insert"
    BY <1>1 DEF At
  <2>2. (CHOOSE p \in Producers : ppc[p] = "insert") = q
    BY <1>1, <2>1 DEF OneInserter, At
  <2>3. (CHOOSE p \in Producers : ppc'[p] = "insert") = q
    BY <1>1, <2>1 DEF OneInserter, At
  <2>4. ~MutexFree /\ ~MutexFree'
    BY <1>3 DEF MutexFree
  <2>5. AcceptedQueue = Append(queue_, <<q, sent[q]>>)
    BY <2>2, <2>4 DEF AcceptedQueue, Item
  <2>6. AcceptedQueue' = Append(queue_, <<q, sent'[q]>>)
    BY <2>3, <2>4 DEF AcceptedQueue, Item
  <2> QED
    BY <1>3, <2>5, <2>6
<1> QED
  BY <1>2, <1>3

\* Every step of a producer is a step of the bounded queue or changes nothing
\* that its client can see.
LEMMA ProducerRefines ==
    ASSUME Inv, TypeOK', OneInserter, OneInserter', NEW p \in Producers, ProducerStep(p)
    PROVE  [Abstract!Next]_(Abstract!vars)
<1> USE DEF flags, owner, producer, consumer, GoP
<1>1. TypeOK /\ FlagsFirst /\ EmptyBalance /\ WithinCapacity
  BY DEF Inv
<1>2. DOMAIN ppc = Producers
  BY <1>1 DEF TypeOK
<1>3. ppc[p] # "idle" => Item(p) \in Items
  BY <1>1 DEF TypeOK, Item, Items
<1>4. /\ cpc' = cpc /\ taken' = taken /\ (Stopped' <=> Stopped)
      /\ At(cpc, "ended")' = At(cpc, "ended")
  BY DEF ProducerStep, PushEnter, PushAcquire, PushRecheck, PushLock, PushInsert,
         PushAnnounce, Stopped
<1>5. ASSUME AcceptedQueue' = AcceptedQueue, refused' = refused
      PROVE  UNCHANGED Abstract!vars
  BY <1>4, <1>5 DEF Abstract!vars
<1>6. ASSUME NEW x \in Items, AcceptedQueue' = AcceptedQueue, Stopped,
             refused' = refused \cup {x}
      PROVE  Abstract!Next
  BY <1>4, <1>6 DEF Abstract!Next, Abstract!Refuse
<1>7. CASE PushEnter(p)
  <2>1. AcceptedQueue' = AcceptedQueue
    <3>1. At(ppc', "insert") = At(ppc, "insert") /\ queue_' = queue_
      BY <1>1, <1>7 DEF PushEnter, At, TypeOK
    <3>2. \A q \in At(ppc, "insert") : sent'[q] = sent[q]
      BY <1>1, <1>7 DEF PushEnter, At, TypeOK
    <3> QED
      BY <1>1, <3>1, <3>2, AcceptedSame
  <2>2. <<p, sent[p] + 1>> \in Items
    BY <1>1, <1>7, QueueAssumption DEF PushEnter, TypeOK, Items
  <2> QED
    BY <1>5, <1>6, <1>7, <2>1, <2>2 DEF PushEnter
<1>8. CASE PushRefuse(p) /\ (PushRecheck(p) \/ PushLock(p))
  <2>1. At(ppc', "insert") = At(ppc, "insert") /\ queue_' = queue_ /\ sent' = sent
    BY <1>1, <1>8 DEF PushRefuse, PushRecheck, PushLock, At, TypeOK
  <2>2. AcceptedQueue' = AcceptedQueue
    BY <1>1, <2>1, AcceptedSame
  <2>3. ppc[p] # "idle"
    BY <1>8 DEF PushRecheck, PushLock
  <2> QED
    BY <1>3, <1>6, <1>8, <2>2, <2>3 DEF PushRefuse
<1>9. CASE PushAcquire(p) \/ (PushRecheck(p) /\ ~PushRefuse(p)) \/ PushAnnounce(p)
  <2>1. /\ At(ppc', "insert") = At(ppc, "insert") /\ queue_' = queue_
        /\ sent' = sent /\ refused' = refused
    BY <1>1, <1>9 DEF PushAcquire, PushRecheck, PushAnnounce, At, TypeOK
  <2> QED
    BY <1>1, <1>5, <2>1, AcceptedSame
<1>10. CASE PushLock(p) /\ ~PushRefuse(p)
  <2>1. /\ ppc[p] = "lock" /\ MutexFree /\ ~Stopped
        /\ ppc' = [ppc EXCEPT ![p] = "insert"]
        /\ queue_' = queue_ /\ sent' = sent /\ refused' = refused
        /\ empty_slots_' = empty_slots_ /\ spare_empty' = spare_empty
    BY <1>10 DEF PushLock
  <2>2. AcceptedQueue = queue_
    BY <2>1 DEF AcceptedQueue
  <2>3. p \in At(ppc', "insert")
    BY <1>2, <2>1 DEF At
  <2>4. AcceptedQueue' = Append(queue_, Item(p))
    <3>1. (CHOOSE q \in Producers : ppc'[q] = "insert") = p
      BY <1>2, <2>1, <2>3 DEF OneInserter, At
    <3>2. ~MutexFree'
      BY <2>3 DEF MutexFree
    <3> QED
      BY <2>1, <3>1, <3>2 DEF AcceptedQueue, Item
  <2>5. Len(queue_) < MaxSize
    <3>1. /\ Len(queue_) \in Nat /\ empty_slots_ \in Nat /\ MaxSize \in Nat
          /\ Cardinality(At(ppc, "recheck")) \in Nat
          /\ Cardinality(At(ppc, "lock")) \in Nat
          /\ Cardinality(At(ppc, "insert")) \in Nat
      BY <1>1, CountsType, QueueAssumption DEF TypeOK
    <3>2. Cardinality(At(ppc, "lock")) > 0
      BY <1>2, <2>1, AtSome, QueueAssumption
    <3>3. spare_empty = 0
      BY <1>1, <2>1 DEF FlagsFirst, Stopped, TypeOK
    <3> QED
      BY <1>1, <3>1, <3>2, <3>3 DEF EmptyBalance
  <2>6. Abstract!Accept(Item(p))
    BY <1>4, <2>1, <2>2, <2>4, <2>5 DEF Abstract!Accept
  <2> QED
    BY <1>3, <2>1, <2>6 DEF Abstract!Next
<1>11. CASE PushInsert(p)
  <2>1. /\ p \in At(ppc, "insert") /\ queue_' = Append(queue_, Item(p))
        /\ refused' = refused /\ ppc' = [ppc EXCEPT ![p] = "announce"]
    BY <1>2, <1>11 DEF PushInsert, At
  <2>2. AcceptedQueue = Append(queue_, Item(p))
    BY <2>1, AcceptedInside
  <2>3. MutexFree'
    BY <1>2, <2>1 DEF MutexFree, OneInserter, At
  <2> QED
    BY <1>5, <2>1, <2>2, <2>3 DEF AcceptedQueue
<1> QED
  BY <1>7, <1>8, <1>9, <1>10, <1>11 DEF ProducerStep

\* Every step of a consumer is a step of the bounded queue or changes nothing
\* that its client can see.
LEMMA ConsumerRefines ==
    ASSUME Inv, TypeOK', OneInserter, NEW c \in Consumers, ConsumerStep(c)
    PROVE  [Abstract!Next]_(Abstract!vars)
<1> USE DEF flags, owner, producer, consumer, GoC
<1>1. TypeOK /\ EndOfStreamIsFinal
  BY DEF Inv
<1>2. DOMAIN cpc = Consumers
  BY <1>1 DEF TypeOK
<1>3. /\ ppc' = ppc /\ sent' = sent /\ refused' = refused
      /\ (Stopped' <=> Stopped) /\ (MutexFree' <=> MutexFree)
  BY DEF ConsumerStep, PopEnter, PopAcquire, PopTake, PopRecheck, Stopped, MutexFree
<1>4. queue_' = queue_ => AcceptedQueue' = AcceptedQueue
  BY <1>1, <1>3, AcceptedSame
<1>5. ASSUME queue_' = queue_, taken' = taken, At(cpc', "ended") = At(cpc, "ended")
      PROVE  UNCHANGED Abstract!vars
  BY <1>3, <1>4, <1>5 DEF Abstract!vars
<1>6. ASSUME queue_' = queue_, taken' = taken, MutexFree, queue_ = <<>>, Stopped,
             cpc' = [cpc EXCEPT ![c] = "ended"]
      PROVE  Abstract!Next
  <2>1. At(cpc', "ended") = At(cpc, "ended") \cup {c}
    BY <1>2, <1>6 DEF At
  <2>2. AcceptedQueue = <<>>
    BY <1>6 DEF AcceptedQueue
  <2>3. Abstract!EndOfStream(c)
    BY <1>3, <1>4, <1>6, <2>1, <2>2 DEF Abstract!EndOfStream
  <2> QED
    BY <2>3 DEF Abstract!Next
<1>7. CASE PopEnter(c)
  <2>1. CASE queue_ = <<>> /\ Stopped
    BY <1>6, <1>7, <2>1 DEF PopEnter
  <2>2. CASE ~(queue_ = <<>> /\ Stopped)
    <3>1. cpc' = [cpc EXCEPT ![c] = "acquire"] /\ cpc[c] = "idle"
      BY <1>7, <2>2 DEF PopEnter
    <3>2. At(cpc', "ended") = At(cpc, "ended")
      BY <1>2, <3>1 DEF At
    <3> QED
      BY <1>5, <1>7, <3>2 DEF PopEnter
  <2> QED
    BY <2>1, <2>2
<1>8. CASE PopAcquire(c)
  <2>1. At(cpc', "ended") = At(cpc, "ended")
    BY <1>2, <1>8 DEF PopAcquire, At
  <2> QED
    BY <1>5, <1>8, <2>1 DEF PopAcquire
<1>9. CASE PopTake(c)
  <2>1. At(cpc', "ended") = At(cpc, "ended")
    BY <1>2, <1>9 DEF PopTake, At
  <2>2. CASE queue_ = <<>>
    BY <1>5, <1>9, <2>1, <2>2 DEF PopTake
  <2>3. CASE queue_ # <<>>
    <3>1. AcceptedQueue = queue_ /\ AcceptedQueue' = queue_'
      BY <1>3, <1>9 DEF PopTake, AcceptedQueue
    <3>2. Abstract!Take
      BY <1>3, <1>9, <2>1, <2>3, <3>1 DEF PopTake, Abstract!Take
    <3> QED
      BY <3>2 DEF Abstract!Next
  <2> QED
    BY <2>2, <2>3
<1>10. CASE PopRecheck(c)
  <2>1. Stopped /\ queue_ = <<>> /\ MutexFree
    BY <1>1, <1>10 DEF PopRecheck, EndOfStreamIsFinal
  <2> QED
    BY <1>6, <1>10, <2>1 DEF PopRecheck
<1> QED
  BY <1>7, <1>8, <1>9, <1>10 DEF ConsumerStep

\* Closing the queue, in either way, is one step of the bounded queue: the one
\* that sets the first flag.
LEMMA OwnerRefines ==
    ASSUME Inv, TypeOK', OneInserter, Close \/ Shutdown \/ OwnerStep
    PROVE  [Abstract!Next]_(Abstract!vars)
<1> USE DEF flags, producer, consumer
<1>1. TypeOK /\ FlagsFirst
  BY DEF Inv
<1>2. /\ queue_' = queue_ /\ ppc' = ppc /\ sent' = sent /\ cpc' = cpc
      /\ refused' = refused /\ taken' = taken
  BY DEF Close, Shutdown, OwnerStep, ShutdownClose, WakeConsumer, WakeProducer,
         WakeDone
<1>3. AcceptedQueue' = AcceptedQueue
  BY <1>1, <1>2, AcceptedSame
<1>4. At(cpc, "ended")' = At(cpc, "ended")
  BY <1>2
<1>5. CASE Stopped' <=> Stopped
  BY <1>2, <1>3, <1>4, <1>5 DEF Abstract!vars
<1>6. CASE ~Stopped /\ Stopped'
  BY <1>2, <1>3, <1>4, <1>6 DEF Abstract!Next, Abstract!Stop
<1>7. Stopped => Stopped'
  BY DEF Close, Shutdown, OwnerStep, ShutdownClose, WakeConsumer, WakeProducer,
         WakeDone, Stopped
<1> QED
  BY <1>5, <1>6, <1>7

\* The queue starts as an empty, open bounded queue.
LEMMA RefinesInit == Init => Abstract!Init
<1> SUFFICES ASSUME Init
             PROVE  Abstract!Init
  OBVIOUS
<1>1. AcceptedQueue = <<>> /\ At(cpc, "ended") = {}
  BY DEF Init, AcceptedQueue, MutexFree, At
<1> QED
  BY <1>1 DEF Init, Abstract!Init, Stopped

\* Every step is a step of the bounded queue or leaves it unchanged.
LEMMA RefinesStep ==
    ASSUME Inv, TypeOK', OneInserter, OneInserter', [Next]_vars
    PROVE  [Abstract!Next]_(Abstract!vars)
<1>1. CASE UNCHANGED vars
  BY <1>1 DEF vars, flags, owner, producer, consumer, Abstract!vars,
              AcceptedQueue, MutexFree, Item, Stopped
<1>2. CASE Finished
  BY <1>1, <1>2 DEF Finished
<1> QED
  BY <1>1, <1>2, ProducerRefines, ConsumerRefines, OwnerRefines DEF Next

\* SemaphoreQueue implements the bounded queue of BoundedQueue.tla: a push that
\* returns true has put its item into a FIFO of at most max_size items that was
\* open at that moment, and pop returns false only when that FIFO is closed and
\* empty.
THEOREM Refinement == Spec => ImplementsBoundedQueue
<1>1. Inv /\ TypeOK' /\ OneInserter /\ OneInserter' /\ [Next]_vars
        => [Abstract!Next]_(Abstract!vars)
  BY RefinesStep
<1> QED
  BY <1>1, RefinesInit, Invariance, Inserter, TypeCorrect, PTL
     DEF Spec, ImplementsBoundedQueue, Abstract!Spec

-----------------------------------------------------------------------------
(* The clients *)

\* A step of a client is a step of the queue, or leaves the queue alone.
LEMMA TurnIsStep == [SessionNext]_sessionVars => [Next]_vars
<1> SUFFICES ASSUME [SessionNext]_sessionVars
             PROVE  [Next]_vars
  OBVIOUS
<1>1. CASE UNCHANGED sessionVars
  BY <1>1 DEF sessionVars
<1>2. ASSUME NEW p \in Producers, ProducerTurn(p)
      PROVE  ProducerStep(p)
  BY <1>2 DEF ProducerTurn, Produce, ProducerStep
<1>3. ASSUME NEW c \in Consumers, ConsumerTurn(c)
      PROVE  ConsumerStep(c)
  BY <1>3 DEF ConsumerTurn, Consume
<1>4. CASE OwnerTurn
  BY <1>4 DEF OwnerTurn, MainStep, MainClose, MainShutdown, Next
<1>5. CASE StopAtAnyTime
  BY <1>5 DEF StopAtAnyTime, Next
<1>6. CASE Finished
  BY <1>6 DEF Next
<1> QED
  BY <1>1, <1>2, <1>3, <1>4, <1>5, <1>6 DEF SessionNext, Next

\* The invariant of the queue holds in its clients.
LEMMA SessionInvariance == SessionSpec => []Inv
<1>1. SessionInit => Init
  BY DEF SessionInit
<1> QED
  BY <1>1, TurnIsStep, InvInit, InvStep, PTL DEF SessionSpec

\* In the clients that the runs examine, and in a benchmark session above all,
\* the queue keeps its types, its tokens, its capacity and the end of its stream.
THEOREM SessionSafe ==
    SessionSpec => [](TypeOK /\ TokensAccounted /\ WithinCapacity /\ EndOfStreamIsFinal)
<1>1. Inv => TypeOK /\ TokensAccounted /\ WithinCapacity /\ EndOfStreamIsFinal
  BY DEF Inv, TokensAccounted
<1> QED
  BY <1>1, SessionInvariance, PTL

\* A client that stops the queue whenever it likes, and a benchmark session, get
\* what BoundedQueue.tla promises.
THEOREM SessionRefinement == SessionSpec => ImplementsBoundedQueue
<1>1. SessionInit => Init
  BY DEF SessionInit
<1>2. Init => OneInserter
  BY DEF Init, OneInserter, At
<1>3. Inv => TypeOK
  BY DEF Inv
<1>4. TypeOK /\ OneInserter /\ [Next]_vars => OneInserter'
  BY InserterStep
<1>5. Inv /\ TypeOK' /\ OneInserter /\ OneInserter' /\ [Next]_vars
        => [Abstract!Next]_(Abstract!vars)
  BY RefinesStep
<1> QED
  BY <1>1, <1>2, <1>3, <1>4, <1>5, TurnIsStep, RefinesInit, SessionInvariance, PTL
     DEF SessionSpec, ImplementsBoundedQueue, Abstract!Spec

-----------------------------------------------------------------------------
(* No push of a session is refused *)

\* A session's queue is stopped when its producers are out, and only then.
StoppedAfterPushes == session => refused = {} /\ (Stopped => ProducersDone)

\* A producer makes no step once the queue is stopped, and before that no push
\* is refused.
LEMMA PushesAccepted ==
    ASSUME TypeOK, StoppedAfterPushes, session, NEW p \in Producers, ProducerStep(p)
    PROVE  ~Stopped /\ ~Stopped' /\ refused' = {}
<1>1. ~Stopped
  <2> SUFFICES ASSUME ppc[p] = "idle", sent[p] = MaxPushes
               PROVE  FALSE
    BY DEF StoppedAfterPushes, ProducersDone
  <2> QED
    BY QueueAssumption DEF ProducerStep, PushEnter, PushAcquire, PushRecheck, PushLock,
                           PushInsert, PushAnnounce
<1>2. UNCHANGED flags
  BY DEF ProducerStep, PushEnter, PushAcquire, PushRecheck, PushLock, PushInsert, PushAnnounce
<1>3. UNCHANGED refused
  BY <1>1 DEF ProducerStep, PushEnter, PushAcquire, PushRecheck, PushRefuse, PushLock,
              PushInsert, PushAnnounce
<1> QED
  BY <1>1, <1>2, <1>3 DEF StoppedAfterPushes, flags, Stopped

\* The main thread joins the producers before it closes the queue.
LEMMA StoppedAfterPushesStep ==
    ASSUME Inv, StoppedAfterPushes, [SessionNext]_sessionVars
    PROVE  StoppedAfterPushes'
<1> SUFFICES ASSUME session'
             PROVE  (refused = {} /\ (Stopped => ProducersDone))'
  BY DEF StoppedAfterPushes
<1>1. TypeOK /\ FlagsFirst
  BY DEF Inv
<1>2. session
  BY DEF SessionNext, sessionVars, ProducerTurn, ConsumerTurn, OwnerTurn, StopAtAnyTime
<1>3. refused = {} /\ (Stopped => ProducersDone)
  BY <1>2 DEF StoppedAfterPushes
<1>4. ASSUME UNCHANGED <<producer, flags>>
      PROVE  (refused = {} /\ (Stopped => ProducersDone))'
  BY <1>3, <1>4 DEF producer, flags, Stopped, ProducersDone
<1>5. ASSUME ProducersDone, UNCHANGED producer
      PROVE  (refused = {} /\ (Stopped => ProducersDone))'
  BY <1>3, <1>5 DEF producer, ProducersDone
<1>6. CASE UNCHANGED sessionVars
  BY <1>4, <1>6 DEF sessionVars, vars
<1>7. ASSUME NEW p \in Producers, ProducerTurn(p)
      PROVE  (refused = {} /\ (Stopped => ProducersDone))'
  <2>1. ProducerStep(p)
    BY <1>7 DEF ProducerTurn, Produce, ProducerStep
  <2> QED
    BY <1>1, <1>2, <2>1, PushesAccepted
<1>8. ASSUME NEW c \in Consumers, ConsumerTurn(c)
      PROVE  (refused = {} /\ (Stopped => ProducersDone))'
  <2>1. ConsumerStep(c)
    BY <1>8 DEF ConsumerTurn, Consume
  <2> QED
    BY <1>4, <2>1 DEF ConsumerStep, PopEnter, PopAcquire, PopTake, PopRecheck
<1>9. CASE MainClose /\ UNCHANGED session
  <2>1. ProducersDone
    BY <1>1, <1>3, <1>9 DEF MainClose, ProducerOut, Broken, ProducersDone
  <2> QED
    BY <1>5, <1>9, <2>1 DEF MainClose, Close
<1>10. CASE MainShutdown
  <2>1. Stopped
    BY <1>1, <1>10 DEF MainShutdown, FlagsFirst, Stopped
  <2> QED
    BY <1>3, <1>5, <1>10, <2>1 DEF MainShutdown, Shutdown
<1>11. CASE ShutdownClose
  <2>1. Stopped
    BY <1>1, <1>11 DEF ShutdownClose, FlagsFirst, Stopped
  <2> QED
    BY <1>3, <1>5, <1>11, <2>1 DEF ShutdownClose
<1>12. CASE WakeConsumer \/ WakeProducer \/ WakeDone
  BY <1>4, <1>12 DEF WakeConsumer, WakeProducer, WakeDone
<1>13. CASE Finished
  BY <1>4, <1>13 DEF Finished, vars
<1> QED
  BY <1>2, <1>6, <1>7, <1>8, <1>9, <1>10, <1>11, <1>12, <1>13
     DEF SessionNext, OwnerTurn, MainStep, OwnerStep, StopAtAnyTime

\* Whatever the numbers of producers, consumers and items, and whatever the
\* capacity, no producer of a session leaves its loop by the break of line 85,
\* because main joins them all before it calls close().
THEOREM PushesNeverRefused == SessionSpec => []NothingRefused
<1>1. SessionInit => StoppedAfterPushes
  BY DEF SessionInit, Init, StoppedAfterPushes, Stopped
<1>2. Inv /\ StoppedAfterPushes /\ [SessionNext]_sessionVars => StoppedAfterPushes'
  BY StoppedAfterPushesStep
<1>3. StoppedAfterPushes => NothingRefused
  BY DEF StoppedAfterPushes, NothingRefused
<1> QED
  BY <1>1, <1>2, <1>3, SessionInvariance, PTL DEF SessionSpec

-----------------------------------------------------------------------------
(* A session delivers every item once and in order *)

\* The pushes of each producer whose item has been inserted.
Inserted ==
    [p \in Producers |->
       sent[p] - (IF ppc[p] \in {"acquire", "recheck", "lock", "insert"} THEN 1 ELSE 0)]

\* The items inserted so far, in the order of their insertion.
Stream == taken \o queue_

\* The stream has each producer's insertions, in the order of its pushes.
StreamInOrder ==
    /\ \A i \in 1..Len(Stream) : Stream[i][2] <= Inserted[Stream[i][1]]
    /\ \A p \in Producers : \A n \in 1..Inserted[p] :
         \E i \in 1..Len(Stream) : Stream[i] = <<p, n>>
    /\ \A i, j \in 1..Len(Stream) :
         i < j /\ Stream[i][1] = Stream[j][1] => Stream[i][2] < Stream[j][2]

\* The trackers have every push that has returned and every item taken.
Recorded ==
    /\ operations \in [Producers \cup Consumers -> Nat]
    /\ \A p \in Producers : operations[p] = sent[p] - (IF ppc[p] = "idle" THEN 0 ELSE 1)
    /\ SumFunctionOnSet(operations, Consumers) = Len(taken)

\* Main joins the consumers before it shuts the queue down.
ShutDownAfterPops ==
    opc \in {"shutdown_close", "shutdown_wake_consumers", "shutdown_wake_producers",
             "shut_down"} => ConsumersDone

SessionInv == session => StreamInOrder /\ Recorded /\ ShutDownAfterPops

\* The stream consists of items.
LEMMA StreamType ==
    ASSUME TypeOK
    PROVE  /\ Stream \in Seq(Items)
           /\ Len(Stream) \in Nat
           /\ \A i \in 1..Len(Stream) : Stream[i] \in Items
<1>1. taken \in Seq(Items) /\ queue_ \in Seq(Items)
  BY DEF TypeOK
<1>2. Stream \in Seq(Items)
  BY <1>1, ConcatProperties DEF Stream
<1> QED
  BY <1>2, ElementOfSeq, LenProperties

\* To take an item leaves the stream as it is.
LEMMA StreamTaken ==
    ASSUME TypeOK, queue_ # <<>>, taken' = Append(taken, Head(queue_)), queue_' = Tail(queue_)
    PROVE  Stream' = Stream
<1>1. taken \in Seq(Items) /\ queue_ \in Seq(Items)
  BY DEF TypeOK
<1>2. Head(queue_) \in Items /\ Tail(queue_) \in Seq(Items) /\ <<Head(queue_)>> \in Seq(Items)
  BY <1>1, HeadTailProperties
<1>3. queue_ = <<Head(queue_)>> \o Tail(queue_)
  BY <1>1, <1>2
<1>4. Append(taken, Head(queue_)) = taken \o <<Head(queue_)>>
  BY <1>1, <1>2, AppendIsConcat
<1>5. (taken \o <<Head(queue_)>>) \o Tail(queue_) = taken \o (<<Head(queue_)>> \o Tail(queue_))
  BY <1>1, <1>2, ConcatAssociative
<1>6. Append(taken, Head(queue_)) \o Tail(queue_) = taken \o queue_
  BY <1>3, <1>4, <1>5
<1> QED
  BY <1>6 DEF Stream

\* An insertion appends to the stream.
LEMMA StreamInserted ==
    ASSUME TypeOK, NEW x \in Items, queue_' = Append(queue_, x), taken' = taken
    PROVE  Stream' = Append(Stream, x)
<1>1. taken \in Seq(Items) /\ queue_ \in Seq(Items) /\ <<x>> \in Seq(Items)
  BY DEF TypeOK
<1>2. Append(queue_, x) = queue_ \o <<x>>
  BY <1>1, AppendIsConcat
<1>3. taken \o (queue_ \o <<x>>) = (taken \o queue_) \o <<x>>
  BY <1>1, ConcatAssociative
<1>4. taken \o queue_ \in Seq(Items)
  BY <1>1, ConcatProperties
<1>5. Append(taken \o queue_, x) = (taken \o queue_) \o <<x>>
  BY <1>4, AppendIsConcat
<1> QED
  BY <1>2, <1>3, <1>5 DEF Stream

\* Nothing is inserted and the stream is as it was.
LEMMA OrderKept ==
    ASSUME TypeOK, StreamInOrder, Stream' = Stream,
           Inserted' = Inserted
    PROVE  StreamInOrder'
<1>1. \A i \in 1..Len(Stream) : Stream[i][1] \in Producers
  BY StreamType DEF Items
<1> HIDE DEF Stream, Inserted
<1>2. \A i \in 1..Len(Stream') : Stream'[i][2] <= Inserted'[Stream'[i][1]]
  BY <1>1 DEF StreamInOrder
<1> QED
  BY <1>2 DEF StreamInOrder

\* The item of an insertion is the next one of its producer.
LEMMA OrderInserted ==
    ASSUME TypeOK, StreamInOrder, NEW p \in Producers, PushInsert(p)
    PROVE  StreamInOrder'
<1> USE DEF GoP
<1>1. /\ ppc[p] = "insert" /\ ppc' = [ppc EXCEPT ![p] = "announce"]
      /\ sent' = sent /\ taken' = taken /\ queue_' = Append(queue_, Item(p))
  BY DEF PushInsert, consumer
<1>2. sent[p] \in 1..MaxPushes
  BY <1>1, QueueAssumption DEF TypeOK
<1>3. Item(p) \in Items /\ Item(p)[1] = p /\ Item(p)[2] = sent[p]
  BY <1>2 DEF Item, Items
<1>4. Stream' = Append(Stream, Item(p))
  BY <1>1, <1>3, StreamInserted
<1>5. /\ Stream \in Seq(Items) /\ Len(Stream) \in Nat
      /\ \A i \in 1..Len(Stream) : Stream[i] \in Items
  BY StreamType
<1>6. /\ Len(Stream') = Len(Stream) + 1
      /\ \A i \in 1..Len(Stream) : Stream'[i] = Stream[i]
      /\ Stream'[Len(Stream) + 1] = Item(p)
  BY <1>3, <1>4, <1>5, AppendProperties
<1>7. Inserted[p] = sent[p] - 1 /\ Inserted'[p] = sent[p]
  BY <1>1, <1>2 DEF Inserted, TypeOK
<1>8. \A q \in Producers : q # p => Inserted'[q] = Inserted[q]
  BY <1>1 DEF Inserted, TypeOK
<1>9. \A i \in 1..Len(Stream) : /\ Stream[i][1] \in Producers /\ Stream[i][2] \in 1..MaxPushes
  BY <1>5 DEF Items
<1> HIDE DEF Stream, Inserted
<1>10. ASSUME NEW i \in 1..Len(Stream')
       PROVE  Stream'[i][2] <= Inserted'[Stream'[i][1]]
  <2>1. CASE i \in 1..Len(Stream)
    <3>1. Stream[i][2] <= Inserted[Stream[i][1]]
      BY <2>1 DEF StreamInOrder
    <3>2. Stream'[i] = Stream[i] /\ Stream[i][1] \in Producers /\ Stream[i][2] \in Int
      BY <1>6, <1>9, <2>1
    <3>3. CASE Stream[i][1] = p
      BY <1>2, <1>7, <3>1, <3>2, <3>3
    <3>4. CASE Stream[i][1] # p
      BY <1>8, <3>1, <3>2, <3>4
    <3> QED
      BY <3>3, <3>4
  <2>2. CASE i = Len(Stream) + 1
    BY <1>2, <1>3, <1>6, <1>7, <2>2
  <2> QED
    BY <1>5, <1>6, <2>1, <2>2
<1>11. ASSUME NEW q \in Producers, NEW n \in 1..Inserted'[q]
       PROVE  \E i \in 1..Len(Stream') : Stream'[i] = <<q, n>>
  <2>1. CASE q = p /\ n = sent[p]
    <3>1. Len(Stream) + 1 \in 1..Len(Stream')
      BY <1>5, <1>6
    <3>2. Stream'[Len(Stream) + 1] = <<q, n>>
      BY <1>6, <2>1 DEF Item
    <3> QED
      BY <3>1, <3>2
  <2>2. CASE ~(q = p /\ n = sent[p])
    <3>1. n \in 1..Inserted[q]
      BY <1>2, <1>7, <1>8, <2>2
    <3>2. PICK i \in 1..Len(Stream) : Stream[i] = <<q, n>>
      BY <3>1 DEF StreamInOrder
    <3>3. i \in 1..Len(Stream')
      BY <1>5, <1>6, <3>2
    <3> QED
      BY <1>6, <3>2, <3>3
  <2> QED
    BY <2>1, <2>2
<1>12. ASSUME NEW i \in 1..Len(Stream'), NEW j \in 1..Len(Stream'),
              i < j, Stream'[i][1] = Stream'[j][1]
       PROVE  Stream'[i][2] < Stream'[j][2]
  <2>1. i \in 1..Len(Stream) /\ Stream'[i] = Stream[i]
    BY <1>5, <1>6, <1>12
  <2>2. CASE j \in 1..Len(Stream)
    BY <1>6, <1>12, <2>1, <2>2 DEF StreamInOrder
  <2>3. CASE j = Len(Stream) + 1
    <3>1. Stream[i][1] = p /\ Stream'[j][2] = sent[p]
      BY <1>3, <1>6, <1>12, <2>1, <2>3
    <3>2. Stream[i][2] <= Inserted[p]
      BY <2>1, <3>1 DEF StreamInOrder
    <3>3. Stream[i][2] \in Int
      BY <1>9, <2>1
    <3> QED
      BY <1>2, <1>7, <2>1, <3>1, <3>2, <3>3
  <2> QED
    BY <1>5, <1>6, <2>2, <2>3
<1> QED
  BY <1>10, <1>11, <1>12 DEF StreamInOrder

\* The stream keeps its order in every step of a session.
LEMMA OrderStep ==
    ASSUME Inv, StoppedAfterPushes, session, StreamInOrder, [SessionNext]_sessionVars
    PROVE  StreamInOrder'
<1> USE DEF flags, owner, producer, consumer, GoP, GoC
<1>1. TypeOK
  BY DEF Inv
<1>2. [Next]_vars
  BY TurnIsStep
<1>3. ASSUME UNCHANGED <<queue_, taken, ppc, sent>>
      PROVE  StreamInOrder'
  <2>1. Stream' = Stream /\ Inserted' = Inserted
    BY <1>3 DEF Stream, Inserted
  <2> QED
    BY <1>1, <2>1, OrderKept
<1>4. ASSUME NEW p \in Producers, ProducerStep(p)
      PROVE  StreamInOrder'
  <2>1. ~Stopped
    BY <1>1, <1>4, PushesAccepted
  <2>2. CASE PushInsert(p)
    BY <1>1, <2>2, OrderInserted
  <2>3. ASSUME ~PushInsert(p)
        PROVE  Inserted' = Inserted /\ UNCHANGED <<queue_, taken>>
    <3>1. UNCHANGED <<queue_, taken>>
      BY <1>4, <2>3 DEF ProducerStep, PushEnter, PushAcquire, PushRecheck, PushLock,
                        PushAnnounce
    <3>2. sent[p] \in Nat
      BY <1>1, QueueAssumption DEF TypeOK
    <3>3. CASE PushEnter(p)
      BY <1>1, <2>1, <3>2, <3>3 DEF PushEnter, Inserted, TypeOK
    <3>4. CASE PushAcquire(p)
      BY <1>1, <3>4 DEF PushAcquire, Inserted, TypeOK
    <3>5. CASE PushRecheck(p)
      BY <1>1, <2>1, <3>5 DEF PushRecheck, PushRefuse, Inserted, TypeOK
    <3>6. CASE PushLock(p)
      BY <1>1, <2>1, <3>6 DEF PushLock, PushRefuse, Inserted, TypeOK
    <3>7. CASE PushAnnounce(p)
      BY <1>1, <3>7 DEF PushAnnounce, Inserted, TypeOK
    <3> QED
      BY <1>4, <2>3, <3>1, <3>3, <3>4, <3>5, <3>6, <3>7 DEF ProducerStep
  <2>4. CASE ~PushInsert(p)
    <3>1. Stream' = Stream
      BY <2>3, <2>4 DEF Stream
    <3> QED
      BY <1>1, <2>3, <2>4, <3>1, OrderKept
  <2> QED
    BY <2>2, <2>4
<1>5. ASSUME NEW c \in Consumers, ConsumerStep(c)
      PROVE  StreamInOrder'
  <2>1. UNCHANGED <<ppc, sent>>
    BY <1>5 DEF ConsumerStep, PopEnter, PopAcquire, PopTake, PopRecheck
  <2>2. Stream' = Stream
    <3>1. CASE PopTake(c) /\ queue_ # <<>>
      BY <1>1, <3>1, StreamTaken DEF PopTake
    <3>2. CASE UNCHANGED <<queue_, taken>>
      BY <3>2 DEF Stream
    <3> QED
      BY <1>5, <3>1, <3>2 DEF ConsumerStep, PopEnter, PopAcquire, PopTake, PopRecheck
  <2>3. Inserted' = Inserted
    BY <2>1 DEF Inserted
  <2> QED
    BY <1>1, <2>2, <2>3, OrderKept
<1>6. CASE Close \/ Shutdown \/ OwnerStep
  BY <1>3, <1>6 DEF Close, Shutdown, OwnerStep, ShutdownClose, WakeConsumer, WakeProducer,
                    WakeDone
<1>7. CASE UNCHANGED vars \/ Finished
  BY <1>3, <1>7 DEF Finished, vars
<1> QED
  BY <1>2, <1>4, <1>5, <1>6, <1>7 DEF Next

\* What the consumers have recorded.
Popped == [t \in Consumers |-> operations[t]]

\* The records of the consumers are a number for each, and their sum is that of
\* the property.
LEMMA PoppedType ==
    ASSUME operations \in [Producers \cup Consumers -> Nat]
    PROVE  /\ Popped \in [Consumers -> Nat] /\ Popped \in [Consumers -> Int]
           /\ SumFunctionOnSet(operations, Consumers) = SumFunction(Popped)
<1>1. SumFunctionOnSet(operations, Consumers) = SumFunction(Popped)
  BY SumOnSet, QueueAssumption DEF Popped
<1> QED
  BY <1>1 DEF Popped

\* The trackers agree with what has been done after every step of a session.
LEMMA RecordedStep ==
    ASSUME Inv, StoppedAfterPushes, session, Recorded, [SessionNext]_sessionVars
    PROVE  Recorded'
<1> USE DEF flags, owner, producer, consumer, GoP, GoC
<1>1. TypeOK
  BY DEF Inv
<1>2. /\ operations \in [Producers \cup Consumers -> Nat]
      /\ \A p \in Producers : operations[p] = sent[p] - (IF ppc[p] = "idle" THEN 0 ELSE 1)
      /\ SumFunctionOnSet(operations, Consumers) = Len(taken)
  BY DEF Recorded
<1>3. ASSUME UNCHANGED <<operations, taken, ppc, sent>>
      PROVE  Recorded'
  BY <1>2, <1>3 DEF Recorded
<1>4. ASSUME NEW p \in Producers, ProducerTurn(p)
      PROVE  Recorded'
  <2>1. Produce(p)
    BY <1>4 DEF ProducerTurn
  <2>2. ProducerStep(p)
    BY <2>1 DEF Produce, ProducerStep
  <2>3. ~Stopped
    BY <1>1, <2>2, PushesAccepted
  <2>4. taken' = taken
    BY <2>2 DEF ProducerStep, PushEnter, PushAcquire, PushRecheck, PushLock, PushInsert,
                PushAnnounce
  <2>5. sent[p] \in Nat /\ p \notin Consumers
    BY <1>1, QueueAssumption DEF TypeOK
  <2>6. CASE PushAnnounce(p) /\ Record(p)
    <3>1. operations' = [operations EXCEPT ![p] = operations[p] + 1]
      BY <2>6 DEF Record
    <3>2. operations' \in [Producers \cup Consumers -> Nat]
      BY <1>2, <3>1
    <3>3. Popped' = Popped
      BY <1>2, <2>5, <3>1 DEF Popped
    <3>4. SumFunctionOnSet(operations', Consumers) = SumFunction(Popped')
      BY <3>2, SumOnSet, QueueAssumption DEF Popped
    <3>5. SumFunctionOnSet(operations', Consumers) = Len(taken')
      BY <1>2, <2>4, <3>3, <3>4, PoppedType
    <3>6. \A q \in Producers : operations'[q] = sent'[q] - (IF ppc'[q] = "idle" THEN 0 ELSE 1)
      BY <1>1, <1>2, <2>5, <2>6, <3>1 DEF PushAnnounce, TypeOK
    <3> QED
      BY <3>2, <3>5, <3>6 DEF Recorded
  <2>7. CASE operations' = operations /\ ~PushAnnounce(p)
    <3>1. \A q \in Producers : operations[q] = sent'[q] - (IF ppc'[q] = "idle" THEN 0 ELSE 1)
      <4>1. CASE PushEnter(p)
        BY <1>1, <1>2, <2>3, <2>5, <4>1 DEF PushEnter, TypeOK
      <4>2. CASE PushAcquire(p)
        BY <1>1, <1>2, <4>2 DEF PushAcquire, TypeOK
      <4>3. CASE PushRecheck(p)
        BY <1>1, <1>2, <2>3, <4>3 DEF PushRecheck, PushRefuse, TypeOK
      <4>4. CASE PushLock(p)
        BY <1>1, <1>2, <2>3, <4>4 DEF PushLock, PushRefuse, TypeOK
      <4>5. CASE PushInsert(p)
        BY <1>1, <1>2, <4>5 DEF PushInsert, TypeOK
      <4> QED
        BY <2>2, <2>7, <4>1, <4>2, <4>3, <4>4, <4>5 DEF ProducerStep
    <3> QED
      BY <1>2, <2>4, <2>7, <3>1 DEF Recorded
  <2>8. (PushAnnounce(p) /\ Record(p)) \/ (operations' = operations /\ ~PushAnnounce(p))
    BY <2>1 DEF Produce, PushEnter, PushAcquire, PushRecheck, PushLock, PushInsert,
                PushAnnounce
  <2> QED
    BY <2>6, <2>7, <2>8
<1>5. ASSUME NEW c \in Consumers, ConsumerTurn(c)
      PROVE  Recorded'
  <2>1. ConsumerStep(c) /\ IF taken' # taken THEN Record(c) ELSE UNCHANGED operations
    BY <1>5 DEF ConsumerTurn, Consume
  <2>2. UNCHANGED <<ppc, sent>>
    BY <2>1 DEF ConsumerStep, PopEnter, PopAcquire, PopTake, PopRecheck
  <2>3. CASE taken' = taken
    BY <1>3, <2>1, <2>2, <2>3
  <2>4. CASE taken' # taken
    <3>1. taken' = Append(taken, Head(queue_)) /\ queue_ # <<>>
      BY <2>1, <2>4 DEF ConsumerStep, PopEnter, PopAcquire, PopTake, PopRecheck
    <3>2. Len(taken') = Len(taken) + 1 /\ Len(taken) \in Nat
      BY <1>1, <3>1, HeadTailProperties, AppendProperties DEF TypeOK
    <3>3. operations' = [operations EXCEPT ![c] = operations[c] + 1] /\ c \notin Producers
      BY <2>1, <2>4, QueueAssumption DEF Record
    <3>4. operations' \in [Producers \cup Consumers -> Nat] /\ operations[c] + 1 \in Int
      BY <1>2, <3>3
    <3>5. Popped' = [Popped EXCEPT ![c] = operations[c] + 1] /\ Popped[c] = operations[c]
      BY <1>2, <3>3 DEF Popped
    <3>6. SumFunction(Popped') = SumFunction(Popped) + (operations[c] + 1) - Popped[c]
      <4>1. Popped \in [Consumers -> Int] /\ IsFiniteSet(Consumers)
        BY <1>2, PoppedType, QueueAssumption
      <4> HIDE DEF Popped
      <4> QED
        BY <3>4, <3>5, <4>1, SumChanges
    <3>7. SumFunctionOnSet(operations', Consumers) = SumFunction(Popped')
      BY <3>4, SumOnSet, QueueAssumption DEF Popped
    <3>8. SumFunction(Popped) = Len(taken) /\ operations[c] \in Nat
      BY <1>2, PoppedType
    <3>9. SumFunctionOnSet(operations', Consumers) = Len(taken')
      BY <3>2, <3>5, <3>6, <3>7, <3>8
    <3>10. \A q \in Producers : operations'[q] = sent'[q] - (IF ppc'[q] = "idle" THEN 0 ELSE 1)
      BY <1>2, <2>2, <3>3
    <3> QED
      BY <3>4, <3>9, <3>10 DEF Recorded
  <2> QED
    BY <2>3, <2>4
<1>6. CASE OwnerTurn
  BY <1>3, <1>6 DEF OwnerTurn, MainStep, MainClose, MainShutdown, Close, Shutdown, OwnerStep,
                    ShutdownClose, WakeConsumer, WakeProducer, WakeDone
<1>7. CASE UNCHANGED sessionVars \/ (Finished /\ UNCHANGED <<session, operations>>)
  BY <1>3, <1>7 DEF Finished, sessionVars, vars
<1> QED
  BY <1>4, <1>5, <1>6, <1>7 DEF SessionNext, StopAtAnyTime

\* Once main has joined the consumers they make no step.
LEMMA ShutDownAfterPopsStep ==
    ASSUME Inv, session, ShutDownAfterPops, [SessionNext]_sessionVars
    PROVE  ShutDownAfterPops'
<1> USE DEF flags, owner, producer, consumer
<1>1. ASSUME UNCHANGED <<opc, cpc>>
      PROVE  ShutDownAfterPops'
  BY <1>1 DEF ShutDownAfterPops, ConsumersDone
<1>2. ASSUME NEW p \in Producers, ProducerTurn(p)
      PROVE  ShutDownAfterPops'
  <2>1. ProducerStep(p)
    BY <1>2 DEF ProducerTurn, Produce, ProducerStep
  <2> QED
    BY <1>1, <2>1 DEF ProducerStep, PushEnter, PushAcquire, PushRecheck, PushLock, PushInsert,
                      PushAnnounce
<1>3. ASSUME NEW c \in Consumers, ConsumerTurn(c)
      PROVE  ShutDownAfterPops'
  <2>1. ConsumerStep(c)
    BY <1>3 DEF ConsumerTurn, Consume
  <2>2. opc' = opc /\ ~ConsumersDone
    BY <2>1 DEF ConsumerStep, PopEnter, PopAcquire, PopTake, PopRecheck, ConsumersDone
  <2> QED
    BY <2>2 DEF ShutDownAfterPops
<1>4. CASE MainClose
  BY <1>4 DEF MainClose, Close, ShutDownAfterPops
<1>5. CASE MainShutdown
  BY <1>5 DEF MainShutdown, Shutdown, ShutDownAfterPops, ConsumersDone
<1>6. CASE OwnerStep
  BY <1>6 DEF OwnerStep, ShutdownClose, WakeConsumer, WakeProducer, WakeDone,
              ShutDownAfterPops, ConsumersDone
<1>7. CASE UNCHANGED sessionVars \/ Finished
  BY <1>1, <1>7 DEF Finished, sessionVars, vars
<1> QED
  BY <1>2, <1>3, <1>4, <1>5, <1>6, <1>7 DEF SessionNext, OwnerTurn, MainStep, StopAtAnyTime

\* At the start nothing is inserted and nothing recorded.
LEMMA SessionInvInit == SessionInit => SessionInv
<1> SUFFICES ASSUME SessionInit
             PROVE  SessionInv
  OBVIOUS
<1>1. Init /\ operations = [t \in Producers \cup Consumers |-> 0]
  BY DEF SessionInit
<1>2. StreamInOrder
  <2>1. Stream = <<>>
    BY <1>1 DEF Init, Stream
  <2>2. \A p \in Producers : Inserted[p] = 0
    BY <1>1 DEF Init, Inserted
  <2> QED
    BY <2>1, <2>2 DEF StreamInOrder
<1>3. Recorded
  <2>1. operations \in [Producers \cup Consumers -> Nat]
    BY <1>1
  <2>2. Popped = [t \in Consumers |-> 0]
    BY <1>1 DEF Popped
  <2>3. Cardinality(Consumers) \in Nat
    BY FS_CardinalityType, QueueAssumption
  <2>4. SumFunction(Popped) = Cardinality(Consumers) * 0
    <3> HIDE DEF Popped
    <3> QED
      BY <2>2, SumConstant, QueueAssumption
  <2>5. SumFunctionOnSet(operations, Consumers) = 0
    BY <2>1, <2>3, <2>4, PoppedType
  <2> QED
    BY <1>1, <2>1, <2>5 DEF Init, Recorded
<1>4. ShutDownAfterPops
  BY <1>1 DEF Init, ShutDownAfterPops
<1> QED
  BY <1>2, <1>3, <1>4 DEF SessionInv

\* The three parts are kept together by the steps of a session.
LEMMA SessionInvStep ==
    ASSUME Inv, StoppedAfterPushes, SessionInv, [SessionNext]_sessionVars
    PROVE  SessionInv'
<1>1. session' => session
  BY DEF SessionNext, sessionVars, ProducerTurn, ConsumerTurn, OwnerTurn, StopAtAnyTime
<1> QED
  BY <1>1, OrderStep, RecordedStep, ShutDownAfterPopsStep DEF SessionInv

\* When the queue is shut down its stream is what was taken, and it has every item.
LEMMA AllTaken ==
    ASSUME Consumers # {}, Inv, StoppedAfterPushes, SessionInv, session, opc = "shut_down"
    PROVE  SessionDelivers
<1>1. TypeOK /\ FlagsFirst /\ EndOfStreamIsFinal
  BY DEF Inv
<1>2. StreamInOrder /\ Recorded /\ ShutDownAfterPops
  BY DEF SessionInv
<1>3. ProducersDone
  BY <1>1 DEF FlagsFirst, Stopped, StoppedAfterPushes
<1>4. ConsumersDone
  BY <1>2 DEF ShutDownAfterPops
<1>5. queue_ = <<>>
  BY <1>1, <1>4 DEF ConsumersDone, EndOfStreamIsFinal
<1>6. Stream = taken /\ taken \in Seq(Items)
  BY <1>1, <1>5, ConcatEmptySeq DEF Stream, TypeOK
<1>7. \A p \in Producers : Inserted[p] = MaxPushes
  BY <1>3, QueueAssumption DEF ProducersDone, Inserted
<1>8. /\ Len(taken) \in Nat /\ taken \in [1..Len(taken) -> Items]
      /\ \A i \in 1..Len(taken) : taken[i] \in Items
  BY <1>6, LenProperties
<1>9. \A i, j \in 1..Len(taken) :
        i < j /\ taken[i][1] = taken[j][1] => taken[i][2] < taken[j][2]
  BY <1>2, <1>6 DEF StreamInOrder
<1>10. ASSUME NEW x \in Items
       PROVE  \E i \in 1..Len(taken) : taken[i] = x
  <2>1. x[1] \in Producers /\ x[2] \in 1..Inserted[x[1]] /\ x = <<x[1], x[2]>>
    BY <1>7 DEF Items
  <2> QED
    BY <1>2, <1>6, <2>1 DEF StreamInOrder
<1>11. ASSUME NEW i \in 1..Len(taken), NEW j \in 1..Len(taken), taken[i] = taken[j]
       PROVE  i = j
  <2>1. taken[i][2] \in Int
    BY <1>8 DEF Items
  <2>2. ~(i < j) /\ ~(j < i)
    BY <1>9, <1>11, <2>1
  <2> QED
    BY <1>8, <2>2
<1>12. Len(taken) = Cardinality(Items)
  <2>1. taken \in Bijection(1..Len(taken), Items)
    BY <1>8, <1>10, <1>11 DEF Bijection, Injection, Surjection, IsInjective
  <2>2. ExistsBijection(1..Len(taken), Items)
    BY <2>1 DEF ExistsBijection
  <2>3. IsFiniteSet(1..Len(taken)) /\ Cardinality(1..Len(taken)) = Len(taken)
    BY <1>8, FS_Interval
  <2> QED
    BY <2>2, <2>3, FS_Bijection
<1>13. /\ \A p \in Producers : operations[p] = MaxPushes
       /\ SumFunctionOnSet(operations, Consumers) = Len(taken)
  BY <1>2, <1>3, QueueAssumption DEF Recorded, ProducersDone
<1> QED
  BY <1>9, <1>10, <1>12, <1>13 DEF SessionDelivers

\* Whatever the numbers of producers, consumers, items and slots: when main reads
\* the trackers (lines 113-114) every item has been taken exactly once, the items of
\* a producer in the order of its pushes, and every operation has been recorded.
\* Line 63 turns down a session without a consumer.
THEOREM SessionDelivery == Consumers # {} => (SessionSpec => []SessionDelivers)
<1> SUFFICES ASSUME Consumers # {}
             PROVE  SessionSpec => []SessionDelivers
  OBVIOUS
<1>1. SessionInit => StoppedAfterPushes
  BY DEF SessionInit, Init, StoppedAfterPushes, Stopped
<1>2. Inv /\ StoppedAfterPushes /\ [SessionNext]_sessionVars => StoppedAfterPushes'
  BY StoppedAfterPushesStep
<1>3. SessionInit => SessionInv
  BY SessionInvInit
<1>4. Inv /\ StoppedAfterPushes /\ SessionInv /\ [SessionNext]_sessionVars => SessionInv'
  BY SessionInvStep
<1>5. Inv /\ StoppedAfterPushes /\ SessionInv => SessionDelivers
  BY AllTaken DEF SessionDelivers
<1> QED
  BY <1>1, <1>2, <1>3, <1>4, <1>5, SessionInvariance, PTL DEF SessionSpec

-----------------------------------------------------------------------------
(* Nobody is stuck: there are enough tokens for any number of threads *)

\* A call of push, of pop, or of close or shutdown, can go on: the guards of the
\* actions of SemaphoreQueue.
PushMoves(p) == \/ ppc[p] = "idle" /\ sent[p] < MaxPushes
                \/ ppc[p] = "acquire" /\ empty_slots_ > 0
                \/ ppc[p] = "lock" /\ MutexFree
                \/ ppc[p] \in {"recheck", "insert", "announce"}
PopMoves(c) == \/ cpc[c] \in {"idle", "take"} /\ MutexFree
               \/ cpc[c] = "acquire" /\ filled_slots_ > 0
               \/ cpc[c] = "recheck"
OwnerMoves == opc \notin {"open", "closed", "shut_down"}

SomeCallMoves == \/ \E p \in Producers : PushMoves(p)
                 \/ \E c \in Consumers : PopMoves(c)
                 \/ OwnerMoves

\* Every wake-up loop makes its max_size + 1 tokens, and no token that was made is
\* ever used up: what is left of a loop and what it has made is at least that.
WakesMade ==
    /\ opc = "open" => ~Stopped
    /\ opc \in {"open", "close_wake", "closed"} => ~shutdown_
    /\ opc \in {"close_wake", "shutdown_wake_consumers"} => spare_filled + wake >= WakeTokens
    /\ opc \in {"closed", "shutdown_wake_producers", "shut_down"} => spare_filled >= WakeTokens
    /\ opc = "shutdown_wake_producers" => spare_empty + wake >= WakeTokens
    /\ opc = "shut_down" => spare_empty >= WakeTokens

\* No wake-up has begun.
LEMMA WakesMadeInit == Init => WakesMade
  BY DEF Init, WakesMade, Stopped

\* Only close and shutdown change what WakesMade speaks of.
LEMMA WakesMadeStep == TypeOK /\ WakesMade /\ [Next]_vars => WakesMade'
<1> SUFFICES ASSUME TypeOK, WakesMade, [Next]_vars
             PROVE  WakesMade'
  OBVIOUS
<1>1. /\ WakeTokens \in Nat /\ wake \in Nat /\ spare_filled \in Nat /\ spare_empty \in Nat
      /\ UNCHANGED WakeTokens
  BY QueueAssumption DEF TypeOK, WakeTokens
<1>2. ASSUME UNCHANGED <<flags, owner>>
      PROVE  WakesMade'
  BY <1>1, <1>2 DEF flags, owner, WakesMade, Stopped
<1>3. ASSUME NEW p \in Producers, ProducerStep(p)
      PROVE  WakesMade'
  BY <1>2, <1>3 DEF ProducerStep, PushEnter, PushAcquire, PushRecheck, PushLock,
                    PushInsert, PushAnnounce
<1>4. ASSUME NEW c \in Consumers, ConsumerStep(c)
      PROVE  WakesMade'
  BY <1>2, <1>4 DEF ConsumerStep, PopEnter, PopAcquire, PopTake, PopRecheck
<1>5. CASE Close
  BY <1>1, <1>5 DEF Close, WakesMade, Stopped
<1>6. CASE Shutdown
  BY <1>1, <1>6 DEF Shutdown, WakesMade, Stopped
<1>7. CASE ShutdownClose
  BY <1>1, <1>7 DEF ShutdownClose, WakesMade, Stopped
<1>8. CASE WakeConsumer
  BY <1>1, <1>8 DEF WakeConsumer, WakesMade, Stopped, flags
<1>9. CASE WakeProducer
  BY <1>1, <1>9 DEF WakeProducer, WakesMade, Stopped, flags
<1>10. CASE WakeDone
  BY <1>1, <1>10 DEF WakeDone, WakesMade, Stopped, flags
<1>11. CASE Finished \/ UNCHANGED vars
  BY <1>2, <1>11 DEF Finished, vars
<1> QED
  BY <1>3, <1>4, <1>5, <1>6, <1>7, <1>8, <1>9, <1>10, <1>11 DEF Next, OwnerStep

\* When no call can go on, every thread is out or waits for a semaphore that has
\* no token, and then each semaphore's balance has no thread under way in it.
LEMMA AllWait ==
    ASSUME Inv, ~SomeCallMoves
    PROVE  /\ filled_slots_ = Len(queue_) + spare_filled
           /\ empty_slots_ + Len(queue_) = MaxSize + spare_empty
           /\ \A p \in Producers : \/ ppc[p] = "idle" /\ sent[p] = MaxPushes
                                   \/ ppc[p] = "acquire" /\ empty_slots_ = 0
           /\ \A c \in Consumers : \/ cpc[c] = "ended"
                                   \/ cpc[c] = "acquire" /\ filled_slots_ = 0
<1>1. TypeOK /\ FilledBalance /\ EmptyBalance
  BY DEF Inv
<1>2. /\ \A p \in Producers : ~PushMoves(p)
      /\ \A c \in Consumers : ~PopMoves(c)
  BY DEF SomeCallMoves
<1>3. MutexFree
  <2>1. DOMAIN ppc = Producers
    BY <1>1 DEF TypeOK
  <2> QED
    BY <1>2, <2>1 DEF MutexFree, At, PushMoves
<1>4. ASSUME NEW p \in Producers
      PROVE  \/ ppc[p] = "idle" /\ sent[p] = MaxPushes
             \/ ppc[p] = "acquire" /\ empty_slots_ = 0
  <2>1. /\ ppc[p] \in {"idle", "acquire", "recheck", "lock", "insert", "announce"}
        /\ sent[p] \in 0..MaxPushes /\ empty_slots_ \in Nat
    BY <1>1 DEF TypeOK
  <2>2. ~(sent[p] < MaxPushes) => sent[p] = MaxPushes
    BY <2>1, QueueAssumption
  <2>3. ~(empty_slots_ > 0) => empty_slots_ = 0
    BY <2>1
  <2> QED
    BY <1>2, <1>3, <2>1, <2>2, <2>3 DEF PushMoves
<1>5. ASSUME NEW c \in Consumers
      PROVE  \/ cpc[c] = "ended"
             \/ cpc[c] = "acquire" /\ filled_slots_ = 0
  <2>1. /\ cpc[c] \in {"idle", "acquire", "take", "recheck", "ended"}
        /\ filled_slots_ \in Nat
    BY <1>1 DEF TypeOK
  <2>2. ~(filled_slots_ > 0) => filled_slots_ = 0
    BY <2>1
  <2> QED
    BY <1>2, <1>3, <2>1, <2>2 DEF PopMoves
<1>6. DOMAIN ppc = Producers /\ DOMAIN cpc = Consumers
  BY <1>1 DEF TypeOK
<1>7. /\ At(ppc, "recheck") = {} /\ At(ppc, "lock") = {}
      /\ At(ppc, "insert") = {} /\ At(ppc, "announce") = {}
  BY <1>4, <1>6 DEF At
<1>8. At(cpc, "take") = {} /\ At(cpc, "recheck") = {}
  BY <1>5, <1>6 DEF At
<1>9. /\ Len(queue_) \in Nat /\ empty_slots_ \in Nat /\ filled_slots_ \in Nat
      /\ spare_filled \in Nat /\ spare_empty \in Nat /\ MaxSize \in Nat
  BY <1>1, QueueAssumption DEF TypeOK
<1>10. Cardinality({}) = 0
  BY FS_EmptySet
<1>11. filled_slots_ + 0 + 0 + 0 = Len(queue_) + spare_filled
  BY <1>1, <1>7, <1>8, <1>10 DEF FilledBalance
<1>12. empty_slots_ + 0 + 0 + 0 + Len(queue_) = MaxSize + spare_empty
  BY <1>1, <1>7, <1>10 DEF EmptyBalance
<1> QED
  BY <1>4, <1>5, <1>9, <1>11, <1>12

\* Stopped, with no call that can go on: nobody waits in either semaphore.
LEMMA StoppedAllOut ==
    ASSUME Inv, WakesMade, Stopped, ~SomeCallMoves,
           shutdown_ \/ (MaxSize > 0 /\ Consumers # {})
    PROVE  ProducersDone /\ ConsumersDone
<1>1. /\ Len(queue_) \in Nat /\ empty_slots_ \in Nat /\ filled_slots_ \in Nat
      /\ spare_filled \in Nat /\ spare_empty \in Nat /\ MaxSize \in Nat
      /\ WakeTokens = MaxSize + 1
  BY QueueAssumption DEF Inv, TypeOK, WakeTokens
<1>2. opc \in {"closed", "shut_down"} /\ (shutdown_ => opc = "shut_down")
  BY DEF SomeCallMoves, OwnerMoves, WakesMade
<1>3. spare_filled >= WakeTokens /\ (shutdown_ => spare_empty >= WakeTokens)
  BY <1>2 DEF WakesMade
<1>4. /\ filled_slots_ = Len(queue_) + spare_filled
      /\ empty_slots_ + Len(queue_) = MaxSize + spare_empty
  BY AllWait
<1>5. filled_slots_ # 0
  BY <1>1, <1>3, <1>4
<1>6. \A c \in Consumers : cpc[c] = "ended"
  BY <1>5, AllWait
<1>7. empty_slots_ # 0
  <2>1. CASE shutdown_
    <3>1. Len(queue_) + Cardinality(At(ppc, "insert")) <= MaxSize
      BY DEF Inv, WithinCapacity
    <3>2. Cardinality(At(ppc, "insert")) \in Nat
      BY CountsType DEF Inv
    <3>3. Len(queue_) <= MaxSize
      BY <1>1, <3>1, <3>2
    <3> QED
      BY <1>1, <1>3, <1>4, <2>1, <3>3
  <2>2. CASE MaxSize > 0 /\ Consumers # {}
    <3>1. queue_ = <<>>
      BY <1>6, <2>2 DEF Inv, EndOfStreamIsFinal
    <3>2. Len(queue_) = 0
      BY <3>1
    <3> QED
      BY <1>1, <1>4, <2>2, <3>2
  <2> QED
    BY <2>1, <2>2
<1> QED
  BY <1>6, <1>7, AllWait DEF ProducersDone, ConsumersDone

\* In a stopped queue no set of calls waits for tokens that none of them will
\* release, however many threads wait: a wake-up has fewer tokens than there may
\* be threads, and each token is passed on (lines 61, 69 and 105).  A queue that
\* is only closed needs a consumer that drains it, and room for an item.
THEOREM StoppedNeverStuck ==
    Spec => [](Stopped /\ (shutdown_ \/ (MaxSize > 0 /\ Consumers # {}))
                 => SomeCallMoves \/ (ProducersDone /\ ConsumersDone))
<1>1. Inv /\ WakesMade =>
        (Stopped /\ (shutdown_ \/ (MaxSize > 0 /\ Consumers # {}))
           => SomeCallMoves \/ (ProducersDone /\ ConsumersDone))
  BY StoppedAllOut
<1>2. Inv => TypeOK
  BY DEF Inv
<1> QED
  BY <1>1, <1>2, WakesMadeInit, WakesMadeStep, Invariance, PTL DEF Spec

\* Main joins the threads it waits for and goes on (lines 104-111).
MainMoves == \/ opc = "open" /\ \A p \in Producers : ProducerOut(p)
             \/ opc = "closed" /\ ConsumersDone

\* A session in which no call can go on is one in which main can.
LEMMA SessionMoves ==
    ASSUME Inv, WakesMade, StoppedAfterPushes, session,
           Consumers # {}, MaxSize > 0, ~SomeCallMoves, opc # "shut_down"
    PROVE  MainMoves
<1>1. /\ Len(queue_) \in Nat /\ empty_slots_ \in Nat /\ filled_slots_ \in Nat
      /\ spare_filled \in Nat /\ spare_empty \in Nat /\ MaxSize \in Nat
  BY QueueAssumption DEF Inv, TypeOK
<1>2. CASE opc = "open"
  <2>1. ~Stopped
    BY <1>2 DEF WakesMade
  <2>2. spare_empty = 0 /\ spare_filled = 0
    BY <1>1, <2>1 DEF Inv, FlagsFirst, Stopped
  <2>3. PICK c \in Consumers : cpc[c] = "acquire" /\ filled_slots_ = 0
    <3>1. \A c \in Consumers : cpc[c] # "ended"
      BY <2>1 DEF Inv, EndOfStreamIsFinal
    <3> QED
      BY <3>1, AllWait
  <2>4. filled_slots_ = Len(queue_) + spare_filled
        /\ empty_slots_ + Len(queue_) = MaxSize + spare_empty
    BY AllWait
  <2>5. empty_slots_ # 0
    BY <1>1, <2>2, <2>3, <2>4
  <2>6. \A p \in Producers : ppc[p] = "idle" /\ sent[p] = MaxPushes
    BY <2>5, AllWait
  <2> QED
    BY <1>2, <2>6 DEF MainMoves, ProducerOut
<1>3. CASE opc # "open"
  <2>1. opc = "closed"
    BY <1>3 DEF SomeCallMoves, OwnerMoves
  <2>2. Stopped
    BY <2>1 DEF Inv, FlagsFirst, Stopped
  <2>3. ConsumersDone
    BY <2>2, StoppedAllOut
  <2> QED
    BY <2>1, <2>3 DEF MainMoves
<1> QED
  BY <1>2, <1>3

\* A benchmark session never comes to a point where everybody waits for somebody:
\* as long as main has not shut the queue down, a call or main can go on, whatever
\* the numbers of threads and items.  Line 63 turns down a session without a
\* consumer, and the capacities of the benchmarks (lines 72 and 192) are positive.
THEOREM SessionNeverStuck ==
    Consumers # {} /\ MaxSize > 0 =>
      (SessionSpec => [](session /\ opc # "shut_down" => SomeCallMoves \/ MainMoves))
<1> SUFFICES ASSUME Consumers # {}, MaxSize > 0
             PROVE  SessionSpec =>
                      [](session /\ opc # "shut_down" => SomeCallMoves \/ MainMoves)
  OBVIOUS
<1>1. SessionInit => StoppedAfterPushes /\ WakesMade
  BY WakesMadeInit DEF SessionInit, Init, StoppedAfterPushes, Stopped
<1>2. Inv /\ StoppedAfterPushes /\ [SessionNext]_sessionVars => StoppedAfterPushes'
  BY StoppedAfterPushesStep
<1>3. Inv /\ WakesMade /\ [SessionNext]_sessionVars => WakesMade'
  BY TurnIsStep, WakesMadeStep DEF Inv
<1>4. Inv /\ WakesMade /\ StoppedAfterPushes
        => (session /\ opc # "shut_down" => SomeCallMoves \/ MainMoves)
  BY SessionMoves
<1> QED
  BY <1>1, <1>2, <1>3, <1>4, SessionInvariance, PTL DEF SessionSpec
=============================================================================
