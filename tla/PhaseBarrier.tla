---------------------------- MODULE PhaseBarrier ----------------------------
(***************************************************************************)
(* What a reusable barrier promises: a thread leaves it for the k-th time  *)
(* only after every thread has arrived for the k-th time.                  *)
(***************************************************************************)
EXTENDS Naturals

CONSTANT Threads

VARIABLES arrived,  \* how often each thread has called arrive_and_wait
          passed    \* how often each thread has returned from it

vars == <<arrived, passed>>

Init == /\ arrived = [t \in Threads |-> 0]
        /\ passed = [t \in Threads |-> 0]

Arrive(t) == /\ arrived[t] = passed[t]
             /\ arrived' = [arrived EXCEPT ![t] = @ + 1]
             /\ UNCHANGED passed

Pass(t) == /\ passed[t] < arrived[t]
           /\ \A u \in Threads : arrived[u] >= arrived[t]
           /\ passed' = [passed EXCEPT ![t] = @ + 1]
           /\ UNCHANGED arrived

Next == \E t \in Threads : Arrive(t) \/ Pass(t)

Spec == Init /\ [][Next]_vars
=============================================================================
