------------------------------ MODULE Barrier ------------------------------
(***************************************************************************)
(* What a barrier promises to the threads that wait at it (fastsync.h,     *)
(* "wait at a fast sync barrier"): no thread returns from its k-th wait    *)
(* before every thread has entered its own k-th wait.  No sequence number, *)
(* no counter of arrivals, no tree.                                        *)
(***************************************************************************)
EXTENDS Naturals

CONSTANT Threads

VARIABLES entered,   \* how many times each thread has called wait
          left       \* how many of those calls have returned

barrierVars == <<entered, left>>

Init ==
  /\ entered = [t \in Threads |-> 0]
  /\ left = [t \in Threads |-> 0]

Enter(t) ==
  /\ entered[t] = left[t]
  /\ entered' = [entered EXCEPT ![t] = @ + 1]
  /\ UNCHANGED left

Leave(t) ==
  /\ entered[t] = left[t] + 1
  /\ \A u \in Threads : entered[u] >= entered[t]
  /\ left' = [left EXCEPT ![t] = @ + 1]
  /\ UNCHANGED entered

Next == \E t \in Threads : Enter(t) \/ Leave(t)

Spec == Init /\ [][Next]_barrierVars

=============================================================================
