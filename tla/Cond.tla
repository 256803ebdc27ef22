-------------------------------- MODULE Cond --------------------------------
(***************************************************************************)
(* What a condition variable promises, together with the mutex of its      *)
(* waiters (fastsync.h, "Wait on a conditional variable", "Let at least    *)
(* one (signal) or all (broadcast) waiter(s) of the conditional variable   *)
(* to proceed").  A thread becomes a waiter while it owns the mutex, so    *)
(* that nobody who takes the mutex after it misses it; a waiter that is    *)
(* released competes for the mutex like any other thread, and its call     *)
(* returns only when it owns it.  No sequence number, no tree, no queue.   *)
(***************************************************************************)

CONSTANT Threads

VARIABLES owner, asking,   \* the mutex: see Mutex
          inside,          \* the threads whose wait has not returned
          waiting,         \* those that sleep, or may go to sleep
          due              \* those that a notification must not miss

condVars == <<owner, asking, inside, waiting, due>>

Lock == INSTANCE Mutex

Init == Lock!Init /\ inside = {} /\ waiting = {} /\ due = {}

-----------------------------------------------------------------------------
(* The mutex.  A thread in a wait gives it back once, and takes it back.   *)

Ask(t) ==
  /\ t \notin inside
  /\ Lock!Ask({t})
  /\ UNCHANGED <<inside, waiting, due>>

Acquire(t) == Lock!Acquire(t) /\ UNCHANGED <<inside, waiting, due>>

Unlock(t) ==
  /\ t \in inside => t \in waiting
  /\ Lock!Release(t)
  /\ UNCHANGED <<inside, waiting, due>>

-----------------------------------------------------------------------------
\* The owner of the mutex waits; it gives the mutex back in a later step.
Wait(t) ==
  /\ owner = {t}
  /\ t \notin inside
  /\ inside' = inside \cup {t}
  /\ waiting' = waiting \cup {t}
  /\ UNCHANGED <<owner, asking, due>>

\* A notification that the waiters S must not miss.
Notify(S) ==
  /\ S \subseteq waiting
  /\ due' = due \cup S
  /\ UNCHANGED <<owner, asking, inside, waiting>>

Broadcast == Notify(waiting)

\* Waiters return from their sleep and ask for the mutex: because of a
\* notification, or for no reason.
Release(S) ==
  /\ S \subseteq waiting
  /\ Lock!Ask(S)
  /\ waiting' = waiting \ S
  /\ due' = due \ S
  /\ UNCHANGED inside

Return(t) ==
  /\ t \in inside \ waiting
  /\ owner = {t}
  /\ inside' = inside \ {t}
  /\ UNCHANGED <<owner, asking, waiting, due>>

Next ==
  \/ \E t \in Threads : Ask(t) \/ Acquire(t) \/ Unlock(t) \/ Wait(t) \/ Return(t)
  \/ \E S \in SUBSET Threads : Notify(S) \/ Release(S)

Spec == Init /\ [][Next]_condVars

=============================================================================
