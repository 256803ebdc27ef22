------------------------------- MODULE Mutex -------------------------------
(***************************************************************************)
(* What a fastsync mutex promises to its callers (fastsync.h, "Lock a      *)
(* fastsync mutex; block if lock not acquired in the normal lock version;  *)
(* return immediately in trylock version"): at most one thread owns it,    *)
(* only the owner releases it, and it is granted only to a thread that     *)
(* asked for it.  No queue, no word, no kernel.                            *)
(***************************************************************************)

CONSTANT Threads

VARIABLES owner,     \* the set holding the owner; empty when the mutex is free
          asking     \* the threads inside a blocking lock call

lockVars == <<owner, asking>>

Init == owner = {} /\ asking = {}

\* Threads enter a blocking lock call.  Several do in one step when a
\* broadcast moves the waiters of a condition variable to the mutex.
Ask(S) ==
  /\ S # {}
  /\ S \cap (asking \cup owner) = {}
  /\ asking' = asking \cup S
  /\ UNCHANGED owner

\* The mutex is granted to one of the threads that asked.
Acquire(t) ==
  /\ owner = {}
  /\ t \in asking
  /\ owner' = {t}
  /\ asking' = asking \ {t}

\* A trylock that succeeds: granted without having asked.
TryAcquire(t) ==
  /\ owner = {}
  /\ t \notin asking
  /\ owner' = {t}
  /\ UNCHANGED asking

Release(t) ==
  /\ owner = {t}
  /\ owner' = {}
  /\ UNCHANGED asking

Next ==
  \/ \E S \in SUBSET Threads : Ask(S)
  \/ \E t \in Threads : Acquire(t) \/ TryAcquire(t) \/ Release(t)

Spec == Init /\ [][Next]_lockVars

=============================================================================
