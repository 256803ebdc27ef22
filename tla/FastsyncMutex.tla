--------------------------- MODULE FastsyncMutex ---------------------------
(***************************************************************************)
(* The futex mutex of src/fastsync/fastsync_mutex.c: one mutex, a set of   *)
(* threads, one action per atomic instruction or system call.  The steps   *)
(* between two accesses to shared memory are merged with the access that   *)
(* precedes them.                                                          *)
(*                                                                         *)
(* The two ways in which a condition variable hands its waiters to the     *)
(* mutex (fastsync_cond.c: the re-acquire loop of a waiter, and            *)
(* FUTEX_REQUEUE) are actions of this module too, so that what is said of  *)
(* the mutex here stays true when FastsyncCond drives it.                  *)
(***************************************************************************)
EXTENDS Naturals, Futex

CONSTANTS Threads,    \* the threads that use the mutex
          SpinLoops   \* FASTSYNC_MUTEX_SPIN_LOCK_LOOPS, a tunable of the code

ASSUME SpinLoopsAssumption == SpinLoops \in Nat

VARIABLES state,      \* mutex->state, two bits: 1 locked, 2 contended
          pc,         \* where each thread stands in the mutex code
          loop        \* the local i of the two spin loops

mutexVars == <<state, pc, loop>>

-----------------------------------------------------------------------------
(* The word.                                                               *)

Locked(s)         == s \in {1, 3}
Contended(s)      == s \in {2, 3}
SetLocked(s)      == IF Locked(s) THEN s ELSE s + 1         \* s | 1
ClearLocked(s)    == IF Locked(s) THEN s - 1 ELSE s         \* s & 0xFFFFFFFE
\* Mutant of ClearContended: a subtraction in place of the and.
SubtractContended(s) == s - 2
ClearContended(s) == IF Contended(s) THEN s - 2 ELSE s      \* s & 0xFFFFFFFD

(* Where a thread can be: outside the mutex code and not the owner         *)
(* ("idle"), on its way into fastsync_mutex_lock, the owner ("cs"), or in  *)
(* fastsync_mutex_unlock, before or after the release.                     *)
LockLabels    == {"l_spin", "l_xchg", "l_futex", "l_sleep"}
OwnerLabels   == {"cs", "u_cas", "u_and"}
ReleaseLabels == {"u_check", "u_clear", "u_wake"}
Labels        == {"idle"} \cup LockLabels \cup OwnerLabels \cup ReleaseLabels

Owns(t)  == pc[t] \in OwnerLabels
Sleepers == {t \in Threads : pc[t] = "l_sleep"}

Goto(t, label) == pc' = [pc EXCEPT ![t] = label]

Init ==
  /\ state = 0
  /\ pc = [t \in Threads |-> "idle"]
  /\ loop = [t \in Threads |-> 0]

-----------------------------------------------------------------------------
(* fastsync_mutex_lock and fastsync_mutex_trylock.                         *)

\* The call: fetch-and-or at most SpinLoops times before blocking.
LockCall(t) ==
  /\ pc[t] = "idle"
  /\ Goto(t, IF SpinLoops > 0 THEN "l_spin" ELSE "l_xchg")
  /\ UNCHANGED <<state, loop>>

\* locked = atomic_for(&state, 1) & 1
LockSpin(t) ==
  /\ pc[t] = "l_spin"
  /\ state' = SetLocked(state)
  /\ \/ /\ ~Locked(state)
        /\ Goto(t, "cs")
        /\ loop' = [loop EXCEPT ![t] = 0]
     \/ /\ Locked(state)
        /\ loop[t] + 1 < SpinLoops
        /\ loop' = [loop EXCEPT ![t] = @ + 1]
        /\ UNCHANGED pc
     \/ /\ Locked(state)
        /\ loop[t] + 1 >= SpinLoops
        /\ Goto(t, "l_xchg")
        /\ loop' = [loop EXCEPT ![t] = 0]

\* Mutant of LockXchg: a resumed thread takes the free lock as uncontended.
LockXchgUncontended(t) ==
  /\ pc[t] = "l_xchg"
  /\ state' = IF Locked(state) THEN 3 ELSE 1
  /\ Goto(t, IF Locked(state) THEN "l_futex" ELSE "cs")
  /\ UNCHANGED loop

\* while(atomic_xchg(&state, 3) & 1)
LockXchg(t) ==
  /\ pc[t] = "l_xchg"
  /\ state' = 3
  /\ Goto(t, IF Locked(state) THEN "l_futex" ELSE "cs")
  /\ UNCHANGED loop

\* sys_futex(&state, FUTEX_WAIT_PRIVATE, 3)
LockFutexWait(t) ==
  /\ pc[t] = "l_futex"
  /\ Goto(t, IF WaitBlocks(state, 3) THEN "l_sleep" ELSE "l_xchg")
  /\ UNCHANGED <<state, loop>>

\* FUTEX_WAIT returns without a wake-up; the code goes round its loop.
FutexInterrupt(t) ==
  /\ pc[t] = "l_sleep"
  /\ Goto(t, "l_xchg")
  /\ UNCHANGED <<state, loop>>

\* Mutant of TryLock: the result of the fetch-and-or is tested with the wrong bit.
TryLockWrongBit(t) ==
  /\ pc[t] = "idle"
  /\ state' = SetLocked(state)
  /\ Goto(t, IF Contended(state) THEN "idle" ELSE "cs")
  /\ UNCHANGED loop

\* The same fetch-and-or as the lock; EBUSY leaves the word as it was.
TryLock(t) ==
  /\ pc[t] = "idle"
  /\ state' = SetLocked(state)
  /\ Goto(t, IF Locked(state) THEN "idle" ELSE "cs")
  /\ UNCHANGED loop

-----------------------------------------------------------------------------
(* fastsync_mutex_unlock.                                                  *)

\* The call and its plain read of the word: state == 1 ?
UnlockRead(t) ==
  /\ pc[t] = "cs"
  /\ Goto(t, IF state = 1 THEN "u_cas" ELSE "u_and")
  /\ UNCHANGED <<state, loop>>

\* Mutant of UnlockCas: the fast path stores 0 instead of comparing first.
UnlockStore(t) ==
  /\ pc[t] = "u_cas"
  /\ state' = 0
  /\ Goto(t, "idle")
  /\ UNCHANGED loop

\* atomic_cmpxchg(&state, 1, 0) == 1
UnlockCas(t) ==
  /\ pc[t] = "u_cas"
  /\ \/ state = 1 /\ state' = 0 /\ Goto(t, "idle")
     \/ state # 1 /\ UNCHANGED state /\ Goto(t, "u_and")
  /\ UNCHANGED loop

\* atomic_fand(&state, 0xFFFFFFFE): the lock is free from here on.
UnlockAnd(t) ==
  /\ pc[t] = "u_and"
  /\ state' = ClearLocked(state)
  /\ Goto(t, IF SpinLoops > 0 THEN "u_check" ELSE "u_clear")
  /\ UNCHANGED loop

\* Wake-up throttling: return without a wake-up if somebody took the lock.
UnlockCheck(t) ==
  /\ pc[t] = "u_check"
  /\ \/ /\ Locked(state)
        /\ Goto(t, "idle")
        /\ loop' = [loop EXCEPT ![t] = 0]
     \/ /\ ~Locked(state)
        /\ loop[t] + 1 < SpinLoops
        /\ loop' = [loop EXCEPT ![t] = @ + 1]
        /\ UNCHANGED pc
     \/ /\ ~Locked(state)
        /\ loop[t] + 1 >= SpinLoops
        /\ Goto(t, "u_clear")
        /\ loop' = [loop EXCEPT ![t] = 0]
  /\ UNCHANGED state

\* Mutant of UnlockClear: the mask clears both bits (0xFFFFFFFC).
UnlockClearBoth(t) ==
  /\ pc[t] = "u_clear"
  /\ state' = 0
  /\ Goto(t, "u_wake")
  /\ UNCHANGED loop

\* atomic_fand(&state, 0xFFFFFFFD): "will be set by newly waken thread"
UnlockClear(t) ==
  /\ pc[t] = "u_clear"
  /\ state' = ClearContended(state)
  /\ Goto(t, "u_wake")
  /\ UNCHANGED loop

\* sys_futex(&state, FUTEX_WAKE_PRIVATE, 1)
UnlockWake(t) ==
  /\ pc[t] = "u_wake"
  /\ \E woken \in WakeOne(Sleepers) :
       pc' = [u \in Threads |-> IF u = t THEN "idle"
                                ELSE IF u \in woken THEN "l_xchg"
                                ELSE pc[u]]
  /\ UNCHANGED <<state, loop>>

-----------------------------------------------------------------------------
(* How a condition variable enters the mutex (fastsync_cond.c).            *)

\* A waiter that left the condition variable's futex takes the mutex back.
\* It enters the xchg loop directly: it does not spin first.
Relock(t) ==
  /\ pc[t] = "idle"
  /\ Goto(t, "l_xchg")
  /\ UNCHANGED <<state, loop>>

\* FUTEX_REQUEUE from the condition variable's word to the mutex's: of the
\* waiters S one resumes, and takes the mutex back, and the others are now
\* suspended on the mutex word, whatever that word holds.
Requeue(S) ==
  /\ \A t \in S : pc[t] = "idle"
  /\ \E woken \in WakeOne(S) :
       pc' = [u \in Threads |-> IF u \in woken THEN "l_xchg"
                                ELSE IF u \in S THEN "l_sleep"
                                ELSE pc[u]]
  /\ UNCHANGED <<state, loop>>

-----------------------------------------------------------------------------
\* The steps a thread takes on its own once it is inside the code.
LockStep(t)   == LockSpin(t) \/ LockXchg(t) \/ LockFutexWait(t)
UnlockStep(t) == \/ UnlockCas(t) \/ UnlockAnd(t) \/ UnlockCheck(t)
                 \/ UnlockClear(t) \/ UnlockWake(t)

Next ==
  \/ \E t \in Threads :
       \/ LockCall(t) \/ TryLock(t) \/ LockStep(t) \/ FutexInterrupt(t)
       \/ UnlockRead(t) \/ UnlockStep(t)
       \/ Relock(t)
  \/ \E S \in SUBSET Threads : Requeue(S)

Spec == Init /\ [][Next]_mutexVars

(* The scheduler runs every runnable thread and a critical section ends.   *)
(* Nothing makes a thread call lock, nothing orders the lock's contenders, *)
(* and no wake-up comes that the code does not issue.                      *)
Fairness == \A t \in Threads :
              WF_mutexVars(LockStep(t) \/ UnlockRead(t) \/ UnlockStep(t))

FairSpec == Spec /\ Fairness

-----------------------------------------------------------------------------
(* Properties.                                                             *)

\* Types: the word keeps to its two bits, and a loop counter runs only in
\* the two loops that use it.
TypeOK ==
  /\ state \in 0..3
  /\ pc \in [Threads -> Labels]
  /\ loop \in [Threads -> Nat]

\* fastsync_mutex_lock and trylock: at most one thread owns the mutex, and
\* bit 0 of the word is set exactly while a thread owns it.  The unlocker's
\* late clean-up of the contended bit must never disturb a new owner's bit.
MutualExclusion ==
  /\ \A t, u \in Threads : Owns(t) /\ Owns(u) => t = u
  /\ Locked(state) <=> \E t \in Threads : Owns(t)

\* fastsync_mutex_unlock: a thread suspended on the mutex is never
\* forgotten.  While somebody sleeps, either the owner is bound to see the
\* contended bit, or an unlocker that saw it has its wake-up still to issue,
\* or a resumed thread is about to set the bit again.
WakeupPending ==
  \/ state = 3
  \/ state = 2 /\ \E t \in Threads : pc[t] \in {"u_check", "u_clear"}
  \/ \E t \in Threads : pc[t] \in {"u_wake", "l_xchg"}

NoLostWakeup == Sleepers # {} => WakeupPending

\* fastsync_mutex_lock: whenever some thread is inside a lock call, some
\* thread comes to own the mutex (which one is left to the race).
LockProgress == (\E t \in Threads : pc[t] \in LockLabels)
                  ~> (\E t \in Threads : pc[t] = "cs")

\* fastsync_mutex.c implements the abstract mutex.
Owners == {t \in Threads : Owns(t)}
Asking == {t \in Threads : pc[t] \in LockLabels}

Lock == INSTANCE Mutex WITH owner <- Owners, asking <- Asking

ImplementsMutex == Lock!Spec

=============================================================================
