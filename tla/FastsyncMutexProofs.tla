------------------------ MODULE FastsyncMutexProofs ------------------------
(***************************************************************************)
(* What is proved of the fastsync mutex, for every set of threads and      *)
(* every value of FASTSYNC_MUTEX_SPIN_LOCK_LOOPS.                          *)
(*                                                                         *)
(* Each invariant is shown to be preserved by one thread's step and by a   *)
(* requeue; the step lemmas are stated without the specification so that a *)
(* module that drives the mutex can cite them.                             *)
(***************************************************************************)
EXTENDS FastsyncMutex, TLAPS

\* One thread's step, in the mutex code or as the caller of it.
ThreadStep(t) ==
  \/ LockCall(t) \/ TryLock(t) \/ LockStep(t) \/ FutexInterrupt(t)
  \/ UnlockRead(t) \/ UnlockStep(t)
  \/ Relock(t)

\* Every operation on the word keeps it within its two bits.
LEMMA WordOps ==
  ASSUME NEW s \in 0..3
  PROVE  /\ SetLocked(s) \in 0..3 /\ Locked(SetLocked(s))
         /\ Contended(SetLocked(s)) <=> Contended(s)
         /\ ClearLocked(s) \in 0..3 /\ ~Locked(ClearLocked(s))
         /\ Contended(ClearLocked(s)) <=> Contended(s)
         /\ ClearContended(s) \in 0..3 /\ ~Contended(ClearContended(s))
         /\ Locked(ClearContended(s)) <=> Locked(s)
BY DEF SetLocked, ClearLocked, ClearContended, Locked, Contended

\* The wake-up resumes a thread of the queue, and one if there is any.
LEMMA WakeOneWakes ==
  ASSUME NEW Q, NEW W \in WakeOne(Q)
  PROVE  W \subseteq Q /\ (Q # {} => W # {})
BY DEF WakeOne

-----------------------------------------------------------------------------

\* Types, after a step of one thread.
LEMMA TypeThreadStep ==
  ASSUME TypeOK, NEW t \in Threads, ThreadStep(t)
  PROVE  TypeOK'
<1> USE SpinLoopsAssumption DEF TypeOK, Labels, LockLabels, OwnerLabels, ReleaseLabels, Goto
<1>1. CASE LockCall(t)       BY <1>1 DEF LockCall
<1>2. CASE TryLock(t)        BY <1>2, WordOps DEF TryLock
<1>3. CASE LockSpin(t)       BY <1>3, WordOps DEF LockSpin
<1>4. CASE LockXchg(t)       BY <1>4 DEF LockXchg
<1>5. CASE LockFutexWait(t)  BY <1>5 DEF LockFutexWait
<1>6. CASE FutexInterrupt(t) BY <1>6 DEF FutexInterrupt
<1>7. CASE UnlockRead(t)     BY <1>7 DEF UnlockRead
<1>8. CASE UnlockCas(t)      BY <1>8 DEF UnlockCas
<1>9. CASE UnlockAnd(t)      BY <1>9, WordOps DEF UnlockAnd
<1>10. CASE UnlockCheck(t)   BY <1>10 DEF UnlockCheck
<1>11. CASE UnlockClear(t)   BY <1>11, WordOps DEF UnlockClear
<1>12. CASE UnlockWake(t)    BY <1>12 DEF UnlockWake
<1>13. CASE Relock(t)        BY <1>13 DEF Relock
<1> QED BY <1>1, <1>2, <1>3, <1>4, <1>5, <1>6, <1>7, <1>8, <1>9, <1>10, <1>11,
           <1>12, <1>13 DEF ThreadStep, LockStep, UnlockStep

\* Types, after a requeue.
LEMMA TypeRequeue ==
  ASSUME TypeOK, NEW S \in SUBSET Threads, Requeue(S)
  PROVE  TypeOK'
BY DEF TypeOK, Requeue, Labels, LockLabels, OwnerLabels, ReleaseLabels

\* Type correctness of the mutex.
THEOREM TypeCorrect == Spec => []TypeOK
<1>1. Init => TypeOK
  BY DEF Init, TypeOK, Labels
<1>2. TypeOK /\ [Next]_mutexVars => TypeOK'
  <2> SUFFICES ASSUME TypeOK, [Next]_mutexVars PROVE TypeOK'
    OBVIOUS
  <2>1. CASE Next
    BY <2>1, TypeThreadStep, TypeRequeue DEF Next, ThreadStep
  <2>2. CASE UNCHANGED mutexVars
    BY <2>2 DEF mutexVars, TypeOK
  <2> QED BY <2>1, <2>2
<1> QED BY <1>1, <1>2, PTL DEF Spec

-----------------------------------------------------------------------------
(* Mutual exclusion.  MutualExclusion is inductive together with TypeOK:   *)
(* bit 0 goes up only in a step that finds it down and makes its thread    *)
(* the owner, and comes down only in the owner's own release; the clean-up *)
(* after the release touches bit 1 alone.                                  *)

\* A step that leaves the lock bit alone and moves no thread into or out of
\* the owner's code keeps mutual exclusion.
LEMMA SameOwners ==
  ASSUME MutualExclusion, Locked(state)' <=> Locked(state),
         \A u \in Threads : Owns(u)' <=> Owns(u)
  PROVE  MutualExclusion'
BY DEF MutualExclusion

\* A step in which a thread takes the free lock.
LEMMA NewOwner ==
  ASSUME MutualExclusion, NEW t \in Threads, ~Locked(state), Locked(state)', Owns(t)',
         \A u \in Threads \ {t} : Owns(u)' <=> Owns(u)
  PROVE  MutualExclusion'
BY DEF MutualExclusion

\* A step in which the owner frees the lock.
LEMMA OwnerLeaves ==
  ASSUME MutualExclusion, NEW t \in Threads, Owns(t), ~Locked(state)', ~Owns(t)',
         \A u \in Threads \ {t} : Owns(u)' <=> Owns(u)
  PROVE  MutualExclusion'
BY DEF MutualExclusion

\* One owner, after a step of one thread.
LEMMA ExclusionThreadStep ==
  ASSUME TypeOK, MutualExclusion, NEW t \in Threads, ThreadStep(t)
  PROVE  MutualExclusion'
<1> USE DEF TypeOK, Owns, OwnerLabels, Goto
<1>1. CASE LockCall(t)       BY <1>1, SameOwners DEF LockCall
<1>2. CASE TryLock(t)
  <2>1. CASE Locked(state)   BY <1>2, <2>1, WordOps, SameOwners DEF TryLock
  <2>2. CASE ~Locked(state)  BY <1>2, <2>2, WordOps, NewOwner DEF TryLock
  <2> QED BY <2>1, <2>2
<1>3. CASE LockSpin(t)
  <2>1. CASE Locked(state)   BY <1>3, <2>1, WordOps, SameOwners DEF LockSpin
  <2>2. CASE ~Locked(state)  BY <1>3, <2>2, WordOps, NewOwner DEF LockSpin
  <2> QED BY <2>1, <2>2
<1>4. CASE LockXchg(t)
  <2>1. CASE Locked(state)   BY <1>4, <2>1, SameOwners DEF LockXchg, Locked
  <2>2. CASE ~Locked(state)  BY <1>4, <2>2, NewOwner DEF LockXchg, Locked
  <2> QED BY <2>1, <2>2
<1>5. CASE LockFutexWait(t)  BY <1>5, SameOwners DEF LockFutexWait
<1>6. CASE FutexInterrupt(t) BY <1>6, SameOwners DEF FutexInterrupt
<1>7. CASE UnlockRead(t)     BY <1>7, SameOwners DEF UnlockRead
<1>8. CASE UnlockCas(t)
  <2>1. CASE state = 1       BY <1>8, <2>1, OwnerLeaves DEF UnlockCas, Locked
  <2>2. CASE state # 1       BY <1>8, <2>2, SameOwners DEF UnlockCas
  <2> QED BY <2>1, <2>2
<1>9. CASE UnlockAnd(t)      BY <1>9, WordOps, OwnerLeaves DEF UnlockAnd
<1>10. CASE UnlockCheck(t)   BY <1>10, SameOwners DEF UnlockCheck
<1>11. CASE UnlockClear(t)   BY <1>11, WordOps, SameOwners DEF UnlockClear
<1>12. CASE UnlockWake(t)
  <2> PICK W \in WakeOne(Sleepers) :
        pc' = [u \in Threads |-> IF u = t THEN "idle"
                                 ELSE IF u \in W THEN "l_xchg" ELSE pc[u]]
    BY <1>12 DEF UnlockWake
  <2> QED BY <1>12, WakeOneWakes, SameOwners DEF UnlockWake, Sleepers
<1>13. CASE Relock(t)        BY <1>13, SameOwners DEF Relock
<1> QED BY <1>1, <1>2, <1>3, <1>4, <1>5, <1>6, <1>7, <1>8, <1>9, <1>10, <1>11,
           <1>12, <1>13 DEF ThreadStep, LockStep, UnlockStep

\* One owner, after a requeue.
LEMMA ExclusionRequeue ==
  ASSUME TypeOK, MutualExclusion, NEW S \in SUBSET Threads, Requeue(S)
  PROVE  MutualExclusion'
<1> PICK W \in WakeOne(S) :
      pc' = [u \in Threads |-> IF u \in W THEN "l_xchg"
                               ELSE IF u \in S THEN "l_sleep" ELSE pc[u]]
  BY DEF Requeue
<1> QED BY WakeOneWakes, SameOwners DEF TypeOK, Requeue, Owns, OwnerLabels

\* fastsync_mutex_lock: at most one thread owns the mutex, and the lock bit
\* of the word tells whether one does.
THEOREM MutualExclusionHolds == Spec => []MutualExclusion
<1>1. Init => MutualExclusion
  BY DEF Init, MutualExclusion, Locked, Owns, OwnerLabels
<1>2. TypeOK /\ MutualExclusion /\ [Next]_mutexVars => MutualExclusion'
  <2> SUFFICES ASSUME TypeOK, MutualExclusion, [Next]_mutexVars PROVE MutualExclusion'
    OBVIOUS
  <2>1. CASE Next
    BY <2>1, ExclusionThreadStep, ExclusionRequeue DEF Next, ThreadStep
  <2>2. CASE UNCHANGED mutexVars
    BY <2>2 DEF mutexVars, MutualExclusion, Locked, Owns
  <2> QED BY <2>1, <2>2
<1> QED BY <1>1, <1>2, TypeCorrect, PTL DEF Spec

-----------------------------------------------------------------------------
(* No lost wake-up.  Inductive with TypeOK alone: it does not depend on    *)
(* who owns the mutex.                                                     *)

\* A step after which some thread is bound to set the contended bit, or has
\* a wake-up to issue.
LEMMA WakeupInHand ==
  ASSUME NEW t \in Threads, pc'[t] \in {"u_wake", "l_xchg"}
  PROVE  NoLostWakeup'
BY DEF NoLostWakeup, WakeupPending

\* A step of one thread that adds no sleeper, leaves the word alone and does
\* not end that thread's part in a wake-up.
LEMMA WakeupKept ==
  ASSUME NoLostWakeup, UNCHANGED state, NEW t \in Threads,
         \A u \in Threads \ {t} : pc'[u] = pc[u],
         pc[t] \notin {"u_check", "u_clear", "u_wake", "l_xchg"},
         pc'[t] # "l_sleep"
  PROVE  NoLostWakeup'
BY DEF NoLostWakeup, WakeupPending, Sleepers

\* A sleeper is remembered, after a step of one thread.
LEMMA WakeupThreadStep ==
  ASSUME TypeOK, NoLostWakeup, NEW t \in Threads, ThreadStep(t)
  PROVE  NoLostWakeup'
<1> USE DEF TypeOK, Goto
<1>1. CASE LockCall(t)       BY <1>1, WakeupKept DEF LockCall
<1>2. CASE TryLock(t)
  BY <1>2 DEF TryLock, NoLostWakeup, WakeupPending, Sleepers, SetLocked, Locked
<1>3. CASE LockSpin(t)
  BY <1>3 DEF LockSpin, NoLostWakeup, WakeupPending, Sleepers, SetLocked, Locked
<1>4. CASE LockXchg(t)       BY <1>4 DEF LockXchg, NoLostWakeup, WakeupPending
<1>5. CASE LockFutexWait(t)
  <2>1. CASE state = 3
    BY <1>5, <2>1 DEF LockFutexWait, NoLostWakeup, WakeupPending
  <2>2. CASE state # 3
    BY <1>5, <2>2, WakeupInHand DEF LockFutexWait, WaitBlocks
  <2> QED BY <2>1, <2>2
<1>6. CASE FutexInterrupt(t) BY <1>6, WakeupInHand DEF FutexInterrupt
<1>7. CASE UnlockRead(t)     BY <1>7, WakeupKept DEF UnlockRead
<1>8. CASE UnlockCas(t)
  BY <1>8 DEF UnlockCas, NoLostWakeup, WakeupPending, Sleepers
<1>9. CASE UnlockAnd(t)
  <2>1. CASE state \in {2, 3}
    <3>1. state' = 2 /\ pc'[t] \in {"u_check", "u_clear"}
      BY <1>9, <2>1 DEF UnlockAnd, ClearLocked, Locked
    <3> QED BY <3>1 DEF NoLostWakeup, WakeupPending
  <2>2. CASE state \in {0, 1}
    BY <1>9, <2>2 DEF UnlockAnd, NoLostWakeup, WakeupPending, Sleepers
  <2> QED BY <2>1, <2>2
<1>10. CASE UnlockCheck(t)
  BY <1>10 DEF UnlockCheck, NoLostWakeup, WakeupPending, Sleepers, Locked
<1>11. CASE UnlockClear(t)   BY <1>11, WakeupInHand DEF UnlockClear
<1>12. CASE UnlockWake(t)
  <2> PICK W \in WakeOne(Sleepers) :
        pc' = [u \in Threads |-> IF u = t THEN "idle"
                                 ELSE IF u \in W THEN "l_xchg" ELSE pc[u]]
    BY <1>12 DEF UnlockWake
  <2>1. Sleepers' \subseteq Sleepers
    BY DEF Sleepers
  <2>2. CASE Sleepers = {}
    BY <2>1, <2>2 DEF NoLostWakeup
  <2>3. CASE Sleepers # {}
    <3>1. PICK u \in W : u \in Sleepers
      BY <2>3, WakeOneWakes
    <3>2. pc'[u] = "l_xchg" /\ u \in Threads
      BY <1>12, <3>1 DEF UnlockWake, Sleepers
    <3> QED BY <3>2, WakeupInHand
  <2> QED BY <2>2, <2>3
<1>13. CASE Relock(t)        BY <1>13, WakeupInHand DEF Relock
<1> QED BY <1>1, <1>2, <1>3, <1>4, <1>5, <1>6, <1>7, <1>8, <1>9, <1>10, <1>11,
           <1>12, <1>13 DEF ThreadStep, LockStep, UnlockStep

\* A sleeper is remembered, after a requeue.
LEMMA WakeupRequeue ==
  ASSUME TypeOK, NoLostWakeup, NEW S \in SUBSET Threads, Requeue(S)
  PROVE  NoLostWakeup'
<1> PICK W \in WakeOne(S) :
      pc' = [u \in Threads |-> IF u \in W THEN "l_xchg"
                               ELSE IF u \in S THEN "l_sleep" ELSE pc[u]]
  BY DEF Requeue
<1>1. CASE S = {}
  <2>1. \A u \in Threads : pc'[u] = pc[u]
    BY <1>1, WakeOneWakes
  <2> QED BY <2>1 DEF Requeue, NoLostWakeup, WakeupPending, Sleepers
<1>2. CASE S # {}
  <2>1. PICK u \in W : u \in S
    BY <1>2, WakeOneWakes
  <2> QED BY <2>1, WakeupInHand
<1> QED BY <1>1, <1>2

\* fastsync_mutex_unlock: no thread is left suspended on the mutex without a
\* wake-up pending, whatever its throttling and its late clean-up of the
\* contended bit skip, and whatever a condition variable requeues.
THEOREM NoLostWakeupHolds == Spec => []NoLostWakeup
<1>1. Init => NoLostWakeup
  BY DEF Init, NoLostWakeup, Sleepers
<1>2. TypeOK /\ NoLostWakeup /\ [Next]_mutexVars => NoLostWakeup'
  <2> SUFFICES ASSUME TypeOK, NoLostWakeup, [Next]_mutexVars PROVE NoLostWakeup'
    OBVIOUS
  <2>1. CASE Next
    BY <2>1, WakeupThreadStep, WakeupRequeue DEF Next, ThreadStep
  <2>2. CASE UNCHANGED mutexVars
    BY <2>2 DEF mutexVars, NoLostWakeup, WakeupPending, Sleepers
  <2> QED BY <2>1, <2>2
<1> QED BY <1>1, <1>2, TypeCorrect, PTL DEF Spec

-----------------------------------------------------------------------------
(* The refinement of Mutex.                                                *)

\* A step of one thread is a step of Mutex, or none.
LEMMA RefinesThreadStep ==
  ASSUME TypeOK, MutualExclusion, NEW t \in Threads, ThreadStep(t)
  PROVE  [Lock!Next]_(Lock!lockVars)
<1> USE DEF TypeOK, Goto, Owners, Asking, Owns, OwnerLabels, LockLabels
<1>a. ~Locked(state) => Owners = {}
  BY DEF MutualExclusion
<1>b. Owns(t) => Owners = {t}
  BY DEF MutualExclusion
<1>1. CASE LockCall(t)
  <2>1. Lock!Ask({t})  BY <1>1 DEF LockCall, Lock!Ask
  <2> QED BY <2>1 DEF Lock!Next
<1>2. CASE TryLock(t)
  <2>1. CASE Locked(state)
    BY <1>2, <2>1 DEF TryLock, Lock!lockVars
  <2>2. CASE ~Locked(state)
    <3>1. Lock!TryAcquire(t)  BY <1>2, <1>a, <2>2 DEF TryLock, Lock!TryAcquire
    <3> QED BY <3>1 DEF Lock!Next
  <2> QED BY <2>1, <2>2
<1>3. CASE LockSpin(t)
  <2>1. CASE Locked(state)
    BY <1>3, <2>1 DEF LockSpin, Lock!lockVars
  <2>2. CASE ~Locked(state)
    <3>1. Lock!Acquire(t)  BY <1>3, <1>a, <2>2 DEF LockSpin, Lock!Acquire
    <3> QED BY <3>1 DEF Lock!Next
  <2> QED BY <2>1, <2>2
<1>4. CASE LockXchg(t)
  <2>1. CASE Locked(state)
    BY <1>4, <2>1 DEF LockXchg, Lock!lockVars
  <2>2. CASE ~Locked(state)
    <3>1. Lock!Acquire(t)  BY <1>4, <1>a, <2>2 DEF LockXchg, Lock!Acquire
    <3> QED BY <3>1 DEF Lock!Next
  <2> QED BY <2>1, <2>2
<1>5. CASE LockFutexWait(t)  BY <1>5 DEF LockFutexWait, Lock!lockVars
<1>6. CASE FutexInterrupt(t) BY <1>6 DEF FutexInterrupt, Lock!lockVars
<1>7. CASE UnlockRead(t)     BY <1>7 DEF UnlockRead, Lock!lockVars
<1>8. CASE UnlockCas(t)
  <2>1. CASE state = 1
    <3>1. Lock!Release(t)  BY <1>8, <1>b, <2>1 DEF UnlockCas, Lock!Release
    <3> QED BY <3>1 DEF Lock!Next
  <2>2. CASE state # 1
    BY <1>8, <2>2 DEF UnlockCas, Lock!lockVars
  <2> QED BY <2>1, <2>2
<1>9. CASE UnlockAnd(t)
  <2>1. Lock!Release(t)  BY <1>9, <1>b DEF UnlockAnd, Lock!Release
  <2> QED BY <2>1 DEF Lock!Next
<1>10. CASE UnlockCheck(t)   BY <1>10 DEF UnlockCheck, Lock!lockVars
<1>11. CASE UnlockClear(t)   BY <1>11 DEF UnlockClear, Lock!lockVars
<1>12. CASE UnlockWake(t)
  <2> PICK W \in WakeOne(Sleepers) :
        pc' = [u \in Threads |-> IF u = t THEN "idle"
                                 ELSE IF u \in W THEN "l_xchg" ELSE pc[u]]
    BY <1>12 DEF UnlockWake
  <2>1. Owners' = Owners /\ Asking' = Asking
    BY <1>12, WakeOneWakes DEF UnlockWake, Sleepers
  <2> QED BY <2>1 DEF Lock!lockVars
<1>13. CASE Relock(t)
  <2>1. Lock!Ask({t})  BY <1>13 DEF Relock, Lock!Ask
  <2> QED BY <2>1 DEF Lock!Next
<1> QED BY <1>1, <1>2, <1>3, <1>4, <1>5, <1>6, <1>7, <1>8, <1>9, <1>10, <1>11,
           <1>12, <1>13 DEF ThreadStep, LockStep, UnlockStep

\* A requeue is a step of Mutex.
LEMMA RefinesRequeue ==
  ASSUME TypeOK, NEW S \in SUBSET Threads, Requeue(S)
  PROVE  [Lock!Next]_(Lock!lockVars)
<1> USE DEF TypeOK, Owners, Asking, Owns, OwnerLabels, LockLabels
<1> PICK W \in WakeOne(S) :
      pc' = [u \in Threads |-> IF u \in W THEN "l_xchg"
                               ELSE IF u \in S THEN "l_sleep" ELSE pc[u]]
  BY DEF Requeue
<1>1. W \subseteq S
  BY WakeOneWakes
<1>2. Owners' = Owners /\ Asking' = Asking \cup S /\ S \cap (Asking \cup Owners) = {}
  BY <1>1 DEF Requeue
<1>3. CASE S = {}
  BY <1>2, <1>3 DEF Lock!lockVars
<1>4. CASE S # {}
  BY <1>2, <1>4 DEF Lock!Ask, Lock!Next
<1> QED BY <1>3, <1>4

\* fastsync_mutex.c implements the abstract mutex: every step of a lock, a
\* trylock, an unlock or a hand-over by a condition variable is one step of
\* Mutex or changes nothing there.
THEOREM FastsyncMutexRefinesMutex == Spec => ImplementsMutex
<1>1. Init => Lock!Init
  BY DEF Init, Lock!Init, Owners, Asking, Owns, OwnerLabels, LockLabels
<1>2. TypeOK /\ MutualExclusion /\ [Next]_mutexVars => [Lock!Next]_(Lock!lockVars)
  <2> SUFFICES ASSUME TypeOK, MutualExclusion, [Next]_mutexVars
               PROVE  [Lock!Next]_(Lock!lockVars)
    OBVIOUS
  <2>1. CASE Next
    BY <2>1, RefinesThreadStep, RefinesRequeue DEF Next, ThreadStep
  <2>2. CASE UNCHANGED mutexVars
    BY <2>2 DEF mutexVars, Lock!lockVars, Owners, Asking, Owns
  <2> QED BY <2>1, <2>2
<1> QED BY <1>1, <1>2, TypeCorrect, MutualExclusionHolds, PTL
        DEF Spec, ImplementsMutex, Lock!Spec

=============================================================================
