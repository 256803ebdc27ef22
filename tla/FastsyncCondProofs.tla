------------------------- MODULE FastsyncCondProofs -------------------------
(***************************************************************************)
(* What is proved of the fastsync condition variable and of the mutex it   *)
(* drives, for every tree of condition variables, every finite set of      *)
(* threads, and any mix of waits, signals, broadcasts and interrupts.      *)
(*                                                                         *)
(* Two things are assumed where they are needed, and named there: that     *)
(* use_child is clear in a new object, which fastsync_cond_init leaves to  *)
(* its caller, and that seq does not wrap.                                 *)
(*                                                                         *)
(* The inductive invariant is built in layers, each of which is inductive  *)
(* on its own and needs nothing of those above it:                         *)
(*   Control    types, the mutex, where a thread is in it                  *)
(*   Exclusive  use_child against the frames of the threads                *)
(*   Climbs     the waiters at a child are represented or notified         *)
(*   Counts     seq against what the waiters have read                     *)
(*   Sleeps     who sleeps has not been notified                           *)
(*   Releases   whom a broadcast must release is on its way                *)
(***************************************************************************)
EXTENDS FastsyncCond, FiniteSetTheorems, SequenceTheorems, TLAPS

MP == INSTANCE FastsyncMutexProofs

(* The parts of the inductive invariant.                                   *)

Waiting(t) == cpc[t] \in {"w_unlock", "w_sleep"}
Plain(t)   == cpc[t] \in {"w_frame", "w_seq"} \cup ReleaseLabels

\* Where a thread is in the mutex while it is in a wait or a notification.
Place(t) ==
  /\ Plain(t) => pc[t] = "cs"
  /\ cpc[t] = "w_unlock" => pc[t] \in {"cs", "u_cas", "u_and", "idle"} \cup M!ReleaseLabels
  /\ cpc[t] = "w_sleep" => pc[t] = "idle"
  /\ cpc[t] = "w_lock" => pc[t] \in {"l_xchg", "l_futex", "l_sleep", "cs"}
  /\ cpc[t] \in NotifyLabels => pc[t] \in {"cs", "idle"} /\ Len(stack[t]) = 1
Places == \A t \in Threads : Place(t)

\* No thread represents an object twice.  Below(s) are the objects whose
\* calls wait for the innermost call of the stack s.
Below(s)    == {s[i] : i \in 2..Len(s)}
Distinct(s) == \A i, j \in 2..Len(s) : s[i] = s[j] => i = j
Frames ==
  \A t \in Threads :
    /\ Distinct(stack[t])
    /\ cpc[t] \in ReleaseLabels => At(t) \notin Below(stack[t])

\* use_child tells whether an object is represented, by one thread.
UseChild ==
  \A c \in Conds : use_child[c] <=> \E t \in Threads : Represents(t, c)
OneRepresents ==
  \A c \in Conds, t, u \in Threads : Represents(t, c) /\ Represents(u, c) => t = u

\* A thread that stays at a child found it represented.
Stays ==
  \A t \in Threads : cpc[t] = "w_seq" => use_child[At(t)] \/ Parent[At(t)] = NoCond

\* The object on whose futex a thread sleeps is bound to its mutex.
Bound ==
  \A t \in Threads : cpc[t] \in {"w_seq", "w_unlock", "w_sleep"} => At(t) \in bound

\* Only waiters are marked as notified.
NotifiedWait == \A t \in notified : t \in Threads /\ Waiting(t)

\* A waiter read no more than seq, and less when it was notified since; the
\* representative that is about to increase seq read no less than the waiters.
ReadBefore ==
  /\ \A t \in Threads : Waiting(t) => /\ cur[t] <= seq[At(t)]
                                      /\ t \in notified => cur[t] < seq[At(t)]
  /\ \A t \in Threads :
       cpc[t] = "r_write" => /\ cur[t] <= seq[At(t)]
                             /\ \A u \in WaitersAt(At(t)) : cur[u] <= cur[t]

\* Every call increases the seq of an object at most once: by itself, or when
\* the wait it made is over, by the thread as the object's representative.
Owes(t, c) ==
  \/ cpc[t] \in WaitLabels
  \/ cpc[t] \in {"r_read", "r_write"} /\ At(t) = c
  \/ c \in Below(stack[t])
Owing(c) == {t \in Threads : Owes(t, c)}
Budget == calls <= MaxCalls /\ \A c \in Conds : seq[c] + Cardinality(Owing(c)) <= calls

\* While the representative of an object climbs, or has released the waiters
\* of the object and still represents it, all of them are notified.
Released ==
  \A t \in Threads :
    /\ cpc[t] \in {"r_requeue", "r_reset"} => WaitersAt(At(t)) \subseteq notified
    /\ cpc[t] \in {"w_frame", "w_seq"} =>
         \A c \in Below(stack[t]) : WaitersAt(c) \subseteq notified

\* None of them sleeps while the representative climbs, or after its requeue.
NoneSleeps ==
  \A t \in Threads :
    /\ cpc[t] = "r_reset" => SleepersAt(At(t)) = {}
    /\ cpc[t] \in {"w_frame", "w_seq"} => \A c \in Below(stack[t]) : SleepersAt(c) = {}

\* Whoever sleeps at a child is represented.
SleepersRepresented ==
  \A t \in Threads : cpc[t] = "w_sleep" /\ Parent[At(t)] # NoCond
                       => \E u \in Threads : Represents(u, At(t))

\* A waiter that a broadcast must release, and that nobody has notified yet,
\* has a representative that is released or on its way.
DueRepresented ==
  /\ due \subseteq Inside
  /\ \A t \in due \ notified :
       Waiting(t) => \E u \in Threads : Represents(u, At(t)) /\ (u \in due \/ ~Waiting(u))

-----------------------------------------------------------------------------
(* Sequences of frames.                                                    *)

\* A frame is pushed.
LEMMA PushIs ==
  ASSUME NEW s \in Seq(Conds), NEW c \in Conds
  PROVE  LET p == <<c>> \o s
         IN /\ p \in Seq(Conds) /\ p # <<>> /\ Len(p) = Len(s) + 1
            /\ p[1] = c /\ Head(p) = c
            /\ \A i \in 2..Len(p) : p[i] = s[i - 1]
OBVIOUS

\* A frame is popped.
LEMMA PopIs ==
  ASSUME NEW s \in Seq(Conds), s # <<>>
  PROVE  /\ Head(s) = s[1] /\ s[1] \in Conds /\ Len(s) \in Nat \ {0}
         /\ Tail(s) \in Seq(Conds) /\ Len(Tail(s)) = Len(s) - 1
         /\ \A i \in 1..Len(Tail(s)) : Tail(s)[i] = s[i + 1]
         /\ Tail(s) = <<>> <=> Len(s) = 1
<1>1. Head(s) = s[1] /\ Len(s) \in Nat \ {0}
  OBVIOUS
<1>2. s[1] \in Conds
  BY <1>1
<1>3. Tail(s) \in Seq(Conds) /\ Len(Tail(s)) = Len(s) - 1
  OBVIOUS
<1>4. \A i \in 1..Len(Tail(s)) : Tail(s)[i] = s[i + 1]
  OBVIOUS
<1>5. Tail(s) = <<>> <=> Len(Tail(s)) = 0
  BY <1>3, EmptySeq
<1> QED BY <1>1, <1>2, <1>3, <1>4, <1>5

-----------------------------------------------------------------------------
(* The mutex.  What FastsyncMutexProofs shows of a step of the mutex holds *)
(* of the steps that the condition variable makes it take.                 *)

MutexInv == M!TypeOK /\ M!MutualExclusion /\ M!NoLostWakeup

\* The two instances of the mutex speak of the same state.
LEMMA SameMutexInv ==
  /\ M!TypeOK <=> MP!TypeOK
  /\ M!MutualExclusion <=> MP!MutualExclusion
  /\ M!NoLostWakeup <=> MP!NoLostWakeup
  /\ M!TypeOK' <=> MP!TypeOK'
  /\ M!MutualExclusion' <=> MP!MutualExclusion'
  /\ M!NoLostWakeup' <=> MP!NoLostWakeup'
<1> USE DEF M!TypeOK, M!Labels, M!LockLabels, M!OwnerLabels, M!ReleaseLabels,
            M!MutualExclusion, M!Owns, M!Locked, M!NoLostWakeup, M!Sleepers,
            M!WakeupPending,
            MP!TypeOK, MP!Labels, MP!LockLabels, MP!OwnerLabels, MP!ReleaseLabels,
            MP!MutualExclusion, MP!Owns, MP!Locked, MP!NoLostWakeup, MP!Sleepers,
            MP!WakeupPending
<1>1. (M!TypeOK <=> MP!TypeOK) /\ (M!TypeOK' <=> MP!TypeOK')
  OBVIOUS
<1>2. (M!MutualExclusion <=> MP!MutualExclusion) /\ (M!MutualExclusion' <=> MP!MutualExclusion')
  OBVIOUS
<1>3. (M!NoLostWakeup <=> MP!NoLostWakeup) /\ (M!NoLostWakeup' <=> MP!NoLostWakeup')
  OBVIOUS
<1> QED BY <1>1, <1>2, <1>3

\* A step of the mutex is one that FastsyncMutexProofs covers.
LEMMA SameSteps ==
  ASSUME NEW t \in Threads
  PROVE  \/ M!LockCall(t) \/ M!LockStep(t) \/ M!FutexInterrupt(t)
         \/ M!UnlockRead(t) \/ M!UnlockStep(t) \/ M!Relock(t)
         => MP!ThreadStep(t)
<1> USE DEF M!Goto, M!Locked, M!SetLocked, M!ClearLocked, M!ClearContended, M!Contended,
            M!Sleepers, M!WaitBlocks, M!WakeOne,
            MP!Goto, MP!Locked, MP!SetLocked, MP!ClearLocked, MP!ClearContended,
            MP!Contended, MP!Sleepers, MP!WaitBlocks, MP!WakeOne
<1>1. M!LockCall(t) => MP!LockCall(t)             BY DEF M!LockCall, MP!LockCall
<1>2. M!LockSpin(t) => MP!LockSpin(t)             BY DEF M!LockSpin, MP!LockSpin
<1>3. M!LockXchg(t) => MP!LockXchg(t)             BY DEF M!LockXchg, MP!LockXchg
<1>4. M!LockFutexWait(t) => MP!LockFutexWait(t)   BY DEF M!LockFutexWait, MP!LockFutexWait
<1>5. M!FutexInterrupt(t) => MP!FutexInterrupt(t) BY DEF M!FutexInterrupt, MP!FutexInterrupt
<1>6. M!UnlockRead(t) => MP!UnlockRead(t)         BY DEF M!UnlockRead, MP!UnlockRead
<1>7. M!UnlockCas(t) => MP!UnlockCas(t)           BY DEF M!UnlockCas, MP!UnlockCas
<1>8. M!UnlockAnd(t) => MP!UnlockAnd(t)           BY DEF M!UnlockAnd, MP!UnlockAnd
<1>9. M!UnlockCheck(t) => MP!UnlockCheck(t)       BY DEF M!UnlockCheck, MP!UnlockCheck
<1>10. M!UnlockClear(t) => MP!UnlockClear(t)      BY DEF M!UnlockClear, MP!UnlockClear
<1>11. M!UnlockWake(t) => MP!UnlockWake(t)        BY DEF M!UnlockWake, MP!UnlockWake
<1>12. M!Relock(t) => MP!Relock(t)                BY DEF M!Relock, MP!Relock
<1> QED BY <1>1, <1>2, <1>3, <1>4, <1>5, <1>6, <1>7, <1>8, <1>9, <1>10, <1>11, <1>12
           DEF MP!ThreadStep, M!LockStep, M!UnlockStep, MP!LockStep, MP!UnlockStep

\* Any such step of one thread keeps the mutex.
LEMMA MutexThreadStep ==
  ASSUME MutexInv, NEW t \in Threads,
         \/ M!LockCall(t) \/ M!LockStep(t) \/ M!FutexInterrupt(t)
         \/ M!UnlockRead(t) \/ M!UnlockStep(t) \/ M!Relock(t)
  PROVE  MutexInv'
<1>1. MP!ThreadStep(t)
  BY SameSteps
<1>2. MP!TypeOK /\ MP!MutualExclusion /\ MP!NoLostWakeup
  BY SameMutexInv DEF MutexInv
<1>3. MP!TypeOK'
  BY <1>1, <1>2, CondAssumption, MP!TypeThreadStep
<1>4. MP!MutualExclusion'
  BY <1>1, <1>2, CondAssumption, MP!ExclusionThreadStep
<1>5. MP!NoLostWakeup'
  BY <1>1, <1>2, CondAssumption, MP!WakeupThreadStep
<1> QED BY <1>3, <1>4, <1>5, SameMutexInv DEF MutexInv

\* So does FUTEX_CMP_REQUEUE, which moves sleepers to the mutex.
LEMMA MutexRequeue ==
  ASSUME MutexInv, NEW S \in SUBSET Threads, M!Requeue(S)
  PROVE  MutexInv'
<1>1. MP!Requeue(S)
  BY DEF M!Requeue, MP!Requeue, M!WakeOne, MP!WakeOne
<1>2. MP!TypeOK /\ MP!MutualExclusion /\ MP!NoLostWakeup
  BY SameMutexInv DEF MutexInv
<1>3. MP!TypeOK'
  BY <1>1, <1>2, CondAssumption, MP!TypeRequeue
<1>4. MP!MutualExclusion'
  BY <1>1, <1>2, CondAssumption, MP!ExclusionRequeue
<1>5. MP!NoLostWakeup'
  BY <1>1, <1>2, CondAssumption, MP!WakeupRequeue
<1> QED BY <1>3, <1>4, <1>5, SameMutexInv DEF MutexInv

\* And a step that does not touch it.
LEMMA MutexUnchanged ==
  ASSUME MutexInv, UNCHANGED <<state, pc, loop>>
  PROVE  MutexInv'
BY DEF MutexInv, M!TypeOK, M!MutualExclusion, M!Owns, M!NoLostWakeup, M!Sleepers, M!WakeupPending

\* Where a step of the mutex leaves the threads.
LEMMA MutexMoves ==
  ASSUME M!TypeOK, NEW t \in Threads
  PROVE  /\ M!LockStep(t) \/ M!UnlockStep(t) \/ M!UnlockRead(t) \/ M!LockCall(t)
              \/ M!FutexInterrupt(t) \/ M!Relock(t)
              => \A u \in Threads \ {t} :
                   pc'[u] = pc[u] \/ (pc[u] = "l_sleep" /\ pc'[u] = "l_xchg")
         /\ M!LockStep(t) =>
              /\ pc[t] \in {"l_spin", "l_xchg", "l_futex"}
              /\ pc'[t] \in {"l_spin", "l_xchg", "l_futex", "l_sleep", "cs"}
              /\ pc'[t] = "l_spin" => pc[t] = "l_spin"
         /\ M!UnlockStep(t) =>
              /\ pc[t] \in {"u_cas", "u_and"} \cup M!ReleaseLabels
              /\ pc'[t] \in {"u_and", "idle"} \cup M!ReleaseLabels
         /\ M!UnlockRead(t) => pc[t] = "cs" /\ pc'[t] \in {"u_cas", "u_and"}
         /\ M!LockCall(t) => pc[t] = "idle"
         /\ M!FutexInterrupt(t) => pc[t] = "l_sleep" /\ pc'[t] = "l_xchg"
         /\ M!Relock(t) => pc[t] = "idle" /\ pc'[t] = "l_xchg"
<1> USE DEF M!TypeOK, M!Goto, M!ReleaseLabels
<1>1. M!LockStep(t) => /\ \A u \in Threads \ {t} : pc'[u] = pc[u]
                       /\ pc[t] \in {"l_spin", "l_xchg", "l_futex"}
                       /\ pc'[t] \in {"l_spin", "l_xchg", "l_futex", "l_sleep", "cs"}
                       /\ pc'[t] = "l_spin" => pc[t] = "l_spin"
  BY DEF M!LockStep, M!LockSpin, M!LockXchg, M!LockFutexWait
<1>2. M!UnlockCas(t) \/ M!UnlockAnd(t) \/ M!UnlockCheck(t) \/ M!UnlockClear(t)
        => /\ \A u \in Threads \ {t} : pc'[u] = pc[u]
           /\ pc[t] \in {"u_cas", "u_and"} \cup M!ReleaseLabels
           /\ pc'[t] \in {"u_and", "idle"} \cup M!ReleaseLabels
  BY DEF M!UnlockCas, M!UnlockAnd, M!UnlockCheck, M!UnlockClear
<1>3. M!UnlockWake(t)
        => /\ \A u \in Threads \ {t} :
                pc'[u] = pc[u] \/ (pc[u] = "l_sleep" /\ pc'[u] = "l_xchg")
           /\ pc[t] = "u_wake" /\ pc'[t] = "idle"
  BY DEF M!UnlockWake, M!Sleepers, M!WakeOne
<1>4. M!UnlockRead(t) \/ M!LockCall(t) \/ M!FutexInterrupt(t) \/ M!Relock(t)
        => \A u \in Threads \ {t} : pc'[u] = pc[u]
  BY DEF M!UnlockRead, M!LockCall, M!FutexInterrupt, M!Relock
<1>5. /\ M!UnlockRead(t) => pc[t] = "cs" /\ pc'[t] \in {"u_cas", "u_and"}
      /\ M!LockCall(t) => pc[t] = "idle"
      /\ M!FutexInterrupt(t) => pc[t] = "l_sleep" /\ pc'[t] = "l_xchg"
      /\ M!Relock(t) => pc[t] = "idle" /\ pc'[t] = "l_xchg"
  BY DEF M!UnlockRead, M!LockCall, M!FutexInterrupt, M!Relock
<1>6. M!UnlockStep(t) <=> \/ M!UnlockCas(t) \/ M!UnlockAnd(t) \/ M!UnlockCheck(t)
                          \/ M!UnlockClear(t) \/ M!UnlockWake(t)
  BY DEF M!UnlockStep
<1> HIDE DEF M!Goto
<1> QED BY <1>1, <1>2, <1>3, <1>4, <1>5, <1>6

\* FUTEX_REQUEUE moves the threads S to the mutex, and no other.
LEMMA RequeueMoves ==
  ASSUME M!TypeOK, NEW S \in SUBSET Threads, M!Requeue(S)
  PROVE  /\ \A u \in S : pc[u] = "idle" /\ pc'[u] \in {"l_xchg", "l_sleep"}
         /\ \A u \in Threads \ S : pc'[u] = pc[u]
BY DEF M!Requeue, M!WakeOne, M!TypeOK

-----------------------------------------------------------------------------
(* Types, the mutex, and who may touch the plain fields.  Nothing is       *)
(* assumed of use_child here, nor of seq.                                  *)

Control == TypeOK /\ MutexInv /\ Places

\* seq + 1, in the width of seq.
LEMMA NextSeq ==
  ASSUME NEW s \in 0 .. SeqMod - 1
  PROVE  /\ (s + 1) % SeqMod \in 0 .. SeqMod - 1
         /\ s + 1 < SeqMod => (s + 1) % SeqMod = s + 1
<1>1. CASE s + 1 < SeqMod
  BY <1>1, CondAssumption
<1>2. CASE s + 1 = SeqMod
  BY <1>2, CondAssumption
<1> QED BY <1>1, <1>2, CondAssumption

\* A return from the innermost call, that lets the sleepers S go.
LEMMA ReturnIs ==
  ASSUME TypeOK, NEW t \in Threads, NEW S \in SUBSET Threads,
         cpc[t] \notin {"run", "w_sleep"}, \A u \in S : cpc[u] = "w_sleep", ReturnReleasing(t, S)
  PROVE  /\ cpc' \in [Threads -> CondLabels] /\ stack' \in [Threads -> Seq(Conds)]
         /\ \A u \in Threads \ {t} : /\ cpc'[u] = IF u \in S THEN "w_lock" ELSE cpc[u]
                                     /\ stack'[u] = stack[u]
         /\ stack[t] # <<>> /\ stack'[t] = Tail(stack[t])
         /\ \/ Len(stack[t]) = 1 /\ stack'[t] = <<>> /\ cpc'[t] = "run" /\ due' = due \ {t}
            \/ Len(stack[t]) # 1 /\ stack'[t] # <<>> /\ cpc'[t] = "r_read" /\ due' = due
         /\ notified' = notified \ S
<1>1. stack[t] \in Seq(Conds) /\ stack[t] # <<>> /\ t \notin S
  BY DEF TypeOK
<1>2. /\ Tail(stack[t]) \in Seq(Conds) /\ Len(stack[t]) \in Nat \ {0}
      /\ Tail(stack[t]) = <<>> <=> Len(stack[t]) = 1
  BY <1>1, PopIs
<1>3. stack' = [stack EXCEPT ![t] = Tail(stack[t])] /\ stack \in [Threads -> Seq(Conds)]
  BY DEF ReturnReleasing, TypeOK
<1>4. stack' \in [Threads -> Seq(Conds)] /\ stack'[t] = Tail(stack[t])
      /\ \A u \in Threads \ {t} : stack'[u] = stack[u]
  BY <1>2, <1>3
<1>5. /\ cpc' \in [Threads -> CondLabels]
      /\ \A u \in Threads \ {t} : cpc'[u] = IF u \in S THEN "w_lock" ELSE cpc[u]
      /\ cpc'[t] = IF Len(stack[t]) = 1 THEN "run" ELSE "r_read"
  BY DEF ReturnReleasing, TypeOK, CondLabels, WaitLabels, ReleaseLabels
<1>6. /\ due' = IF Len(stack[t]) = 1 THEN due \ {t} ELSE due
      /\ notified' = notified \ S
  BY DEF ReturnReleasing
<1> QED BY <1>1, <1>2, <1>4, <1>5, <1>6

\* A step of the mutex, in the client's hands or in a wait.
LEMMA ControlMutex ==
  ASSUME Control, NEW t \in Threads,
         LockCall(t) \/ UnlockCall(t) \/ MutexStep(t) \/ MutexInterrupt(t)
  PROVE  Control'
<1>0. UNCHANGED <<cpc, seq, bound, use_child, stack, cur, notified, due>> /\ calls' \in Nat
  BY DEF LockCall, UnlockCall, MutexStep, MutexInterrupt, condVars, Call, Control, TypeOK
<1>1. \/ M!LockCall(t) /\ cpc[t] = "run"
      \/ M!UnlockRead(t) /\ cpc[t] \in {"run", "w_unlock"}
      \/ M!LockStep(t) \/ M!UnlockStep(t) \/ M!FutexInterrupt(t)
  BY DEF LockCall, UnlockCall, MutexStep, MutexInterrupt, Call
<1>2. MutexInv'
  BY <1>1, MutexThreadStep DEF Control
<1>3. TypeOK'
  BY <1>0, <1>2 DEF Control, TypeOK, MutexInv
<1>4. Places'
  <2>1. M!TypeOK
    BY DEF Control, MutexInv
  <2>2. \A u \in Threads \ {t} : pc'[u] = pc[u] \/ (pc[u] = "l_sleep" /\ pc'[u] = "l_xchg")
    BY <1>1, <2>1, MutexMoves
  <2>3. ASSUME NEW u \in Threads \ {t} PROVE Place(u)'
    BY <1>0, <2>2, <2>3 DEF Control, Places, Place, Plain, M!ReleaseLabels
  <2>4. Place(t)'
    BY <1>0, <1>1, <2>1, MutexMoves
       DEF Control, Places, Place, Plain, M!ReleaseLabels, ReleaseLabels, NotifyLabels
  <2> QED BY <2>3, <2>4 DEF Places
<1> QED BY <1>2, <1>3, <1>4 DEF Control

\* A call of wait, at the leaf or at a parent.
LEMMA FrameIs ==
  ASSUME Control, NEW t \in Threads, Wait(t) \/ WaitParent(t)
  PROVE  \E frames \in Seq(Conds) :
           /\ frames # <<>> /\ Frame(t, frames) /\ pc[t] = "cs"
           /\ \/ cpc[t] = "run" /\ Len(frames) = 1 /\ calls < MaxCalls /\ calls' = calls + 1
              \/ cpc[t] = "w_frame" /\ frames = stack[t] /\ calls' = calls
<1>1. CASE Wait(t)
  <2>1. <<Leaf[t]>> \in Seq(Conds) /\ <<Leaf[t]>> # <<>> /\ Len(<<Leaf[t]>>) = 1
    BY CondAssumption
  <2> QED BY <1>1, <2>1 DEF Wait, Call, Frame, BindAndGo
<1>2. CASE WaitParent(t)
  <2>1. stack[t] \in Seq(Conds) /\ stack[t] # <<>>
    BY <1>2 DEF WaitParent, Control, TypeOK
  <2> QED BY <1>2, <2>1 DEF WaitParent, Frame, BindAndGo
<1> QED BY <1>1, <1>2

\* What one call of wait does with frames.
LEMMA BindIs ==
  ASSUME TypeOK, NEW t \in Threads, NEW frames \in Seq(Conds), frames # <<>>, Frame(t, frames)
  PROVE  LET c == Head(frames)
         IN /\ c \in Conds
            /\ bound' = bound \cup {c}
            /\ UNCHANGED <<state, pc, loop, seq, cur, notified, due>>
            /\ cpc' \in [Threads -> CondLabels] /\ stack' \in [Threads -> Seq(Conds)]
            /\ stack'[t] # <<>>
            /\ \A u \in Threads \ {t} : cpc'[u] = cpc[u] /\ stack'[u] = stack[u]
            /\ \/ /\ ~use_child[c] /\ Parent[c] # NoCond /\ Parent[c] \in Conds
                  /\ use_child' = [use_child EXCEPT ![c] = TRUE]
                  /\ cpc'[t] = "w_frame"
                  /\ stack'[t] = <<Parent[c]>> \o frames
               \/ /\ use_child[c] \/ Parent[c] = NoCond
                  /\ use_child' = use_child
                  /\ cpc'[t] = "w_seq"
                  /\ stack'[t] = frames
<1> DEFINE c  == Head(frames)
           up == ~use_child[c] /\ Parent[c] # NoCond
<1>1. c \in Conds
  BY PopIs
<1>2. /\ bound' = bound \cup {c}
      /\ use_child' = IF up THEN [use_child EXCEPT ![c] = TRUE] ELSE use_child
      /\ stack' = [stack EXCEPT ![t] = IF up THEN <<Parent[c]>> \o frames ELSE frames]
      /\ cpc' = [cpc EXCEPT ![t] = IF up THEN "w_frame" ELSE "w_seq"]
      /\ UNCHANGED <<state, pc, loop, seq, cur, notified, due>>
  BY <1>1 DEF Frame, BindAndGo, Goto
<1>3. up => Parent[c] \in Conds
  BY <1>1, CondAssumption
<1>4. up => LET p == <<Parent[c]>> \o frames
            IN p \in Seq(Conds) /\ p # <<>>
  BY <1>3, PushIs
<1>5. cpc \in [Threads -> CondLabels] /\ stack \in [Threads -> Seq(Conds)]
  BY DEF TypeOK
<1>6. CASE up
  <2>1. stack' = [stack EXCEPT ![t] = <<Parent[c]>> \o frames]
    BY <1>2, <1>6
  <2>2. stack'[t] = <<Parent[c]>> \o frames /\ stack' \in [Threads -> Seq(Conds)]
        /\ \A u \in Threads \ {t} : stack'[u] = stack[u]
    BY <1>4, <1>5, <1>6, <2>1
  <2>3. cpc' \in [Threads -> CondLabels] /\ cpc'[t] = "w_frame"
        /\ \A u \in Threads \ {t} : cpc'[u] = cpc[u]
    BY <1>2, <1>5, <1>6 DEF CondLabels, WaitLabels
  <2> QED BY <1>1, <1>2, <1>3, <1>4, <1>6, <2>2, <2>3
<1>7. CASE ~up
  <2>1. stack'[t] = frames /\ stack' \in [Threads -> Seq(Conds)]
        /\ \A u \in Threads \ {t} : stack'[u] = stack[u]
    BY <1>2, <1>5, <1>7
  <2>2. cpc' \in [Threads -> CondLabels] /\ cpc'[t] = "w_seq"
        /\ \A u \in Threads \ {t} : cpc'[u] = cpc[u]
    BY <1>2, <1>5, <1>7 DEF CondLabels, WaitLabels
  <2> QED BY <1>1, <1>2, <1>7, <2>1, <2>2
<1> QED BY <1>6, <1>7

\* The threads other than t stay where they are or leave a futex.
LEMMA OthersPlaces ==
  ASSUME Places, NEW t \in Threads, Place(t)',
         \A u \in Threads \ {t} :
           \/ cpc'[u] = cpc[u] /\ pc'[u] = pc[u] /\ stack'[u] = stack[u]
           \/ cpc'[u] = "w_lock" /\ pc'[u] \in {"l_xchg", "l_sleep"}
  PROVE  Places'
<1>1. ASSUME NEW u \in Threads \ {t} PROVE Place(u)'
  BY <1>1 DEF Places, Place, Plain, ReleaseLabels, NotifyLabels
<1> QED BY <1>1 DEF Places

\* A wait begins, or goes on at the parent.
LEMMA ControlFrame ==
  ASSUME Control, NEW t \in Threads, Wait(t) \/ WaitParent(t)
  PROVE  Control'
<1> PICK frames \in Seq(Conds) :
      /\ frames # <<>> /\ Frame(t, frames) /\ pc[t] = "cs"
      /\ calls' = calls + 1 \/ calls' = calls
  BY FrameIs
<1> DEFINE c == Head(frames)
<1>1. /\ UNCHANGED <<state, pc, loop, seq, cur, notified, due>>
      /\ c \in Conds /\ bound' = bound \cup {c}
      /\ use_child' = use_child \/ use_child' = [use_child EXCEPT ![c] = TRUE]
      /\ cpc' \in [Threads -> CondLabels] /\ stack' \in [Threads -> Seq(Conds)]
      /\ stack'[t] # <<>> /\ cpc'[t] \in {"w_frame", "w_seq"}
      /\ \A u \in Threads \ {t} : cpc'[u] = cpc[u] /\ stack'[u] = stack[u]
  BY BindIs DEF Control
<1>2. MutexInv'
  BY <1>1, MutexUnchanged DEF Control
<1>3. TypeOK'
  <2>1. bound' \in SUBSET Conds /\ calls' \in Nat
    BY <1>1 DEF Control, TypeOK
  <2>3. use_child' \in [Conds -> BOOLEAN]
    BY <1>1, Zenon DEF Control, TypeOK
  <2>2. \A u \in Threads : stack'[u] = <<>> <=> cpc'[u] = "run"
    BY <1>1 DEF Control, TypeOK
  <2> QED BY <1>1, <1>2, <2>1, <2>2, <2>3 DEF Control, TypeOK, MutexInv
<1>4. Place(t)'
  BY <1>1 DEF Place, Plain, NotifyLabels
<1>5. Places'
  BY <1>1, <1>4, OthersPlaces DEF Control
<1> QED BY <1>2, <1>3, <1>5 DEF Control

\* The steps that only read or write seq.
LEMMA ControlSeq ==
  ASSUME Control, NEW t \in Threads, WaitReadSeq(t) \/ ReleaseRead(t) \/ ReleaseWrite(t)
  PROVE  Control'
<1>1. stack[t] # <<>> /\ At(t) \in Conds
  BY PopIs DEF WaitReadSeq, ReleaseRead, ReleaseWrite, ReleaseStore, Control, TypeOK, At
<1>2. UNCHANGED <<state, pc, loop, bound, use_child, stack, calls>>
  BY DEF WaitReadSeq, ReleaseRead, ReleaseWrite, ReleaseStore
<1>3. /\ cpc' \in [Threads -> CondLabels] /\ Plain(t)
      /\ cpc'[t] \in {"w_unlock", "r_write", "r_requeue"}
      /\ \A u \in Threads \ {t} : cpc'[u] = cpc[u]
  BY DEF WaitReadSeq, ReleaseRead, ReleaseWrite, ReleaseStore, Goto, Plain, Control, TypeOK,
         CondLabels, WaitLabels, ReleaseLabels
<1>4. seq' \in [Conds -> 0 .. SeqMod - 1] /\ cur' \in [Threads -> 0 .. SeqMod - 1]
  <2>1. CASE WaitReadSeq(t) \/ ReleaseRead(t)
    BY <1>1, <2>1 DEF WaitReadSeq, ReleaseRead, Control, TypeOK
  <2>2. CASE ReleaseWrite(t)
    <3>1. (cur[t] + 1) % SeqMod \in 0 .. SeqMod - 1
      BY NextSeq DEF Control, TypeOK
    <3>2. seq' = [seq EXCEPT ![At(t)] = (cur[t] + 1) % SeqMod] /\ UNCHANGED cur
      BY <2>2 DEF ReleaseWrite, ReleaseStore
    <3> QED BY <1>1, <3>1, <3>2 DEF Control, TypeOK
  <2> QED BY <2>1, <2>2
<1>5. notified' \in SUBSET Threads /\ due' \in SUBSET Threads
  BY DEF WaitReadSeq, ReleaseRead, ReleaseWrite, ReleaseStore, Control, TypeOK, WaitersAt
<1>6. MutexInv'
  BY <1>2, MutexUnchanged DEF Control
<1>7. TypeOK'
  BY <1>1, <1>2, <1>3, <1>4, <1>5, <1>6 DEF Control, TypeOK, MutexInv
<1>8. Place(t)'
  BY <1>2, <1>3 DEF Control, Places, Place, Plain, NotifyLabels
<1>9. Places'
  BY <1>2, <1>3, <1>8, OthersPlaces DEF Control
<1> QED BY <1>6, <1>7, <1>9 DEF Control

\* The futex of the condition variable, entered or left by the thread alone.
LEMMA ControlFutex ==
  ASSUME Control, NEW t \in Threads, WaitFutex(t) \/ WaitInterrupt(t)
  PROVE  Control'
<1>1. UNCHANGED <<seq, bound, use_child, stack, cur, calls, due>>
  BY DEF WaitFutex, WaitInterrupt
<1>2. \/ cpc' = [cpc EXCEPT ![t] = "w_sleep"] /\ pc[t] = "idle" /\ UNCHANGED <<state, pc, loop, notified>>
      \/ LeaveFutex(t)
  BY DEF WaitFutex, WaitInterrupt, Goto
<1>3. Waiting(t)
  BY DEF WaitFutex, WaitInterrupt, Waiting
<1>4. CASE LeaveFutex(t)
  <2>1. M!Relock(t) /\ cpc' = [cpc EXCEPT ![t] = "w_lock"] /\ notified' \in SUBSET Threads
    BY <1>4 DEF LeaveFutex, Goto, Control, TypeOK
  <2>2. MutexInv' /\ pc'[t] = "l_xchg" /\ \A u \in Threads \ {t} : pc'[u] = pc[u]
    BY <2>1, MutexThreadStep DEF Control, TypeOK, M!Relock, M!Goto, M!TypeOK
  <2>3. cpc' \in [Threads -> CondLabels] /\ cpc'[t] = "w_lock"
        /\ \A u \in Threads \ {t} : cpc'[u] = cpc[u]
    BY <2>1 DEF Control, TypeOK, CondLabels, WaitLabels
  <2>4. TypeOK'
    BY <1>1, <1>3, <2>1, <2>2, <2>3 DEF Control, TypeOK, MutexInv, Waiting
  <2>5. Place(t)'
    BY <2>2, <2>3 DEF Place, Plain, ReleaseLabels, NotifyLabels
  <2>6. Places'
    BY <1>1, <2>2, <2>3, <2>5, OthersPlaces DEF Control
  <2> QED BY <2>2, <2>4, <2>6 DEF Control
<1>5. CASE cpc' = [cpc EXCEPT ![t] = "w_sleep"] /\ pc[t] = "idle" /\ UNCHANGED <<state, pc, loop, notified>>
  <2>1. MutexInv'
    BY <1>5, MutexUnchanged DEF Control
  <2>2. cpc' \in [Threads -> CondLabels] /\ cpc'[t] = "w_sleep"
        /\ \A u \in Threads \ {t} : cpc'[u] = cpc[u]
    BY <1>5 DEF Control, TypeOK, CondLabels, WaitLabels
  <2>3. TypeOK'
    BY <1>1, <1>3, <1>5, <2>1, <2>2 DEF Control, TypeOK, MutexInv, Waiting
  <2>4. Place(t)'
    BY <1>5, <2>2 DEF Place, Plain, ReleaseLabels, NotifyLabels
  <2>5. Places'
    BY <1>1, <1>5, <2>2, <2>4, OthersPlaces DEF Control
  <2> QED BY <2>1, <2>3, <2>5 DEF Control
<1> QED BY <1>2, <1>4, <1>5

\* The returns, that leave the futex to the threads S.
LEMMA ControlReturn ==
  ASSUME Control, NEW t \in Threads, NEW S \in SUBSET Threads,
         cpc[t] \notin {"run", "w_sleep"}, \A u \in S : cpc[u] = "w_sleep",
         ReturnReleasing(t, S), MutexInv',
         \A u \in S : pc'[u] \in {"l_xchg", "l_sleep"},
         \A u \in Threads \ S : pc'[u] = pc[u],
         pc[t] = "cs" \/ Len(stack[t]) = 1,
         UNCHANGED <<seq, bound, cur, calls>>, use_child' \in [Conds -> BOOLEAN]
  PROVE  Control'
<1>1. /\ cpc' \in [Threads -> CondLabels] /\ stack' \in [Threads -> Seq(Conds)]
      /\ \A u \in Threads \ {t} : /\ cpc'[u] = IF u \in S THEN "w_lock" ELSE cpc[u]
                                  /\ stack'[u] = stack[u]
      /\ \/ Len(stack[t]) = 1 /\ stack'[t] = <<>> /\ cpc'[t] = "run" /\ due' = due \ {t}
         \/ Len(stack[t]) # 1 /\ stack'[t] # <<>> /\ cpc'[t] = "r_read" /\ due' = due
      /\ notified' = notified \ S
  BY ReturnIs DEF Control
<1>2. \A u \in Threads : stack'[u] = <<>> <=> cpc'[u] = "run"
  BY <1>1 DEF Control, TypeOK
<1>3. notified' \in SUBSET Threads /\ due' \in SUBSET Threads
  BY <1>1 DEF Control, TypeOK
<1>4. TypeOK'
  BY <1>1, <1>2, <1>3 DEF Control, TypeOK, MutexInv
<1>5. Place(t)'
  <2>1. t \notin S /\ pc'[t] = pc[t]
    OBVIOUS
  <2>2. cpc'[t] = "r_read" => Len(stack[t]) # 1
    BY <1>1
  <2> QED BY <1>1, <2>1, <2>2 DEF Place, Plain, ReleaseLabels, NotifyLabels
<1>6. Places'
  BY <1>1, <1>5, OthersPlaces DEF Control
<1> QED BY <1>4, <1>6 DEF Control

\* The two returns of a wait.
LEMMA ControlWaitReturn ==
  ASSUME Control, NEW t \in Threads, WaitReturn(t) \/ ReleaseReturn(t)
  PROVE  Control'
<1>1. /\ ReturnReleasing(t, {}) /\ cpc[t] \in {"w_lock", "r_reset"}
      /\ UNCHANGED <<state, pc, loop, seq, bound, cur, calls>>
  BY DEF WaitReturn, ReleaseReturn, ReleaseEnd
<1>2. pc[t] = "cs"
  BY DEF WaitReturn, ReleaseReturn, ReleaseEnd, Control, Places, Place, Plain, ReleaseLabels
<1>3. use_child' \in [Conds -> BOOLEAN]
  BY Zenon DEF WaitReturn, ReleaseReturn, ReleaseEnd, Control, TypeOK
<1>4. MutexInv'
  BY <1>1, MutexUnchanged DEF Control
<1> QED BY <1>1, <1>2, <1>3, <1>4, ControlReturn

\* The requeue of the threads S keeps the mutex's invariants and leaves
\* every other thread alone.
LEMMA ControlRequeues ==
  ASSUME Control, NEW S \in SUBSET Threads, M!Requeue(S)
  PROVE  /\ MutexInv' /\ \A u \in Threads \ S : pc'[u] = pc[u]
         /\ \A u \in S : pc[u] = "idle" /\ pc'[u] \in {"l_xchg", "l_sleep"}
BY MutexRequeue, RequeueMoves DEF Control, MutexInv

\* The representative requeues the sleepers of its object.
LEMMA ControlReleaseRequeue ==
  ASSUME Control, NEW t \in Threads, ReleaseRequeue(t)
  PROVE  Control'
<1> DEFINE S == SleepersAt(At(t))
<1>1. /\ M!Requeue(S) /\ S \in SUBSET Threads /\ \A u \in S : cpc[u] = "w_sleep"
      /\ UNCHANGED <<seq, bound, use_child, stack, cur, calls, due>> /\ notified' = notified \ S
      /\ cpc[t] = "r_requeue"
  BY DEF ReleaseRequeue, SleepersAt
<1>2. /\ cpc' \in [Threads -> CondLabels] /\ cpc'[t] = "r_reset"
      /\ \A u \in Threads \ {t} : cpc'[u] = IF u \in S THEN "w_lock" ELSE cpc[u]
  BY DEF ReleaseRequeue, Control, TypeOK, CondLabels, WaitLabels, ReleaseLabels
<1>3. /\ MutexInv' /\ \A u \in Threads \ S : pc'[u] = pc[u]
      /\ \A u \in S : pc[u] = "idle" /\ pc'[u] \in {"l_xchg", "l_sleep"}
  BY <1>1, ControlRequeues
<1> HIDE DEF S
<1>4. t \notin S /\ notified' \in SUBSET Threads
  BY <1>1 DEF Control, TypeOK
<1>5. TypeOK'
  <2>1. \A u \in Threads : stack'[u] = <<>> <=> cpc'[u] = "run"
    BY <1>1, <1>2 DEF Control, TypeOK
  <2> QED BY <1>1, <1>2, <1>3, <1>4, <2>1 DEF Control, TypeOK, MutexInv
<1>6. Place(t)'
  BY <1>1, <1>2, <1>3, <1>4 DEF Control, Places, Place, Plain, ReleaseLabels, NotifyLabels
<1>7. Places'
  BY <1>1, <1>2, <1>3, <1>6, OthersPlaces DEF Control
<1> QED BY <1>3, <1>5, <1>7 DEF Control

\* A signal or a broadcast begins.
LEMMA ControlIncrease ==
  ASSUME Control, NEW t \in Threads, NEW c \in Conds, Signal(t, c) \/ Broadcast(t, c)
  PROVE  Control'
<1>1. /\ UNCHANGED <<state, pc, loop, bound, use_child, cur>>
      /\ calls' = calls + 1 /\ cpc[t] = "run" /\ pc[t] \in {"cs", "idle"}
      /\ notified' = notified \cup WaitersAt(c)
      /\ seq' = [seq EXCEPT ![c] = (@ + 1) % SeqMod]
      /\ stack' = [stack EXCEPT ![t] = <<c>>]
      /\ \E label \in NotifyLabels : cpc' = [cpc EXCEPT ![t] = label]
  BY DEF Signal, Broadcast, Increase, Call, NotifyLabels, Goto
<1>2. due' \in SUBSET Threads /\ notified' \in SUBSET Threads
  BY <1>1 DEF Signal, Broadcast, Control, TypeOK, WaitersAt, Waiters
<1>3. /\ cpc' \in [Threads -> CondLabels] /\ cpc'[t] \in NotifyLabels
      /\ \A u \in Threads \ {t} : cpc'[u] = cpc[u]
  BY <1>1 DEF Control, TypeOK, CondLabels, NotifyLabels
<1>4. <<c>> \in Seq(Conds) /\ <<c>> # <<>> /\ Len(<<c>>) = 1
  OBVIOUS
<1>5. /\ stack' \in [Threads -> Seq(Conds)] /\ stack'[t] = <<c>>
      /\ \A u \in Threads \ {t} : stack'[u] = stack[u]
  BY <1>1, <1>4 DEF Control, TypeOK
<1>6. seq' \in [Conds -> 0 .. SeqMod - 1] /\ calls' \in Nat
  BY <1>1, NextSeq DEF Control, TypeOK
<1>7. MutexInv'
  BY <1>1, MutexUnchanged DEF Control
<1>8. TypeOK'
  <2>1. \A u \in Threads : stack'[u] = <<>> <=> cpc'[u] = "run"
    BY <1>3, <1>4, <1>5 DEF Control, TypeOK, NotifyLabels
  <2> QED BY <1>1, <1>2, <1>3, <1>5, <1>6, <1>7, <2>1 DEF Control, TypeOK, MutexInv
<1>9. Place(t)'
  BY <1>1, <1>3, <1>4, <1>5 DEF Place, Plain, ReleaseLabels, NotifyLabels
<1>10. Places'
  BY <1>1, <1>3, <1>5, <1>9, OthersPlaces DEF Control
<1> QED BY <1>7, <1>8, <1>10 DEF Control

\* The steps that end a notification.
LEMMA ControlNotify ==
  ASSUME Control, NEW t \in Threads, SignalWake(t) \/ BroadcastCheck(t) \/ BroadcastRequeue(t)
  PROVE  Control'
<1>1. /\ UNCHANGED <<seq, bound, use_child, cur, calls>>
      /\ cpc[t] \in NotifyLabels /\ Len(stack[t]) = 1
  BY DEF SignalWake, BroadcastCheck, BroadcastRequeue, NotifyLabels, Control, Places, Place
<1>2. use_child' \in [Conds -> BOOLEAN] /\ cpc[t] \notin {"run", "w_sleep"}
  BY <1>1 DEF Control, TypeOK, NotifyLabels
<1>3. CASE SignalWake(t)
  <2>1. PICK woken \in WakeOne(SleepersAt(At(t))) :
          /\ \/ woken = {} /\ UNCHANGED <<state, pc, loop>>
             \/ \E u \in woken : M!Relock(u)
          /\ ReturnReleasing(t, woken)
    BY <1>3 DEF SignalWake
  <2>2. woken \in SUBSET Threads /\ \A u \in woken : cpc[u] = "w_sleep"
    BY DEF WakeOne, SleepersAt
  <2>3. CASE woken = {} /\ UNCHANGED <<state, pc, loop>>
    <3>1. MutexInv'
      BY <2>3, MutexUnchanged DEF Control
    <3> QED BY <1>1, <1>2, <2>1, <2>2, <2>3, <3>1, ControlReturn
  <2>4. CASE \E u \in woken : M!Relock(u)
    <3> PICK u \in woken : M!Relock(u)
      BY <2>4
    <3>1. woken = {u} /\ u \in Threads
      BY <2>2 DEF WakeOne
    <3>2. MutexInv' /\ pc'[u] = "l_xchg" /\ \A v \in Threads \ {u} : pc'[v] = pc[v]
      BY <3>1, MutexThreadStep DEF Control, TypeOK, M!Relock, M!Goto, M!TypeOK
    <3> QED BY <1>1, <1>2, <2>1, <2>2, <3>1, <3>2, ControlReturn
  <2> QED BY <2>1, <2>3, <2>4
<1>4. CASE BroadcastRequeue(t)
  <2> DEFINE S == SleepersAt(At(t))
  <2>1. /\ M!Requeue(S) /\ ReturnReleasing(t, S)
        /\ S \in SUBSET Threads /\ \A u \in S : cpc[u] = "w_sleep"
    BY <1>4 DEF BroadcastRequeue, SleepersAt
  <2> HIDE DEF S
  <2>2. /\ MutexInv' /\ \A u \in Threads \ S : pc'[u] = pc[u]
        /\ \A u \in S : pc[u] = "idle" /\ pc'[u] \in {"l_xchg", "l_sleep"}
    BY <2>1, ControlRequeues
  <2> QED BY <1>1, <1>2, <2>1, <2>2, ControlReturn
<1>5. CASE BroadcastCheck(t)
  <2>1. UNCHANGED <<state, pc, loop>> /\ MutexInv'
    BY <1>5, MutexUnchanged DEF BroadcastCheck, Control
  <2>2. CASE At(t) \notin bound
    <3>1. ReturnReleasing(t, {})
      BY <1>5, <2>2 DEF BroadcastCheck
    <3> QED BY <1>1, <1>2, <2>1, <3>1, ControlReturn
  <2>3. CASE At(t) \in bound
    <3>1. cpc' = [cpc EXCEPT ![t] = "b_requeue"] /\ UNCHANGED <<stack, notified, due>>
          /\ cpc[t] = "b_check"
      BY <1>5, <2>3 DEF BroadcastCheck, Goto
    <3>2. cpc' \in [Threads -> CondLabels] /\ cpc'[t] = "b_requeue"
          /\ \A u \in Threads \ {t} : cpc'[u] = cpc[u]
      BY <3>1 DEF Control, TypeOK, CondLabels, NotifyLabels
    <3>3. TypeOK'
      <4>1. \A u \in Threads : stack'[u] = <<>> <=> cpc'[u] = "run"
        BY <3>1, <3>2 DEF Control, TypeOK
      <4> QED BY <1>1, <2>1, <3>1, <3>2, <4>1 DEF Control, TypeOK, MutexInv
    <3>4. Place(t)'
      BY <1>1, <2>1, <3>1, <3>2 DEF Control, Places, Place, Plain, ReleaseLabels, NotifyLabels
    <3>5. Places'
      BY <2>1, <3>1, <3>2, <3>4, OthersPlaces DEF Control
    <3> QED BY <2>1, <3>3, <3>5 DEF Control
  <2> QED BY <2>2, <2>3
<1> QED BY <1>3, <1>4, <1>5

\* fastsync_cond_destroy.
LEMMA ControlDestroy ==
  ASSUME Control, NEW t \in Threads, NEW c \in Conds, Destroy(t, c)
  PROVE  Control'
<1>1. /\ UNCHANGED <<state, pc, loop, cpc, use_child, stack, cur, notified, due>>
      /\ seq' = [seq EXCEPT ![c] = 0] /\ bound' = bound \ {c} /\ calls' = calls + 1
  BY DEF Destroy, DestroyWhenUnused, Call
<1>2. 0 \in 0 .. SeqMod - 1
  BY CondAssumption
<1>3. MutexInv'
  BY <1>1, MutexUnchanged DEF Control
<1>4. TypeOK'
  BY <1>1, <1>2, <1>3 DEF Control, TypeOK, MutexInv
<1>5. Places'
  BY <1>1 DEF Control, Places, Place, Plain
<1> QED BY <1>3, <1>4, <1>5 DEF Control

\* Control holds at first.
LEMMA ControlInit == Init => Control
<1> SUFFICES ASSUME Init PROVE Control
  OBVIOUS
<1>1. MutexInv
  BY DEF Init, MutexInv, M!Init, M!TypeOK, M!Labels, M!MutualExclusion, M!Locked, M!Owns,
         M!OwnerLabels, M!NoLostWakeup, M!Sleepers
<1>2. use_child \in [Conds -> BOOLEAN]
  BY CondAssumption DEF Init
<1>3. TypeOK
  BY <1>1, <1>2, CondAssumption DEF Init, TypeOK, CondLabels, MutexInv
<1>4. Places
  BY DEF Init, Places, Place, Plain, ReleaseLabels, NotifyLabels
<1> QED BY <1>1, <1>3, <1>4 DEF Control

\* The steps of Next, grouped as the lemmas are.
ThreadStep(t) ==
  \/ LockCall(t) \/ Wait(t)
  \/ \E c \in Conds : Signal(t, c) \/ Broadcast(t, c) \/ Destroy(t, c)
  \/ Step(t) \/ MutexInterrupt(t) \/ WaitInterrupt(t)

\* Next is a step of one thread.
LEMMA NextIs == Next <=> \E t \in Threads : ThreadStep(t)
BY DEF Next, ThreadStep

\* The steps, by what they do to a wait.
LEMMA Steps ==
  ASSUME NEW t \in Threads, ThreadStep(t)
  PROVE  \/ LockCall(t) \/ UnlockCall(t) \/ MutexStep(t) \/ MutexInterrupt(t)
         \/ Wait(t) \/ WaitParent(t)
         \/ WaitReadSeq(t) \/ ReleaseRead(t) \/ ReleaseWrite(t)
         \/ WaitFutex(t) \/ WaitInterrupt(t)
         \/ WaitReturn(t) \/ ReleaseReturn(t) \/ ReleaseRequeue(t)
         \/ \E c \in Conds : Signal(t, c) \/ Broadcast(t, c)
         \/ SignalWake(t) \/ BroadcastCheck(t) \/ BroadcastRequeue(t)
         \/ \E c \in Conds : Destroy(t, c)
BY DEF ThreadStep, Step

\* Every step keeps Control.
LEMMA ControlStep == Control /\ [Next]_vars => Control'
<1> SUFFICES ASSUME Control, [Next]_vars PROVE Control'
  OBVIOUS
<1>1. CASE Next
  <2> PICK t \in Threads : ThreadStep(t)
    BY <1>1, NextIs
  <2> QED BY Steps, ControlMutex, ControlFrame, ControlSeq, ControlFutex, ControlWaitReturn,
             ControlReleaseRequeue, ControlIncrease, ControlNotify, ControlDestroy
<1>2. CASE UNCHANGED vars
  <2>1. MutexInv'
    BY <1>2, MutexUnchanged DEF vars, Control
  <2> QED BY <1>2, <2>1 DEF vars, Control, TypeOK, MutexInv, Places, Place, Plain
<1> QED BY <1>1, <1>2

\* fastsync_cond.c keeps to the protocol of the mutex it drives: types,
\* the mutex, and where a thread is in it at each line of the wait.
THEOREM ControlHolds == Spec => []Control
<1> QED BY ControlInit, ControlStep, PTL DEF Spec

-----------------------------------------------------------------------------
(* Who represents which object.                                            *)

\* What a pushed frame leaves below.
LEMMA PushBelow ==
  ASSUME NEW s \in Seq(Conds), s # <<>>, NEW c \in Conds
  PROVE  /\ Below(<<c>> \o s) = Below(s) \cup {Head(s)}
         /\ Distinct(s) /\ Head(s) \notin Below(s) => Distinct(<<c>> \o s)
<1> DEFINE p == <<c>> \o s
<1>1. Len(p) = Len(s) + 1 /\ Len(s) \in Nat \ {0} /\ Head(s) = s[1]
      /\ \A i \in 2..Len(p) : p[i] = s[i - 1]
  BY PushIs, PopIs
<1> HIDE DEF p
<1>2. Below(p) \subseteq Below(s) \cup {Head(s)}
  <2>1. ASSUME NEW i \in 2..Len(p) PROVE p[i] \in Below(s) \cup {Head(s)}
    <3>1. p[i] = s[i - 1] /\ (i = 2 \/ i - 1 \in 2..Len(s))
      BY <1>1
    <3> QED BY <1>1, <3>1 DEF Below
  <2> QED BY <2>1 DEF Below
<1>3. Head(s) \in Below(p)
  <2>1. 2 \in 2..Len(p) /\ p[2] = Head(s)
    BY <1>1
  <2> QED BY <2>1 DEF Below
<1>4. ASSUME NEW i \in 2..Len(s) PROVE s[i] \in Below(p)
  <2>1. i + 1 \in 2..Len(p) /\ p[i + 1] = s[i]
    BY <1>1, <1>4
  <2> QED BY <2>1 DEF Below
<1>5. Below(p) = Below(s) \cup {Head(s)}
  BY <1>2, <1>3, <1>4 DEF Below
<1>6. ASSUME Distinct(s), Head(s) \notin Below(s), NEW i \in 2..Len(p), NEW j \in 2..Len(p), p[i] = p[j]
      PROVE  i = j
  <2>1. s[i - 1] = s[j - 1] /\ i - 1 \in 1..Len(s) /\ j - 1 \in 1..Len(s)
    BY <1>1, <1>6
  <2>2. \A k \in 2..Len(s) : s[k] # s[1]
    BY <1>1, <1>6 DEF Below
  <2> QED BY <1>1, <1>6, <2>1, <2>2 DEF Distinct
<1> QED BY <1>5, <1>6 DEF Distinct, p

\* What a popped frame leaves below.
LEMMA PopBelow ==
  ASSUME NEW s \in Seq(Conds), s # <<>>
  PROVE  /\ Len(s) = 1 => Below(s) = {}
         /\ Len(s) # 1 => Below(s) = Below(Tail(s)) \cup {Head(Tail(s))}
         /\ Distinct(s) => Distinct(Tail(s))
         /\ Distinct(s) /\ Len(s) # 1 => Head(Tail(s)) \notin Below(Tail(s))
<1> DEFINE q == Tail(s)
<1>1. /\ Len(s) \in Nat \ {0} /\ Len(q) = Len(s) - 1
      /\ \A i \in 1..Len(q) : q[i] = s[i + 1]
      /\ Len(s) # 1 => Head(q) = q[1]
  BY PopIs
<1> HIDE DEF q
<1>2. Len(s) = 1 => Below(s) = {}
  BY DEF Below
<1>3. Distinct(s) => Distinct(q)
  <2> SUFFICES ASSUME Distinct(s), NEW i \in 2..Len(q), NEW j \in 2..Len(q), q[i] = q[j]
               PROVE  i = j
    BY DEF Distinct
  <2>1. i + 1 \in 2..Len(s) /\ j + 1 \in 2..Len(s) /\ s[i + 1] = s[j + 1]
    BY <1>1
  <2> QED BY <2>1 DEF Distinct
<1>4. CASE Len(s) # 1
  <2>1. Head(q) = s[2] /\ 2 \in 2..Len(s)
    BY <1>1, <1>4
  <2>2. ASSUME NEW i \in 2..Len(q)
        PROVE  i + 1 \in 2..Len(s) /\ q[i] = s[i + 1] /\ i + 1 # 2
    BY <1>1
  <2>3. ASSUME NEW i \in 2..Len(s)
        PROVE  i = 2 \/ (i - 1 \in 2..Len(q) /\ q[i - 1] = s[i])
    BY <1>1
  <2>4. Below(s) = Below(q) \cup {Head(q)}
    <3>1. Below(s) \subseteq Below(q) \cup {Head(q)}
      BY <2>1, <2>3 DEF Below
    <3>2. Below(q) \subseteq Below(s)
      BY <2>2 DEF Below
    <3>3. Head(q) \in Below(s)
      BY <2>1 DEF Below
    <3> QED BY <3>1, <3>2, <3>3
  <2>5. Distinct(s) => Head(q) \notin Below(q)
    BY <2>1, <2>2 DEF Below, Distinct
  <2> QED BY <1>3, <1>4, <2>4, <2>5 DEF q
<1> QED BY <1>2, <1>3, <1>4 DEF q

\* Nothing is below the only frame.
LEMMA ShortBelow ==
  ASSUME NEW s, s = <<>> \/ Len(s) = 1
  PROVE  Below(s) = {} /\ Distinct(s)
<1>1. Len(s) \in {0, 1}
  OBVIOUS
<1> QED BY <1>1 DEF Below, Distinct

\* To represent an object is to have its frame below, or to release it.
LEMMA RepresentsIs ==
  ASSUME NEW t, NEW c
  PROVE  Represents(t, c) <=> \/ c \in Below(stack[t])
                              \/ cpc[t] \in ReleaseLabels /\ c = At(t)
BY DEF Represents, Below

\* The same after a step.
LEMMA RepresentsNext ==
  ASSUME NEW t, NEW c
  PROVE  Represents(t, c)' <=> \/ c \in Below(stack'[t])
                               \/ cpc'[t] \in ReleaseLabels /\ c = Head(stack'[t])
BY DEF Represents, Below, At

\* A thread whose stack is left alone represents what it represented.
LEMMA SameFrames ==
  ASSUME NEW t, stack'[t] = stack[t],
         cpc'[t] \in ReleaseLabels <=> cpc[t] \in ReleaseLabels
  PROVE  \A c \in Conds : Represents(t, c)' <=> Represents(t, c)
BY DEF Represents, At

\* Only the owner of the mutex is at work on the plain fields.
LEMMA OnePlain ==
  ASSUME Control, NEW t \in Threads, NEW u \in Threads, Plain(t), Plain(u) \/ pc[u] = "cs"
  PROVE  t = u
BY DEF Control, Places, Place, MutexInv, M!MutualExclusion, M!Owns, M!OwnerLabels

\* The three things that can happen to the representatives in a step.
Same ==
  /\ use_child' = use_child
  /\ \A u \in Threads, c \in Conds : Represents(u, c)' <=> Represents(u, c)
Begins(t, d) ==
  /\ ~use_child[d] /\ use_child' = [use_child EXCEPT ![d] = TRUE]
  /\ \A u \in Threads, c \in Conds : Represents(u, c)' <=> Represents(u, c) \/ (u = t /\ c = d)
Ends(t, d) ==
  /\ Represents(t, d) /\ use_child' = [use_child EXCEPT ![d] = FALSE]
  /\ \A u \in Threads, c \in Conds : Represents(u, c)' <=> Represents(u, c) /\ ~(u = t /\ c = d)

\* use_child keeps telling who represents what.
LEMMA RepresentativesKept ==
  ASSUME UseChild, OneRepresents, use_child \in [Conds -> BOOLEAN],
         Same \/ \E t \in Threads, d \in Conds : Begins(t, d) \/ Ends(t, d)
  PROVE  UseChild' /\ OneRepresents'
<1>1. CASE Same
  <2>1. UseChild'
    BY <1>1 DEF Same, UseChild
  <2>2. OneRepresents'
    BY <1>1 DEF Same, OneRepresents
  <2> QED BY <2>1, <2>2
<1>2. ASSUME NEW t \in Threads, NEW d \in Conds, Begins(t, d) PROVE UseChild' /\ OneRepresents'
  <2>1. \A c \in Conds : use_child'[c] <=> use_child[c] \/ c = d
    BY <1>2, Zenon DEF Begins
  <2>2. \A u \in Threads : ~Represents(u, d)
    BY <1>2 DEF Begins, UseChild
  <2>3. UseChild'
    BY <1>2, <2>1 DEF Begins, UseChild
  <2>4. OneRepresents'
    BY <1>2, <2>2 DEF Begins, OneRepresents
  <2> QED BY <2>3, <2>4
<1>3. ASSUME NEW t \in Threads, NEW d \in Conds, Ends(t, d) PROVE UseChild' /\ OneRepresents'
  <2>1. \A c \in Conds : use_child'[c] <=> use_child[c] /\ c # d
    BY <1>3, Zenon DEF Ends
  <2>2. \A u \in Threads : Represents(u, d) => u = t
    BY <1>3 DEF Ends, OneRepresents
  <2>3. UseChild'
    BY <1>3, <2>1, <2>2 DEF Ends, UseChild
  <2>4. OneRepresents'
    BY <1>3 DEF Ends, OneRepresents
  <2> QED BY <2>3, <2>4
<1> QED BY <1>1, <1>2, <1>3

\* The steps that neither begin nor end a call.
LEMMA QuietIs ==
  ASSUME Control, NEW t \in Threads,
         \/ LockCall(t) \/ UnlockCall(t) \/ MutexStep(t) \/ MutexInterrupt(t)
         \/ WaitReadSeq(t) \/ ReleaseRead(t) \/ ReleaseWrite(t)
         \/ WaitFutex(t) \/ WaitInterrupt(t) \/ ReleaseRequeue(t)
         \/ (BroadcastCheck(t) /\ At(t) \in bound) \/ \E c \in Conds : Destroy(t, c)
  PROVE  /\ UNCHANGED <<stack, use_child>>
         /\ \A u \in Threads : cpc'[u] \in ReleaseLabels <=> cpc[u] \in ReleaseLabels
         /\ \A u \in Threads : cpc'[u] = "w_seq" => cpc[u] = "w_seq"
<1> USE DEF ReleaseLabels, Goto
<1>0. cpc \in [Threads -> CondLabels]
  BY DEF Control, TypeOK
<1>1. CASE LockCall(t) \/ UnlockCall(t) \/ MutexStep(t) \/ MutexInterrupt(t) \/ \E c \in Conds : Destroy(t, c)
  BY <1>1 DEF LockCall, UnlockCall, MutexStep, MutexInterrupt, condVars, Destroy, DestroyWhenUnused
<1>2. CASE WaitReadSeq(t) \/ ReleaseRead(t) \/ ReleaseWrite(t)
  BY <1>0, <1>2 DEF WaitReadSeq, ReleaseRead, ReleaseWrite, ReleaseStore
<1>3. CASE WaitFutex(t) \/ WaitInterrupt(t)
  BY <1>0, <1>3 DEF WaitFutex, WaitInterrupt, LeaveFutex
<1>4. CASE ReleaseRequeue(t)
  BY <1>0, <1>4 DEF ReleaseRequeue, SleepersAt
<1>5. CASE BroadcastCheck(t) /\ At(t) \in bound
  BY <1>0, <1>5 DEF BroadcastCheck
<1> QED BY <1>1, <1>2, <1>3, <1>4, <1>5

\* A step that keeps the frames.
LEMMA FramesQuiet ==
  ASSUME Frames, UNCHANGED <<stack, use_child>>,
         \A u \in Threads : cpc'[u] \in ReleaseLabels <=> cpc[u] \in ReleaseLabels
  PROVE  Frames' /\ Same
<1>1. Frames'
  BY DEF Frames, At
<1>2. Same
  BY SameFrames DEF Same
<1> QED BY <1>1, <1>2

\* A return: the objects of the calls that waited for it stay represented,
\* and no other.
LEMMA FramesReturn ==
  ASSUME TypeOK, Frames, NEW t \in Threads, NEW S \in SUBSET Threads,
         cpc[t] \notin {"run", "w_sleep"}, \A u \in S : cpc[u] = "w_sleep", ReturnReleasing(t, S)
  PROVE  /\ Frames'
         /\ \A u \in Threads \ {t}, c \in Conds : Represents(u, c)' <=> Represents(u, c)
         /\ \A c \in Conds : Represents(t, c)' <=> c \in Below(stack[t])
         /\ \A u \in Threads : cpc'[u] = "w_seq" => cpc[u] = "w_seq" /\ At(u)' = At(u)
<1>1. /\ \A u \in Threads \ {t} : /\ cpc'[u] = IF u \in S THEN "w_lock" ELSE cpc[u]
                                  /\ stack'[u] = stack[u]
      /\ stack[t] # <<>> /\ stack'[t] = Tail(stack[t])
      /\ \/ Len(stack[t]) = 1 /\ stack'[t] = <<>> /\ cpc'[t] = "run"
         \/ Len(stack[t]) # 1 /\ stack'[t] # <<>> /\ cpc'[t] = "r_read"
  BY ReturnIs
<1>2. /\ Len(stack[t]) = 1 => Below(stack[t]) = {}
      /\ Len(stack[t]) # 1 => Below(stack[t]) = Below(stack'[t]) \cup {Head(stack'[t])}
      /\ Distinct(stack'[t])
      /\ Len(stack[t]) # 1 => Head(stack'[t]) \notin Below(stack'[t])
  BY <1>1, PopBelow DEF TypeOK, Frames
<1>3. ASSUME NEW u \in Threads \ {t}
      PROVE  /\ cpc'[u] \in ReleaseLabels <=> cpc[u] \in ReleaseLabels
             /\ cpc'[u] = "w_seq" => cpc[u] = "w_seq"
             /\ stack'[u] = stack[u]
  BY <1>1, <1>3 DEF ReleaseLabels
<1>4. \A u \in Threads \ {t}, c \in Conds : Represents(u, c)' <=> Represents(u, c)
  BY <1>3, SameFrames
<1>5. \A c \in Conds : Represents(t, c)' <=> c \in Below(stack[t])
  <2>1. CASE Len(stack[t]) = 1
    BY <1>1, <1>2, <2>1, RepresentsNext, ShortBelow DEF ReleaseLabels
  <2>2. CASE Len(stack[t]) # 1
    BY <1>1, <1>2, <2>2, RepresentsNext DEF ReleaseLabels
  <2> QED BY <2>1, <2>2
<1>6. Frames'
  <2>1. ASSUME NEW u \in Threads \ {t}
        PROVE  Distinct(stack'[u]) /\ (cpc'[u] \in ReleaseLabels => Head(stack'[u]) \notin Below(stack'[u]))
    BY <1>3, <2>1 DEF Frames, At
  <2>2. cpc'[t] \in ReleaseLabels => Head(stack'[t]) \notin Below(stack'[t])
    BY <1>1, <1>2 DEF ReleaseLabels
  <2> QED BY <1>2, <2>1, <2>2 DEF Frames, At, Distinct, Below
<1>7. \A u \in Threads : cpc'[u] = "w_seq" => cpc[u] = "w_seq" /\ At(u)' = At(u)
  BY <1>1, <1>3 DEF At
<1> QED BY <1>4, <1>5, <1>6, <1>7

\* fastsync_cond_wait pushes the frame of an object: the thread stays there,
\* or comes to represent it and goes on to the parent.
LEMMA FramesWait ==
  ASSUME Control, Frames, UseChild, NEW t \in Threads, Wait(t) \/ WaitParent(t)
  PROVE  /\ Frames'
         /\ \/ Same /\ cpc'[t] = "w_seq" /\ (use_child[At(t)'] \/ Parent[At(t)'] = NoCond)
            \/ (\E d \in Conds : Begins(t, d)) /\ cpc'[t] = "w_frame"
         /\ \A u \in Threads \ {t} : cpc'[u] = cpc[u] /\ stack'[u] = stack[u]
<1> PICK frames \in Seq(Conds) :
      /\ frames # <<>> /\ Frame(t, frames)
      /\ \/ cpc[t] = "run" /\ Len(frames) = 1
         \/ cpc[t] = "w_frame" /\ frames = stack[t]
  BY FrameIs
<1> DEFINE c == Head(frames)
<1>1. /\ c \in Conds
      /\ \A u \in Threads \ {t} : cpc'[u] = cpc[u] /\ stack'[u] = stack[u]
      /\ \/ /\ ~use_child[c] /\ Parent[c] \in Conds
            /\ use_child' = [use_child EXCEPT ![c] = TRUE]
            /\ cpc'[t] = "w_frame"
            /\ stack'[t] = <<Parent[c]>> \o frames
         \/ /\ use_child[c] \/ Parent[c] = NoCond
            /\ use_child' = use_child
            /\ cpc'[t] = "w_seq"
            /\ stack'[t] = frames
  BY BindIs DEF Control
<1>2. \A u \in Threads \ {t}, d \in Conds : Represents(u, d)' <=> Represents(u, d)
  BY <1>1, SameFrames
<1>3. /\ Distinct(frames)
      /\ \A d \in Conds : Represents(t, d) <=> d \in Below(frames)
  <2>1. CASE cpc[t] = "run" /\ Len(frames) = 1
    <3>1. stack[t] = <<>>
      BY <2>1 DEF Control, TypeOK
    <3> QED BY <2>1, <3>1, ShortBelow, RepresentsIs DEF ReleaseLabels
  <2>2. CASE cpc[t] = "w_frame" /\ frames = stack[t]
    BY <2>2, RepresentsIs DEF Frames, ReleaseLabels
  <2> QED BY <2>1, <2>2
<1>4. ASSUME Distinct(stack'[t]), cpc'[t] \in {"w_frame", "w_seq"} PROVE Frames'
  <2>1. ASSUME NEW u \in Threads \ {t}
        PROVE  Distinct(stack'[u]) /\ (cpc'[u] \in ReleaseLabels => Head(stack'[u]) \notin Below(stack'[u]))
    BY <1>1, <2>1 DEF Frames, At
  <2> QED BY <1>4, <2>1 DEF Frames, At, Distinct, Below, ReleaseLabels
<1>5. CASE cpc'[t] = "w_frame"
  <2>1. /\ ~use_child[c] /\ use_child' = [use_child EXCEPT ![c] = TRUE]
        /\ stack'[t] = <<Parent[c]>> \o frames /\ Parent[c] \in Conds
    BY <1>1, <1>5
  <2>2. c \notin Below(frames)
    BY <1>1, <1>3, <2>1 DEF UseChild
  <2>3. Below(stack'[t]) = Below(frames) \cup {c} /\ Distinct(stack'[t])
    BY <1>3, <2>1, <2>2, PushBelow
  <2>4. \A d \in Conds : Represents(t, d)' <=> Represents(t, d) \/ d = c
    BY <1>3, <1>5, <2>3, RepresentsNext DEF ReleaseLabels
  <2>5. Begins(t, c)
    BY <1>2, <2>1, <2>4 DEF Begins
  <2> QED BY <1>1, <1>4, <1>5, <2>3, <2>5
<1>6. CASE cpc'[t] = "w_seq"
  <2>1. use_child' = use_child /\ stack'[t] = frames /\ (use_child[c] \/ Parent[c] = NoCond)
    BY <1>1, <1>6
  <2>2. \A d \in Conds : Represents(t, d)' <=> Represents(t, d)
    BY <1>3, <1>6, <2>1, RepresentsNext DEF ReleaseLabels
  <2>3. Same
    BY <1>2, <2>1, <2>2 DEF Same
  <2> QED BY <1>1, <1>3, <1>4, <1>6, <2>1, <2>3 DEF At
<1> QED BY <1>1, <1>5, <1>6

\* The end of a notification.
LEMMA NotifyIs ==
  ASSUME NEW t \in Threads,
         SignalWake(t) \/ (BroadcastCheck(t) /\ At(t) \notin bound) \/ BroadcastRequeue(t)
  PROVE  /\ UNCHANGED <<seq, bound, use_child, cur, calls>> /\ cpc[t] \in NotifyLabels
         /\ \E S \in SUBSET SleepersAt(At(t)) : ReturnReleasing(t, S)
BY DEF SignalWake, BroadcastCheck, BroadcastRequeue, NotifyLabels, WakeOne

\* The beginning of a notification.
LEMMA IncreaseIs ==
  ASSUME Control, NEW t \in Threads, NEW c \in Conds, Signal(t, c) \/ Broadcast(t, c)
  PROVE  /\ UNCHANGED <<state, pc, loop, bound, use_child, cur>> /\ cpc[t] = "run" /\ stack[t] = <<>>
         /\ calls < MaxCalls /\ calls' = calls + 1
         /\ notified' = notified \cup WaitersAt(c)
         /\ seq' = [seq EXCEPT ![c] = (@ + 1) % SeqMod]
         /\ cpc'[t] \in NotifyLabels /\ stack'[t] = <<c>> /\ Len(<<c>>) = 1 /\ Head(<<c>>) = c
         /\ \A u \in Threads \ {t} : cpc'[u] = cpc[u] /\ stack'[u] = stack[u]
<1>1. \E label \in NotifyLabels : cpc' = [cpc EXCEPT ![t] = label]
  BY DEF Signal, Broadcast, Increase, Goto, NotifyLabels
<1>2. stack' = [stack EXCEPT ![t] = <<c>>]
  BY DEF Signal, Broadcast, Increase
<1> QED BY <1>1, <1>2 DEF Signal, Broadcast, Increase, Call, Control, TypeOK

\* Nobody else touches the plain fields that a thread is at work on.
Exclusive == Frames /\ UseChild /\ OneRepresents /\ Stays

\* A step after which the same threads represent the same objects.
LEMMA ExclusiveKept ==
  ASSUME Control, Exclusive, Frames', Same,
         \A u \in Threads : cpc'[u] = "w_seq" =>
           \/ cpc[u] = "w_seq" /\ At(u)' = At(u)
           \/ use_child[At(u)'] \/ Parent[At(u)'] = NoCond
  PROVE  Exclusive'
<1>1. UseChild' /\ OneRepresents'
  BY RepresentativesKept DEF Exclusive, Control, TypeOK
<1>2. Stays'
  BY DEF Exclusive, Stays, Same
<1> QED BY <1>1, <1>2 DEF Exclusive

\* The steps that neither push nor pop a frame.
LEMMA ExclusiveQuiet ==
  ASSUME Control, Exclusive, NEW t \in Threads,
         \/ LockCall(t) \/ UnlockCall(t) \/ MutexStep(t) \/ MutexInterrupt(t)
         \/ WaitReadSeq(t) \/ ReleaseRead(t) \/ ReleaseWrite(t)
         \/ WaitFutex(t) \/ WaitInterrupt(t) \/ ReleaseRequeue(t)
         \/ (BroadcastCheck(t) /\ At(t) \in bound) \/ \E c \in Conds : Destroy(t, c)
  PROVE  Exclusive' /\ Same
<1>1. /\ UNCHANGED <<stack, use_child>>
      /\ \A u \in Threads : cpc'[u] \in ReleaseLabels <=> cpc[u] \in ReleaseLabels
      /\ \A u \in Threads : cpc'[u] = "w_seq" => cpc[u] = "w_seq"
  BY QuietIs
<1>2. Frames' /\ Same
  BY <1>1, FramesQuiet DEF Exclusive
<1> QED BY <1>1, <1>2, ExclusiveKept DEF At

\* A wait begins, or goes on at the parent.
LEMMA ExclusiveWait ==
  ASSUME Control, Exclusive, NEW t \in Threads, Wait(t) \/ WaitParent(t)
  PROVE  Exclusive' /\ (Same \/ \E d \in Conds : Begins(t, d))
<1>1. /\ Frames'
      /\ \/ Same /\ cpc'[t] = "w_seq" /\ (use_child[At(t)'] \/ Parent[At(t)'] = NoCond)
         \/ (\E d \in Conds : Begins(t, d)) /\ cpc'[t] = "w_frame"
      /\ \A u \in Threads \ {t} : cpc'[u] = cpc[u] /\ stack'[u] = stack[u]
  BY FramesWait DEF Exclusive
<1>2. CASE Same /\ cpc'[t] = "w_seq" /\ (use_child[At(t)'] \/ Parent[At(t)'] = NoCond)
  <2>1. \A u \in Threads : cpc'[u] = "w_seq" =>
           \/ cpc[u] = "w_seq" /\ At(u)' = At(u)
           \/ use_child[At(u)'] \/ Parent[At(u)'] = NoCond
    BY <1>1, <1>2 DEF At
  <2> QED BY <1>1, <1>2, <2>1, ExclusiveKept
<1>3. CASE (\E d \in Conds : Begins(t, d)) /\ cpc'[t] = "w_frame"
  <2>1. UseChild' /\ OneRepresents'
    BY <1>3, RepresentativesKept DEF Exclusive, Control, TypeOK
  <2>2. pc[t] = "cs"
    BY FrameIs
  <2>3. \A u \in Threads : cpc'[u] # "w_seq"
    BY <1>1, <1>3, <2>2, OnePlain DEF Plain
  <2>4. Stays'
    BY <2>3 DEF Stays
  <2> QED BY <1>1, <2>1, <2>4 DEF Exclusive
<1> QED BY <1>1, <1>2, <1>3

\* A return that is not the end of a release.
LEMMA ExclusiveReturn ==
  ASSUME Control, Exclusive, NEW t \in Threads, NEW S \in SUBSET Threads,
         cpc[t] \notin {"run", "w_sleep"} \cup ReleaseLabels,
         \A u \in S : cpc[u] = "w_sleep", ReturnReleasing(t, S), use_child' = use_child
  PROVE  Exclusive' /\ Same
<1>1. /\ Frames'
      /\ \A u \in Threads \ {t}, c \in Conds : Represents(u, c)' <=> Represents(u, c)
      /\ \A c \in Conds : Represents(t, c)' <=> c \in Below(stack[t])
      /\ \A u \in Threads : cpc'[u] = "w_seq" => cpc[u] = "w_seq" /\ At(u)' = At(u)
  BY FramesReturn DEF Control, Exclusive
<1>2. Same
  BY <1>1, RepresentsIs DEF Same
<1> QED BY <1>1, <1>2, ExclusiveKept

\* The representative clears use_child and returns to the frame below.
LEMMA ExclusiveRelease ==
  ASSUME Control, Exclusive, NEW t \in Threads, ReleaseReturn(t)
  PROVE  Exclusive' /\ Ends(t, At(t))
<1>1. /\ cpc[t] = "r_reset" /\ ReturnReleasing(t, {})
      /\ use_child' = [use_child EXCEPT ![At(t)] = FALSE]
  BY DEF ReleaseReturn, ReleaseEnd
<1>2. /\ Frames'
      /\ \A u \in Threads \ {t}, c \in Conds : Represents(u, c)' <=> Represents(u, c)
      /\ \A c \in Conds : Represents(t, c)' <=> c \in Below(stack[t])
      /\ \A u \in Threads : cpc'[u] = "w_seq" => cpc[u] = "w_seq" /\ At(u)' = At(u)
  BY <1>1, FramesReturn DEF Control, Exclusive
<1>3. At(t) \in Conds /\ At(t) \notin Below(stack[t])
  BY <1>1, PopIs DEF Control, TypeOK, At, Exclusive, Frames, ReleaseLabels
<1>4. \A c \in Conds : Represents(t, c) <=> c \in Below(stack[t]) \/ c = At(t)
  BY <1>1, RepresentsIs DEF ReleaseLabels
<1>5. Ends(t, At(t))
  BY <1>1, <1>2, <1>3, <1>4 DEF Ends
<1>6. UseChild' /\ OneRepresents'
  BY <1>3, <1>5, RepresentativesKept DEF Exclusive, Control, TypeOK
<1>7. \A u \in Threads : cpc'[u] # "w_seq"
  BY <1>1, <1>2, OnePlain DEF Plain, ReleaseLabels
<1> QED BY <1>2, <1>5, <1>6, <1>7 DEF Exclusive, Stays

\* A signal or a broadcast begins.
LEMMA ExclusiveIncrease ==
  ASSUME Control, Exclusive, NEW t \in Threads, NEW c \in Conds, Signal(t, c) \/ Broadcast(t, c)
  PROVE  Exclusive' /\ Same
<1>1. /\ use_child' = use_child /\ cpc[t] = "run" /\ stack[t] = <<>>
      /\ cpc'[t] \in NotifyLabels /\ stack'[t] = <<c>> /\ Len(<<c>>) = 1
      /\ \A u \in Threads \ {t} : cpc'[u] = cpc[u] /\ stack'[u] = stack[u]
  BY IncreaseIs
<1>2. \A u \in Threads \ {t}, d \in Conds : Represents(u, d)' <=> Represents(u, d)
  BY <1>1, SameFrames
<1>3. Below(stack[t]) = {} /\ Below(stack'[t]) = {} /\ Distinct(stack'[t])
  BY <1>1, ShortBelow
<1>4. \A d \in Conds : ~Represents(t, d)
  BY <1>1, <1>3, RepresentsIs DEF ReleaseLabels
<1>5. \A d \in Conds : ~Represents(t, d)'
  BY <1>1, <1>3, RepresentsNext DEF ReleaseLabels, NotifyLabels
<1>6. Same
  BY <1>1, <1>2, <1>4, <1>5 DEF Same
<1>7. Frames'
  <2>1. ASSUME NEW u \in Threads \ {t}
        PROVE  Distinct(stack'[u]) /\ (cpc'[u] \in ReleaseLabels => Head(stack'[u]) \notin Below(stack'[u]))
    BY <1>1, <2>1 DEF Frames, At, Exclusive
  <2> QED BY <1>1, <1>3, <2>1 DEF Frames, At, Distinct, Below, ReleaseLabels, NotifyLabels
<1> QED BY <1>1, <1>6, <1>7, ExclusiveKept DEF At, NotifyLabels

\* Every step of a thread, with what it does to the representatives.
LEMMA ExclusiveThreadStep ==
  ASSUME Control, Exclusive, NEW t \in Threads, ThreadStep(t)
  PROVE  /\ Exclusive'
         /\ Same \/ (\E d \in Conds : Begins(t, d)) \/ (ReleaseReturn(t) /\ Ends(t, At(t)))
<1>1. CASE WaitReturn(t)
  BY <1>1, ExclusiveReturn DEF WaitReturn, ReleaseLabels
<1>2. CASE SignalWake(t) \/ (BroadcastCheck(t) /\ At(t) \notin bound) \/ BroadcastRequeue(t)
  <2>1. PICK S \in SUBSET SleepersAt(At(t)) : ReturnReleasing(t, S)
    BY <1>2, NotifyIs
  <2>2. S \in SUBSET Threads /\ \A u \in S : cpc[u] = "w_sleep"
    BY DEF SleepersAt
  <2>3. use_child' = use_child /\ cpc[t] \notin {"run", "w_sleep"} \cup ReleaseLabels
    BY <1>2, NotifyIs DEF NotifyLabels, ReleaseLabels
  <2> QED BY <2>1, <2>2, <2>3, ExclusiveReturn
<1> QED BY <1>1, <1>2, Steps, ExclusiveQuiet, ExclusiveWait, ExclusiveRelease, ExclusiveIncrease

\* Every step keeps Exclusive.
LEMMA ExclusiveStep ==
  Control /\ Exclusive /\ [Next]_vars => Exclusive'
<1> SUFFICES ASSUME Control, Exclusive, [Next]_vars PROVE Exclusive'
  OBVIOUS
<1>1. CASE Next
  BY <1>1, NextIs, ExclusiveThreadStep
<1>2. CASE UNCHANGED vars
  BY <1>2, FramesQuiet, ExclusiveKept DEF vars, Exclusive, At
<1> QED BY <1>1, <1>2

\* It holds at first, if use_child is clear.
LEMMA ExclusiveInit ==
  ASSUME InitialUseChild \subseteq {FALSE}, Init
  PROVE  Exclusive
<1>1. \A t \in Threads : Below(stack[t]) = {} /\ Distinct(stack[t]) /\ cpc[t] = "run"
  BY ShortBelow DEF Init
<1>2. \A t \in Threads, c \in Conds : ~Represents(t, c)
  BY <1>1, RepresentsIs DEF ReleaseLabels
<1>3. \A c \in Conds : use_child[c] = FALSE
  BY DEF Init
<1>4. UseChild
  BY <1>2, <1>3 DEF UseChild
<1> QED BY <1>1, <1>2, <1>4 DEF Exclusive, Frames, OneRepresents, Stays, ReleaseLabels

\* The plain fields belong to one thread at a time.
LEMMA ExclusiveHolds ==
  ASSUME InitialUseChild \subseteq {FALSE}
  PROVE  Spec => [](Control /\ Exclusive)
<1>1. Init => Control /\ Exclusive
  BY ControlInit, ExclusiveInit
<1>2. Control /\ Exclusive /\ [Next]_vars => (Control /\ Exclusive)'
  BY ControlStep, ExclusiveStep
<1> QED BY <1>1, <1>2, PTL DEF Spec

-----------------------------------------------------------------------------
(* The waiters, and which of them are notified.                            *)

\* What a step of t does to another thread: nothing, or it lets it out of
\* the futex; and a thread is notified only while it waits.
LEMMA OthersMove ==
  ASSUME Control, NEW t \in Threads, ThreadStep(t), NEW u \in Threads \ {t}
  PROVE  /\ stack'[u] = stack[u] /\ cur'[u] = cur[u]
         /\ \/ /\ cpc'[u] = cpc[u]
               /\ u \in notified => u \in notified'
               /\ u \in notified' => u \in notified \/ Waiting(u)
            \/ cpc[u] = "w_sleep" /\ cpc'[u] = "w_lock" /\ u \notin notified'
<1> USE DEF Goto, Waiting
<1>0. cpc \in [Threads -> CondLabels] /\ cur \in [Threads -> 0 .. SeqMod - 1]
  BY DEF Control, TypeOK
<1>1. CASE LockCall(t) \/ UnlockCall(t) \/ MutexStep(t) \/ MutexInterrupt(t) \/ \E c \in Conds : Destroy(t, c)
  BY <1>1 DEF LockCall, UnlockCall, MutexStep, MutexInterrupt, condVars, Destroy, DestroyWhenUnused
<1>2. CASE Wait(t) \/ WaitParent(t)
  <2> PICK frames \in Seq(Conds) : frames # <<>> /\ Frame(t, frames)
    BY <1>2, FrameIs
  <2> QED BY BindIs DEF Control
<1>3. CASE WaitReadSeq(t) \/ ReleaseRead(t) \/ ReleaseWrite(t)
  BY <1>0, <1>3 DEF WaitReadSeq, ReleaseRead, ReleaseWrite, ReleaseStore, WaitersAt
<1>4. CASE WaitFutex(t) \/ WaitInterrupt(t)
  BY <1>0, <1>4 DEF WaitFutex, WaitInterrupt, LeaveFutex
<1>5. CASE ReleaseRequeue(t)
  BY <1>0, <1>5 DEF ReleaseRequeue, SleepersAt
<1>6. ASSUME NEW S \in SUBSET Threads, cpc[t] \notin {"run", "w_sleep"},
             \A v \in S : cpc[v] = "w_sleep", ReturnReleasing(t, S), UNCHANGED cur
      PROVE  /\ stack'[u] = stack[u] /\ cur'[u] = cur[u]
             /\ \/ /\ cpc'[u] = cpc[u]
                   /\ u \in notified => u \in notified'
                   /\ u \in notified' => u \in notified \/ Waiting(u)
                \/ cpc[u] = "w_sleep" /\ cpc'[u] = "w_lock" /\ u \notin notified'
  BY <1>6, ReturnIs DEF Control
<1>7. CASE WaitReturn(t) \/ ReleaseReturn(t)
  BY <1>6, <1>7 DEF WaitReturn, ReleaseReturn, ReleaseEnd
<1>8. CASE SignalWake(t) \/ (BroadcastCheck(t) /\ At(t) \notin bound) \/ BroadcastRequeue(t)
  <2>1. PICK S \in SUBSET SleepersAt(At(t)) : ReturnReleasing(t, S)
    BY <1>8, NotifyIs
  <2> QED BY <1>6, <1>8, <2>1, NotifyIs DEF SleepersAt, NotifyLabels
<1>9. CASE BroadcastCheck(t) /\ At(t) \in bound
  BY <1>0, <1>9 DEF BroadcastCheck
<1>10. ASSUME NEW c \in Conds, Signal(t, c) \/ Broadcast(t, c)
       PROVE  /\ stack'[u] = stack[u] /\ cur'[u] = cur[u]
              /\ cpc'[u] = cpc[u]
              /\ u \in notified => u \in notified'
              /\ u \in notified' => u \in notified \/ Waiting(u)
  BY <1>10, IncreaseIs DEF WaitersAt
<1> QED BY <1>1, <1>2, <1>3, <1>4, <1>5, <1>7, <1>8, <1>9, <1>10, Steps

\* What a step of t does to t itself.
LEMMA SelfMoves ==
  ASSUME Control, NotifiedWait, NEW t \in Threads, ThreadStep(t)
  PROVE  /\ Waiting(t)' => \/ Waiting(t) /\ stack'[t] = stack[t] /\ cur'[t] = cur[t]
                              /\ (t \in notified' <=> t \in notified)
                           \/ WaitReadSeq(t) /\ stack'[t] = stack[t] /\ t \notin notified'
         /\ t \in notified' => Waiting(t)'
<1> USE DEF Goto, Waiting
<1>0. cpc \in [Threads -> CondLabels] /\ (t \in notified => Waiting(t))
  BY DEF Control, TypeOK, NotifiedWait
<1>1. CASE LockCall(t) \/ UnlockCall(t) \/ MutexStep(t) \/ MutexInterrupt(t) \/ \E c \in Conds : Destroy(t, c)
  BY <1>0, <1>1 DEF LockCall, UnlockCall, MutexStep, MutexInterrupt, condVars, Destroy, DestroyWhenUnused
<1>2. CASE Wait(t) \/ WaitParent(t)
  <2> PICK frames \in Seq(Conds) : /\ frames # <<>> /\ Frame(t, frames)
                                   /\ cpc[t] \in {"run", "w_frame"}
    BY <1>2, FrameIs
  <2> QED BY <1>0, BindIs DEF Control
<1>3. CASE WaitReadSeq(t) \/ ReleaseRead(t) \/ ReleaseWrite(t)
  BY <1>0, <1>3 DEF WaitReadSeq, ReleaseRead, ReleaseWrite, ReleaseStore, WaitersAt
<1>4. CASE WaitFutex(t) \/ WaitInterrupt(t)
  BY <1>0, <1>4 DEF WaitFutex, WaitInterrupt, LeaveFutex
<1>5. CASE ReleaseRequeue(t)
  BY <1>0, <1>5 DEF ReleaseRequeue, SleepersAt
<1>6. ASSUME NEW S \in SUBSET Threads, cpc[t] \notin {"run", "w_unlock", "w_sleep"},
             \A v \in S : cpc[v] = "w_sleep", ReturnReleasing(t, S)
      PROVE  ~Waiting(t)' /\ t \notin notified'
  BY <1>0, <1>6, ReturnIs DEF Control
<1>7. CASE WaitReturn(t) \/ ReleaseReturn(t)
  BY <1>6, <1>7 DEF WaitReturn, ReleaseReturn, ReleaseEnd
<1>8. CASE SignalWake(t) \/ (BroadcastCheck(t) /\ At(t) \notin bound) \/ BroadcastRequeue(t)
  <2>1. PICK S \in SUBSET SleepersAt(At(t)) : ReturnReleasing(t, S)
    BY <1>8, NotifyIs
  <2> QED BY <1>6, <1>8, <2>1, NotifyIs DEF SleepersAt, NotifyLabels
<1>9. CASE BroadcastCheck(t) /\ At(t) \in bound
  BY <1>0, <1>9 DEF BroadcastCheck
<1>10. ASSUME NEW c \in Conds, Signal(t, c) \/ Broadcast(t, c)
       PROVE  ~Waiting(t)' /\ t \notin notified'
  BY <1>0, <1>10, IncreaseIs DEF WaitersAt, NotifyLabels
<1> QED BY <1>1, <1>2, <1>3, <1>4, <1>5, <1>7, <1>8, <1>9, <1>10, Steps

\* Whoever leaves the futex is no longer marked.
LEMMA NotifiedWaitStep ==
  ASSUME Control, NotifiedWait, NEW t \in Threads, ThreadStep(t)
  PROVE  NotifiedWait'
<1>1. notified' \subseteq Threads
  BY ControlStep, NextIs DEF Control, TypeOK
<1>2. ASSUME NEW u \in notified', u # t PROVE Waiting(u)'
  BY <1>1, <1>2, OthersMove DEF NotifiedWait, Waiting
<1>3. t \in notified' => Waiting(t)'
  BY SelfMoves
<1> QED BY <1>1, <1>2, <1>3 DEF NotifiedWait

\* If all the waiters of c are notified then they stay so, until a thread
\* begins to wait there.
LEMMA NotifiedKept ==
  ASSUME Control, NotifiedWait, NEW t \in Threads, ThreadStep(t), NEW c,
         ~(WaitReadSeq(t) /\ At(t) = c), WaitersAt(c) \subseteq notified
  PROVE  (WaitersAt(c) \subseteq notified)'
<1> SUFFICES ASSUME NEW u \in Threads, Waiting(u)', At(u)' = c PROVE u \in notified'
  BY DEF WaitersAt, Waiting
<1>1. CASE u # t
  BY <1>1, OthersMove DEF WaitersAt, Waiting, At
<1>2. CASE u = t
  BY <1>2, SelfMoves DEF WaitersAt, Waiting, At
<1> QED BY <1>1, <1>2

-----------------------------------------------------------------------------
(* Nobody waits at a child without being represented or notified.          *)

\* What a step of t does to t as a representative.
LEMMA SelfReleases ==
  ASSUME Control, NEW t \in Threads, ThreadStep(t)
  PROVE  /\ cpc'[t] \in {"r_requeue", "r_reset"} =>
              \/ cpc[t] \in {"r_requeue", "r_reset"} /\ stack'[t] = stack[t]
              \/ ReleaseWrite(t) /\ stack'[t] = stack[t]
         /\ cpc'[t] \in {"w_frame", "w_seq"} =>
              \/ cpc'[t] = cpc[t] /\ stack'[t] = stack[t]
              \/ Wait(t) \/ WaitParent(t)
         /\ cpc'[t] = "r_write" =>
              \/ cpc[t] = "r_write" /\ stack'[t] = stack[t] /\ cur'[t] = cur[t]
              \/ ReleaseRead(t)
<1> USE DEF Goto
<1>0. cpc \in [Threads -> CondLabels]
  BY DEF Control, TypeOK
<1>1. CASE LockCall(t) \/ UnlockCall(t) \/ MutexStep(t) \/ MutexInterrupt(t) \/ \E c \in Conds : Destroy(t, c)
  BY <1>1 DEF LockCall, UnlockCall, MutexStep, MutexInterrupt, condVars, Destroy, DestroyWhenUnused
<1>2. CASE Wait(t) \/ WaitParent(t)
  <2> PICK frames \in Seq(Conds) : frames # <<>> /\ Frame(t, frames)
    BY <1>2, FrameIs
  <2> QED BY <1>2, BindIs DEF Control
<1>3. CASE WaitReadSeq(t) \/ ReleaseRead(t) \/ ReleaseWrite(t)
  BY <1>0, <1>3 DEF WaitReadSeq, ReleaseRead, ReleaseWrite, ReleaseStore
<1>4. CASE WaitFutex(t) \/ WaitInterrupt(t)
  BY <1>0, <1>4 DEF WaitFutex, WaitInterrupt, LeaveFutex
<1>5. CASE ReleaseRequeue(t)
  BY <1>0, <1>5 DEF ReleaseRequeue, SleepersAt
<1>6. ASSUME NEW S \in SUBSET Threads, cpc[t] \notin {"run", "w_sleep"},
             \A v \in S : cpc[v] = "w_sleep", ReturnReleasing(t, S)
      PROVE  cpc'[t] \in {"run", "r_read"}
  BY <1>6, ReturnIs DEF Control
<1>7. CASE WaitReturn(t) \/ ReleaseReturn(t)
  BY <1>6, <1>7 DEF WaitReturn, ReleaseReturn, ReleaseEnd
<1>8. CASE SignalWake(t) \/ (BroadcastCheck(t) /\ At(t) \notin bound) \/ BroadcastRequeue(t)
  <2>1. PICK S \in SUBSET SleepersAt(At(t)) : ReturnReleasing(t, S)
    BY <1>8, NotifyIs
  <2> QED BY <1>6, <1>8, <2>1, NotifyIs DEF SleepersAt, NotifyLabels
<1>9. CASE BroadcastCheck(t) /\ At(t) \in bound
  BY <1>0, <1>9 DEF BroadcastCheck
<1>10. ASSUME NEW c \in Conds, Signal(t, c) \/ Broadcast(t, c)
       PROVE  cpc'[t] \in NotifyLabels
  BY <1>10, IncreaseIs
<1> QED BY <1>1, <1>2, <1>3, <1>4, <1>5, <1>7, <1>8, <1>9, <1>10, Steps DEF NotifyLabels

\* Nobody waits at a child without a representative, unless notified.
Climbs == Control /\ Exclusive /\ NotifiedWait /\ Released /\ Represented

\* The objects for which t waits while it climbs had no other representative.
LEMMA WaitClimbs ==
  ASSUME Climbs, NEW t \in Threads, Wait(t) \/ WaitParent(t), NEW c \in Below(stack'[t])
  PROVE  \/ cpc[t] = "w_frame" /\ c \in Below(stack[t])
         \/ c \in Conds /\ Parent[c] # NoCond /\ \A u \in Threads : ~Represents(u, c)
<1> PICK frames \in Seq(Conds) :
      /\ frames # <<>> /\ Frame(t, frames)
      /\ \/ cpc[t] = "run" /\ Len(frames) = 1
         \/ cpc[t] = "w_frame" /\ frames = stack[t]
  BY FrameIs DEF Climbs
<1> DEFINE d == Head(frames)
<1>1. /\ d \in Conds
      /\ \/ /\ ~use_child[d] /\ Parent[d] # NoCond /\ Parent[d] \in Conds
            /\ stack'[t] = <<Parent[d]>> \o frames
         \/ stack'[t] = frames
  BY BindIs DEF Climbs, Control
<1>2. c \in Below(frames) => cpc[t] = "w_frame" /\ c \in Below(stack[t])
  BY ShortBelow
<1>3. ASSUME stack'[t] = <<Parent[d]>> \o frames, Parent[d] \in Conds
      PROVE  c \in Below(frames) \cup {d}
  BY <1>3, PushBelow
<1>4. CASE c = d /\ ~use_child[d] /\ Parent[d] # NoCond
  BY <1>1, <1>4 DEF Climbs, Exclusive, UseChild
<1> QED BY <1>1, <1>2, <1>3, <1>4

\* The waiters of an object that is climbed out of, or released, stay notified.
LEMMA ReleasedStep ==
  ASSUME Climbs, NEW t \in Threads, ThreadStep(t)
  PROVE  Released'
<1>0. \A c : ~(WaitReadSeq(t) /\ At(t) = c) /\ WaitersAt(c) \subseteq notified
               => (WaitersAt(c) \subseteq notified)'
  BY NotifiedKept DEF Climbs
<1>1. ASSUME NEW u \in Threads \ {t}, cpc'[u] \in {"r_requeue", "r_reset", "w_frame", "w_seq"}
      PROVE  /\ cpc'[u] = cpc[u] /\ stack'[u] = stack[u] /\ ~WaitReadSeq(t)
  <2>1. cpc'[u] = cpc[u] /\ stack'[u] = stack[u]
    BY <1>1, OthersMove DEF Climbs
  <2>2. Plain(u)
    BY <1>1, <2>1 DEF Plain, ReleaseLabels
  <2>3. WaitReadSeq(t) => Plain(t)
    BY DEF WaitReadSeq, Plain
  <2> QED BY <2>1, <2>2, <2>3, OnePlain DEF Climbs
<1>2. ASSUME NEW u \in Threads, cpc'[u] \in {"r_requeue", "r_reset"}
      PROVE  (WaitersAt(At(u)) \subseteq notified)'
  <2>1. CASE u # t
    BY <1>0, <1>1, <1>2, <2>1 DEF Climbs, Released, At
  <2>2. CASE u = t /\ cpc[t] \in {"r_requeue", "r_reset"} /\ stack'[t] = stack[t]
    <3>1. ~WaitReadSeq(t)
      BY <2>2 DEF WaitReadSeq
    <3> QED BY <1>0, <2>2, <3>1 DEF Climbs, Released, At
  <2>3. CASE u = t /\ ReleaseWrite(t)
    <3>1. /\ notified' = notified \cup WaitersAt(At(t)) /\ stack' = stack
          /\ cpc' = [cpc EXCEPT ![t] = "r_requeue"]
      BY <2>3 DEF ReleaseWrite, ReleaseStore, Goto
    <3>2. WaitersAt(At(t))' \subseteq WaitersAt(At(t))
      BY <3>1 DEF WaitersAt, At, Climbs, Control, TypeOK
    <3> QED BY <2>3, <3>1, <3>2
  <2> QED BY <1>2, <2>1, <2>2, <2>3, SelfReleases DEF Climbs
<1>3. ASSUME NEW u \in Threads, cpc'[u] \in {"w_frame", "w_seq"}, NEW c \in Below(stack'[u])
      PROVE  (WaitersAt(c) \subseteq notified)'
  <2>1. CASE u # t
    BY <1>0, <1>1, <1>3, <2>1 DEF Climbs, Released
  <2>2. CASE u = t /\ cpc'[t] = cpc[t] /\ stack'[t] = stack[t]
    <3>1. ~WaitReadSeq(t)
      BY <1>3, <2>2 DEF WaitReadSeq, Goto, Climbs, Control, TypeOK
    <3> QED BY <1>0, <1>3, <2>2, <3>1 DEF Climbs, Released
  <2>3. CASE u = t /\ (Wait(t) \/ WaitParent(t))
    <3>1. WaitersAt(c) \subseteq notified
      BY <1>3, <2>3, WaitClimbs DEF Climbs, Released, Represented
    <3>2. ~WaitReadSeq(t)
      BY <2>3 DEF WaitReadSeq, Wait, WaitParent, Call
    <3> QED BY <1>0, <3>1, <3>2
  <2> QED BY <1>3, <2>1, <2>2, <2>3, SelfReleases DEF Climbs
<1> QED BY <1>2, <1>3 DEF Released, Below

\* A waiter at a child stays represented or notified.
LEMMA RepresentedStep ==
  ASSUME Climbs, NEW t \in Threads, ThreadStep(t)
  PROVE  Represented'
<1> SUFFICES ASSUME NEW c \in Conds, Parent[c] # NoCond, ~(WaitersAt(c) \subseteq notified)'
             PROVE  \E u \in Threads : Represents(u, c)'
  BY DEF Represented
<1>1. \/ \A u \in Threads : Represents(u, c) => Represents(u, c)'
      \/ ReleaseReturn(t) /\ c = At(t)
  BY ExclusiveThreadStep DEF Climbs, Same, Begins, Ends
<1>2. CASE WaitReadSeq(t) /\ At(t) = c
  <2>1. use_child[c] /\ ~ReleaseReturn(t)
    BY <1>2 DEF WaitReadSeq, Climbs, Exclusive, Stays, ReleaseReturn, ReleaseEnd
  <2> QED BY <1>1, <2>1 DEF Climbs, Exclusive, UseChild
<1>3. CASE ~(WaitReadSeq(t) /\ At(t) = c)
  <2>1. ~(WaitersAt(c) \subseteq notified)
    BY <1>3, NotifiedKept DEF Climbs
  <2>2. ~(ReleaseReturn(t) /\ c = At(t))
    BY <2>1 DEF ReleaseReturn, ReleaseEnd, Climbs, Released
  <2> QED BY <1>1, <2>1, <2>2 DEF Climbs, Represented
<1> QED BY <1>2, <1>3

\* Every step keeps Climbs.
LEMMA ClimbsStep == Climbs /\ [Next]_vars => Climbs'
<1> SUFFICES ASSUME Climbs, [Next]_vars PROVE Climbs'
  OBVIOUS
<1>1. Control' /\ Exclusive'
  BY ControlStep, ExclusiveStep DEF Climbs
<1>2. CASE Next
  <2>1. NotifiedWait'
    BY <1>2, NextIs, NotifiedWaitStep DEF Climbs
  <2>2. Released' /\ Represented'
    BY <1>2, NextIs, ReleasedStep, RepresentedStep
  <2> QED BY <1>1, <2>1, <2>2 DEF Climbs
<1>3. CASE UNCHANGED vars
  <2>1. UNCHANGED <<cpc, stack, notified>>
    BY <1>3 DEF vars
  <2>2. /\ \A c : WaitersAt(c)' = WaitersAt(c)
        /\ \A t, c : Represents(t, c)' <=> Represents(t, c)
    BY <2>1, SameFrames DEF WaitersAt, At, Represents
  <2>3. NotifiedWait' /\ Released' /\ Represented'
    BY <2>1, <2>2 DEF Climbs, NotifiedWait, Waiting, Released, Represented, At
  <2> QED BY <1>1, <2>3 DEF Climbs
<1> QED BY <1>2, <1>3

\* It holds at first, if use_child is clear.
LEMMA ClimbsInit ==
  ASSUME InitialUseChild \subseteq {FALSE}, Init
  PROVE  Climbs
<1>1. Control /\ Exclusive
  BY ControlInit, ExclusiveInit
<1>2. \A t \in Threads : cpc[t] = "run"
  BY DEF Init
<1>3. \A c \in Conds : WaitersAt(c) = {}
  BY <1>2 DEF WaitersAt
<1> QED BY <1>1, <1>2, <1>3 DEF Climbs, NotifiedWait, Released, Represented, Init

\* And always.
LEMMA ClimbsHolds ==
  ASSUME InitialUseChild \subseteq {FALSE}
  PROVE  Spec => []Climbs
<1>1. Init => Climbs
  BY ClimbsInit
<1> QED BY <1>1, ClimbsStep, PTL DEF Spec

-----------------------------------------------------------------------------
(* seq.  As long as it does not wrap, what a waiter has read of it tells   *)
(* whether the waiter is notified.                                         *)

Counts == Climbs /\ Budget /\ ReadBefore

\* What a step of t does to seq and to the number of calls.
LEMMA SeqIs ==
  ASSUME Control, NEW t \in Threads, ThreadStep(t)
  PROVE  /\ calls' \in {calls, calls + 1}
         /\ calls' # calls => calls < MaxCalls
         /\ Wait(t) \/ (\E c \in Conds : Signal(t, c) \/ Broadcast(t, c)) => calls' = calls + 1
         /\ \/ seq' = seq /\ notified' \subseteq notified
            \/ ReleaseWrite(t)
            \/ \E c \in Conds : Signal(t, c) \/ Broadcast(t, c) \/ Destroy(t, c)
<1>1. CASE LockCall(t) \/ UnlockCall(t) \/ MutexStep(t) \/ MutexInterrupt(t)
  BY <1>1 DEF LockCall, UnlockCall, MutexStep, MutexInterrupt, condVars, Call,
              Wait, Signal, Broadcast, Increase, M!LockCall, M!FutexInterrupt
<1>2. CASE Wait(t) \/ WaitParent(t)
  BY <1>2 DEF Wait, WaitParent, Frame, BindAndGo, Call, Signal, Broadcast, Increase
<1>3. CASE WaitReadSeq(t) \/ ReleaseRead(t) \/ ReleaseWrite(t)
  BY <1>3 DEF WaitReadSeq, ReleaseRead, ReleaseWrite, ReleaseStore, Call,
              Wait, Signal, Broadcast, Increase
<1>4. CASE WaitFutex(t) \/ WaitInterrupt(t)
  BY <1>4 DEF WaitFutex, WaitInterrupt, LeaveFutex, Call, Wait, Signal, Broadcast, Increase
<1>5. CASE WaitReturn(t) \/ ReleaseReturn(t) \/ ReleaseRequeue(t)
  BY <1>5 DEF WaitReturn, ReleaseReturn, ReleaseEnd, ReleaseRequeue, Call,
              Wait, Signal, Broadcast, Increase, ReturnReleasing
<1>6. CASE SignalWake(t) \/ BroadcastCheck(t) \/ BroadcastRequeue(t)
  BY <1>6 DEF SignalWake, BroadcastCheck, BroadcastRequeue, Call, Wait, Signal,
              Broadcast, Increase, ReturnReleasing
<1>7. CASE \E c \in Conds : Signal(t, c) \/ Broadcast(t, c)
  BY <1>7 DEF Signal, Broadcast, Increase, Call
<1>8. CASE \E c \in Conds : Destroy(t, c)
  BY <1>8 DEF Destroy, DestroyWhenUnused, Call, Wait, Signal, Broadcast, Increase
<1> QED BY <1>1, <1>2, <1>3, <1>4, <1>5, <1>6, <1>7, <1>8, Steps

\* Only a new call of wait makes a thread owe an increase.
LEMMA OwesLess ==
  ASSUME Control, Exclusive, NEW t \in Threads, ThreadStep(t), NEW u \in Threads, NEW c \in Conds,
         Owes(u, c)'
  PROVE  /\ Owes(u, c) \/ (u = t /\ Wait(t))
         /\ ~(u = t /\ ReleaseWrite(t) /\ c = At(t))
<1>0. cpc \in [Threads -> CondLabels]
  BY DEF Control, TypeOK
<1>a. Owes(u, c)' <=> \/ cpc'[u] \in WaitLabels
                      \/ cpc'[u] \in {"r_read", "r_write"} /\ Head(stack'[u]) = c
                      \/ c \in Below(stack'[u])
  BY DEF Owes, Below, At
<1> USE DEF WaitLabels
<1>1. CASE u # t
  BY <1>1, <1>a, OthersMove DEF Owes, At
<1>2. ASSUME u = t, stack'[t] = stack[t], cpc'[t] \in WaitLabels => cpc[t] \in WaitLabels,
             cpc'[t] \in {"r_read", "r_write"} => cpc[t] \in {"r_read", "r_write"}
      PROVE  Owes(u, c)
  BY <1>2, <1>a DEF Owes, At
<1>3. CASE u = t
  <2>1. CASE LockCall(t) \/ UnlockCall(t) \/ MutexStep(t) \/ MutexInterrupt(t) \/ \E d \in Conds : Destroy(t, d)
    <3>1. stack' = stack /\ cpc' = cpc
      BY <2>1 DEF LockCall, UnlockCall, MutexStep, MutexInterrupt, condVars, Destroy, DestroyWhenUnused
    <3>2. ~ReleaseWrite(t)
      BY <1>0, <3>1 DEF ReleaseWrite, ReleaseStore, Goto
    <3> QED BY <1>2, <1>3, <3>1, <3>2
  <2>2. CASE Wait(t) \/ WaitParent(t)
    BY <1>3, <2>2 DEF Wait, WaitParent, Call, ReleaseWrite, ReleaseStore, Owes
  <2>3. CASE WaitReadSeq(t) \/ ReleaseRead(t)
    BY <1>0, <1>2, <1>3, <2>3 DEF WaitReadSeq, ReleaseRead, ReleaseWrite, ReleaseStore, Goto
  <2>4. CASE ReleaseWrite(t)
    <3>1. stack' = stack /\ cpc'[t] = "r_requeue" /\ cpc[t] = "r_write"
      BY <1>0, <2>4 DEF ReleaseWrite, ReleaseStore, Goto
    <3>2. At(t) \notin Below(stack[t])
      BY <3>1 DEF Exclusive, Frames, ReleaseLabels
    <3> QED BY <1>3, <1>a, <3>1, <3>2 DEF Owes
  <2>5. CASE WaitFutex(t) \/ WaitInterrupt(t)
    BY <1>0, <1>2, <1>3, <2>5 DEF WaitFutex, WaitInterrupt, LeaveFutex, ReleaseWrite, ReleaseStore, Goto
  <2>6. CASE ReleaseRequeue(t)
    BY <1>0, <1>2, <1>3, <2>6 DEF ReleaseRequeue, SleepersAt, ReleaseWrite, ReleaseStore
  <2>7. CASE WaitReturn(t)
    BY <1>3, <2>7 DEF WaitReturn, ReleaseWrite, ReleaseStore, Owes
  <2>8. ASSUME NEW S \in SUBSET Threads, cpc[t] \notin {"run", "w_sleep", "r_write"},
               \A v \in S : cpc[v] = "w_sleep", ReturnReleasing(t, S)
        PROVE  Owes(t, c) /\ ~ReleaseWrite(t)
    <3>1. /\ stack[t] # <<>> /\ stack'[t] = Tail(stack[t])
          /\ \/ Len(stack[t]) = 1 /\ stack'[t] = <<>> /\ cpc'[t] = "run"
             \/ Len(stack[t]) # 1 /\ stack'[t] # <<>> /\ cpc'[t] = "r_read"
      BY <2>8, ReturnIs DEF Control
    <3>2. Len(stack[t]) # 1
      BY <1>3, <1>a, <3>1, ShortBelow
    <3>3. Below(stack[t]) = Below(stack'[t]) \cup {Head(stack'[t])}
      BY <3>1, <3>2, PopBelow DEF Control, TypeOK
    <3> QED BY <1>3, <1>a, <2>8, <3>1, <3>2, <3>3 DEF Owes, ReleaseWrite, ReleaseStore
  <2>9. CASE ReleaseReturn(t)
    BY <1>3, <2>8, <2>9 DEF ReleaseReturn, ReleaseEnd
  <2>10. CASE SignalWake(t) \/ (BroadcastCheck(t) /\ At(t) \notin bound) \/ BroadcastRequeue(t)
    <3>1. PICK S \in SUBSET SleepersAt(At(t)) : ReturnReleasing(t, S)
      BY <2>10, NotifyIs
    <3> QED BY <1>3, <2>8, <2>10, <3>1, NotifyIs DEF SleepersAt, NotifyLabels
  <2>11. CASE BroadcastCheck(t) /\ At(t) \in bound
    BY <1>0, <1>2, <1>3, <2>11 DEF BroadcastCheck, Goto, ReleaseWrite, ReleaseStore
  <2>12. ASSUME NEW d \in Conds, Signal(t, d) \/ Broadcast(t, d) PROVE ~Owes(t, c)'
    <3>1. cpc'[t] \in NotifyLabels /\ Below(stack'[t]) = {}
      BY <2>12, IncreaseIs, ShortBelow
    <3> QED BY <1>3, <1>a, <3>1 DEF NotifyLabels
  <2> QED BY <1>3, <2>1, <2>2, <2>3, <2>4, <2>5, <2>6, <2>7, <2>9, <2>10, <2>11, <2>12, Steps
<1> QED BY <1>1, <1>3

\* The threads that owe an increase can be counted.
LEMMA OwingIs ==
  ASSUME NEW c \in Conds
  PROVE  /\ IsFiniteSet(Owing(c)) /\ Cardinality(Owing(c)) \in Nat
         /\ IsFiniteSet(Owing(c)') /\ Cardinality(Owing(c)') \in Nat
<1>1. Owing(c) \subseteq Threads /\ Owing(c)' \subseteq Threads
  BY DEF Owing
<1> QED BY <1>1, CondAssumption, FS_Subset, FS_CardinalityType

\* What the steps below need of Counts.
LEMMA CountsTypes ==
  ASSUME Counts
  PROVE  /\ seq \in [Conds -> 0 .. SeqMod - 1] /\ cur \in [Threads -> 0 .. SeqMod - 1]
         /\ seq \in [Conds -> Nat] /\ cur \in [Threads -> Nat] /\ calls \in Nat
         /\ calls <= MaxCalls /\ MaxCalls \in Nat /\ SeqMod \in Nat
         /\ cpc \in [Threads -> CondLabels]
         /\ \A c \in Conds : seq[c] + Cardinality(Owing(c)) <= calls
BY CondAssumption DEF Counts, Climbs, Control, TypeOK, Budget

\* The representative's seq++ does not wrap.
LEMMA ReleaseWriteIs ==
  ASSUME MaxCalls < SeqMod, Counts, NEW t \in Threads, ReleaseWrite(t)
  PROVE  /\ At(t) \in Conds /\ cur[t] <= seq[At(t)] /\ t \in Owing(At(t))
         /\ seq'[At(t)] = cur[t] + 1 /\ \A c \in Conds \ {At(t)} : seq'[c] = seq[c]
         /\ calls' = calls /\ notified' = notified \cup WaitersAt(At(t))
         /\ UNCHANGED <<stack, cur>>
         /\ cpc[t] = "r_write" /\ cpc'[t] = "r_requeue"
<1>1. At(t) \in Conds /\ cur[t] <= seq[At(t)] /\ t \in Owing(At(t))
  BY PopIs DEF ReleaseWrite, ReleaseStore, Counts, Climbs, Control, TypeOK, At, ReadBefore,
               Owing, Owes
<1>2. /\ seq' = [seq EXCEPT ![At(t)] = (cur[t] + 1) % SeqMod]
      /\ cpc' = [cpc EXCEPT ![t] = "r_requeue"] /\ cpc[t] = "r_write"
      /\ calls' = calls /\ notified' = notified \cup WaitersAt(At(t))
      /\ UNCHANGED <<stack, cur>>
  BY DEF ReleaseWrite, ReleaseStore, Goto
<1>3. Cardinality(Owing(At(t))) \in Nat \ {0}
  BY <1>1, OwingIs, FS_EmptySet
<1>4. cur[t] + 1 < SeqMod
  <2> DEFINE k == Cardinality(Owing(At(t)))
  <2>1. seq[At(t)] + k <= calls /\ k \in Nat \ {0} /\ seq[At(t)] \in Nat /\ cur[t] \in Nat
    BY <1>1, <1>3, CountsTypes
  <2> HIDE DEF k
  <2> QED BY <1>1, <2>1, CountsTypes
<1>5. (cur[t] + 1) % SeqMod = cur[t] + 1
  BY <1>4, CountsTypes, NextSeq
<1> QED BY <1>1, <1>2, <1>5, CountsTypes

\* Nor does the increment of a signal or a broadcast.
LEMMA IncreaseSeqIs ==
  ASSUME MaxCalls < SeqMod, Counts, NEW t \in Threads, NEW d \in Conds,
         Signal(t, d) \/ Broadcast(t, d)
  PROVE  seq'[d] = seq[d] + 1 /\ \A c \in Conds \ {d} : seq'[c] = seq[c]
<1>1. seq' = [seq EXCEPT ![d] = (seq[d] + 1) % SeqMod] /\ calls < MaxCalls
  BY IncreaseIs DEF Counts, Climbs
<1>2. seq[d] + 1 < SeqMod
  <2> DEFINE k == Cardinality(Owing(d))
  <2>1. seq[d] + k <= calls /\ k \in Nat /\ seq[d] \in Nat
    BY OwingIs, CountsTypes
  <2> HIDE DEF k
  <2> QED BY <1>1, <2>1, CountsTypes
<1>3. (seq[d] + 1) % SeqMod = seq[d] + 1
  BY <1>2, CountsTypes, NextSeq
<1> QED BY <1>1, <1>3, CountsTypes

\* A call pays for every increase it will make.
LEMMA BudgetStep ==
  ASSUME MaxCalls < SeqMod, Counts, NEW t \in Threads, ThreadStep(t)
  PROVE  Budget'
<1> DEFINE K(c) == Cardinality(Owing(c))
<1>0. /\ seq \in [Conds -> Nat] /\ cur \in [Threads -> Nat] /\ calls \in Nat
      /\ calls <= MaxCalls /\ \A c \in Conds : seq[c] + K(c) <= calls
      /\ MaxCalls \in Nat
  BY CountsTypes
<1>1. /\ calls' \in {calls, calls + 1}
      /\ calls' # calls => calls < MaxCalls
      /\ Wait(t) \/ (\E c \in Conds : Signal(t, c) \/ Broadcast(t, c)) => calls' = calls + 1
      /\ \/ seq' = seq
         \/ ReleaseWrite(t)
         \/ \E c \in Conds : Signal(t, c) \/ Broadcast(t, c) \/ Destroy(t, c)
  BY SeqIs DEF Counts, Climbs
<1>2. \A c \in Conds : /\ IsFiniteSet(Owing(c)) /\ K(c) \in Nat
                       /\ IsFiniteSet(Owing(c)') /\ K(c)' \in Nat
  BY OwingIs
<1>3. \A c \in Conds : /\ K(c)' <= K(c) \/ (Wait(t) /\ K(c)' <= K(c) + 1)
                       /\ ReleaseWrite(t) /\ c = At(t) => K(c) >= 1 /\ K(c)' <= K(c) - 1
  <2> SUFFICES ASSUME NEW c \in Conds
               PROVE  /\ K(c)' <= K(c) \/ (Wait(t) /\ K(c)' <= K(c) + 1)
                      /\ ReleaseWrite(t) /\ c = At(t) => K(c) >= 1 /\ K(c)' <= K(c) - 1
    OBVIOUS
  <2>1. Owing(c)' \subseteq Owing(c) \/ (Wait(t) /\ Owing(c)' \subseteq Owing(c) \cup {t})
    BY OwesLess DEF Owing, Counts, Climbs
  <2>2. Cardinality(Owing(c) \cup {t}) <= K(c) + 1 /\ IsFiniteSet(Owing(c) \cup {t})
    <3>1. IsFiniteSet(Owing(c)) /\ Cardinality(Owing(c)) \in Nat
      BY <1>2
    <3> DEFINE k == Cardinality(Owing(c))
    <3>2. /\ IsFiniteSet(Owing(c) \cup {t})
          /\ Cardinality(Owing(c) \cup {t}) = IF t \in Owing(c) THEN k ELSE k + 1
      BY <3>1, FS_AddElement
    <3>3. k \in Nat
      BY <3>1
    <3> HIDE DEF k
    <3>4. Cardinality(Owing(c) \cup {t}) <= k + 1
      BY <3>2, <3>3
    <3> QED BY <3>2, <3>4 DEF k
  <2>3. CASE ReleaseWrite(t) /\ c = At(t)
    <3>1. t \in Owing(c) /\ Owing(c)' \subseteq Owing(c) \ {t}
      BY <2>3, OwesLess DEF Owing, Counts, Climbs, Owes, ReleaseWrite, ReleaseStore, Wait, Call
    <3>2. Cardinality(Owing(c) \ {t}) = K(c) - 1 /\ IsFiniteSet(Owing(c) \ {t})
          /\ Cardinality(Owing(c) \ {t}) \in Nat
      BY <1>2, <3>1, FS_RemoveElement, FS_CardinalityType
    <3>3. K(c)' <= K(c) - 1
      BY <3>1, <3>2, FS_Subset
    <3> QED BY <1>2, <3>2, <3>3
  <2>4. CASE ~(ReleaseWrite(t) /\ c = At(t))
    <3>1. CASE Owing(c)' \subseteq Owing(c)
      BY <1>2, <2>4, <3>1, FS_Subset
    <3>2. CASE Wait(t) /\ Owing(c)' \subseteq Owing(c) \cup {t}
      <4>1. Cardinality(Owing(c)') <= Cardinality(Owing(c) \cup {t})
        BY <2>2, <3>2, FS_Subset
      <4>2. Cardinality(Owing(c) \cup {t}) \in Nat
        BY <2>2, FS_CardinalityType
      <4> QED BY <1>2, <2>2, <2>4, <3>2, <4>1, <4>2
    <3> QED BY <2>1, <3>1, <3>2
  <2> QED BY <2>3, <2>4
<1> HIDE DEF K
<1>4. calls' <= MaxCalls /\ calls' \in Nat /\ calls <= calls'
  BY <1>0, <1>1
<1>5. CASE seq' = seq
  <2>1. \A c \in Conds : seq'[c] + K(c)' <= calls'
    BY <1>0, <1>1, <1>2, <1>3, <1>4, <1>5
  <2> QED BY <1>4, <2>1 DEF Budget, K
<1>6. CASE ReleaseWrite(t)
  <2>1. /\ At(t) \in Conds /\ cur[t] <= seq[At(t)] /\ calls' = calls /\ cpc[t] = "r_write"
        /\ seq'[At(t)] = cur[t] + 1 /\ \A c \in Conds \ {At(t)} : seq'[c] = seq[c]
    BY <1>6, ReleaseWriteIs
  <2>2. ~Wait(t)
    BY <2>1 DEF Wait, Call
  <2>3. ASSUME NEW c \in Conds PROVE seq'[c] + K(c)' <= calls'
    <3>1. CASE c = At(t)
      BY <1>0, <1>2, <1>3, <1>6, <2>1, <3>1
    <3>2. CASE c # At(t)
      BY <1>0, <1>2, <1>3, <2>1, <2>2, <3>2
    <3> QED BY <3>1, <3>2
  <2> QED BY <1>4, <2>3 DEF Budget, K
<1>7. ASSUME NEW d \in Conds, Signal(t, d) \/ Broadcast(t, d) PROVE Budget'
  <2>1. seq'[d] = seq[d] + 1 /\ \A c \in Conds \ {d} : seq'[c] = seq[c]
    BY <1>7, IncreaseSeqIs
  <2>2. ~Wait(t)
    BY <1>7, IncreaseIs DEF Counts, Climbs, Wait, Frame, BindAndGo, Goto, NotifyLabels, Control, TypeOK
  <2>3. ASSUME NEW c \in Conds PROVE seq'[c] + K(c)' <= calls'
    BY <1>0, <1>1, <1>2, <1>3, <1>7, <2>1, <2>2
  <2> QED BY <1>4, <2>3 DEF Budget, K
<1>8. ASSUME NEW d \in Conds, Destroy(t, d) PROVE Budget'
  <2>1. seq' = [seq EXCEPT ![d] = 0] /\ calls' = calls + 1
    BY <1>8 DEF Destroy, DestroyWhenUnused, Call
  <2>2. seq'[d] = 0 /\ \A c \in Conds \ {d} : seq'[c] = seq[c]
    BY <1>0, <2>1
  <2>3. ASSUME NEW c \in Conds PROVE seq'[c] + K(c)' <= calls'
    BY <1>0, <1>2, <1>3, <2>1, <2>2
  <2> QED BY <1>4, <2>3 DEF Budget, K
<1> QED BY <1>1, <1>5, <1>6, <1>7, <1>8

\* An object on which a call is running, other than one that takes the mutex
\* back, is not destroyed.
LEMMA InUse ==
  ASSUME Control, NEW t \in Threads, cpc[t] \notin {"run", "w_lock"}
  PROVE  At(t) \in Conds /\ t \in Users(At(t))
<1>1. stack[t] \in Seq(Conds) /\ stack[t] # <<>>
  BY DEF Control, TypeOK
<1>2. stack[t][1] = At(t) /\ At(t) \in Conds /\ 1 \in 1..Len(stack[t])
  BY <1>1, PopIs DEF At
<1> QED BY <1>2 DEF Users

\* What a waiter has read stays in order with seq.
LEMMA ReadBeforeStep ==
  ASSUME MaxCalls < SeqMod, Counts, NEW t \in Threads, ThreadStep(t)
  PROVE  ReadBefore'
<1>0. /\ seq \in [Conds -> Nat] /\ cur \in [Threads -> Nat] /\ cpc \in [Threads -> CondLabels]
      /\ Control /\ NotifiedWait
  BY CountsTypes DEF Counts, Climbs
<1>1. ASSUME NEW u \in Threads, Waiting(u)'
      PROVE  \/ Waiting(u) /\ At(u)' = At(u) /\ cur'[u] = cur[u] /\ At(u) \in Conds
             \/ u = t /\ WaitReadSeq(t) /\ At(t)' = At(t) /\ t \notin notified'
  <2>1. Waiting(u) => At(u) \in Conds
    BY <1>0, InUse DEF Waiting
  <2>2. CASE u # t
    BY <1>0, <1>1, <2>1, <2>2, OthersMove DEF Waiting, At
  <2>3. CASE u = t
    BY <1>0, <1>1, <2>1, <2>3, SelfMoves DEF At
  <2> QED BY <2>2, <2>3
<1>2. ASSUME NEW u \in Threads, cpc'[u] = "r_write"
      PROVE  \/ /\ cpc[u] = "r_write" /\ At(u)' = At(u) /\ cur'[u] = cur[u] /\ At(u) \in Conds
                /\ ~WaitReadSeq(t)
             \/ u = t /\ ReleaseRead(t)
  <2>1. cpc[u] = "r_write" => At(u) \in Conds
    BY <1>0, InUse
  <2>2. cpc[u] = "r_write" => ~WaitReadSeq(t)
    BY <1>0, OnePlain DEF WaitReadSeq, Plain, ReleaseLabels
  <2>3. CASE u # t
    BY <1>0, <1>2, <2>1, <2>2, <2>3, OthersMove DEF At
  <2>4. CASE u = t
    BY <1>0, <1>2, <2>1, <2>2, <2>4, SelfReleases DEF At
  <2> QED BY <2>3, <2>4
<1>3. ASSUME NEW u \in Threads, Waiting(u), At(u) \in Conds
      PROVE  /\ cur[u] <= seq[At(u)] /\ (u \in notified => cur[u] < seq[At(u)])
  BY <1>3 DEF Counts, ReadBefore
<1>4. ASSUME NEW u \in Threads, cpc[u] = "r_write"
      PROVE  /\ cur[u] <= seq[At(u)]
             /\ \A v \in Threads : Waiting(v) /\ At(v) = At(u) => cur[v] <= cur[u]
  BY <1>4 DEF Counts, ReadBefore, WaitersAt, Waiting
<1>5. SUFFICES
        /\ \A u \in Threads : Waiting(u)' =>
             /\ cur'[u] <= seq'[At(u)'] /\ (u \in notified' => cur'[u] < seq'[At(u)'])
        /\ \A u, v \in Threads : cpc'[u] = "r_write" =>
             /\ cur'[u] <= seq'[At(u)']
             /\ Waiting(v)' /\ At(v)' = At(u)' => cur'[v] <= cur'[u]
  BY DEF ReadBefore, WaitersAt, Waiting, At
<1>6. CASE seq' = seq /\ notified' \subseteq notified
  <2>1. WaitReadSeq(t) => cur'[t] = seq[At(t)] /\ At(t) \in Conds
    BY <1>0, InUse DEF WaitReadSeq
  <2>2. ReleaseRead(t) => /\ cur'[t] = seq[At(t)] /\ At(t)' = At(t) /\ At(t) \in Conds
                          /\ ~WaitReadSeq(t)
    BY <1>0, InUse DEF ReleaseRead, At, WaitReadSeq
  <2>3. ASSUME NEW u \in Threads, Waiting(u)'
        PROVE  cur'[u] <= seq'[At(u)'] /\ (u \in notified' => cur'[u] < seq'[At(u)'])
    BY <1>0, <1>1, <1>3, <1>6, <2>1, <2>3
  <2>4. ASSUME NEW u \in Threads, NEW v \in Threads, cpc'[u] = "r_write"
        PROVE  /\ cur'[u] <= seq'[At(u)']
               /\ Waiting(v)' /\ At(v)' = At(u)' => cur'[v] <= cur'[u]
    BY <1>0, <1>1, <1>2, <1>3, <1>4, <1>6, <2>2, <2>4
  <2> QED BY <2>3, <2>4
<1>7. CASE ReleaseWrite(t)
  <2>1. /\ At(t) \in Conds /\ seq'[At(t)] = cur[t] + 1
        /\ \A c \in Conds \ {At(t)} : seq'[c] = seq[c]
        /\ notified' = notified \cup WaitersAt(At(t))
        /\ cpc[t] = "r_write" /\ cpc'[t] = "r_requeue"
    BY <1>7, ReleaseWriteIs
  <2>2. ASSUME NEW u \in Threads, Waiting(u)'
        PROVE  cur'[u] <= seq'[At(u)'] /\ (u \in notified' => cur'[u] < seq'[At(u)'])
    <3>1. Waiting(u) /\ At(u)' = At(u) /\ cur'[u] = cur[u] /\ At(u) \in Conds
      BY <1>1, <2>1, <2>2 DEF WaitReadSeq
    <3>2. CASE At(u) = At(t)
      BY <1>0, <1>4, <2>1, <3>1, <3>2
    <3>3. CASE At(u) # At(t)
      BY <1>0, <1>3, <2>1, <3>1, <3>3 DEF WaitersAt
    <3> QED BY <3>2, <3>3
  <2>3. \A u \in Threads : cpc'[u] # "r_write"
    BY <1>0, <1>2, <2>1, OnePlain DEF Plain, ReleaseLabels, ReleaseRead
  <2> QED BY <2>2, <2>3
<1>8. ASSUME NEW d \in Conds, Signal(t, d) \/ Broadcast(t, d)
      PROVE  /\ \A u \in Threads : Waiting(u)' =>
                  /\ cur'[u] <= seq'[At(u)'] /\ (u \in notified' => cur'[u] < seq'[At(u)'])
             /\ \A u, v \in Threads : cpc'[u] = "r_write" =>
                  /\ cur'[u] <= seq'[At(u)']
                  /\ Waiting(v)' /\ At(v)' = At(u)' => cur'[v] <= cur'[u]
  <2>1. /\ seq'[d] = seq[d] + 1 /\ \A c \in Conds \ {d} : seq'[c] = seq[c]
        /\ notified' = notified \cup WaitersAt(d) /\ cpc[t] = "run"
    BY <1>0, <1>8, IncreaseSeqIs, IncreaseIs
  <2>2. ~WaitReadSeq(t) /\ ~ReleaseRead(t)
    BY <2>1 DEF WaitReadSeq, ReleaseRead
  <2>3. ASSUME NEW u \in Threads, Waiting(u)'
        PROVE  cur'[u] <= seq'[At(u)'] /\ (u \in notified' => cur'[u] < seq'[At(u)'])
    <3>1. Waiting(u) /\ At(u)' = At(u) /\ cur'[u] = cur[u] /\ At(u) \in Conds
      BY <1>1, <2>2, <2>3
    <3> QED BY <1>0, <1>3, <2>1, <3>1 DEF WaitersAt
  <2>4. ASSUME NEW u \in Threads, NEW v \in Threads, cpc'[u] = "r_write"
        PROVE  /\ cur'[u] <= seq'[At(u)']
               /\ Waiting(v)' /\ At(v)' = At(u)' => cur'[v] <= cur'[u]
    <3>1. cpc[u] = "r_write" /\ At(u)' = At(u) /\ cur'[u] = cur[u] /\ At(u) \in Conds
      BY <1>2, <2>2, <2>4
    <3> QED BY <1>0, <1>1, <1>4, <2>1, <2>2, <3>1
  <2> QED BY <2>3, <2>4
<1>9. ASSUME NEW d \in Conds, Destroy(t, d)
      PROVE  /\ \A u \in Threads : Waiting(u)' =>
                  /\ cur'[u] <= seq'[At(u)'] /\ (u \in notified' => cur'[u] < seq'[At(u)'])
             /\ \A u, v \in Threads : cpc'[u] = "r_write" =>
                  /\ cur'[u] <= seq'[At(u)']
                  /\ Waiting(v)' /\ At(v)' = At(u)' => cur'[v] <= cur'[u]
  <2>1. /\ UNCHANGED <<cpc, stack, cur, notified>> /\ Users(d) = {}
        /\ seq' = [seq EXCEPT ![d] = 0]
    BY <1>9 DEF Destroy, DestroyWhenUnused
  <2>2. ASSUME NEW u \in Threads, Waiting(u) \/ cpc[u] = "r_write"
        PROVE  seq'[At(u)] = seq[At(u)] /\ At(u)' = At(u) /\ cur'[u] = cur[u]
    <3>1. At(u) \in Conds /\ At(u) # d
      BY <1>0, <2>1, <2>2, InUse DEF Waiting
    <3> QED BY <1>0, <2>1, <3>1 DEF At
  <2>3. \A u \in Threads : (Waiting(u)' <=> Waiting(u)) /\ cpc'[u] = cpc[u]
    BY <2>1 DEF Waiting
  <2> QED BY <1>3, <1>4, <2>1, <2>2, <2>3 DEF Counts, ReadBefore
<1> QED BY <1>0, <1>6, <1>7, <1>8, <1>9, SeqIs

\* Every step keeps Counts.
LEMMA CountsStep ==
  ASSUME MaxCalls < SeqMod, Counts, [Next]_vars
  PROVE  Counts'
<1>1. Climbs'
  BY ClimbsStep DEF Counts
<1>2. CASE Next
  BY <1>1, <1>2, NextIs, BudgetStep, ReadBeforeStep DEF Counts
<1>3. CASE UNCHANGED vars
  BY <1>1, <1>3 DEF vars, Counts, Budget, Owing, Owes, Below, ReadBefore, Waiting, WaitersAt, At
<1> QED BY <1>2, <1>3

\* It holds at first.
LEMMA CountsInit ==
  ASSUME InitialUseChild \subseteq {FALSE}, Init
  PROVE  Counts
<1>1. Climbs
  BY ClimbsInit
<1>2. \A t \in Threads : cpc[t] = "run" /\ Below(stack[t]) = {}
  BY ShortBelow DEF Init
<1>3. ASSUME NEW c \in Conds PROVE seq[c] + Cardinality(Owing(c)) <= calls
  <2>1. Owing(c) = {}
    BY <1>2 DEF Owing, Owes, WaitLabels
  <2>2. Cardinality(Owing(c)) = 0 /\ seq[c] = 0 /\ calls = 0
    BY <2>1, FS_EmptySet DEF Init
  <2> QED BY <2>2
<1>4. Budget
  BY <1>3, CondAssumption DEF Budget, Init
<1>5. ReadBefore
  BY <1>2 DEF ReadBefore, Waiting
<1> QED BY <1>1, <1>4, <1>5 DEF Counts

\* A notified waiter that has not gone to sleep finds that seq has changed.
LEMMA NotifiedStaysAwake ==
  ASSUME Counts
  PROVE  NotifiedDoesNotSleep
<1> SUFFICES ASSUME NEW t \in notified, cpc[t] = "w_unlock" PROVE cur[t] # seq[At(t)]
  BY DEF NotifiedDoesNotSleep
<1>1. t \in Threads /\ Waiting(t)
  BY DEF Counts, Climbs, NotifiedWait, Waiting
<1>2. At(t) \in Conds /\ seq[At(t)] \in Nat /\ cur[t] \in Nat
  BY <1>1, InUse, CountsTypes DEF Counts, Climbs
<1>3. cur[t] < seq[At(t)]
  BY <1>1 DEF Counts, ReadBefore
<1> QED BY <1>2, <1>3

-----------------------------------------------------------------------------
(* The sleepers.                                                           *)

Sleeps == Counts /\ NoneSleeps /\ SleepersRepresented /\ Bound

\* A thread goes to sleep only when nobody has notified it.
LEMMA SleeperIs ==
  ASSUME Counts, NEW t \in Threads, ThreadStep(t), NEW u \in Threads, cpc'[u] = "w_sleep"
  PROVE  /\ stack'[u] = stack[u] /\ Waiting(u)
         /\ \/ cpc[u] = "w_sleep"
            \/ u = t /\ u \notin notified /\ WaitFutex(t)
<1>0. Control /\ NotifiedWait /\ cpc \in [Threads -> CondLabels]
  BY CountsTypes DEF Counts, Climbs
<1>1. CASE u # t
  BY <1>0, <1>1, OthersMove DEF Waiting
<1>2. CASE u = t
  <2>1. stack'[t] = stack[t] /\ Waiting(t)
    BY <1>0, <1>2, SelfMoves DEF Waiting, WaitReadSeq, Goto
  <2>2. CASE cpc[t] = "w_unlock"
    <3>1. WaitFutex(t)
      <4>1. \/ LockCall(t) \/ UnlockCall(t) \/ MutexStep(t) \/ MutexInterrupt(t)
               \/ \E c \in Conds : Destroy(t, c)
            => cpc' = cpc
        BY DEF LockCall, UnlockCall, MutexStep, MutexInterrupt, condVars, Destroy, DestroyWhenUnused
      <4>2. \/ Wait(t) \/ WaitParent(t) \/ WaitReadSeq(t) \/ ReleaseRead(t) \/ ReleaseWrite(t)
            \/ WaitInterrupt(t) \/ WaitReturn(t) \/ ReleaseReturn(t) \/ ReleaseRequeue(t)
            \/ (\E c \in Conds : Signal(t, c) \/ Broadcast(t, c))
            \/ SignalWake(t) \/ BroadcastCheck(t) \/ BroadcastRequeue(t)
            => cpc[t] # "w_unlock"
        BY DEF Wait, WaitParent, Call, WaitReadSeq, ReleaseRead, ReleaseWrite, ReleaseStore,
               WaitInterrupt, WaitReturn, ReleaseReturn, ReleaseEnd, ReleaseRequeue, Signal,
               Broadcast, Increase, SignalWake, BroadcastCheck, BroadcastRequeue
      <4> QED BY <1>2, <2>2, <4>1, <4>2, Steps
    <3>2. WaitBlocks(seq[At(t)], cur[t])
      BY <1>0, <1>2, <3>1 DEF WaitFutex, LeaveFutex, Goto
    <3>3. t \notin notified
      BY <2>2, <3>2, NotifiedStaysAwake DEF NotifiedDoesNotSleep, WaitBlocks
    <3> QED BY <1>2, <2>1, <3>1, <3>3
  <2> QED BY <1>2, <2>1, <2>2 DEF Waiting
<1> QED BY <1>1, <1>2

\* Nobody goes to sleep at an object that is climbed out of.
LEMMA NoneSleepsStep ==
  ASSUME Sleeps, NEW t \in Threads, ThreadStep(t)
  PROVE  NoneSleeps'
<1>0. Control /\ Climbs /\ Counts /\ NotifiedWait
  BY DEF Sleeps, Counts, Climbs
<1>1. ASSUME NEW u \in Threads, cpc'[u] = "w_sleep", NEW c, At(u)' = c,
             WaitersAt(c) \subseteq notified
      PROVE  u \in SleepersAt(c)
  BY <1>0, <1>1, SleeperIs DEF SleepersAt, WaitersAt, Waiting, At
<1>2. ASSUME NEW c, SleepersAt(c) = {}, WaitersAt(c) \subseteq notified
      PROVE  SleepersAt(c)' = {}
  BY <1>1, <1>2 DEF SleepersAt, At
<1>3. ASSUME NEW u \in Threads, cpc'[u] = "r_reset" PROVE SleepersAt(At(u))' = {}
  <2>1. CASE cpc[u] = "r_reset" /\ stack'[u] = stack[u]
    <3>1. SleepersAt(At(u)) = {} /\ WaitersAt(At(u)) \subseteq notified
      BY <1>0, <2>1 DEF Sleeps, NoneSleeps, Climbs, Released
    <3> QED BY <1>2, <2>1, <3>1 DEF At, SleepersAt
  <2>2. CASE u = t /\ ReleaseRequeue(t)
    <3>1. /\ stack' = stack /\ At(t)' = At(t)
          /\ \A v \in Threads : cpc'[v] = "w_sleep" => v \notin SleepersAt(At(t))
      BY <2>2 DEF ReleaseRequeue, At
    <3>2. WaitersAt(At(t)) \subseteq notified
      BY <1>0, <2>2 DEF ReleaseRequeue, Climbs, Released
    <3> QED BY <1>1, <2>2, <3>1, <3>2 DEF SleepersAt
  <2>3. u = t => \/ cpc[t] = "r_reset" /\ stack'[t] = stack[t]
                 \/ ReleaseRequeue(t)
    <3>0. u = t => \/ cpc[t] \in {"r_requeue", "r_reset"} /\ stack'[t] = stack[t]
                   \/ ReleaseWrite(t)
      BY <1>0, <1>3, SelfReleases
    <3>1. ReleaseWrite(t) => cpc'[t] # "r_reset"
      BY <1>0 DEF ReleaseWrite, ReleaseStore, Goto, Control, TypeOK
    <3>2. CASE cpc[t] = "r_requeue" /\ cpc'[t] = "r_reset"
      <4>1. \/ LockCall(t) \/ UnlockCall(t) \/ MutexStep(t) \/ MutexInterrupt(t)
               \/ \E c \in Conds : Destroy(t, c)
            => cpc' = cpc
        BY DEF LockCall, UnlockCall, MutexStep, MutexInterrupt, condVars, Destroy, DestroyWhenUnused
      <4>2. \/ Wait(t) \/ WaitParent(t) \/ WaitReadSeq(t) \/ ReleaseRead(t) \/ ReleaseWrite(t)
            \/ WaitFutex(t) \/ WaitInterrupt(t) \/ WaitReturn(t) \/ ReleaseReturn(t)
            \/ (\E c \in Conds : Signal(t, c) \/ Broadcast(t, c))
            \/ SignalWake(t) \/ BroadcastCheck(t) \/ BroadcastRequeue(t)
            => cpc[t] # "r_requeue"
        BY DEF Wait, WaitParent, Call, WaitReadSeq, ReleaseRead, ReleaseWrite, ReleaseStore,
               WaitFutex, WaitInterrupt, WaitReturn, ReleaseReturn, ReleaseEnd, Signal,
               Broadcast, Increase, SignalWake, BroadcastCheck, BroadcastRequeue
      <4> QED BY <3>2, <4>1, <4>2, Steps
    <3> QED BY <1>3, <3>0, <3>1, <3>2
  <2>4. u # t => cpc[u] = "r_reset" /\ stack'[u] = stack[u]
    BY <1>0, <1>3, OthersMove
  <2> QED BY <2>1, <2>2, <2>3, <2>4
<1>4. ASSUME NEW u \in Threads, cpc'[u] \in {"w_frame", "w_seq"}, NEW c \in Below(stack'[u])
      PROVE  SleepersAt(c)' = {}
  <2>1. CASE cpc[u] = cpc'[u] /\ stack'[u] = stack[u]
    BY <1>0, <1>2, <1>4, <2>1 DEF Sleeps, NoneSleeps, Climbs, Released
  <2>2. CASE u = t /\ (Wait(t) \/ WaitParent(t))
    <3>1. \/ cpc[t] = "w_frame" /\ c \in Below(stack[t])
          \/ c \in Conds /\ Parent[c] # NoCond /\ \A v \in Threads : ~Represents(v, c)
      BY <1>0, <1>4, <2>2, WaitClimbs
    <3>2. SleepersAt(c) = {} /\ WaitersAt(c) \subseteq notified
      BY <1>0, <3>1 DEF Sleeps, NoneSleeps, Climbs, Released, Represented, SleepersRepresented, SleepersAt
    <3> QED BY <1>2, <3>2
  <2>3. u # t => cpc[u] = cpc'[u] /\ stack'[u] = stack[u]
    BY <1>0, <1>4, OthersMove
  <2> QED BY <1>0, <1>4, <2>1, <2>2, <2>3, SelfReleases
<1> QED BY <1>3, <1>4 DEF NoneSleeps, Below

\* A sleeper at a child keeps its representative.
LEMMA SleepersRepresentedStep ==
  ASSUME Sleeps, NEW t \in Threads, ThreadStep(t)
  PROVE  SleepersRepresented'
<1>0. Control /\ Exclusive /\ Climbs /\ Counts
  BY DEF Sleeps, Counts, Climbs
<1> SUFFICES ASSUME NEW u \in Threads, cpc'[u] = "w_sleep", Parent[At(u)'] # NoCond
             PROVE  (\E v \in Threads : Represents(v, At(u)))'
  BY DEF SleepersRepresented
<1>1. /\ At(u)' = At(u) /\ Waiting(u)
      /\ \/ cpc[u] = "w_sleep"
         \/ u = t /\ u \notin notified /\ WaitFutex(t)
  BY <1>0, SleeperIs DEF At
<1>2. PICK c \in Conds : c = At(u)
  BY <1>0, <1>1, InUse DEF Waiting
<1>3. \E v \in Threads : Represents(v, c)
  <2>1. CASE cpc[u] = "w_sleep"
    BY <1>1, <1>2, <2>1 DEF Sleeps, SleepersRepresented
  <2>2. CASE u \notin notified
    BY <1>0, <1>1, <1>2, <2>2 DEF Climbs, Represented, WaitersAt, Waiting
  <2> QED BY <1>1, <2>1, <2>2
<1>4. ~(ReleaseReturn(t) /\ c = At(t))
  <2>1. ReleaseReturn(t) => cpc[t] = "r_reset"
    BY DEF ReleaseReturn, ReleaseEnd
  <2>2. ReleaseReturn(t) => SleepersAt(At(t)) = {} /\ ~WaitFutex(t)
    BY <2>1 DEF Sleeps, NoneSleeps, WaitFutex
  <2> QED BY <1>1, <1>2, <2>2 DEF SleepersAt
<1>5. \A v \in Threads : Represents(v, c) => Represents(v, c)'
  BY <1>0, <1>2, <1>4, ExclusiveThreadStep DEF Same, Begins, Ends
<1>6. ASSUME NEW v \in Threads, Represents(v, c)' PROVE Represents(v, At(u))'
  BY <1>1, <1>2, <1>6 DEF Represents, At
<1> QED BY <1>3, <1>5, <1>6

\* An object is bound by the wait on it, and until it is destroyed.
LEMMA BoundStep ==
  ASSUME Sleeps, NEW t \in Threads, ThreadStep(t)
  PROVE  Bound'
<1>0. Control /\ NotifiedWait
  BY DEF Sleeps, Counts, Climbs
<1>1. \/ bound' = bound
      \/ Wait(t) \/ WaitParent(t)
      \/ \E d \in Conds : Destroy(t, d)
  BY Steps DEF LockCall, UnlockCall, MutexStep, MutexInterrupt, condVars, WaitReadSeq, ReleaseRead,
               ReleaseWrite, ReleaseStore, WaitFutex, WaitInterrupt, WaitReturn, ReleaseReturn,
               ReleaseEnd, ReleaseRequeue, Signal, Broadcast, Increase, SignalWake,
               BroadcastCheck, BroadcastRequeue
<1>2. CASE Wait(t) \/ WaitParent(t)
  <2> PICK frames \in Seq(Conds) : frames # <<>> /\ Frame(t, frames)
    BY <1>0, <1>2, FrameIs
  <2>1. /\ bound' = bound \cup {Head(frames)} /\ cpc'[t] \in {"w_frame", "w_seq"}
        /\ cpc'[t] = "w_seq" => stack'[t] = frames
        /\ \A u \in Threads \ {t} : cpc'[u] = cpc[u] /\ stack'[u] = stack[u]
    BY <1>0, BindIs DEF Control
  <2> QED BY <2>1 DEF Sleeps, Bound, At
<1>3. CASE \E d \in Conds : Destroy(t, d)
  <2> PICK d \in Conds : Destroy(t, d)
    BY <1>3
  <2>1. UNCHANGED <<cpc, stack>> /\ bound' = bound \ {d} /\ Users(d) = {}
    BY DEF Destroy, DestroyWhenUnused
  <2>2. ASSUME NEW u \in Threads, cpc[u] \in {"w_seq", "w_unlock", "w_sleep"} PROVE At(u) # d
    BY <1>0, <2>1, <2>2, InUse
  <2> QED BY <2>1, <2>2 DEF Sleeps, Bound, At
<1>4. CASE bound' = bound /\ ~Wait(t) /\ ~WaitParent(t)
  <2> SUFFICES ASSUME NEW u \in Threads, cpc'[u] \in {"w_seq", "w_unlock", "w_sleep"}
               PROVE  cpc[u] \in {"w_seq", "w_unlock", "w_sleep"} /\ At(u)' = At(u)
    BY <1>4 DEF Sleeps, Bound
  <2>1. CASE u # t
    BY <1>0, <2>1, OthersMove DEF At
  <2>2. CASE u = t /\ cpc'[t] = "w_seq"
    BY <1>0, <1>4, <2>2, SelfReleases DEF At
  <2>3. CASE u = t /\ Waiting(t)'
    BY <1>0, <2>3, SelfMoves DEF At, Waiting, WaitReadSeq
  <2> QED BY <2>1, <2>2, <2>3 DEF Waiting
<1> QED BY <1>1, <1>2, <1>3, <1>4

\* Every step keeps Sleeps.
LEMMA SleepsStep ==
  ASSUME MaxCalls < SeqMod, Sleeps, [Next]_vars
  PROVE  Sleeps'
<1>1. Counts'
  BY CountsStep DEF Sleeps
<1>2. CASE Next
  BY <1>1, <1>2, NextIs, NoneSleepsStep, SleepersRepresentedStep, BoundStep DEF Sleeps
<1>3. CASE UNCHANGED vars
  <2>1. UNCHANGED <<cpc, stack, bound>>
    BY <1>3 DEF vars
  <2>2. NoneSleeps' /\ SleepersRepresented' /\ Bound'
    BY <2>1 DEF Sleeps, NoneSleeps, SleepersRepresented, Bound, SleepersAt, Below, At, Represents
  <2> QED BY <1>1, <2>2 DEF Sleeps
<1> QED BY <1>2, <1>3

\* It holds at first.
LEMMA SleepsInit ==
  ASSUME InitialUseChild \subseteq {FALSE}, Init
  PROVE  Sleeps
<1>1. \A t \in Threads : cpc[t] = "run"
  BY DEF Init
<1> QED BY <1>1, CountsInit DEF Sleeps, NoneSleeps, SleepersRepresented, Bound

-----------------------------------------------------------------------------
(* The waiters that a broadcast must release.                              *)

Releases == Sleeps /\ DueRepresented /\ NoLostBroadcast

\* What a step of t does to due, and where it leaves a thread that is due.
LEMMA DueIs ==
  ASSUME Control, NEW t \in Threads, ThreadStep(t)
  PROVE  /\ \/ due' = due /\ (cpc[t] \in WaitLabels \cup ReleaseLabels => cpc'[t] # "run")
            \/ due' = due \ {t} /\ stack'[t] = <<>> /\ cpc'[t] = "run"
            \/ ReleaseWrite(t) /\ due' = due \cup WaitersAt(At(t))
            \/ \E c \in Conds : Broadcast(t, c)
         /\ cpc[t] \in {"w_unlock", "w_sleep", "w_lock"} \cup ReleaseLabels =>
              cpc'[t] \in {"run", "w_unlock", "w_sleep", "w_lock"} \cup ReleaseLabels
<1> USE DEF Goto, WaitLabels, ReleaseLabels
<1>0. cpc \in [Threads -> CondLabels]
  BY DEF Control, TypeOK
<1>1. CASE LockCall(t) \/ UnlockCall(t) \/ MutexStep(t) \/ MutexInterrupt(t) \/ \E c \in Conds : Destroy(t, c)
  BY <1>1 DEF LockCall, UnlockCall, MutexStep, MutexInterrupt, condVars, Destroy, DestroyWhenUnused
<1>2. CASE Wait(t) \/ WaitParent(t)
  <2> PICK frames \in Seq(Conds) : /\ frames # <<>> /\ Frame(t, frames)
                                   /\ cpc[t] \in {"run", "w_frame"}
    BY <1>2, FrameIs
  <2> QED BY BindIs DEF Control
<1>3. CASE WaitReadSeq(t) \/ ReleaseRead(t) \/ ReleaseWrite(t)
  BY <1>0, <1>3 DEF WaitReadSeq, ReleaseRead, ReleaseWrite, ReleaseStore
<1>4. CASE WaitFutex(t) \/ WaitInterrupt(t)
  BY <1>0, <1>4 DEF WaitFutex, WaitInterrupt, LeaveFutex
<1>5. CASE ReleaseRequeue(t)
  BY <1>0, <1>5 DEF ReleaseRequeue, SleepersAt
<1>6. ASSUME NEW S \in SUBSET Threads, cpc[t] \notin {"run", "w_sleep"},
             \A v \in S : cpc[v] = "w_sleep", ReturnReleasing(t, S)
      PROVE  /\ cpc'[t] \in {"run", "r_read"}
             /\ \/ due' = due /\ cpc'[t] # "run"
                \/ due' = due \ {t} /\ stack'[t] = <<>> /\ cpc'[t] = "run"
  BY <1>6, ReturnIs DEF Control
<1>7. CASE WaitReturn(t) \/ ReleaseReturn(t)
  BY <1>6, <1>7 DEF WaitReturn, ReleaseReturn, ReleaseEnd
<1>8. CASE SignalWake(t) \/ (BroadcastCheck(t) /\ At(t) \notin bound) \/ BroadcastRequeue(t)
  <2>1. PICK S \in SUBSET SleepersAt(At(t)) : ReturnReleasing(t, S)
    BY <1>8, NotifyIs
  <2> QED BY <1>6, <1>8, <2>1, NotifyIs DEF SleepersAt, NotifyLabels
<1>9. CASE BroadcastCheck(t) /\ At(t) \in bound
  BY <1>0, <1>9 DEF BroadcastCheck
<1>10. ASSUME NEW c \in Conds, Signal(t, c) \/ Broadcast(t, c)
       PROVE  cpc[t] = "run" /\ (due' = due \/ Broadcast(t, c))
  BY <1>10, IncreaseIs DEF Signal
<1> QED BY <1>1, <1>2, <1>3, <1>4, <1>5, <1>7, <1>8, <1>9, <1>10, Steps

\* Whom a broadcast must release.
LEMMA BroadcastIs ==
  ASSUME Control, NEW t \in Threads, NEW c \in Conds, Broadcast(t, c)
  PROVE  /\ due \subseteq due' /\ due' \subseteq due \cup Waiters
         /\ \A u \in due' \ due : At(u) = c \/ (Parent[c] = NoCond /\ Parent[At(u)] # NoCond)
         /\ Parent[c] = NoCond => Waiters \subseteq due'
         /\ cpc'[t] = "b_check" /\ At(t)' = c
<1>1. due' = due \cup IF Parent[c] = NoCond THEN Waiters ELSE WaitersAt(c)
  BY DEF Broadcast
<1>2. WaitersAt(c) \subseteq Waiters /\ \A u \in WaitersAt(c) : At(u) = c
  BY DEF Waiters, WaitersAt
<1>3. \A u \in Waiters : At(u) \in Conds
  BY DEF Waiters, WaitersAt
<1>4. \A d \in Conds : Parent[c] = NoCond /\ Parent[d] = NoCond => d = c
  BY CondAssumption
<1>5. cpc'[t] = "b_check"
  BY DEF Broadcast, Increase, Goto, Control, TypeOK
<1>6. At(t)' = c
  BY IncreaseIs DEF At
<1> QED BY <1>1, <1>2, <1>3, <1>4, <1>5, <1>6

\* The waiters are the threads on a futex.
LEMMA WaitersAre ==
  ASSUME Control
  PROVE  \A u \in Threads : u \in Waiters <=> Waiting(u)
BY InUse DEF Waiters, WaitersAt, Waiting

\* Only threads in a wait are due.
LEMMA InsideKept ==
  ASSUME Control, due \subseteq Inside, NEW t \in Threads, ThreadStep(t)
  PROVE  due' \subseteq Inside'
<1> DEFINE Ins(u) == cpc[u] \in {"w_unlock", "w_sleep", "w_lock"} \cup ReleaseLabels
<1>1. \A u \in Threads : (u \in Inside <=> Ins(u)) /\ (u \in Inside' <=> Ins(u)')
  BY DEF Inside, WaitLabels
<1>2. due \subseteq Threads /\ due' \subseteq Threads
  BY ControlStep, NextIs DEF Control, TypeOK
<1>3. ASSUME NEW u \in Threads, Ins(u), u \in due' PROVE Ins(u)'
  <2>1. CASE u # t
    BY <1>3, <2>1, OthersMove
  <2>2. CASE u = t
    <3>1. cpc'[t] # "run"
      <4>1. CASE ReleaseWrite(t)
        BY <4>1 DEF ReleaseWrite, ReleaseStore, Goto, Control, TypeOK
      <4>2. CASE \E c \in Conds : Broadcast(t, c)
        BY <4>2, BroadcastIs
      <4> QED BY <1>3, <2>2, <4>1, <4>2, DueIs DEF WaitLabels
    <3> QED BY <1>3, <2>2, <3>1, DueIs
  <2> QED BY <2>1, <2>2
<1>4. ASSUME NEW u \in due' PROVE Ins(u)
  <2>1. due' \subseteq due \cup Waiters
    <3>1. ReleaseWrite(t) => WaitersAt(At(t)) \subseteq Waiters
      BY InUse DEF ReleaseWrite, ReleaseStore, Waiters
    <3> QED BY <3>1, DueIs, BroadcastIs
  <2> QED BY <1>1, <1>2, <1>4, <2>1, WaitersAre DEF Waiting
<1> QED BY <1>1, <1>2, <1>3, <1>4

\* As long as somebody waits at c for its release, the representative of c
\* stays, and stays due or on its way.
LEMMA RepresentativeStays ==
  ASSUME Sleeps, NEW t \in Threads, ThreadStep(t), NEW c \in Conds, NEW v \in Threads,
         Represents(v, c), v \in due \/ ~Waiting(v),
         NEW w \in Threads, At(w) = c, cpc[w] = "w_sleep" \/ (Waiting(w) /\ w \notin notified)
  PROVE  Represents(v, c)' /\ (v \in due' \/ ~Waiting(v)')
<1>0. Control /\ Exclusive /\ NotifiedWait /\ Released /\ NoneSleeps
  BY DEF Sleeps, Counts, Climbs
<1>1. w \in SleepersAt(c) \/ w \in WaitersAt(c) \ notified
  BY DEF SleepersAt, WaitersAt, Waiting
<1>2. ~(ReleaseReturn(t) /\ c = At(t))
  BY <1>0, <1>1 DEF ReleaseReturn, ReleaseEnd, Released, NoneSleeps
<1>3. Represents(v, c)'
  BY <1>0, <1>2, ExclusiveThreadStep DEF Same, Begins, Ends
<1>4. v \in due => v \in due'
  <2>1. ~(stack'[v] = <<>> /\ cpc'[v] = "run")
    BY <1>3, RepresentsNext, ShortBelow DEF ReleaseLabels
  <2> QED BY <1>0, <2>1, DueIs, BroadcastIs
<1>5. ~Waiting(v) => ~Waiting(v)'
  <2>1. v # t => (~Waiting(v) => ~Waiting(v)')
    BY <1>0, OthersMove DEF Waiting
  <2>2. ASSUME v = t, ~Waiting(v), Waiting(v)' PROVE FALSE
    <3>1. WaitReadSeq(t)
      BY <1>0, <2>2, SelfMoves
    <3>2. cpc[t] = "w_seq" /\ c \in Below(stack[t])
      BY <2>2, <3>1, RepresentsIs DEF WaitReadSeq, ReleaseLabels
    <3> QED BY <1>0, <1>1, <3>2 DEF Released, NoneSleeps
  <2> QED BY <2>1, <2>2
<1> QED BY <1>3, <1>4, <1>5

\* A broadcast finds a representative for every waiter it makes due that is
\* not at the object of the broadcast.
LEMMA BroadcastRepresented ==
  ASSUME Sleeps, NEW t \in Threads, NEW d \in Conds, Broadcast(t, d), NEW w \in due' \ due,
         At(w) # d, cpc[w] = "w_sleep" \/ w \notin notified
  PROVE  \E v \in Threads : Represents(v, At(w)) /\ (v \in due' \/ ~Waiting(v)')
                            /\ \A c \in Conds : Represents(v, c) => Represents(v, c)'
<1>0. Control /\ Exclusive /\ Represented /\ SleepersRepresented
  BY DEF Sleeps, Counts, Climbs
<1>1. /\ w \in Waiters /\ Parent[d] = NoCond /\ Parent[At(w)] # NoCond /\ Waiters \subseteq due'
  BY <1>0, BroadcastIs
<1>2. w \in Threads /\ Waiting(w) /\ At(w) \in Conds
  BY <1>0, <1>1, WaitersAre DEF Waiters, WaitersAt
<1>3. PICK v \in Threads : Represents(v, At(w))
  BY <1>0, <1>1, <1>2 DEF Represented, SleepersRepresented, WaitersAt, Waiting
<1>4. Same
  BY <1>0, ExclusiveIncrease
<1>5. v # t
  BY <1>0, <1>3, IncreaseIs, RepresentsIs, ShortBelow DEF ReleaseLabels
<1>6. Waiting(v)' => v \in Waiters
  BY <1>0, <1>5, IncreaseIs, WaitersAre DEF Waiting
<1> QED BY <1>1, <1>3, <1>4, <1>6 DEF Same

\* A waiter that is due and not notified keeps a representative to wait for.
LEMMA DueRepresentedStep ==
  ASSUME Releases, NEW t \in Threads, ThreadStep(t)
  PROVE  DueRepresented'
<1>0. /\ Control /\ NotifiedWait /\ Sleeps /\ due \subseteq Inside
      /\ due' \subseteq Threads
  BY ControlStep, NextIs DEF Releases, Sleeps, Counts, Climbs, DueRepresented, Control, TypeOK
<1>1. due' \subseteq Inside'
  BY <1>0, InsideKept
<1>2. ASSUME NEW u \in due' \ notified', Waiting(u)'
      PROVE  (\E v \in Threads : Represents(v, At(u)) /\ (v \in due \/ ~Waiting(v)))'
  <2>0. u \in Threads
    BY <1>0
  <2>1. u \in due \/ Waiting(u)
    BY <1>0, <2>0, <1>2, DueIs, BroadcastIs, WaitersAre DEF WaitersAt, Waiting
  <2>2. Waiting(u) /\ At(u)' = At(u) /\ u \notin notified
    <3>1. CASE u # t
      BY <1>0, <1>2, <2>0, <3>1, OthersMove DEF Waiting, At
    <3>2. CASE u = t
      <4>1. ~WaitReadSeq(t)
        BY <1>0, <2>0, <2>1, <3>2 DEF WaitReadSeq, Inside, WaitLabels, ReleaseLabels, Waiting
      <4> QED BY <1>0, <1>2, <3>2, <4>1, SelfMoves DEF At
    <3> QED BY <3>1, <3>2
  <2>3. PICK c \in Conds : c = At(u)
    BY <1>0, <2>0, <2>2, InUse DEF Waiting
  <2>4. ASSUME NEW v \in Threads, Represents(v, c)', v \in due' \/ ~Waiting(v)'
        PROVE  (\E x \in Threads : Represents(x, At(u)) /\ (x \in due \/ ~Waiting(x)))'
    BY <2>2, <2>3, <2>4 DEF Represents, At, Waiting
  <2>5. CASE u \in due
    <3>1. PICK v \in Threads : Represents(v, c) /\ (v \in due \/ ~Waiting(v))
      BY <2>2, <2>3, <2>5 DEF Releases, DueRepresented
    <3>2. Represents(v, c)' /\ (v \in due' \/ ~Waiting(v)')
      BY <1>0, <2>0, <2>2, <2>3, <3>1, RepresentativeStays
    <3> QED BY <2>4, <3>2
  <2>6. CASE u \notin due
    <3>1. ~(ReleaseWrite(t) /\ due' = due \cup WaitersAt(At(t)))
      BY <1>2, <2>6 DEF ReleaseWrite, ReleaseStore
    <3>2. PICK d \in Conds : Broadcast(t, d)
      BY <1>2, <2>6, <3>1, <1>0, DueIs
    <3>3. c # d
      BY <1>0, <1>2, <2>0, <2>2, <2>3, <3>2, IncreaseIs DEF WaitersAt, Waiting
    <3>4. PICK v \in Threads : /\ Represents(v, At(u)) /\ (v \in due' \/ ~Waiting(v)')
                               /\ \A e \in Conds : Represents(v, e) => Represents(v, e)'
      BY <1>0, <1>2, <2>2, <2>3, <2>6, <3>2, <3>3, BroadcastRepresented
    <3> QED BY <2>3, <2>4, <3>4
  <2> QED BY <2>5, <2>6
<1> QED BY <1>1, <1>2 DEF DueRepresented

\* A sleeper that is due keeps its release on the way.
LEMMA NoLostBroadcastStep ==
  ASSUME Releases, NEW t \in Threads, ThreadStep(t)
  PROVE  NoLostBroadcast'
<1>0. /\ Control /\ NotifiedWait /\ Sleeps /\ Counts /\ due \subseteq Inside
      /\ due' \subseteq Threads
  BY ControlStep, NextIs DEF Releases, Sleeps, Counts, Climbs, DueRepresented, Control, TypeOK
<1> DEFINE Coming(u) ==
      \E v \in Threads :
        \/ cpc[v] \in {"b_check", "b_requeue", "r_requeue"} /\ At(v) = At(u)
        \/ Represents(v, At(u)) /\ (v \in due \/ cpc[v] \notin {"w_unlock", "w_sleep"})
<1> SUFFICES ASSUME NEW u \in due', cpc'[u] = "w_sleep" PROVE Coming(u)'
  BY DEF NoLostBroadcast
<1>1. u \in Threads
  BY <1>0
<1>2. /\ At(u)' = At(u) /\ Waiting(u)
      /\ \/ cpc[u] = "w_sleep"
         \/ u = t /\ u \notin notified /\ WaitFutex(t)
  BY <1>0, <1>1, SleeperIs DEF At
<1>3. PICK c \in Conds : c = At(u)
  BY <1>0, <1>1, <1>2, InUse DEF Waiting
<1>4. ASSUME NEW v \in Threads, Represents(v, c)', v \in due' \/ ~Waiting(v)' PROVE Coming(u)'
  BY <1>2, <1>3, <1>4 DEF Represents, At, Waiting
<1>5. ASSUME NEW v \in Threads, cpc'[v] \in {"b_check", "b_requeue", "r_requeue"}, At(v)' = c
      PROVE  Coming(u)'
  BY <1>2, <1>3, <1>5 DEF At
<1>6. ASSUME NEW v \in Threads, Represents(v, c), v \in due \/ ~Waiting(v) PROVE Coming(u)'
  <2>1. Represents(v, c)' /\ (v \in due' \/ ~Waiting(v)')
    BY <1>0, <1>1, <1>2, <1>3, <1>6, RepresentativeStays
  <2> QED BY <1>4, <2>1
<1>7. CASE u \in due /\ cpc[u] # "w_sleep"
  BY <1>2, <1>3, <1>6, <1>7 DEF Releases, DueRepresented
<1>8. CASE u \in due /\ cpc[u] = "w_sleep"
  <2>1. PICK v \in Threads :
          \/ cpc[v] \in {"b_check", "b_requeue", "r_requeue"} /\ At(v) = c
          \/ Represents(v, c) /\ (v \in due \/ ~Waiting(v))
    BY <1>3, <1>8 DEF Releases, NoLostBroadcast, Waiting
  <2>2. CASE cpc[v] \in {"b_check", "b_requeue", "r_requeue"} /\ At(v) = c
    <3>1. CASE v # t
      BY <1>0, <1>5, <2>2, <3>1, OthersMove DEF At
    <3>2. CASE v = t
      <4>1. u \in SleepersAt(At(t)) /\ At(t) \in bound
        BY <1>1, <1>3, <1>8, <2>2, <3>2 DEF SleepersAt, Sleeps, Bound, Releases
      <4>2. \/ cpc'[t] = cpc[t] /\ stack'[t] = stack[t]
            \/ BroadcastCheck(t) \/ BroadcastRequeue(t) \/ ReleaseRequeue(t)
        <5>1. \/ LockCall(t) \/ UnlockCall(t) \/ MutexStep(t) \/ MutexInterrupt(t)
                 \/ \E d \in Conds : Destroy(t, d)
              => cpc' = cpc /\ stack' = stack
          BY DEF LockCall, UnlockCall, MutexStep, MutexInterrupt, condVars, Destroy, DestroyWhenUnused
        <5>2. \/ Wait(t) \/ WaitParent(t) \/ WaitReadSeq(t) \/ ReleaseRead(t) \/ ReleaseWrite(t)
              \/ WaitFutex(t) \/ WaitInterrupt(t) \/ WaitReturn(t) \/ ReleaseReturn(t)
              \/ (\E d \in Conds : Signal(t, d) \/ Broadcast(t, d)) \/ SignalWake(t)
              => cpc[t] \notin {"b_check", "b_requeue", "r_requeue"}
          BY DEF Wait, WaitParent, Call, WaitReadSeq, ReleaseRead, ReleaseWrite, ReleaseStore,
                 WaitFutex, WaitInterrupt, WaitReturn, ReleaseReturn, ReleaseEnd, Signal,
                 Broadcast, Increase, SignalWake
        <5> QED BY <2>2, <3>2, <5>1, <5>2, Steps
      <4>3. ~BroadcastRequeue(t) /\ ~ReleaseRequeue(t)
        <5>1. BroadcastRequeue(t) => cpc'[u] = "w_lock"
          <6>1. SleepersAt(At(t)) \in SUBSET Threads
                /\ \A x \in SleepersAt(At(t)) : cpc[x] = "w_sleep"
            BY DEF SleepersAt
          <6>2. BroadcastRequeue(t) => /\ ReturnReleasing(t, SleepersAt(At(t)))
                                       /\ cpc[t] = "b_requeue"
            BY DEF BroadcastRequeue
          <6> QED BY <1>0, <1>1, <1>8, <4>1, <6>1, <6>2, ReturnIs DEF Control
        <5>2. ReleaseRequeue(t) => cpc'[u] = "w_lock"
          BY <1>1, <1>8, <4>1 DEF ReleaseRequeue
        <5> QED BY <5>1, <5>2
      <4>4. BroadcastCheck(t) => cpc'[t] = "b_requeue" /\ stack'[t] = stack[t]
        BY <1>0, <4>1 DEF BroadcastCheck, Goto, Control, TypeOK
      <4> QED BY <1>5, <2>2, <3>2, <4>2, <4>3, <4>4 DEF At
    <3> QED BY <3>1, <3>2
  <2> QED BY <1>6, <2>1, <2>2
<1>9. CASE u \notin due
  <2>1. CASE ReleaseWrite(t) /\ due' = due \cup WaitersAt(At(t))
    <3>1. cpc'[t] = "r_requeue" /\ At(t)' = At(t) /\ u \in WaitersAt(At(t))
      BY <1>0, <1>9, <2>1 DEF ReleaseWrite, ReleaseStore, Goto, At, Control, TypeOK
    <3> QED BY <1>3, <1>5, <3>1 DEF WaitersAt
  <2>2. ASSUME NEW d \in Conds, Broadcast(t, d) PROVE Coming(u)'
    <3>1. cpc'[t] = "b_check" /\ At(t)' = d
      BY <1>0, <2>2, BroadcastIs
    <3>2. CASE c = d
      BY <1>5, <3>1, <3>2
    <3>3. CASE c # d
      <4>1. cpc[u] = "w_sleep"
        BY <1>0, <1>2, <2>2, IncreaseIs DEF WaitFutex
      <4>2. PICK v \in Threads : /\ Represents(v, At(u)) /\ (v \in due' \/ ~Waiting(v)')
                                 /\ \A e \in Conds : Represents(v, e) => Represents(v, e)'
        BY <1>0, <1>3, <1>9, <2>2, <3>3, <4>1, BroadcastRepresented
      <4> QED BY <1>3, <1>4, <4>2
    <3> QED BY <3>2, <3>3
  <2> QED BY <1>0, <1>9, <2>1, <2>2, DueIs
<1> QED BY <1>7, <1>8, <1>9

\* Every step keeps Releases.
LEMMA ReleasesStep ==
  ASSUME MaxCalls < SeqMod, Releases, [Next]_vars
  PROVE  Releases'
<1>1. Sleeps'
  BY SleepsStep DEF Releases
<1>2. CASE Next
  BY <1>1, <1>2, NextIs, DueRepresentedStep, NoLostBroadcastStep DEF Releases
<1>3. CASE UNCHANGED vars
  <2>1. UNCHANGED <<cpc, stack, notified, due>>
    BY <1>3 DEF vars
  <2>2. DueRepresented' /\ NoLostBroadcast'
    BY <2>1 DEF Releases, DueRepresented, NoLostBroadcast, Inside, Waiting, At, Represents
  <2> QED BY <1>1, <2>2 DEF Releases
<1> QED BY <1>2, <1>3

\* It holds at first.
LEMMA ReleasesInit ==
  ASSUME InitialUseChild \subseteq {FALSE}, Init
  PROVE  Releases
BY SleepsInit DEF Releases, DueRepresented, NoLostBroadcast, Init

-----------------------------------------------------------------------------
(* The theorems.                                                           *)

\* The types of fastsync_cond.c's state, whatever use_child holds at first.
THEOREM TypeCorrect == Spec => []TypeOK
<1>1. Control => TypeOK
  BY DEF Control
<1> QED BY <1>1, ControlHolds, PTL

\* fastsync_cond.c drives the mutex as fastsync_mutex.c means it to be: it
\* stays a mutex, and forgets no thread that a requeue puts to sleep on it.
THEOREM MutexStaysMutex == Spec => [](M!MutualExclusion /\ M!NoLostWakeup)
<1>1. Control => M!MutualExclusion /\ M!NoLostWakeup
  BY DEF Control, MutexInv
<1> QED BY <1>1, ControlHolds, PTL

\* "a mutex should be acquired at this point" (fastsync_cond.c): no two
\* threads are at work on the plain fields of the tree, use_child of an
\* object tells whether a thread represents it, and one thread does.
THEOREM PlainFieldsAreExclusive ==
  ASSUME InitialUseChild \subseteq {FALSE}
  PROVE  Spec => []PlainFieldsExclusive
<1>1. Climbs => PlainFieldsExclusive
  <2> SUFFICES ASSUME Climbs PROVE PlainFieldsExclusive
    OBVIOUS
  <2>1. ASSUME NEW t \in Threads, NEW u \in Threads,
               {cpc[t], cpc[u]} \subseteq {"w_frame", "w_seq"} \cup ReleaseLabels
        PROVE  t = u
    BY <2>1, OnePlain DEF Climbs, Plain
  <2> QED BY <2>1 DEF Climbs, Exclusive, UseChild, OneRepresents, PlainFieldsExclusive
<1> QED BY <1>1, ClimbsHolds, PTL

\* "later come threads will wait at this tree-node, until the first thread
\* is released" (fastsync_cond.c): nobody waits at a child without a thread
\* that represents it, except those whose release is on its way.
THEOREM WaitersAreRepresented ==
  ASSUME InitialUseChild \subseteq {FALSE}
  PROVE  Spec => []Represented
<1>1. Climbs => Represented
  BY DEF Climbs
<1> QED BY <1>1, ClimbsHolds, PTL

\* The futex call of fastsync_cond_wait does not put to sleep a thread that
\* was notified after it read seq, not even when the seq++ of a
\* representative overwrites the signal, as long as seq does not wrap.
THEOREM NotifiedStayAwake ==
  ASSUME InitialUseChild \subseteq {FALSE}, MaxCalls < SeqMod
  PROVE  Spec => []NotifiedDoesNotSleep
<1>1. Init => Counts
  BY CountsInit
<1>2. Counts /\ [Next]_vars => Counts'
  BY CountsStep
<1>3. Counts => NotifiedDoesNotSleep
  BY NotifiedStaysAwake
<1> QED BY <1>1, <1>2, <1>3, PTL DEF Spec

\* "all (broadcast) waiter(s) of the conditional variable" (fastsync.h): a
\* thread that a broadcast must release, and that sleeps, has its release
\* coming, through as many representatives as there are levels in the tree.
THEOREM BroadcastIsNotLost ==
  ASSUME InitialUseChild \subseteq {FALSE}, MaxCalls < SeqMod
  PROVE  Spec => []NoLostBroadcast
<1>1. Init => Releases
  BY ReleasesInit
<1>2. Releases /\ [Next]_vars => Releases'
  BY ReleasesStep
<1>3. Releases => NoLostBroadcast
  BY DEF Releases
<1> QED BY <1>1, <1>2, <1>3, PTL DEF Spec

-----------------------------------------------------------------------------
(* The refinement of Cond.  It needs neither assumption: whether use_child *)
(* is right or seq wraps decides who is notified, never what a thread must *)
(* do to return.                                                           *)

\* The waiters of Cond are the threads on a futex.
LEMMA ViewIs ==
  ASSUME Control, Control'
  PROVE  /\ Waiters = {u \in Threads : Waiting(u)}
         /\ Waiters' = {u \in Threads : Waiting(u)'}
         /\ Inside \subseteq Threads /\ Inside' \subseteq Threads
         /\ Waiters \subseteq Inside /\ Waiters' \subseteq Inside'
<1>1. ASSUME NEW u \in Threads, Waiting(u)' PROVE At(u)' \in Conds
  <2>1. stack'[u] \in Seq(Conds) /\ stack'[u] # <<>>
    BY <1>1 DEF Control, TypeOK, Waiting
  <2> QED BY <2>1, PopIs DEF At
<1>2. Waiters' = {u \in Threads : Waiting(u)'}
  BY <1>1 DEF Waiters, WaitersAt, Waiting
<1>3. Waiters = {u \in Threads : Waiting(u)}
  BY WaitersAre DEF Waiters, WaitersAt
<1> QED BY <1>2, <1>3 DEF Inside, WaitLabels, Waiting

\* A step of the mutex, in the client's hands or in a wait.
LEMMA RefinesMutexStep ==
  ASSUME Control, Control', NEW t \in Threads,
         LockCall(t) \/ UnlockCall(t) \/ MutexStep(t) \/ MutexInterrupt(t)
  PROVE  [Abstract!Next]_(Abstract!condVars)
<1> USE DEF M!Owners, M!Asking, M!Owns, M!OwnerLabels, M!LockLabels
<1>0. /\ M!TypeOK /\ M!MutualExclusion /\ pc \in [Threads -> M!Labels]
      /\ ~M!Locked(state) => M!Owners = {}
      /\ M!Owns(t) => M!Owners = {t}
  BY DEF Control, MutexInv, M!TypeOK, M!MutualExclusion
<1>1. UNCHANGED <<Inside, Waiters, due>>
  BY DEF LockCall, UnlockCall, MutexStep, MutexInterrupt, condVars, Inside, Waiters, WaitersAt, At
<1>2. CASE LockCall(t)
  <2>1. M!LockCall(t) /\ t \notin Inside
    BY <1>2 DEF LockCall, Call, Inside, WaitLabels, ReleaseLabels
  <2>2. Abstract!Lock!Ask({t})
    BY <1>0, <2>1 DEF M!LockCall, M!Goto, Abstract!Lock!Ask
  <2>3. Abstract!Ask(t)
    BY <1>1, <2>1, <2>2 DEF Abstract!Ask
  <2> QED BY <2>3 DEF Abstract!Next
<1>3. CASE M!UnlockRead(t) \/ M!FutexInterrupt(t) \/ M!LockFutexWait(t)
  BY <1>0, <1>1, <1>3 DEF M!UnlockRead, M!FutexInterrupt, M!LockFutexWait, M!Goto, Abstract!condVars
<1>4. CASE M!LockSpin(t) \/ M!LockXchg(t)
  <2>1. CASE M!Locked(state)
    BY <1>0, <1>1, <1>4, <2>1 DEF M!LockSpin, M!LockXchg, M!Goto, Abstract!condVars
  <2>2. CASE ~M!Locked(state)
    <3>1. Abstract!Lock!Acquire(t)
      BY <1>0, <1>4, <2>2 DEF M!LockSpin, M!LockXchg, M!Goto, Abstract!Lock!Acquire
    <3>2. Abstract!Acquire(t)
      BY <1>1, <3>1 DEF Abstract!Acquire
    <3> QED BY <3>2 DEF Abstract!Next
  <2> QED BY <2>1, <2>2
<1>5. CASE M!UnlockStep(t)
  <2>1. t \in Inside => t \in Waiters
    <3>1. pc[t] \in {"u_cas", "u_and"} \cup M!ReleaseLabels
      BY <1>0, <1>5, MutexMoves
    <3>2. cpc[t] \in {"run", "w_unlock"}
      BY <3>1 DEF Control, TypeOK, CondLabels, WaitLabels, Places, Place, Plain,
                  NotifyLabels, ReleaseLabels, M!ReleaseLabels
    <3> QED BY <3>2, ViewIs DEF Inside, WaitLabels, ReleaseLabels, Waiting
  <2>2. CASE M!UnlockCas(t) \/ M!UnlockAnd(t)
    <3>1. CASE M!UnlockCas(t) /\ state # 1
      BY <1>0, <1>1, <3>1 DEF M!UnlockCas, M!Goto, Abstract!condVars
    <3>2. CASE (M!UnlockCas(t) /\ state = 1) \/ M!UnlockAnd(t)
      <4>1. Abstract!Lock!Release(t)
        BY <1>0, <3>2 DEF M!UnlockCas, M!UnlockAnd, M!Goto, Abstract!Lock!Release
      <4>2. Abstract!Unlock(t)
        BY <1>1, <2>1, <4>1 DEF Abstract!Unlock
      <4> QED BY <4>2 DEF Abstract!Next
    <3> QED BY <2>2, <3>1, <3>2
  <2>3. CASE M!UnlockCheck(t) \/ M!UnlockClear(t)
    BY <1>0, <1>1, <2>3 DEF M!UnlockCheck, M!UnlockClear, M!Goto, Abstract!condVars
  <2>4. CASE M!UnlockWake(t)
    <3>1. M!Owners' = M!Owners /\ M!Asking' = M!Asking
      BY <1>0, <2>4 DEF M!UnlockWake, M!WakeOne, M!Sleepers
    <3> QED BY <1>1, <3>1 DEF Abstract!condVars
  <2> QED BY <1>5, <2>2, <2>3, <2>4 DEF M!UnlockStep
<1> QED BY <1>2, <1>3, <1>4, <1>5 DEF UnlockCall, MutexStep, MutexInterrupt, M!LockStep

\* The threads S leave the futex and compete for the mutex.
LEMMA RefinesLeave ==
  ASSUME Control, Control', NEW S \in SUBSET Threads,
         \A u \in S : /\ Waiting(u) /\ ~Waiting(u)'
                      /\ pc[u] = "idle" /\ pc'[u] \in {"l_xchg", "l_sleep"},
         \A u \in Threads \ S : pc'[u] = pc[u] /\ (Waiting(u)' <=> Waiting(u)),
         Inside' = Inside, due' \cap Waiters' = due \cap Waiters'
  PROVE  [Abstract!Next]_(Abstract!condVars)
<1>1. Waiters' = Waiters \ S /\ S \subseteq Waiters
  BY ViewIs
<1>2. (due \cap Waiters)' = (due \cap Waiters) \ S
  BY <1>1
<1>3. /\ M!Owners' = M!Owners /\ M!Asking' = M!Asking \cup S
      /\ S \cap (M!Asking \cup M!Owners) = {}
  BY DEF M!Owners, M!Asking, M!Owns, M!OwnerLabels, M!LockLabels
<1>4. CASE S = {}
  BY <1>1, <1>2, <1>3, <1>4 DEF Abstract!condVars
<1>5. CASE S # {}
  <2>1. Abstract!Lock!Ask(S)
    BY <1>3, <1>5 DEF Abstract!Lock!Ask
  <2>2. Abstract!Release(S)
    BY <1>1, <1>2, <2>1 DEF Abstract!Release
  <2> QED BY <2>2 DEF Abstract!Next
<1> QED BY <1>4, <1>5

\* A step that leaves the mutex alone, and nobody's wait is begun or ended.
LEMMA RefinesNothing ==
  ASSUME Control, Control', UNCHANGED pc,
         \A u \in Threads : Waiting(u)' <=> Waiting(u),
         Inside' = Inside, due' \cap Waiters' = due \cap Waiters'
  PROVE  [Abstract!Next]_(Abstract!condVars)
<1>1. Waiters' = Waiters
  BY ViewIs
<1>2. (due \cap Waiters)' = due \cap Waiters
  BY <1>1
<1>3. UNCHANGED <<M!Owners, M!Asking>>
  BY DEF M!Owners, M!Asking, M!Owns
<1> QED BY <1>1, <1>2, <1>3 DEF Abstract!condVars

\* The wait, down to the futex and out of it.
LEMMA RefinesWaitStep ==
  ASSUME Control, Control', due \subseteq Inside, NEW t \in Threads,
         Wait(t) \/ WaitParent(t) \/ WaitReadSeq(t) \/ WaitFutex(t) \/ WaitInterrupt(t)
  PROVE  [Abstract!Next]_(Abstract!condVars)
<1>0. cpc \in [Threads -> CondLabels] /\ pc \in [Threads -> M!Labels]
  BY DEF Control, TypeOK, M!TypeOK
<1> USE DEF Goto, Waiting
<1>1. CASE Wait(t) \/ WaitParent(t)
  <2> PICK frames \in Seq(Conds) : /\ frames # <<>> /\ Frame(t, frames)
                                   /\ cpc[t] \in {"run", "w_frame"}
    BY <1>1, FrameIs
  <2>1. /\ UNCHANGED <<pc, due>> /\ cpc'[t] \in {"w_frame", "w_seq"}
        /\ \A u \in Threads \ {t} : cpc'[u] = cpc[u]
    BY BindIs DEF Control
  <2>2. Inside' = Inside
    BY <2>1 DEF Inside, WaitLabels, ReleaseLabels
  <2> QED BY <2>1, <2>2, RefinesNothing
<1>2. CASE WaitReadSeq(t)
  <2>1. /\ UNCHANGED <<state, pc, loop, due>> /\ cpc[t] = "w_seq" /\ cpc'[t] = "w_unlock"
        /\ \A u \in Threads \ {t} : cpc'[u] = cpc[u]
    BY <1>0, <1>2 DEF WaitReadSeq
  <2>2. M!Owners = {t}
    BY <2>1 DEF Control, MutexInv, M!MutualExclusion, M!Owners, M!Owns, M!OwnerLabels,
                Places, Place, Plain
  <2>3. /\ t \notin Inside /\ Inside' = Inside \cup {t} /\ Waiters' = Waiters \cup {t}
    BY <2>1, ViewIs DEF Inside, WaitLabels, ReleaseLabels
  <2>4. (due \cap Waiters)' = due \cap Waiters
    BY <2>1, <2>3
  <2>5. UNCHANGED <<M!Owners, M!Asking>>
    BY <2>1 DEF M!Owners, M!Asking, M!Owns
  <2>6. Abstract!Wait(t)
    BY <2>2, <2>3, <2>4, <2>5 DEF Abstract!Wait
  <2> QED BY <2>6 DEF Abstract!Next
<1>3. CASE WaitFutex(t) \/ WaitInterrupt(t)
  <2>1. UNCHANGED due /\ cpc[t] \in {"w_unlock", "w_sleep"}
        /\ \/ cpc' = [cpc EXCEPT ![t] = "w_sleep"] /\ UNCHANGED pc
           \/ cpc' = [cpc EXCEPT ![t] = "w_lock"] /\ M!Relock(t)
    BY <1>3 DEF WaitFutex, WaitInterrupt, LeaveFutex
  <2>2. Inside' = Inside
    BY <1>0, <2>1 DEF Inside, WaitLabels, ReleaseLabels
  <2>3. CASE cpc' = [cpc EXCEPT ![t] = "w_sleep"] /\ UNCHANGED pc
    <3>1. \A u \in Threads : Waiting(u)' <=> Waiting(u)
      BY <1>0, <2>1, <2>3
    <3> QED BY <2>1, <2>2, <2>3, <3>1, RefinesNothing
  <2>4. CASE cpc' = [cpc EXCEPT ![t] = "w_lock"] /\ M!Relock(t)
    <3>1. /\ pc[t] = "idle" /\ pc'[t] = "l_xchg" /\ \A u \in Threads \ {t} : pc'[u] = pc[u]
      BY <1>0, <2>4 DEF M!Relock, M!Goto
    <3>2. Waiting(t) /\ ~Waiting(t)' /\ \A u \in Threads \ {t} : Waiting(u)' <=> Waiting(u)
      BY <1>0, <2>1, <2>4
    <3>3. \A u \in {t} : /\ Waiting(u) /\ ~Waiting(u)'
                         /\ pc[u] = "idle" /\ pc'[u] \in {"l_xchg", "l_sleep"}
      BY <3>1, <3>2
    <3> DEFINE S == {t}
    <3>4. S \in SUBSET Threads /\ \A u \in S : /\ Waiting(u) /\ ~Waiting(u)'
                                              /\ pc[u] = "idle" /\ pc'[u] \in {"l_xchg", "l_sleep"}
      BY <3>3
    <3>5. \A u \in Threads \ S : pc'[u] = pc[u] /\ (Waiting(u)' <=> Waiting(u))
      BY <3>1, <3>2
    <3>6. due' \cap Waiters' = due \cap Waiters'
      BY <2>1
    <3> HIDE DEF Waiting, S
    <3> QED BY <2>2, <3>4, <3>5, <3>6, RefinesLeave
  <2> QED BY <2>1, <2>3, <2>4
<1> QED BY <1>1, <1>2, <1>3

\* The way back through the representatives.
LEMMA RefinesRelease ==
  ASSUME Control, Control', NEW t \in Threads,
         \/ WaitReturn(t) \/ ReleaseRead(t) \/ ReleaseWrite(t) \/ ReleaseRequeue(t)
         \/ ReleaseReturn(t)
  PROVE  [Abstract!Next]_(Abstract!condVars)
<1>0. cpc \in [Threads -> CondLabels] /\ pc \in [Threads -> M!Labels]
  BY DEF Control, TypeOK, M!TypeOK
<1> USE DEF Goto, Waiting
<1>1. CASE WaitReturn(t) \/ ReleaseReturn(t)
  <2>1. /\ ReturnReleasing(t, {}) /\ UNCHANGED <<state, pc, loop>>
        /\ cpc[t] \in {"w_lock", "r_reset"} /\ pc[t] = "cs"
    BY <1>1 DEF WaitReturn, ReleaseReturn, ReleaseEnd, Control, Places, Place, Plain, ReleaseLabels
  <2>2. /\ \A u \in Threads \ {t} : cpc'[u] = cpc[u]
        /\ \/ cpc'[t] = "run" /\ due' = due \ {t}
           \/ cpc'[t] = "r_read" /\ due' = due
    BY <2>1, ReturnIs DEF Control
  <2>3. \A u \in Threads : Waiting(u)' <=> Waiting(u)
    BY <2>1, <2>2
  <2>4. Waiters' = Waiters /\ t \in Inside \ Waiters /\ due' \cap Waiters' = due \cap Waiters'
    BY <2>1, <2>2, <2>3, ViewIs DEF Inside, WaitLabels, ReleaseLabels
  <2>5. CASE cpc'[t] = "r_read"
    <3>1. Inside' = Inside
      BY <2>1, <2>2, <2>5 DEF Inside, WaitLabels, ReleaseLabels
    <3> QED BY <2>1, <2>3, <2>4, <3>1, RefinesNothing
  <2>6. CASE cpc'[t] = "run"
    <3>1. Inside' = Inside \ {t}
      BY <2>1, <2>2, <2>6 DEF Inside, WaitLabels, ReleaseLabels
    <3>2. M!Owners = {t}
      BY <2>1 DEF Control, MutexInv, M!MutualExclusion, M!Owners, M!Owns, M!OwnerLabels
    <3>3. UNCHANGED <<M!Owners, M!Asking>>
      BY <2>1 DEF M!Owners, M!Asking, M!Owns
    <3>4. Abstract!Return(t)
      BY <2>4, <3>1, <3>2, <3>3 DEF Abstract!Return
    <3> QED BY <3>4 DEF Abstract!Next
  <2> QED BY <2>2, <2>5, <2>6
<1>2. CASE ReleaseRead(t)
  <2>1. UNCHANGED <<pc, due>> /\ cpc[t] = "r_read" /\ cpc' = [cpc EXCEPT ![t] = "r_write"]
    BY <1>2 DEF ReleaseRead
  <2>2. Inside' = Inside /\ \A u \in Threads : Waiting(u)' <=> Waiting(u)
    BY <1>0, <2>1 DEF Inside, WaitLabels, ReleaseLabels
  <2> QED BY <2>1, <2>2, RefinesNothing
<1>3. CASE ReleaseWrite(t)
  <2>1. /\ UNCHANGED <<state, pc, loop>> /\ due' = due \cup WaitersAt(At(t))
        /\ cpc[t] = "r_write" /\ cpc' = [cpc EXCEPT ![t] = "r_requeue"]
    BY <1>3 DEF ReleaseWrite, ReleaseStore
  <2>2. Inside' = Inside /\ \A u \in Threads : Waiting(u)' <=> Waiting(u)
    BY <1>0, <2>1 DEF Inside, WaitLabels, ReleaseLabels
  <2>3. WaitersAt(At(t)) \subseteq Waiters /\ Waiters' = Waiters
    BY <2>2, ViewIs DEF WaitersAt
  <2>4. UNCHANGED <<M!Owners, M!Asking>>
    BY <2>1 DEF M!Owners, M!Asking, M!Owns
  <2>5. Abstract!Notify(WaitersAt(At(t)))
    BY <2>1, <2>2, <2>3, <2>4 DEF Abstract!Notify
  <2> QED BY <2>5 DEF Abstract!Next, WaitersAt
<1>4. CASE ReleaseRequeue(t)
  <2> DEFINE S == SleepersAt(At(t))
  <2>1. /\ M!Requeue(S) /\ S \in SUBSET Threads /\ \A u \in S : cpc[u] = "w_sleep"
        /\ cpc[t] = "r_requeue" /\ UNCHANGED due
        /\ \A u \in Threads : cpc'[u] = IF u = t THEN "r_reset"
                                        ELSE IF u \in S THEN "w_lock" ELSE cpc[u]
    BY <1>4 DEF ReleaseRequeue, SleepersAt
  <2> HIDE DEF S
  <2>2. /\ \A u \in Threads \ S : pc'[u] = pc[u]
        /\ \A u \in S : pc[u] = "idle" /\ pc'[u] \in {"l_xchg", "l_sleep"}
    BY <2>1, ControlRequeues
  <2>3. Inside' = Inside
    BY <2>1 DEF Inside, WaitLabels, ReleaseLabels
  <2>4. /\ \A u \in S : Waiting(u) /\ ~Waiting(u)'
        /\ \A u \in Threads \ S : Waiting(u)' <=> Waiting(u)
    BY <2>1
  <2> HIDE DEF Waiting
  <2> QED BY <2>1, <2>2, <2>3, <2>4, RefinesLeave
<1> QED BY <1>1, <1>2, <1>3, <1>4

\* Signals, broadcasts and fastsync_cond_destroy.
LEMMA RefinesNotify ==
  ASSUME Control, Control', NEW t \in Threads,
         \/ \E c \in Conds : Signal(t, c) \/ Broadcast(t, c) \/ Destroy(t, c)
         \/ SignalWake(t) \/ BroadcastCheck(t) \/ BroadcastRequeue(t)
  PROVE  [Abstract!Next]_(Abstract!condVars)
<1>0. cpc \in [Threads -> CondLabels] /\ pc \in [Threads -> M!Labels]
  BY DEF Control, TypeOK, M!TypeOK
<1> USE DEF Waiting
<1>1. ASSUME NEW c \in Conds, Signal(t, c) \/ Broadcast(t, c)
      PROVE  [Abstract!Next]_(Abstract!condVars)
  <2>1. /\ UNCHANGED <<state, pc, loop>> /\ cpc[t] = "run" /\ cpc'[t] \in NotifyLabels
        /\ \A u \in Threads \ {t} : cpc'[u] = cpc[u]
    BY <1>1, IncreaseIs
  <2>2. Inside' = Inside /\ \A u \in Threads : Waiting(u)' <=> Waiting(u)
    BY <2>1 DEF Inside, WaitLabels, ReleaseLabels, NotifyLabels
  <2>3. CASE Signal(t, c)
    BY <2>1, <2>2, <2>3, RefinesNothing DEF Signal
  <2>4. CASE Broadcast(t, c)
    <3> DEFINE S == IF Parent[c] = NoCond THEN Waiters ELSE WaitersAt(c)
    <3>1. due' = due \cup S
      BY <2>4 DEF Broadcast
    <3>2. S \subseteq Waiters /\ Waiters' = Waiters /\ Waiters \subseteq Threads
      BY <2>2, ViewIs DEF WaitersAt
    <3>3. UNCHANGED <<M!Owners, M!Asking>>
      BY <2>1 DEF M!Owners, M!Asking, M!Owns
    <3> HIDE DEF S
    <3>4. Abstract!Notify(S) /\ S \in SUBSET Threads
      BY <2>2, <3>1, <3>2, <3>3 DEF Abstract!Notify
    <3> QED BY <3>4 DEF Abstract!Next
  <2> QED BY <1>1, <2>3, <2>4
<1>2. CASE \E c \in Conds : Destroy(t, c)
  <2>1. UNCHANGED <<pc, due, cpc>>
    BY <1>2 DEF Destroy, DestroyWhenUnused
  <2>2. Inside' = Inside
    BY <2>1 DEF Inside
  <2> QED BY <2>1, <2>2, RefinesNothing
<1>3. CASE BroadcastCheck(t) /\ At(t) \in bound
  <2>1. UNCHANGED <<pc, due>> /\ cpc[t] = "b_check" /\ cpc' = [cpc EXCEPT ![t] = "b_requeue"]
    BY <1>3 DEF BroadcastCheck, Goto
  <2>2. Inside' = Inside /\ \A u \in Threads : Waiting(u)' <=> Waiting(u)
    BY <1>0, <2>1 DEF Inside, WaitLabels, ReleaseLabels
  <2> QED BY <2>1, <2>2, RefinesNothing
<1>4. ASSUME NEW S \in SUBSET SleepersAt(At(t)), ReturnReleasing(t, S), cpc[t] \in NotifyLabels,
             \A u \in S : pc[u] = "idle" /\ pc'[u] \in {"l_xchg", "l_sleep"},
             \A u \in Threads \ S : pc'[u] = pc[u]
      PROVE  [Abstract!Next]_(Abstract!condVars)
  <2>1. S \in SUBSET Threads /\ \A u \in S : cpc[u] = "w_sleep"
    BY <1>4 DEF SleepersAt
  <2>2. cpc[t] \notin {"run", "w_sleep"} /\ t \notin S /\ Len(stack[t]) = 1
    BY <1>4, <2>1 DEF NotifyLabels, Control, Places, Place
  <2>3. /\ \A u \in Threads \ {t} : cpc'[u] = IF u \in S THEN "w_lock" ELSE cpc[u]
        /\ cpc'[t] = "run" /\ due' = due \ {t}
    BY <1>4, <2>1, <2>2, ReturnIs DEF Control
  <2>4. Inside' = Inside
    BY <1>4, <2>1, <2>2, <2>3 DEF Inside, WaitLabels, ReleaseLabels, NotifyLabels
  <2>5. /\ \A u \in S : Waiting(u) /\ ~Waiting(u)'
        /\ \A u \in Threads \ S : Waiting(u)' <=> Waiting(u)
    BY <1>4, <2>1, <2>2, <2>3 DEF NotifyLabels
  <2>6. due' \cap Waiters' = due \cap Waiters'
    BY <2>3, ViewIs
  <2> HIDE DEF Waiting
  <2> QED BY <1>4, <2>1, <2>4, <2>5, <2>6, RefinesLeave
<1>5. CASE SignalWake(t)
  <2> PICK woken \in WakeOne(SleepersAt(At(t))) :
        /\ \/ woken = {} /\ UNCHANGED <<state, pc, loop>>
           \/ \E u \in woken : M!Relock(u)
        /\ ReturnReleasing(t, woken)
    BY <1>5 DEF SignalWake
  <2>1. woken \in SUBSET SleepersAt(At(t)) /\ cpc[t] \in NotifyLabels
    BY <1>5 DEF WakeOne, SignalWake, NotifyLabels
  <2>2. CASE woken = {} /\ UNCHANGED <<state, pc, loop>>
    BY <1>4, <2>1, <2>2
  <2>3. CASE \E u \in woken : M!Relock(u)
    <3> PICK u \in woken : M!Relock(u)
      BY <2>3
    <3>1. woken = {u} /\ u \in Threads
      BY <2>1 DEF WakeOne, SleepersAt
    <3>2. pc[u] = "idle" /\ pc'[u] = "l_xchg" /\ \A v \in Threads \ {u} : pc'[v] = pc[v]
      BY <1>0, <3>1 DEF M!Relock, M!Goto
    <3> QED BY <1>4, <2>1, <3>1, <3>2
  <2> QED BY <2>2, <2>3
<1>6. CASE BroadcastCheck(t) /\ At(t) \notin bound
  <2>1. ReturnReleasing(t, {}) /\ UNCHANGED pc /\ cpc[t] \in NotifyLabels
    BY <1>6 DEF BroadcastCheck, NotifyLabels
  <2> QED BY <1>4, <2>1
<1>7. CASE BroadcastRequeue(t)
  <2> DEFINE S == SleepersAt(At(t))
  <2>1. /\ M!Requeue(S) /\ ReturnReleasing(t, S) /\ S \in SUBSET Threads /\ cpc[t] \in NotifyLabels
    BY <1>7 DEF BroadcastRequeue, SleepersAt, NotifyLabels
  <2>2. /\ \A u \in Threads \ S : pc'[u] = pc[u]
        /\ \A u \in S : pc[u] = "idle" /\ pc'[u] \in {"l_xchg", "l_sleep"}
    BY <2>1, ControlRequeues
  <2> QED BY <1>4, <2>1, <2>2
<1> QED BY <1>1, <1>2, <1>3, <1>5, <1>6, <1>7

\* fastsync_cond.c on top of fastsync_mutex.c implements the condition
\* variable of Cond and its mutex, from any value of use_child and any seq:
\* a wait begins under the mutex, a waiter leaves the futex only to compete
\* for the mutex, and its call returns only when it owns it.
THEOREM Refinement == Spec => ImplementsCond
<1> DEFINE Inv == Control /\ due \subseteq Inside
<1>1. Init => Abstract!Init
  <2> SUFFICES ASSUME Init PROVE Abstract!Init
    OBVIOUS
  <2>1. Waiters = {} /\ Inside = {}
    BY DEF Init, Waiters, WaitersAt, Inside, WaitLabels, ReleaseLabels
  <2>2. M!Owners = {} /\ M!Asking = {}
    BY DEF Init, M!Init, M!Owners, M!Asking, M!Owns, M!OwnerLabels, M!LockLabels
  <2> QED BY <2>1, <2>2 DEF Init, Abstract!Init, Abstract!Lock!Init
<1>2. Init => Inv
  BY ControlInit DEF Init
<1>3. Inv /\ [Next]_vars => Inv'
  <2> SUFFICES ASSUME Inv, [Next]_vars PROVE Inv'
    OBVIOUS
  <2>1. CASE UNCHANGED vars
    BY <2>1, ControlStep DEF vars, Inside
  <2> QED BY <2>1, ControlStep, NextIs, InsideKept
<1>4. Inv /\ [Next]_vars => [Abstract!Next]_(Abstract!condVars)
  <2> SUFFICES ASSUME Inv, [Next]_vars PROVE [Abstract!Next]_(Abstract!condVars)
    OBVIOUS
  <2>1. Control'
    BY ControlStep
  <2>2. CASE UNCHANGED vars
    <3>1. UNCHANGED pc /\ Inside' = Inside /\ due' = due /\ \A u \in Threads : Waiting(u)' <=> Waiting(u)
      BY <2>2 DEF vars, Inside, Waiting
    <3> QED BY <2>1, <3>1, RefinesNothing
  <2>3. ASSUME NEW t \in Threads, ThreadStep(t) PROVE [Abstract!Next]_(Abstract!condVars)
    BY <2>1, <2>3, Steps, RefinesMutexStep, RefinesWaitStep, RefinesRelease, RefinesNotify
  <2> QED BY <2>2, <2>3, NextIs
<1> QED BY <1>1, <1>2, <1>3, <1>4, PTL DEF Spec, ImplementsCond, Abstract!Spec

=============================================================================
