---------------------------- MODULE FastsyncCond ----------------------------
(***************************************************************************)
(* The condition variable of src/fastsync/fastsync_cond.c, with the        *)
(* fastsync mutex it hands its waiters to (FastsyncMutex).  Condition      *)
(* variables form a tree: the first thread to wait at a node waits at the  *)
(* parent instead and, once released there, releases the waiters of its    *)
(* node; the threads that come while it is away wait at the node.          *)
(*                                                                         *)
(* One action is one access to shared memory or one system call, except    *)
(* that accesses to fields only touched under the mutex are merged.  A     *)
(* thread is in the condition variable's code where cpc says, and in the   *)
(* mutex's code where pc says: pc is "cs" or "idle" while the mutex code   *)
(* is not running.                                                         *)
(*                                                                         *)
(* The usage modelled: all waits of a tree use one mutex and are made by   *)
(* its owner; signals and broadcasts are sent with or without the mutex.   *)
(***************************************************************************)
EXTENDS Integers, FiniteSets, Sequences, Futex

CONSTANTS Threads, SpinLoops,
          Conds,            \* the fastsync_cond objects
          NoCond,           \* the NULL of parent
          Parent,           \* parent of each object
          Leaf,             \* the object on which each thread calls wait
          SeqMod,           \* the values of the futex word, 2^32 in the code
          InitialUseChild,  \* what use_child may hold after fastsync_cond_init
          MaxCalls          \* how many calls the clients make altogether

(* The objects of Conds are one tree.                                      *)
ASSUME CondAssumption ==
  /\ IsFiniteSet(Threads)
  /\ SpinLoops \in Nat
  /\ NoCond \notin Conds
  /\ Parent \in [Conds -> Conds \cup {NoCond}]
  /\ \E root \in Conds : \A c \in Conds : Parent[c] = NoCond <=> c = root
  /\ Leaf \in [Threads -> Conds]
  /\ SeqMod \in Nat \ {0, 1}
  /\ InitialUseChild \in SUBSET BOOLEAN
  /\ MaxCalls \in Nat

VARIABLES
  state, pc, loop,  \* the mutex: see FastsyncMutex
  cpc,              \* where each thread stands in the code of this module
  seq,              \* the sequence number of each object
  bound,            \* the objects whose field mutex is set
  use_child,        \* the field use_child of each object
  stack,            \* the objects of a thread's nested calls, innermost first
  cur,              \* the local cur_seq; in r_write the value being increased
  calls,            \* how many calls the clients have made
  (* History: the code keeps no trace of these.                            *)
  notified,         \* waiters whose object's seq was increased since they read it
  due               \* waiters that a broadcast, or a representative, must release

mutexVars == <<state, pc, loop>>
condVars  == <<cpc, seq, bound, use_child, stack, cur, calls, notified, due>>
vars      == <<state, pc, loop, cpc, seq, bound, use_child, stack, cur, calls,
               notified, due>>

M == INSTANCE FastsyncMutex

WaitLabels    == {"w_frame", "w_seq", "w_unlock", "w_sleep", "w_lock"}
ReleaseLabels == {"r_read", "r_write", "r_requeue", "r_reset"}
NotifyLabels  == {"s_wake", "b_check", "b_requeue"}
CondLabels    == {"run"} \cup WaitLabels \cup ReleaseLabels \cup NotifyLabels

-----------------------------------------------------------------------------
At(t) == Head(stack[t])                   \* the object of the running call

\* The threads suspended on the futex of c, and with them those that have
\* read its seq and are on their way there.
SleepersAt(c) == {t \in Threads : cpc[t] = "w_sleep" /\ At(t) = c}
WaitersAt(c)  == {t \in Threads : cpc[t] \in {"w_unlock", "w_sleep"} /\ At(t) = c}
Waiters       == UNION {WaitersAt(c) : c \in Conds}

Init ==
  /\ M!Init
  /\ cpc = [t \in Threads |-> "run"]
  /\ seq = [c \in Conds |-> 0]
  /\ bound = {}
  /\ use_child \in [Conds -> InitialUseChild]
  /\ stack = [t \in Threads |-> <<>>]
  /\ cur = [t \in Threads |-> 0]
  /\ calls = 0
  /\ notified = {}
  /\ due = {}

Call(t) ==
  /\ cpc[t] = "run"
  /\ calls < MaxCalls
  /\ calls' = calls + 1

Goto(t, label) == cpc' = [cpc EXCEPT ![t] = label]

\* The thread t returns from its innermost call, while the threads S leave
\* the futex to take the mutex back.
ReturnReleasing(t, S) ==
  LET outermost == Len(stack[t]) = 1
  IN /\ cpc' = [u \in Threads |->
                  IF u = t THEN IF outermost THEN "run" ELSE "r_read"
                  ELSE IF u \in S THEN "w_lock" ELSE cpc[u]]
     /\ stack' = [stack EXCEPT ![t] = Tail(@)]
     /\ due' = IF outermost THEN due \ {t} ELSE due
     /\ notified' = notified \ S

-----------------------------------------------------------------------------
(* The mutex, called by the client and run from within a wait.             *)

LockCall(t) ==
  /\ Call(t)
  /\ M!LockCall(t)
  /\ UNCHANGED <<cpc, seq, bound, use_child, stack, cur, notified, due>>

\* The client's unlock, and the one in fastsync_cond_wait.
UnlockCall(t) ==
  /\ cpc[t] \in {"run", "w_unlock"}
  /\ M!UnlockRead(t)
  /\ UNCHANGED condVars

MutexStep(t) ==
  /\ M!LockStep(t) \/ M!UnlockStep(t)
  /\ UNCHANGED condVars

MutexInterrupt(t) ==
  /\ M!FutexInterrupt(t)
  /\ UNCHANGED condVars

-----------------------------------------------------------------------------
(* fastsync_cond_wait.                                                     *)

\* One call, for the object the stack frames begins with: bind the mutex to
\* it, then recurse into the parent if the call goes up.
BindAndGo(t, frames, up) ==
  LET c == Head(frames)
  IN /\ pc[t] = "cs"
     /\ bound' = bound \cup {c}
     /\ use_child' = IF up THEN [use_child EXCEPT ![c] = TRUE] ELSE use_child
     /\ stack' = [stack EXCEPT ![t] = IF up THEN <<Parent[c]>> \o frames ELSE frames]
     /\ Goto(t, IF up THEN "w_frame" ELSE "w_seq")
     /\ UNCHANGED <<state, pc, loop, seq, cur, notified, due>>

\* Mutants of Frame: use_child, or the parent, is not looked at.
FrameAlwaysUp(t, frames) == BindAndGo(t, frames, Parent[Head(frames)] # NoCond)
FrameNoParent(t, frames) == BindAndGo(t, frames, ~use_child[Head(frames)])

\* if(!cond->use_child && cond->parent)
Frame(t, frames) ==
  BindAndGo(t, frames, ~use_child[Head(frames)] /\ Parent[Head(frames)] # NoCond)

Wait(t)       == Call(t) /\ Frame(t, <<Leaf[t]>>)
WaitParent(t) == cpc[t] = "w_frame" /\ Frame(t, stack[t]) /\ UNCHANGED calls

\* cur_seq = cond->seq
WaitReadSeq(t) ==
  /\ cpc[t] = "w_seq"
  /\ cur' = [cur EXCEPT ![t] = seq[At(t)]]
  /\ Goto(t, "w_unlock")
  /\ UNCHANGED <<state, pc, loop, seq, bound, use_child, stack, calls, notified, due>>

\* The thread leaves the futex, woken or not, and takes the mutex back.
LeaveFutex(t) ==
  /\ M!Relock(t)
  /\ Goto(t, "w_lock")
  /\ notified' = notified \ {t}

\* Mutant of WaitFutex: the call expects whatever seq holds by then.
WaitFutexReread(t) ==
  /\ cpc[t] = "w_unlock" /\ pc[t] = "idle"
  /\ Goto(t, "w_sleep")
  /\ UNCHANGED <<state, pc, loop, seq, bound, use_child, stack, cur, calls, notified, due>>

\* sys_futex(&seq, FUTEX_WAIT_PRIVATE, cur_seq), when the unlock has returned
WaitFutex(t) ==
  /\ cpc[t] = "w_unlock" /\ pc[t] = "idle"
  /\ \/ /\ WaitBlocks(seq[At(t)], cur[t])
        /\ Goto(t, "w_sleep")
        /\ UNCHANGED <<state, pc, loop, notified>>
     \/ /\ ~WaitBlocks(seq[At(t)], cur[t])
        /\ LeaveFutex(t)
  /\ UNCHANGED <<seq, bound, use_child, stack, cur, calls, due>>

\* The wait on the futex is interrupted; the code does not tell it from a
\* wake-up.
WaitInterrupt(t) ==
  /\ cpc[t] = "w_sleep"
  /\ LeaveFutex(t)
  /\ UNCHANGED <<seq, bound, use_child, stack, cur, calls, due>>

\* Mutant of WaitReturn: the wait returns before the mutex is taken back.
WaitReturnUnlocked(t) ==
  /\ cpc[t] = "w_lock" /\ pc[t] = "l_xchg"
  /\ ReturnReleasing(t, {})
  /\ UNCHANGED <<state, pc, loop, seq, bound, use_child, cur, calls>>

\* The mutex is taken back: return, to the client or to the call for the
\* child.
WaitReturn(t) ==
  /\ cpc[t] = "w_lock" /\ pc[t] = "cs"
  /\ ReturnReleasing(t, {})
  /\ UNCHANGED <<state, pc, loop, seq, bound, use_child, cur, calls>>

\* cond->seq++ in the call for a child: a read and a write.  A signal to the
\* child, which needs no mutex, may come between them.
ReleaseRead(t) ==
  /\ cpc[t] = "r_read"
  /\ cur' = [cur EXCEPT ![t] = seq[At(t)]]
  /\ Goto(t, "r_write")
  /\ UNCHANGED <<state, pc, loop, seq, bound, use_child, stack, calls, notified, due>>

ReleaseStore(t, newSeq) ==
  /\ cpc[t] = "r_write"
  /\ seq' = [seq EXCEPT ![At(t)] = newSeq]
  /\ Goto(t, "r_requeue")
  /\ notified' = notified \cup WaitersAt(At(t))
  /\ due' = due \cup WaitersAt(At(t))
  /\ UNCHANGED <<state, pc, loop, bound, use_child, stack, cur, calls>>

\* Mutant of ReleaseWrite: the increment is forgotten.
ReleaseWriteSame(t) == ReleaseStore(t, cur[t])

ReleaseWrite(t) == ReleaseStore(t, (cur[t] + 1) % SeqMod)

\* FUTEX_REQUEUE_PRIVATE 1, INT_MAX: one waiter of the child is woken, the
\* others are moved to the mutex.
ReleaseRequeue(t) ==
  LET S == SleepersAt(At(t))
  IN /\ cpc[t] = "r_requeue"
     /\ M!Requeue(S)
     /\ cpc' = [u \in Threads |-> IF u = t THEN "r_reset"
                                  ELSE IF u \in S THEN "w_lock" ELSE cpc[u]]
     /\ notified' = notified \ S
     /\ UNCHANGED <<seq, bound, use_child, stack, cur, calls, due>>

ReleaseEnd(t, useChild) ==
  /\ cpc[t] = "r_reset"
  /\ use_child' = [use_child EXCEPT ![At(t)] = useChild]
  /\ ReturnReleasing(t, {})
  /\ UNCHANGED <<state, pc, loop, seq, bound, cur, calls>>

\* Mutant of ReleaseReturn: use_child is not reset.
ReleaseKeepsUseChild(t) == ReleaseEnd(t, TRUE)

\* use_child = 0, and return 0
ReleaseReturn(t) == ReleaseEnd(t, FALSE)

-----------------------------------------------------------------------------
(* fastsync_cond_signal, signal_count and broadcast, sent by a thread in    *)
(* the client's code, with the mutex or without it.                        *)

\* atomic_addf(&seq, 1)
Increase(t, c, label) ==
  /\ Call(t)
  /\ pc[t] \in {"cs", "idle"}
  /\ seq' = [seq EXCEPT ![c] = (@ + 1) % SeqMod]
  /\ notified' = notified \cup WaitersAt(c)
  /\ stack' = [stack EXCEPT ![t] = <<c>>]
  /\ Goto(t, label)
  /\ UNCHANGED <<state, pc, loop, bound, use_child, cur>>

Signal(t, c) == Increase(t, c, "s_wake") /\ UNCHANGED due

\* sys_futex(&seq, FUTEX_WAKE_PRIVATE, 1)
SignalWake(t) ==
  /\ cpc[t] = "s_wake"
  /\ \E woken \in WakeOne(SleepersAt(At(t))) :
       /\ \/ woken = {} /\ UNCHANGED <<state, pc, loop>>
          \/ \E u \in woken : M!Relock(u)
       /\ ReturnReleasing(t, woken)
  /\ UNCHANGED <<seq, bound, use_child, cur, calls>>

\* A broadcast to the root is meant for every waiter of the tree: those of
\* the other objects are released by the threads that represent them.
Broadcast(t, c) ==
  /\ Increase(t, c, "b_check")
  /\ due' = due \cup IF Parent[c] = NoCond THEN Waiters ELSE WaitersAt(c)

\* if(cond->mutex): nobody has waited yet when it is not set.
BroadcastCheck(t) ==
  /\ cpc[t] = "b_check"
  /\ IF At(t) \in bound
     THEN Goto(t, "b_requeue") /\ UNCHANGED <<stack, notified, due>>
     ELSE ReturnReleasing(t, {})
  /\ UNCHANGED <<state, pc, loop, seq, bound, use_child, cur, calls>>

\* FUTEX_REQUEUE_PRIVATE 1, INT_MAX
BroadcastRequeue(t) ==
  /\ cpc[t] = "b_requeue"
  /\ M!Requeue(SleepersAt(At(t)))
  /\ ReturnReleasing(t, SleepersAt(At(t)))
  /\ UNCHANGED <<seq, bound, use_child, cur, calls>>

DestroyWhenUnused(t, c, users) ==
  /\ Call(t)
  /\ users = {}
  /\ seq' = [seq EXCEPT ![c] = 0]
  /\ bound' = bound \ {c}
  /\ UNCHANGED <<state, pc, loop, cpc, use_child, stack, cur, notified, due>>

\* The threads that will touch c again.  One that has left the futex of c,
\* and takes the mutex back, does not.
Users(c) ==
  {u \in Threads : /\ \E i \in 1..Len(stack[u]) : stack[u][i] = c
                   /\ ~(At(u) = c /\ cpc[u] = "w_lock")}

\* Mutant of Destroy: a thread on its way to the futex does not count when it
\* was notified.
DestroyNotified(t, c) ==
  DestroyWhenUnused(t, c, Users(c) \ {u \in notified : cpc[u] = "w_unlock"})

\* fastsync_cond_destroy, for an object that no thread is going to touch:
\* the waiters are out of the futex, not necessarily back from wait.  The
\* object may be used again afterwards.
Destroy(t, c) == DestroyWhenUnused(t, c, Users(c))

-----------------------------------------------------------------------------
\* The steps of a thread inside the code, and its unlock.
Step(t) ==
  \/ UnlockCall(t) \/ MutexStep(t)
  \/ WaitParent(t) \/ WaitReadSeq(t) \/ WaitFutex(t) \/ WaitReturn(t)
  \/ ReleaseRead(t) \/ ReleaseWrite(t) \/ ReleaseRequeue(t) \/ ReleaseReturn(t)
  \/ SignalWake(t) \/ BroadcastCheck(t) \/ BroadcastRequeue(t)

Next ==
  \E t \in Threads :
    \/ LockCall(t) \/ Wait(t)
    \/ \E c \in Conds : Signal(t, c) \/ Broadcast(t, c) \/ Destroy(t, c)
    \/ Step(t) \/ MutexInterrupt(t) \/ WaitInterrupt(t)

Spec == Init /\ [][Next]_vars

(* The scheduler runs every runnable thread and a critical section ends;   *)
(* no call is ever required of a client, and no interrupt ever comes to    *)
(* the rescue.                                                             *)
Fairness == \A t \in Threads : WF_vars(Step(t))

FairSpec == Spec /\ Fairness

-----------------------------------------------------------------------------
(* Properties.                                                             *)

\* Types.  The types of the mutex variables are FastsyncMutex's.
TypeOK ==
  /\ M!TypeOK
  /\ cpc \in [Threads -> CondLabels]
  /\ seq \in [Conds -> 0 .. SeqMod - 1]
  /\ bound \in SUBSET Conds
  /\ use_child \in [Conds -> BOOLEAN]
  /\ stack \in [Threads -> Seq(Conds)]
  /\ \A t \in Threads : stack[t] = <<>> <=> cpc[t] = "run"
  /\ cur \in [Threads -> 0 .. SeqMod - 1]
  /\ calls \in Nat
  /\ notified \in SUBSET Threads
  /\ due \in SUBSET Threads

\* A thread represents c while it waits above c for the waiters of c, or
\* releases them.
Represents(t, c) ==
  \/ \E i \in 2..Len(stack[t]) : stack[t][i] = c
  \/ cpc[t] \in ReleaseLabels /\ At(t) = c

\* "The first thread hits a tree-node can proceed to its parent, later come
\* threads will wait at this tree-node, until the first thread is released"
\* (fastsync_cond.c): nobody waits at a child without one thread of the child
\* above it that will release it, unless its own release is on the way.
Represented ==
  \A c \in Conds :
    Parent[c] # NoCond /\ WaitersAt(c) \ notified # {}
      => \E t \in Threads : Represents(t, c)

\* "a mutex should be acquired at this point", "again, no need for atomic
\* operations" (fastsync_cond.c): no two threads work on the plain fields of
\* the tree at once, and use_child of a child tells exactly whether one
\* thread, and never a second one, represents it.
PlainFieldsExclusive ==
  /\ \A t, u \in Threads :
       {cpc[t], cpc[u]} \subseteq {"w_frame", "w_seq"} \cup ReleaseLabels => t = u
  /\ \A c \in Conds :
       /\ use_child[c] <=> \E t \in Threads : Represents(t, c)
       /\ \A t, u \in Threads : Represents(t, c) /\ Represents(u, c) => t = u

\* fastsync_cond_wait compares seq with what it read under the mutex: a
\* waiter notified between its unlock and its futex call does not sleep, not
\* even when the representative's seq++ overwrites a concurrent signal.
NotifiedDoesNotSleep ==
  \A t \in notified : cpc[t] = "w_unlock" => cur[t] # seq[At(t)]

\* "Let [...] all (broadcast) waiter(s) of the conditional variable to
\* proceed" (fastsync.h): a thread that a broadcast must release and that
\* still sleeps has its release coming, from the broadcaster itself or from
\* the thread that represents its object, itself released or on its way.
NoLostBroadcast ==
  \A t \in due :
    cpc[t] = "w_sleep" =>
      \E u \in Threads :
        \/ cpc[u] \in {"b_check", "b_requeue", "r_requeue"} /\ At(u) = At(t)
        \/ Represents(u, At(t)) /\ (u \in due \/ cpc[u] \notin {"w_unlock", "w_sleep"})

\* A broadcast to the root: every thread that was waiting anywhere in the
\* tree returns from its wait.
BroadcastReleases == \A t \in Threads : t \in due ~> cpc[t] = "run"

\* The threads in a wait that have read seq: the abstract wait begins there.
Inside == {t \in Threads : cpc[t] \in (WaitLabels \ {"w_frame", "w_seq"}) \cup ReleaseLabels}

\* fastsync_cond.c on top of fastsync_mutex.c implements the abstract
\* condition variable and its mutex: whatever way a waiter leaves the futex,
\* by itself, woken or moved to the mutex, it competes for the mutex before
\* it returns, and the mutex stays a mutex.
Abstract == INSTANCE Cond WITH owner <- M!Owners, asking <- M!Asking, inside <- Inside,
                               waiting <- Waiters, due <- due \cap Waiters

ImplementsCond == Abstract!Spec

=============================================================================
