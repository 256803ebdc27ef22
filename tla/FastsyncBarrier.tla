-------------------------- MODULE FastsyncBarrier --------------------------
(***************************************************************************)
(* The barrier of src/fastsync/fastsync_barrier.c: a tree of barrier       *)
(* objects linked by parent_bar.  A thread waits at a leaf, in the futex;  *)
(* the last thread to reach a node goes on to the node's parent, where it  *)
(* spins, and resets the nodes on its way back.  A barrier without a       *)
(* parent, as fastsync_barrier_init leaves it, is the tree of one node.    *)
(*                                                                         *)
(* One action is one access to shared memory or one system call.  The      *)
(* recursion of the code is the climb: of the frames below the one a       *)
(* thread runs in, only their nodes are used again, and the tree gives     *)
(* them.                                                                   *)
(***************************************************************************)
EXTENDS Naturals, FiniteSets, Futex

CONSTANTS Threads,
          Nodes,      \* the fastsync_barrier objects
          NoNode,     \* the NULL of parent_bar
          Parent,     \* parent_bar of each node
          Leaf,       \* the barrier on which each thread calls wait
          Members,    \* the threads that wait at a node or below it
          Depth,      \* the distance of a node from the root
          SeqMod,     \* the number of values of seq: 2^32 in the code
          Rounds      \* how many times each thread calls wait

(* The usage that the code relies on: parent_bar makes a tree, threads     *)
(* call wait on its leaves only, and total_count of a node is the number   *)
(* of the threads below it.                                                *)
ASSUME TreeAssumption ==
  /\ IsFiniteSet(Threads)
  /\ NoNode \notin Nodes
  /\ Parent \in [Nodes -> Nodes \cup {NoNode}]
  /\ Leaf \in [Threads -> Nodes]
  /\ Members \in [Nodes -> SUBSET Threads]
  /\ Depth \in [Nodes -> Nat]
  /\ \E root \in Nodes : \A n \in Nodes : Parent[n] = NoNode <=> n = root
  /\ \A n \in Nodes : IF Parent[n] = NoNode THEN Depth[n] = 0 /\ Members[n] = Threads
                                            ELSE Depth[n] = Depth[Parent[n]] + 1
  /\ \A n \in Nodes, t \in Threads :
       t \in Members[n] <=> \/ Leaf[t] = n
                            \/ \E c \in Nodes : Parent[c] = n /\ t \in Members[c]
  /\ \A c, d \in Nodes : Depth[c] = Depth[d] /\ c # d => Members[c] \cap Members[d] = {}
  /\ \A c \in Nodes, t \in Threads : Parent[c] # Leaf[t]

ASSUME SeqModAssumption == SeqMod \in Nat \ {0, 1}
ASSUME RoundsAssumption == Rounds \in Nat

VARIABLES
  seq,       \* the sequence number of each node
  waiting,   \* the number of threads each node has counted in
  pc, at,    \* where a thread stands, and the node of its current frame
  cur,       \* the local cur_seq of that frame
  (* History: the code keeps no trace of these.                            *)
  entered,   \* how many waits each thread has begun
  left,      \* how many of them have returned
  resets,    \* how many times each node has been reset
  arrived,   \* the threads that a node's waiting counts
  serials    \* how many waits at a leaf returned PTHREAD_BARRIER_SERIAL_THREAD

barrierVars == <<seq, waiting, pc, at, cur, entered, left, resets, arrived, serials>>
history     == <<entered, left, resets, arrived, serials>>

Labels == {"out", "b_read", "b_add", "b_check", "b_futex", "b_sleep", "b_reset",
           "b_wake", "unreachable"}

-----------------------------------------------------------------------------
Total(n)   == Cardinality(Members[n])              \* total_count
Down(n, t) == CHOOSE c \in Nodes : Parent[c] = n /\ t \in Members[c]

\* The threads that t stands for at n: itself, or those of the child it came
\* from (inc_count is the child's count, which had reached its total).
Carried(n, t) == IF n = Leaf[t] THEN {t} ELSE Members[Down(n, t)]

Goto(t, label) == pc' = [pc EXCEPT ![t] = label]

Init ==
  /\ seq = [n \in Nodes |-> 0]
  /\ waiting = [n \in Nodes |-> 0]
  /\ pc = [t \in Threads |-> "out"]
  /\ at = Leaf
  /\ cur = [t \in Threads |-> 0]
  /\ entered = [t \in Threads |-> 0]
  /\ left = [t \in Threads |-> 0]
  /\ resets = [n \in Nodes |-> 0]
  /\ arrived = [n \in Nodes |-> {}]
  /\ serials = [n \in Nodes |-> 0]

-----------------------------------------------------------------------------
\* fastsync_barrier_wait is called: cur_seq = atomic_read(barrier->seq)
Enter(t) ==
  /\ pc[t] = "out"
  /\ entered[t] < Rounds
  /\ entered' = [entered EXCEPT ![t] = @ + 1]
  /\ cur' = [cur EXCEPT ![t] = seq[Leaf[t]]]
  /\ Goto(t, "b_add")
  /\ UNCHANGED <<seq, waiting, at, left, resets, arrived, serials>>

\* fastsynt_barrier_wait_interproc begins in the same way at a parent.
ReadSeq(t) ==
  /\ pc[t] = "b_read"
  /\ cur' = [cur EXCEPT ![t] = seq[at[t]]]
  /\ Goto(t, "b_add")
  /\ UNCHANGED <<seq, waiting, at, history>>

\* The arrival of t with an inc_count of inc at a node: count =
\* atomic_addf(&waiting, inc_count), and the comparison of count with
\* total_count.  The last to arrive goes on to the parent, if the node has one.
Arrive(t, inc, hasParent) ==
  LET n     == at[t]
      count == waiting[n] + inc
      climb == count = Total(n) /\ hasParent
  IN /\ pc[t] = "b_add"
     /\ waiting' = [waiting EXCEPT ![n] = count]
     /\ arrived' = [arrived EXCEPT ![n] = @ \cup Carried(n, t)]
     /\ at' = [at EXCEPT ![t] = IF climb THEN Parent[n] ELSE n]
     /\ Goto(t, CASE climb                      -> "b_read"
                  [] count = Total(n) /\ ~climb -> "b_reset"
                  [] count < Total(n)           -> "b_check"
                  [] count > Total(n)           -> "unreachable")
     /\ UNCHANGED <<seq, cur, entered, left, resets, serials>>

\* Mutants of Add: inc_count is 1 at every level; the parent is forgotten;
\* parent_bar is not compared with NULL.
AddOne(t)         == Arrive(t, 1, Parent[at[t]] # NoNode)
AddNoClimb(t)     == Arrive(t, Cardinality(Carried(at[t], t)), FALSE)
AddAlwaysClimb(t) == Arrive(t, Cardinality(Carried(at[t], t)), TRUE)

Add(t) == Arrive(t, Cardinality(Carried(at[t], t)), Parent[at[t]] # NoNode)

\* The last thread to arrive at a node sets its seq and its waiting with one
\* 64-bit store.  Then a frame below is resumed, or the leaf's own waiters
\* are woken; a leaf of one thread has none to wake.
Store(t, newSeq, newWaiting) ==
  LET n == at[t]
  IN /\ pc[t] = "b_reset"
     /\ seq' = [seq EXCEPT ![n] = newSeq]
     /\ waiting' = [waiting EXCEPT ![n] = newWaiting]
     /\ resets' = [resets EXCEPT ![n] = @ + 1]
     /\ arrived' = [arrived EXCEPT ![n] = {}]
     /\ \/ /\ n # Leaf[t]
           /\ at' = [at EXCEPT ![t] = Down(n, t)]
           /\ UNCHANGED <<pc, left, serials>>
        \/ /\ n = Leaf[t] /\ Total(n) > 1
           /\ Goto(t, "b_wake")
           /\ UNCHANGED <<at, left, serials>>
        \/ /\ n = Leaf[t] /\ Total(n) <= 1
           /\ Goto(t, "out")
           /\ left' = [left EXCEPT ![t] = @ + 1]
           /\ serials' = [serials EXCEPT ![n] = @ + 1]
           /\ UNCHANGED at
     /\ UNCHANGED <<cur, entered>>

\* Mutant of Reset: the store goes to seq alone.
ResetSeqOnly(t) == Store(t, (seq[at[t]] + 1) % SeqMod, waiting[at[t]])

\* barrier->reset = barrier->seq + 1
Reset(t) == Store(t, (seq[at[t]] + 1) % SeqMod, 0)

\* Mutant of Wake: FUTEX_WAKE with a count of 1.
WakeOnlyOne(t) ==
  /\ pc[t] = "b_wake"
  /\ \E woken \in WakeOne({u \in Threads : pc[u] = "b_sleep" /\ at[u] = at[t]}) :
       pc' = [u \in Threads |-> IF u = t THEN "out"
                                ELSE IF u \in woken THEN "b_check" ELSE pc[u]]
  /\ left' = [left EXCEPT ![t] = @ + 1]
  /\ serials' = [serials EXCEPT ![at[t]] = @ + 1]
  /\ UNCHANGED <<seq, waiting, at, cur, entered, resets, arrived>>

\* sys_futex(&seq, FUTEX_WAKE_PRIVATE, INT_MAX): every thread suspended on
\* this leaf, also one that is already waiting for the next round.
Wake(t) ==
  /\ pc[t] = "b_wake"
  /\ pc' = [u \in Threads |->
              IF u = t THEN "out"
              ELSE IF pc[u] = "b_sleep" /\ at[u] = at[t] THEN "b_check"
              ELSE pc[u]]
  /\ left' = [left EXCEPT ![t] = @ + 1]
  /\ serials' = [serials EXCEPT ![at[t]] = @ + 1]
  /\ UNCHANGED <<seq, waiting, at, cur, entered, resets, arrived>>

\* Mutant of Check: a thread that left the futex returns SERIAL too.
CheckSerial(t) ==
  /\ pc[t] = "b_check" /\ at[t] = Leaf[t]
  /\ \/ /\ cur[t] = seq[at[t]]
        /\ Goto(t, "b_futex")
        /\ UNCHANGED <<left, serials>>
     \/ /\ cur[t] # seq[at[t]]
        /\ Goto(t, "out")
        /\ left' = [left EXCEPT ![t] = @ + 1]
        /\ serials' = [serials EXCEPT ![at[t]] = @ + 1]
  /\ UNCHANGED <<seq, waiting, at, cur, entered, resets, arrived>>

\* while(cur_seq == atomic_read(seq)) at a leaf: suspend, or return 0.
Check(t) ==
  /\ pc[t] = "b_check" /\ at[t] = Leaf[t]
  /\ \/ /\ cur[t] = seq[at[t]]
        /\ Goto(t, "b_futex")
        /\ UNCHANGED left
     \/ /\ cur[t] # seq[at[t]]
        /\ Goto(t, "out")
        /\ left' = [left EXCEPT ![t] = @ + 1]
  /\ UNCHANGED <<seq, waiting, at, cur, entered, resets, arrived, serials>>

\* The same loop at a parent spins; it ends by going back to the frame below.
Spin(t) ==
  /\ pc[t] = "b_check" /\ at[t] # Leaf[t]
  /\ cur[t] # seq[at[t]]
  /\ at' = [at EXCEPT ![t] = Down(at[t], t)]
  /\ Goto(t, "b_reset")
  /\ UNCHANGED <<seq, waiting, cur, history>>

\* Mutant of FutexWait: the expected value is read again at the call.
FutexWaitReread(t) ==
  /\ pc[t] = "b_futex"
  /\ Goto(t, "b_sleep")
  /\ UNCHANGED <<seq, waiting, at, cur, history>>

\* sys_futex(&seq, FUTEX_WAIT_PRIVATE, cur_seq)
FutexWait(t) ==
  /\ pc[t] = "b_futex"
  /\ Goto(t, IF WaitBlocks(seq[at[t]], cur[t]) THEN "b_sleep" ELSE "b_check")
  /\ UNCHANGED <<seq, waiting, at, cur, history>>

\* FUTEX_WAIT returns without a wake-up.
Interrupt(t) ==
  /\ pc[t] = "b_sleep"
  /\ Goto(t, "b_check")
  /\ UNCHANGED <<seq, waiting, at, cur, history>>

-----------------------------------------------------------------------------
\* The steps of a thread inside the code.
WaitStep(t) == \/ ReadSeq(t) \/ Add(t) \/ Reset(t) \/ Wake(t)
               \/ Check(t) \/ Spin(t) \/ FutexWait(t)

Next == \E t \in Threads : Enter(t) \/ WaitStep(t) \/ Interrupt(t)

Spec == Init /\ [][Next]_barrierVars

(* The scheduler runs every runnable thread, a spinning one included, and  *)
(* every thread makes its Rounds calls, as the threads of a test run do.   *)
(* No fairness is assumed of Interrupt.                                    *)
Fairness == \A t \in Threads : WF_barrierVars(Enter(t)) /\ WF_barrierVars(WaitStep(t))

FairSpec == Spec /\ Fairness

-----------------------------------------------------------------------------
(* Properties.                                                             *)

\* Types.
TypeOK ==
  /\ seq \in [Nodes -> 0 .. SeqMod - 1]
  /\ waiting \in [Nodes -> Nat]
  /\ pc \in [Threads -> Labels]
  /\ at \in [Threads -> Nodes]
  /\ cur \in [Threads -> 0 .. SeqMod - 1]
  /\ entered \in [Threads -> 0 .. Rounds]
  /\ left \in [Threads -> Nat]
  /\ resets \in [Nodes -> Nat]
  /\ arrived \in [Nodes -> SUBSET Threads]
  /\ serials \in [Nodes -> Nat]

\* "1: unreachable code executed; major error" (fastsync.h): whatever the
\* order of the arrivals of one round and of the next, no node ever counts
\* more threads than it waits for.
NoOverrun == \A t \in Threads : pc[t] # "unreachable"

\* A thread suspended for a round that is over has its wake-up coming: the
\* thread that ended the round has still to issue it.
NoLostWakeup ==
  \A t \in Threads : pc[t] = "b_sleep" /\ cur[t] # seq[at[t]]
                       => \E u \in Threads : pc[u] = "b_wake" /\ at[u] = at[t]

\* "success, this is also the thread that resets the barrier" (fastsync.h):
\* once every thread of a leaf is back from its k-th wait, exactly k of the
\* waits at that leaf have returned PTHREAD_BARRIER_SERIAL_THREAD.
OneSerialPerRound ==
  \A t \in Threads :
    (\A u \in Members[Leaf[t]] : pc[u] = "out" /\ left[u] = left[t])
      => serials[Leaf[t]] = left[t]

\* Every wait returns, in every round, also when the sequence number wraps
\* and when a late wake-up of one round hits the sleepers of the next.
EveryWaitReturns == \A t \in Threads : pc[t] # "out" ~> pc[t] = "out"

\* fastsync_barrier.c implements the abstract barrier: no thread of any leaf
\* returns from a round before every thread of every leaf has entered it.
Abstract == INSTANCE Barrier

ImplementsBarrier == Abstract!Spec

=============================================================================
