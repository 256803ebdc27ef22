----------------------- MODULE FastsyncBarrierProofs -----------------------
(***************************************************************************)
(* What is proved of the fastsync barrier, for every tree of barriers,     *)
(* every finite set of threads, every width of seq and every number of     *)
(* rounds.                                                                 *)
(*                                                                         *)
(* The argument: the threads of a node arrive at its parent together or    *)
(* not at all (ChildOfParent), because the one that fills the node holds   *)
(* it, full, until it has come back from the parent (HeldIsFull).  So no   *)
(* thread is counted twice in a round, and a round of the root ends when   *)
(* all threads have arrived.                                               *)
(***************************************************************************)
EXTENDS FastsyncBarrier, FiniteSetTheorems, TLAPS

(* The inductive invariant.                                                *)

\* t is the thread that climbed out of c and has not reset it yet: it runs at
\* a node above c, or has come back to c.
Holds(t, c) ==
  /\ t \in Members[c]
  /\ \/ at[t] = c /\ pc[t] = "b_reset"
     \/ Depth[at[t]] < Depth[c] /\ Depth[c] <= Depth[Leaf[t]]

\* A thread runs at its leaf or above it; it is suspended, wakes others and
\* returns at its leaf alone.
OnPath ==
  \A t \in Threads :
    /\ t \in Members[at[t]]
    /\ Depth[at[t]] <= Depth[Leaf[t]]
    /\ pc[t] \in {"out", "b_futex", "b_sleep", "b_wake"} => at[t] = Leaf[t]
    /\ pc[t] = "b_read" => at[t] # Leaf[t]

\* waiting counts the threads that have arrived.
Counted ==
  \A n \in Nodes : arrived[n] \subseteq Members[n] /\ waiting[n] = Cardinality(arrived[n])

\* A node that a thread has climbed out of is full until that thread, and no
\* other, resets it.
HeldIsFull ==
  \A c \in Nodes, t \in Threads : Holds(t, c) => arrived[c] = Members[c]
OneHolder ==
  \A c \in Nodes, t, u \in Threads : Holds(t, c) /\ Holds(u, c) => t = u

\* A node against its parent: the threads of the node have not arrived at the
\* parent in this round; or they have, all of them; or the parent has been
\* reset and the node has not.
ChildOfParent ==
  \A c \in Nodes :
    Parent[c] # NoNode /\ Members[c] # {} =>
      LET p == Parent[c]
      IN \/ Members[c] \cap arrived[p] = {} /\ resets[c] = resets[p]
         \/ Members[c] \subseteq arrived[p] /\ resets[c] = resets[p]
                                           /\ arrived[c] = Members[c]
         \/ Members[c] \cap arrived[p] = {} /\ resets[p] = resets[c] + 1
                                           /\ arrived[c] = Members[c]

\* A thread at a parent, against the node it came from.
AtParent ==
  \A t \in Threads, c \in Nodes :
    Parent[c] = at[t] /\ t \in Members[c] =>
      LET p == at[t]
      IN /\ pc[t] \in {"b_read", "b_add"} => Members[c] \cap arrived[p] = {}
                                             /\ resets[c] = resets[p]
         /\ pc[t] = "b_add" => cur[t] = seq[p]
         /\ pc[t] = "b_check" =>
              \/ Members[c] \subseteq arrived[p] /\ cur[t] = seq[p]
              \/ resets[p] = resets[c] + 1 /\ seq[p] = (cur[t] + 1) % SeqMod

\* A thread that is about to reset a node finds its parent already reset.
ParentFirst ==
  \A t \in Threads :
    pc[t] = "b_reset" /\ Parent[at[t]] # NoNode => resets[Parent[at[t]]] = resets[at[t]] + 1

\* A thread against its leaf: it has not arrived yet, or the leaf counts it,
\* or the leaf has been reset since.
AtLeaf ==
  \A t \in Threads :
    LET l      == Leaf[t]
        adding == at[t] = l /\ pc[t] = "b_add"
        loop   == at[t] = l /\ pc[t] \in {"b_check", "b_futex", "b_sleep"}
    IN /\ entered[t] = IF pc[t] = "out" THEN left[t] ELSE left[t] + 1
       /\ adding => t \notin arrived[l] /\ entered[t] = resets[l] + 1 /\ cur[t] = seq[l]
       /\ t \in arrived[l] => /\ pc[t] \notin {"out", "b_wake"}
                              /\ entered[t] = resets[l] + 1
                              /\ loop => cur[t] = seq[l]
       /\ t \notin arrived[l] /\ ~adding =>
            /\ entered[t] = resets[l]
            /\ loop => seq[l] = (cur[t] + 1) % SeqMod

\* No node is reset before its ancestors, nor before its threads have entered.
AncestorsFirst ==
  \A m, n \in Nodes :
    Members[m] \cap Members[n] # {} /\ Depth[m] < Depth[n] => resets[n] <= resets[m]
EnteredFirst ==
  \A n \in Nodes : \A t \in Members[n] :
    resets[n] <= entered[t] /\ (t \in arrived[n] => resets[n] < entered[t])

\* Every reset of a leaf makes one serial thread, on its way out or returned.
Waking(u, l) == pc[u] = "b_wake" /\ at[u] = l
Serials ==
  \A t \in Threads :
    LET l == Leaf[t]
    IN /\ \A u, v \in Threads : Waking(u, l) /\ Waking(v, l) => u = v
       /\ \A u \in Threads : Waking(u, l) => resets[l] = serials[l] + 1
       /\ (\A u \in Threads : ~Waking(u, l)) => resets[l] = serials[l]

IInv ==
  /\ TypeOK
  /\ OnPath
  /\ Counted
  /\ HeldIsFull
  /\ OneHolder
  /\ ChildOfParent
  /\ AtParent
  /\ ParentFirst
  /\ AtLeaf
  /\ AncestorsFirst
  /\ EnteredFirst
  /\ Serials
  /\ NoLostWakeup
  /\ NoOverrun

-----------------------------------------------------------------------------
(* The tree and the sequence numbers.                                      *)

\* The node below n on the way of t is the only one.
LEMMA DownIs ==
  ASSUME NEW n \in Nodes, NEW t \in Members[n], n # Leaf[t]
  PROVE  /\ Down(n, t) \in Nodes /\ Parent[Down(n, t)] = n /\ t \in Members[Down(n, t)]
         /\ \A c \in Nodes : Parent[c] = n /\ t \in Members[c] => c = Down(n, t)
<1>1. t \in Threads
  BY TreeAssumption
<1>2. \E c \in Nodes : Parent[c] = n /\ t \in Members[c]
  BY <1>1, TreeAssumption
<1>3. Down(n, t) \in Nodes /\ Parent[Down(n, t)] = n /\ t \in Members[Down(n, t)]
  BY <1>2 DEF Down
<1>4. n # NoNode
  BY TreeAssumption
<1>5. ASSUME NEW c \in Nodes, Parent[c] = n, t \in Members[c] PROVE c = Down(n, t)
  <2>1. Depth[c] = Depth[Down(n, t)]
    BY <1>3, <1>4, <1>5, TreeAssumption
  <2> QED BY <2>1, <1>3, <1>5, TreeAssumption
<1> QED BY <1>3, <1>5

\* The parent of a node that has one.
LEMMA ParentIs ==
  ASSUME NEW c \in Nodes, Parent[c] # NoNode
  PROVE  /\ Parent[c] \in Nodes /\ Depth[c] = Depth[Parent[c]] + 1
         /\ Members[c] \subseteq Members[Parent[c]]
         /\ Parent[c] # c
         /\ \A t \in Threads : Parent[c] # Leaf[t]
BY TreeAssumption

\* Nodes that share a thread are the same or at different depths.
LEMMA SameDepth ==
  ASSUME NEW m \in Nodes, NEW n \in Nodes, NEW t \in Members[m], t \in Members[n],
         Depth[m] = Depth[n]
  PROVE  m = n
BY TreeAssumption

\* A leaf is a node with its own threads, below which nothing is.
LEMMA LeafIs ==
  ASSUME NEW t \in Threads
  PROVE  /\ Leaf[t] \in Nodes /\ t \in Members[Leaf[t]]
         /\ \A u \in Members[Leaf[t]] : Leaf[u] = Leaf[t]
         /\ \A c \in Nodes : Parent[c] # Leaf[t]
BY TreeAssumption

\* The next sequence number is one that can be told from the last.
LEMMA NextSeq ==
  ASSUME NEW s \in 0 .. SeqMod - 1
  PROVE  (s + 1) % SeqMod \in 0 .. SeqMod - 1 /\ (s + 1) % SeqMod # s
<1>1. CASE s + 1 < SeqMod
  BY <1>1, SeqModAssumption
<1>2. CASE s + 1 = SeqMod
  BY <1>2, SeqModAssumption
<1> QED BY <1>1, <1>2, SeqModAssumption

\* Every set of threads can be counted.
LEMMA FiniteThreads ==
  ASSUME NEW S \in SUBSET Threads
  PROVE  IsFiniteSet(S) /\ Cardinality(S) \in Nat
BY TreeAssumption, FS_Subset, FS_CardinalityType

-----------------------------------------------------------------------------
(* Steps that leave the tree alone.                                        *)

\* Such a step keeps what relates the nodes to each other and to the threads
\* that hold them.
LEMMA TreeUnmoved ==
  ASSUME IInv, UNCHANGED <<seq, waiting, at, resets, arrived>>,
         \A u \in Threads : pc'[u] = "b_reset" <=> pc[u] = "b_reset"
  PROVE  /\ Counted' /\ HeldIsFull' /\ OneHolder' /\ ChildOfParent'
         /\ ParentFirst' /\ AncestorsFirst'
<1>1. \A c \in Nodes, u \in Threads : Holds(u, c)' <=> Holds(u, c)
  BY DEF Holds
<1>2. Counted' BY DEF IInv, Counted
<1>3. HeldIsFull' /\ OneHolder' BY <1>1 DEF IInv, HeldIsFull, OneHolder
<1>4. ChildOfParent' /\ AncestorsFirst' BY DEF IInv, ChildOfParent, AncestorsFirst
<1>5. ParentFirst' BY DEF IInv, ParentFirst
<1> QED BY <1>2, <1>3, <1>4, <1>5

\* A thread that is out of the code, or at its leaf, is counted by no node above.
LEMMA StepEnter ==
  ASSUME IInv, NEW t \in Threads, Enter(t)
  PROVE  IInv'
<1> USE DEF Enter, Goto
<1>0. TypeOK /\ OnPath /\ AtParent /\ AtLeaf /\ EnteredFirst /\ Serials /\ NoLostWakeup
      /\ NoOverrun
  BY DEF IInv
<1>1. at[t] = Leaf[t]
  BY <1>0 DEF OnPath
<1>2. TypeOK'
  BY <1>0, LeafIs, RoundsAssumption DEF TypeOK, Labels
<1>3. OnPath'
  BY <1>0, <1>1 DEF OnPath, TypeOK
<1>4. Counted' /\ HeldIsFull' /\ OneHolder' /\ ChildOfParent' /\ ParentFirst'
      /\ AncestorsFirst'
  BY <1>0, TreeUnmoved DEF TypeOK
<1>5. AtParent'
  BY <1>0, <1>1, LeafIs DEF AtParent, TypeOK
<1>6. AtLeaf'
  BY <1>0, <1>1, LeafIs DEF AtLeaf, TypeOK
<1>7. EnteredFirst'
  BY <1>0, TreeAssumption DEF EnteredFirst, TypeOK
<1>8. Serials'
  BY <1>0 DEF Serials, Waking, TypeOK
<1>9. NoLostWakeup' /\ NoOverrun'
  BY <1>0 DEF NoLostWakeup, NoOverrun, TypeOK
<1> QED BY <1>2, <1>3, <1>4, <1>5, <1>6, <1>7, <1>8, <1>9 DEF IInv

\* A thread that climbed reads seq of the parent.
LEMMA StepReadSeq ==
  ASSUME IInv, NEW t \in Threads, ReadSeq(t)
  PROVE  IInv'
<1> USE DEF ReadSeq, Goto, history
<1>0. TypeOK /\ OnPath /\ AtParent /\ AtLeaf /\ EnteredFirst /\ Serials /\ NoLostWakeup
      /\ NoOverrun
  BY DEF IInv
<1>1. at[t] # Leaf[t]
  BY <1>0 DEF OnPath
<1>2. TypeOK'
  BY <1>0 DEF TypeOK, Labels
<1>3. OnPath'
  BY <1>0, <1>1 DEF OnPath, TypeOK
<1>4. Counted' /\ HeldIsFull' /\ OneHolder' /\ ChildOfParent' /\ ParentFirst'
      /\ AncestorsFirst'
  BY <1>0, TreeUnmoved DEF TypeOK
<1>5. AtParent'
  BY <1>0, <1>1 DEF AtParent, TypeOK
<1>6. AtLeaf'
  BY <1>0, <1>1 DEF AtLeaf, TypeOK
<1>7. EnteredFirst'
  BY <1>0, TreeAssumption DEF EnteredFirst, TypeOK
<1>8. Serials'
  BY <1>0 DEF Serials, Waking, TypeOK
<1>9. NoLostWakeup' /\ NoOverrun'
  BY <1>0 DEF NoLostWakeup, NoOverrun, TypeOK
<1> QED BY <1>2, <1>3, <1>4, <1>5, <1>6, <1>7, <1>8, <1>9 DEF IInv

\* A waiting thread compares seq with what it read.
LEMMA StepCheck ==
  ASSUME IInv, NEW t \in Threads, Check(t)
  PROVE  IInv'
<1> USE DEF Check, Goto
<1>0. TypeOK /\ OnPath /\ AtParent /\ AtLeaf /\ EnteredFirst /\ Serials /\ NoLostWakeup
      /\ NoOverrun
  BY DEF IInv
<1>1. at[t] = Leaf[t]
  OBVIOUS
<1>2. TypeOK'
  BY <1>0 DEF TypeOK, Labels
<1>3. OnPath'
  BY <1>0, <1>1 DEF OnPath, TypeOK
<1>4. Counted' /\ HeldIsFull' /\ OneHolder' /\ ChildOfParent' /\ ParentFirst'
      /\ AncestorsFirst'
  BY <1>0, TreeUnmoved DEF TypeOK
<1>5. AtParent'
  BY <1>0, <1>1, LeafIs DEF AtParent, TypeOK
<1>6. AtLeaf'
  BY <1>0, <1>1 DEF AtLeaf, TypeOK
<1>7. EnteredFirst'
  BY <1>0 DEF EnteredFirst
<1>8. Serials'
  BY <1>0 DEF Serials, Waking, TypeOK
<1>9. NoLostWakeup' /\ NoOverrun'
  BY <1>0 DEF NoLostWakeup, NoOverrun, TypeOK
<1> QED BY <1>2, <1>3, <1>4, <1>5, <1>6, <1>7, <1>8, <1>9 DEF IInv

\* A thread goes to sleep, finds that seq has changed, or is interrupted.
LEMMA StepFutexWait ==
  ASSUME IInv, NEW t \in Threads, FutexWait(t) \/ Interrupt(t)
  PROVE  IInv'
<1> USE DEF FutexWait, Interrupt, Goto, WaitBlocks, history
<1>0. TypeOK /\ OnPath /\ AtParent /\ AtLeaf /\ EnteredFirst /\ Serials /\ NoLostWakeup
      /\ NoOverrun
  BY DEF IInv
<1>1. at[t] = Leaf[t]
  BY <1>0 DEF OnPath
<1>2. TypeOK'
  BY <1>0 DEF TypeOK, Labels
<1>3. OnPath'
  BY <1>0, <1>1 DEF OnPath, TypeOK
<1>4. Counted' /\ HeldIsFull' /\ OneHolder' /\ ChildOfParent' /\ ParentFirst'
      /\ AncestorsFirst'
  BY <1>0, TreeUnmoved DEF TypeOK
<1>5. AtParent'
  BY <1>0, <1>1, LeafIs DEF AtParent, TypeOK
<1>6. AtLeaf'
  BY <1>0, <1>1 DEF AtLeaf, TypeOK
<1>7. EnteredFirst'
  BY <1>0 DEF EnteredFirst
<1>8. Serials'
  BY <1>0 DEF Serials, Waking, TypeOK
<1>9. NoLostWakeup' /\ NoOverrun'
  BY <1>0 DEF NoLostWakeup, NoOverrun, TypeOK
<1> QED BY <1>2, <1>3, <1>4, <1>5, <1>6, <1>7, <1>8, <1>9 DEF IInv

\* The last thread of a leaf wakes the others and returns.
LEMMA StepWake ==
  ASSUME IInv, NEW t \in Threads, Wake(t)
  PROVE  IInv'
<1> USE DEF Wake
<1>0. TypeOK /\ OnPath /\ AtParent /\ AtLeaf /\ EnteredFirst /\ Serials /\ NoLostWakeup
      /\ NoOverrun
  BY DEF IInv
<1>1. at[t] = Leaf[t]
  BY <1>0 DEF OnPath
<1>2. TypeOK'
  BY <1>0 DEF TypeOK, Labels
<1>3. OnPath'
  BY <1>0, <1>1 DEF OnPath, TypeOK
<1>4. Counted' /\ HeldIsFull' /\ OneHolder' /\ ChildOfParent' /\ ParentFirst'
      /\ AncestorsFirst'
  BY <1>0, TreeUnmoved DEF TypeOK
<1>5. AtParent'
  BY <1>0, <1>1, LeafIs DEF AtParent, OnPath, TypeOK
<1>6. AtLeaf'
  BY <1>0, <1>1 DEF AtLeaf, TypeOK
<1>7. EnteredFirst'
  BY <1>0 DEF EnteredFirst
<1>8. Serials'
  BY <1>0, <1>1, LeafIs DEF Serials, Waking, TypeOK
<1>9. NoLostWakeup' /\ NoOverrun'
  BY <1>0 DEF NoLostWakeup, NoOverrun, TypeOK
<1> QED BY <1>2, <1>3, <1>4, <1>5, <1>6, <1>7, <1>8, <1>9 DEF IInv

-----------------------------------------------------------------------------
(* A spinning thread goes back to the frame below.                         *)

\* Every node below the one a thread runs in is held by it.
LEMMA BelowIsHeld ==
  ASSUME TypeOK, OnPath, NEW t \in Threads, at[t] # Leaf[t]
  PROVE  LET c == Down(at[t], t)
         IN /\ c \in Nodes /\ Parent[c] = at[t] /\ t \in Members[c]
            /\ \A d \in Nodes : Parent[d] = at[t] /\ t \in Members[d] => d = c
            /\ at[t] \in Nodes /\ t \in Members[at[t]]
            /\ Depth[c] = Depth[at[t]] + 1 /\ Depth[c] <= Depth[Leaf[t]]
            /\ Holds(t, c)
<1> DEFINE c == Down(at[t], t)
<1>1. at[t] \in Nodes /\ t \in Members[at[t]] /\ Depth[at[t]] <= Depth[Leaf[t]]
  BY DEF TypeOK, OnPath
<1>2. c \in Nodes /\ Parent[c] = at[t] /\ t \in Members[c]
      /\ \A d \in Nodes : Parent[d] = at[t] /\ t \in Members[d] => d = c
  BY <1>1, DownIs
<1>3. Depth[c] = Depth[at[t]] + 1
  BY <1>1, <1>2, ParentIs, TreeAssumption
<1>4. Depth[at[t]] # Depth[Leaf[t]]
  BY <1>1, SameDepth, LeafIs
<1>5. Depth[at[t]] \in Nat /\ Depth[c] \in Nat /\ Depth[Leaf[t]] \in Nat
  BY <1>1, <1>2, TreeAssumption
<1>6. Depth[c] <= Depth[Leaf[t]] /\ Depth[at[t]] < Depth[c]
  BY <1>1, <1>3, <1>4, <1>5
<1>7. Holds(t, c)
  BY <1>2, <1>6 DEF Holds
<1> QED BY <1>1, <1>2, <1>3, <1>6, <1>7

\* Going down to c from the parent of c, to reset it, changes nothing in what
\* a thread holds below the parent.
LEMMA DescendHolds ==
  ASSUME TypeOK, OnPath, NEW t \in Threads, at[t] # Leaf[t],
         at' = [at EXCEPT ![t] = Down(at[t], t)], pc' = [pc EXCEPT ![t] = "b_reset"]
  PROVE  \A u \in Threads, c \in Nodes :
           Holds(u, c)' <=> IF u = t THEN Depth[at[t]] < Depth[c] /\ Holds(t, c)
                            ELSE Holds(u, c)
<1> DEFINE d == Down(at[t], t)
<1>1. /\ d \in Nodes /\ t \in Members[d] /\ at[t] \in Nodes
      /\ Depth[d] = Depth[at[t]] + 1 /\ Depth[d] <= Depth[Leaf[t]]
  BY BelowIsHeld
<1>2. pc'[t] = "b_reset" /\ at'[t] = d
  BY DEF TypeOK
<1>3. \A u \in Threads \ {t} : pc'[u] = pc[u] /\ at'[u] = at[u]
  BY DEF TypeOK
<1>4. ASSUME NEW c \in Nodes
      PROVE  Holds(t, c)' <=> Depth[at[t]] < Depth[c] /\ Holds(t, c)
  <2>1. Depth[c] \in Nat /\ Depth[d] \in Nat /\ Depth[at[t]] \in Nat /\ Depth[Leaf[t]] \in Nat
    BY <1>1, TreeAssumption
  <2>2. Depth[c] = Depth[d] /\ t \in Members[c] => c = d
    BY <1>1, SameDepth
  <2>3. at[t] = c => ~(Depth[at[t]] < Depth[c])
    BY <2>1
  <2>4. Holds(t, c)' <=> t \in Members[c] /\ (d = c \/ (Depth[d] < Depth[c] /\ Depth[c] <= Depth[Leaf[t]]))
    BY <1>1, <1>2, <2>1 DEF Holds, TypeOK
  <2>5. Depth[at[t]] < Depth[c] => (Holds(t, c) <=> t \in Members[c] /\ Depth[c] <= Depth[Leaf[t]])
    BY <2>3 DEF Holds
  <2>6. Depth[at[t]] < Depth[c] <=> Depth[d] < Depth[c] \/ Depth[c] = Depth[d]
    BY <1>1, <2>1
  <2> QED BY <1>1, <2>1, <2>2, <2>4, <2>5, <2>6
<1>5. ASSUME NEW u \in Threads, u # t, NEW c \in Nodes PROVE Holds(u, c)' <=> Holds(u, c)
  BY <1>3, <1>5 DEF Holds
<1> QED BY <1>4, <1>5

\* A spinning thread sees the new seq and goes back to the frame below.
LEMMA StepSpin ==
  ASSUME IInv, NEW t \in Threads, Spin(t)
  PROVE  IInv'
<1> DEFINE p == at[t]
           c == Down(p, t)
<1>0. TypeOK /\ OnPath /\ Counted /\ HeldIsFull /\ OneHolder /\ ChildOfParent /\ AtParent
      /\ ParentFirst /\ AtLeaf /\ AncestorsFirst /\ EnteredFirst /\ Serials
      /\ NoLostWakeup /\ NoOverrun
  BY DEF IInv
<1>1. /\ c \in Nodes /\ Parent[c] = p /\ t \in Members[c]
      /\ p \in Nodes /\ Depth[c] <= Depth[Leaf[t]]
      /\ Depth[c] = Depth[p] + 1 /\ Holds(t, c)
  BY <1>0, BelowIsHeld DEF Spin
<1>2. /\ pc[t] = "b_check" /\ p # Leaf[t] /\ cur[t] # seq[p]
      /\ at' = [at EXCEPT ![t] = c] /\ pc' = [pc EXCEPT ![t] = "b_reset"]
      /\ UNCHANGED <<seq, waiting, cur, entered, left, resets, arrived, serials>>
  BY DEF Spin, Goto, history
<1>3. \A u \in Threads, d \in Nodes : Holds(u, d)' => Holds(u, d)
  BY <1>0, <1>2, DescendHolds
<1>4. resets[p] = resets[c] + 1
  BY <1>0, <1>1, <1>2 DEF AtParent
<1>5. TypeOK'
  BY <1>0, <1>1, <1>2 DEF TypeOK, Labels
<1>6. OnPath'
  BY <1>0, <1>1, <1>2 DEF OnPath, TypeOK
<1>7. Counted' /\ ChildOfParent' /\ AncestorsFirst' /\ EnteredFirst'
  BY <1>0, <1>2 DEF Counted, ChildOfParent, AncestorsFirst, EnteredFirst
<1>8. HeldIsFull' /\ OneHolder'
  BY <1>0, <1>2, <1>3 DEF HeldIsFull, OneHolder
<1>9. AtParent'
  BY <1>0, <1>2 DEF AtParent, TypeOK
<1>10. ParentFirst'
  BY <1>0, <1>1, <1>2, <1>4 DEF ParentFirst, TypeOK
<1>11. AtLeaf'
  BY <1>0, <1>1, <1>2 DEF AtLeaf, TypeOK
<1>12. Serials'
  BY <1>0, <1>2 DEF Serials, Waking, TypeOK
<1>13. NoLostWakeup' /\ NoOverrun'
  BY <1>0, <1>2 DEF NoLostWakeup, NoOverrun, TypeOK
<1> QED BY <1>5, <1>6, <1>7, <1>8, <1>9, <1>10, <1>11, <1>12, <1>13 DEF IInv

-----------------------------------------------------------------------------
(* An arrival.                                                             *)

\* The threads that t stands for have not arrived at the node before, so the
\* count stays within total_count.
LEMMA CarriedIsNew ==
  ASSUME IInv, NEW t \in Threads, pc[t] = "b_add"
  PROVE  LET n == at[t]
             A == Carried(n, t)
         IN /\ n \in Nodes /\ t \in Members[n] /\ t \notin arrived[n]
            /\ t \in A /\ A \subseteq Members[n] /\ A \cap arrived[n] = {}
            /\ n = Leaf[t] => A = {t}
            /\ n # Leaf[t] => A = Members[Down(n, t)]
            /\ waiting[n] + Cardinality(A) = Cardinality(arrived[n] \cup A)
            /\ Cardinality(arrived[n] \cup A) \in Nat
            /\ Cardinality(arrived[n] \cup A) <= Total(n)
            /\ Cardinality(arrived[n] \cup A) = Total(n) <=> arrived[n] \cup A = Members[n]
<1> DEFINE n == at[t]
           A == Carried(n, t)
<1>0. TypeOK /\ OnPath /\ Counted /\ AtParent /\ AtLeaf
  BY DEF IInv
<1>1. n \in Nodes /\ t \in Members[n] /\ arrived[n] \subseteq Members[n]
      /\ waiting[n] = Cardinality(arrived[n])
  BY <1>0 DEF TypeOK, OnPath, Counted
<1>2. t \in A /\ A \subseteq Members[n] /\ A \cap arrived[n] = {}
  <2>1. CASE n = Leaf[t]
    BY <1>0, <1>1, <2>1 DEF AtLeaf, Carried
  <2>2. CASE n # Leaf[t]
    <3>1. /\ Down(n, t) \in Nodes /\ Parent[Down(n, t)] = n /\ t \in Members[Down(n, t)]
          /\ Members[Down(n, t)] \subseteq Members[n]
      BY <1>0, <1>1, <2>2, BelowIsHeld, ParentIs, TreeAssumption
    <3> QED BY <1>0, <2>2, <3>1 DEF AtParent, Carried
  <2> QED BY <2>1, <2>2
<1>3. Members[n] \subseteq Threads
  BY <1>1, TreeAssumption
<1>4. /\ IsFiniteSet(A) /\ IsFiniteSet(arrived[n]) /\ IsFiniteSet(Members[n])
      /\ IsFiniteSet(arrived[n] \cup A) /\ Cardinality(arrived[n] \cup A) \in Nat
      /\ Cardinality(A) \in Nat /\ Cardinality(arrived[n]) \in Nat
  <2>1. /\ A \in SUBSET Threads /\ arrived[n] \in SUBSET Threads
        /\ Members[n] \in SUBSET Threads /\ arrived[n] \cup A \in SUBSET Threads
    BY <1>1, <1>2, <1>3
  <2> QED BY <2>1, FiniteThreads
<1>5. Cardinality(arrived[n] \cup A) = Cardinality(arrived[n]) + Cardinality(A)
  <2>1. Cardinality(arrived[n] \cap A) = 0
    BY <1>2, FS_EmptySet
  <2>2. Cardinality(arrived[n] \cup A)
          = Cardinality(arrived[n]) + Cardinality(A) - Cardinality(arrived[n] \cap A)
    BY <1>4, FS_Union
  <2> QED BY <1>4, <2>1, <2>2
<1>6. arrived[n] \cup A \subseteq Members[n]
  BY <1>1, <1>2
<1>7. /\ Cardinality(arrived[n] \cup A) <= Total(n)
      /\ Cardinality(arrived[n] \cup A) = Total(n) => arrived[n] \cup A = Members[n]
  BY <1>4, <1>6, FS_Subset DEF Total
<1>8. arrived[n] \cup A = Members[n] => Cardinality(arrived[n] \cup A) = Total(n)
  BY DEF Total
<1>9. (n = Leaf[t] => A = {t}) /\ (n # Leaf[t] => A = Members[Down(n, t)])
  BY DEF Carried
<1> HIDE DEF n, A
<1> QED BY <1>1, <1>2, <1>4, <1>5, <1>7, <1>8, <1>9 DEF n, A

\* What an arrival does, by whether it fills the node.
LEMMA AddIs ==
  ASSUME IInv, NEW t \in Threads, Add(t)
  PROVE  LET n    == at[t]
             A    == Carried(n, t)
             full == arrived[n] \cup A = Members[n]
         IN /\ pc[t] = "b_add"
            /\ waiting' = [waiting EXCEPT ![n] = Cardinality(arrived[n] \cup A)]
            /\ arrived' = [arrived EXCEPT ![n] = arrived[n] \cup A]
            /\ \/ /\ full /\ Parent[n] # NoNode
                  /\ at' = [at EXCEPT ![t] = Parent[n]]
                  /\ pc' = [pc EXCEPT ![t] = "b_read"]
               \/ /\ full /\ Parent[n] = NoNode
                  /\ at' = at
                  /\ pc' = [pc EXCEPT ![t] = "b_reset"]
               \/ /\ ~full
                  /\ at' = at
                  /\ pc' = [pc EXCEPT ![t] = "b_check"]
            /\ UNCHANGED <<seq, cur, entered, left, resets, serials>>
<1> DEFINE n     == at[t]
           A     == Carried(n, t)
           full  == arrived[n] \cup A = Members[n]
           count == Cardinality(arrived[n] \cup A)
           climb == count = Total(n) /\ Parent[n] # NoNode
           label == CASE climb                      -> "b_read"
                      [] count = Total(n) /\ ~climb -> "b_reset"
                      [] count < Total(n)           -> "b_check"
                      [] count > Total(n)           -> "unreachable"
<1>1. pc[t] = "b_add"
  BY DEF Add, Arrive
<1>2. /\ n \in Nodes
      /\ waiting[n] + Cardinality(A) = count
      /\ count \in Nat /\ count <= Total(n) /\ (count = Total(n) <=> full)
  BY <1>1, CarriedIsNew
<1>3. /\ waiting' = [waiting EXCEPT ![n] = count]
      /\ arrived' = [arrived EXCEPT ![n] = arrived[n] \cup A]
      /\ at' = [at EXCEPT ![t] = IF climb THEN Parent[n] ELSE n]
      /\ pc' = [pc EXCEPT ![t] = label]
      /\ UNCHANGED <<seq, cur, entered, left, resets, serials>>
  BY <1>2 DEF Add, Arrive, Goto
<1>4. at \in [Threads -> Nodes] /\ Total(n) \in Nat
  BY <1>2, TreeAssumption, FiniteThreads DEF IInv, TypeOK, Total
<1>5. ~climb => at' = at
  BY <1>3, <1>4
<1>6. \/ climb /\ label = "b_read" /\ full
      \/ count = Total(n) /\ ~climb /\ label = "b_reset" /\ full
      \/ ~climb /\ label = "b_check" /\ ~full
  <2>1. ~(count > Total(n)) /\ (count < Total(n) <=> count # Total(n))
    BY <1>2, <1>4
  <2>2. CASE climb
    <3>1. label = "b_read"
      BY <1>2, <1>4, <2>2
    <3> QED BY <1>2, <2>2, <3>1
  <2>3. CASE count = Total(n) /\ ~climb
    <3>1. label = "b_reset"
      BY <1>2, <1>4, <2>3
    <3> QED BY <1>2, <2>3, <3>1
  <2>4. CASE count # Total(n)
    <3>1. label = "b_check"
      BY <2>1, <2>4
    <3> QED BY <1>2, <2>4, <3>1
  <2> QED BY <2>2, <2>3, <2>4
<1> QED BY <1>1, <1>3, <1>5, <1>6

\* The thread that fills a node comes to hold it, and nothing else changes
\* hands.
LEMMA AddHolds ==
  ASSUME IInv, NEW t \in Threads, Add(t)
  PROVE  \A u \in Threads, c \in Nodes :
           Holds(u, c)' <=> \/ Holds(u, c)
                            \/ /\ u = t /\ c = at[t]
                               /\ arrived[at[t]] \cup Carried(at[t], t) = Members[at[t]]
<1> DEFINE n    == at[t]
           full == arrived[n] \cup Carried(n, t) = Members[n]
<1>1. /\ n \in Nodes /\ t \in Members[n] /\ pc[t] = "b_add"
      /\ Depth[n] <= Depth[Leaf[t]]
      /\ at \in [Threads -> Nodes] /\ pc \in [Threads -> Labels]
  BY CarriedIsNew, AddIs DEF IInv, OnPath, TypeOK
<1>2. ASSUME NEW u \in Threads, u # t, NEW c \in Nodes PROVE Holds(u, c)' <=> Holds(u, c)
  <2>1. at'[u] = at[u] /\ pc'[u] = pc[u]
    BY <1>1, <1>2, AddIs
  <2> QED BY <2>1 DEF Holds
<1>3. ASSUME NEW c \in Nodes PROVE Holds(t, c)' <=> Holds(t, c) \/ (c = n /\ full)
  <2>1. /\ Depth[c] \in Nat /\ Depth[n] \in Nat
        /\ Depth[Leaf[t]] \in Nat
    BY <1>1, TreeAssumption
  <2>2. t \in Members[c] /\ Depth[c] = Depth[n] => c = n
    BY <1>1, SameDepth
  <2>3. Holds(t, c) <=> t \in Members[c] /\ Depth[n] < Depth[c] /\ Depth[c] <= Depth[Leaf[t]]
    BY <1>1 DEF Holds
  <2>4. CASE full /\ Parent[n] # NoNode
    <3>1. at'[t] = Parent[n] /\ pc'[t] = "b_read"
      BY <1>1, <2>4, AddIs
    <3>2. Depth[Parent[n]] \in Nat /\ Depth[n] = Depth[Parent[n]] + 1
      BY <1>1, <2>4, ParentIs, TreeAssumption
    <3>3. Holds(t, c)' <=> t \in Members[c] /\ Depth[Parent[n]] < Depth[c]
                                            /\ Depth[c] <= Depth[Leaf[t]]
      BY <3>1 DEF Holds
    <3> QED BY <1>1, <2>1, <2>2, <2>3, <2>4, <3>2, <3>3
  <2>5. CASE full /\ Parent[n] = NoNode
    <3>1. at'[t] = n /\ pc'[t] = "b_reset"
      BY <1>1, <2>5, AddIs
    <3> QED BY <1>1, <2>3, <2>5, <3>1 DEF Holds
  <2>6. CASE ~full
    <3>1. at'[t] = n /\ pc'[t] = "b_check"
      BY <1>1, <2>6, AddIs
    <3> QED BY <1>1, <2>3, <2>6, <3>1 DEF Holds
  <2> QED BY <2>4, <2>5, <2>6
<1> QED BY <1>2, <1>3

\* The thread, with those it stands for, is added to waiting.
LEMMA StepAdd ==
  ASSUME IInv, NEW t \in Threads, Add(t)
  PROVE  IInv'
<1> DEFINE n    == at[t]
           A    == Carried(n, t)
           full == arrived[n] \cup A = Members[n]
           q    == Parent[n]
           c    == Down(n, t)
<1>0. TypeOK /\ OnPath /\ Counted /\ HeldIsFull /\ OneHolder /\ ChildOfParent /\ AtParent
      /\ ParentFirst /\ AtLeaf /\ AncestorsFirst /\ EnteredFirst /\ Serials
      /\ NoLostWakeup /\ NoOverrun
  BY DEF IInv
<1>1. /\ pc[t] = "b_add"
      /\ waiting' = [waiting EXCEPT ![n] = Cardinality(arrived[n] \cup A)]
      /\ arrived' = [arrived EXCEPT ![n] = arrived[n] \cup A]
      /\ \/ /\ full /\ q # NoNode
            /\ at' = [at EXCEPT ![t] = q] /\ pc' = [pc EXCEPT ![t] = "b_read"]
         \/ /\ full /\ q = NoNode
            /\ at' = at /\ pc' = [pc EXCEPT ![t] = "b_reset"]
         \/ /\ ~full
            /\ at' = at /\ pc' = [pc EXCEPT ![t] = "b_check"]
      /\ UNCHANGED <<seq, cur, entered, left, resets, serials>>
  BY AddIs
<1>2. /\ n \in Nodes /\ t \in Members[n] /\ t \notin arrived[n]
      /\ t \in A /\ A \subseteq Members[n] /\ A \cap arrived[n] = {}
      /\ n = Leaf[t] => A = {t}
      /\ n # Leaf[t] => A = Members[c]
      /\ Cardinality(arrived[n] \cup A) \in Nat
  BY <1>1, CarriedIsNew
<1>3. n # Leaf[t] =>
        /\ c \in Nodes /\ Parent[c] = n /\ t \in Members[c]
        /\ \A d \in Nodes : Parent[d] = n /\ t \in Members[d] => d = c
        /\ Holds(t, c) /\ arrived[c] = Members[c]
        /\ Members[c] \cap arrived[n] = {} /\ resets[c] = resets[n] /\ cur[t] = seq[n]
  <2> SUFFICES ASSUME n # Leaf[t]
               PROVE  /\ c \in Nodes /\ Parent[c] = n /\ t \in Members[c]
                      /\ \A d \in Nodes : Parent[d] = n /\ t \in Members[d] => d = c
                      /\ Holds(t, c) /\ arrived[c] = Members[c]
                      /\ Members[c] \cap arrived[n] = {} /\ resets[c] = resets[n]
                      /\ cur[t] = seq[n]
    OBVIOUS
  <2>1. /\ c \in Nodes /\ Parent[c] = n /\ t \in Members[c] /\ Holds(t, c)
        /\ \A d \in Nodes : Parent[d] = n /\ t \in Members[d] => d = c
    BY <1>0, BelowIsHeld
  <2> QED BY <1>0, <1>1, <2>1 DEF HeldIsFull, AtParent
<1>4. q # NoNode => /\ q \in Nodes /\ t \in Members[q] /\ q # n /\ q # Leaf[t]
                    /\ Depth[q] \in Nat /\ Depth[n] = Depth[q] + 1
                    /\ Members[n] \cap arrived[q] = {} /\ resets[n] = resets[q]
  <2>1. q # NoNode => /\ q \in Nodes /\ t \in Members[q] /\ q # n /\ q # Leaf[t]
                      /\ Depth[q] \in Nat /\ Depth[n] = Depth[q] + 1
    BY <1>2, ParentIs, TreeAssumption
  <2> QED BY <1>0, <1>2, <2>1 DEF ChildOfParent
<1>5. \A u \in Threads, d \in Nodes : Holds(u, d)' <=> Holds(u, d) \/ (u = t /\ d = n /\ full)
  BY AddHolds
<1>6. arrived \in [Nodes -> SUBSET Threads] /\ Members \in [Nodes -> SUBSET Threads]
  BY <1>0, TreeAssumption DEF TypeOK
<1>7. \A d \in Nodes : arrived'[d] = IF d = n THEN arrived[n] \cup A ELSE arrived[d]
  BY <1>1, <1>6
<1>8. /\ at'[t] = IF full /\ q # NoNode THEN q ELSE n
      /\ pc'[t] \in {"b_read", "b_reset", "b_check"}
      /\ pc'[t] = "b_read" <=> full /\ q # NoNode
      /\ pc'[t] = "b_reset" <=> full /\ q = NoNode
      /\ pc'[t] = "b_check" <=> ~full
      /\ \A u \in Threads \ {t} : at'[u] = at[u] /\ pc'[u] = pc[u]
      /\ at \in [Threads -> Nodes] /\ pc \in [Threads -> Labels]
  BY <1>0, <1>1 DEF TypeOK
<1> HIDE DEF n, A, full, q, c
<1>9. TypeOK'
  <2>1. waiting' \in [Nodes -> Nat] /\ arrived' \in [Nodes -> SUBSET Threads]
    BY <1>0, <1>1, <1>2, <1>6 DEF TypeOK
  <2>2. at' \in [Threads -> Nodes] /\ pc' \in [Threads -> Labels]
    BY <1>1, <1>4, <1>8 DEF Labels
  <2> QED BY <1>0, <1>1, <2>1, <2>2 DEF TypeOK
<1>10. OnPath'
  <2>1. Depth[n] <= Depth[Leaf[t]] /\ Depth[n] \in Nat /\ Depth[Leaf[t]] \in Nat
    BY <1>0, <1>2, TreeAssumption DEF OnPath, n
  <2>2. /\ t \in Members[at'[t]] /\ Depth[at'[t]] <= Depth[Leaf[t]]
        /\ pc'[t] = "b_read" => at'[t] # Leaf[t]
    BY <1>2, <1>4, <1>8, <2>1
  <2> QED BY <1>0, <1>8, <2>2 DEF OnPath
<1>11. Counted'
  BY <1>0, <1>1, <1>2, <1>7 DEF Counted, TypeOK
<1>12. HeldIsFull' /\ OneHolder'
  <2>1. \A u \in Threads : ~Holds(u, n)
    BY <1>0, <1>2 DEF HeldIsFull
  <2>2. HeldIsFull'
    BY <1>0, <1>5, <1>7, <2>1 DEF HeldIsFull, full
  <2> QED BY <1>0, <1>5, <2>1, <2>2 DEF OneHolder
<1>13. ChildOfParent'
  <2> SUFFICES ASSUME NEW d \in Nodes, Parent[d] # NoNode, Members[d] # {}
               PROVE  LET p == Parent[d]
                      IN \/ Members[d] \cap arrived'[p] = {} /\ resets[d] = resets[p]
                         \/ Members[d] \subseteq arrived'[p] /\ resets[d] = resets[p]
                                                             /\ arrived'[d] = Members[d]
                         \/ Members[d] \cap arrived'[p] = {} /\ resets[p] = resets[d] + 1
                                                             /\ arrived'[d] = Members[d]
    BY <1>1 DEF ChildOfParent
  <2>1. Parent[d] \in Nodes /\ Parent[d] # d
    BY ParentIs
  <2>2. CASE d = n
    BY <1>4, <1>7, <2>1, <2>2 DEF q
  <2>3. CASE d # n /\ Parent[d] = n
    <3>1. n # Leaf[t]
      BY <2>3, LeafIs
    <3>2. CASE d = c
      BY <1>2, <1>3, <1>7, <2>3, <3>1, <3>2
    <3>3. CASE d # c
      <4>1. Depth[d] = Depth[c]
        BY <1>3, <2>1, <2>3, <3>1, TreeAssumption
      <4>2. Members[d] \cap A = {}
        BY <1>2, <1>3, <3>1, <3>3, <4>1, TreeAssumption
      <4> QED BY <1>0, <1>2, <1>3, <1>7, <2>1, <2>3, <3>1, <4>2 DEF ChildOfParent
    <3> QED BY <3>2, <3>3
  <2>4. CASE d # n /\ Parent[d] # n
    BY <1>0, <1>7, <2>1, <2>4 DEF ChildOfParent
  <2> QED BY <2>2, <2>3, <2>4
<1>14. AtParent'
  <2> SUFFICES ASSUME NEW u \in Threads, NEW d \in Nodes, Parent[d] = at'[u], u \in Members[d]
               PROVE  LET p == at'[u]
                      IN /\ pc'[u] \in {"b_read", "b_add"} => Members[d] \cap arrived'[p] = {}
                                                              /\ resets[d] = resets[p]
                         /\ pc'[u] = "b_add" => cur[u] = seq[p]
                         /\ pc'[u] = "b_check" =>
                              \/ Members[d] \subseteq arrived'[p] /\ cur[u] = seq[p]
                              \/ resets[p] = resets[d] + 1 /\ seq[p] = (cur[u] + 1) % SeqMod
    BY <1>1 DEF AtParent
  <2>1. CASE u = t /\ full /\ q # NoNode
    <3>1. d = n
      <4>1. Depth[d] = Depth[n]
        BY <1>4, <1>8, <2>1, TreeAssumption
      <4> QED BY <1>2, <2>1, <4>1, SameDepth
    <3> QED BY <1>4, <1>7, <1>8, <2>1, <3>1
  <2>2. CASE u = t /\ ~(full /\ q # NoNode)
    <3>1. n # Leaf[t] /\ d = c /\ at'[u] = n
      BY <1>3, <1>8, <2>2, LeafIs
    <3> QED BY <1>2, <1>3, <1>7, <1>8, <2>2, <3>1
  <2>3. CASE u # t /\ at[u] = n
    <3>1. n # Leaf[t] /\ at[u] # Leaf[u] /\ Parent[d] = n
      BY <1>8, <2>3, LeafIs
    <3>2. d # c
      <4>1. Holds(u, d)
        BY <1>0, <1>8, <2>3, <3>1, BelowIsHeld
      <4> QED BY <1>0, <1>3, <2>3, <3>1, <4>1 DEF OneHolder
    <3>3. Depth[d] = Depth[c]
      BY <1>2, <1>3, <3>1, TreeAssumption
    <3>4. Members[d] \cap A = {}
      BY <1>2, <1>3, <3>1, <3>2, <3>3, TreeAssumption
    <3> QED BY <1>0, <1>2, <1>7, <1>8, <2>3, <3>1, <3>4 DEF AtParent
  <2>4. CASE u # t /\ at[u] # n
    <3>1. at[u] \in Nodes /\ at'[u] = at[u] /\ pc'[u] = pc[u]
      BY <1>8, <2>4
    <3> QED BY <1>0, <1>7, <2>4, <3>1 DEF AtParent
  <2> QED BY <2>1, <2>2, <2>3, <2>4
<1>15. ParentFirst'
  BY <1>0, <1>1, <1>8 DEF ParentFirst, q
<1>16. AtLeaf'
  <2> DEFINE P(u) == LET l      == Leaf[u]
                         adding == at[u] = l /\ pc[u] = "b_add"
                         loop   == at[u] = l /\ pc[u] \in {"b_check", "b_futex", "b_sleep"}
                     IN /\ entered[u] = IF pc[u] = "out" THEN left[u] ELSE left[u] + 1
                        /\ adding => u \notin arrived[l] /\ entered[u] = resets[l] + 1
                                                         /\ cur[u] = seq[l]
                        /\ u \in arrived[l] => /\ pc[u] \notin {"out", "b_wake"}
                                               /\ entered[u] = resets[l] + 1
                                               /\ loop => cur[u] = seq[l]
                        /\ u \notin arrived[l] /\ ~adding =>
                             /\ entered[u] = resets[l]
                             /\ loop => seq[l] = (cur[u] + 1) % SeqMod
  <2>1. \A u \in Threads : P(u)
    BY <1>0 DEF AtLeaf
  <2>2. n = Leaf[t] => P(t)'
    BY <1>1, <1>2, <1>4, <1>7, <1>8, <2>1 DEF n
  <2>3. n # Leaf[t] => P(t)'
    BY <1>1, <1>2, <1>4, <1>7, <1>8, <2>1, LeafIs DEF n
  <2>4. ASSUME NEW u \in Threads, u # t PROVE P(u)'
    <3>1. Leaf[u] = n => n = Leaf[t]
      BY <1>2, LeafIs
    <3>2. u \in arrived'[Leaf[u]] <=> u \in arrived[Leaf[u]]
      BY <1>2, <1>7, <2>4, <3>1, LeafIs
    <3> QED BY <1>1, <1>8, <2>1, <2>4, <3>2
  <2>5. \A u \in Threads : P(u)'
    BY <2>2, <2>3, <2>4
  <2> QED BY <2>5 DEF AtLeaf
<1>17. AncestorsFirst'
  BY <1>0, <1>1 DEF AncestorsFirst
<1>18. EnteredFirst'
  <2>1. \A u \in A : resets[n] < entered[u]
    <3>1. CASE n = Leaf[t]
      BY <1>0, <1>1, <1>2, <3>1 DEF AtLeaf, TypeOK, n
    <3>2. CASE n # Leaf[t]
      BY <1>0, <1>2, <1>3, <3>2 DEF EnteredFirst
    <3> QED BY <3>1, <3>2
  <2> QED BY <1>0, <1>1, <1>7, <2>1 DEF EnteredFirst
<1>19. Serials'
  <2>1. \A u \in Threads, l \in Nodes : Waking(u, l)' <=> Waking(u, l)
    BY <1>1, <1>8 DEF Waking
  <2> QED BY <1>0, <1>1, <2>1, LeafIs DEF Serials
<1>20. NoLostWakeup' /\ NoOverrun'
  BY <1>0, <1>1, <1>8 DEF NoLostWakeup, NoOverrun
<1> QED BY <1>9, <1>10, <1>11, <1>12, <1>13, <1>14, <1>15, <1>16, <1>17, <1>18, <1>19,
           <1>20 DEF IInv

-----------------------------------------------------------------------------
(* A reset.                                                                *)

\* The thread that resets a node gives it up, and takes no other.
LEMMA ResetHolds ==
  ASSUME TypeOK, OnPath, NEW t \in Threads, Reset(t)
  PROVE  \A u \in Threads, c \in Nodes :
           Holds(u, c)' => Holds(u, c) /\ ~(u = t /\ c = at[t])
<1> DEFINE n == at[t]
<1>1. /\ n \in Nodes /\ t \in Members[n] /\ pc[t] = "b_reset"
      /\ at \in [Threads -> Nodes] /\ pc \in [Threads -> Labels]
      /\ Depth \in [Nodes -> Nat] /\ Leaf[t] \in Nodes
  BY TreeAssumption DEF OnPath, TypeOK, Reset, Store
<1>2. CASE n # Leaf[t]
  <2>1. at' = [at EXCEPT ![t] = Down(n, t)] /\ pc' = pc
    BY <1>2 DEF Reset, Store
  <2>2. pc' = [pc EXCEPT ![t] = "b_reset"]
    BY <1>1, <2>1
  <2>3. \A u \in Threads, c \in Nodes :
          Holds(u, c)' <=> IF u = t THEN Depth[n] < Depth[c] /\ Holds(t, c) ELSE Holds(u, c)
    BY <1>2, <2>1, <2>2, DescendHolds
  <2> QED BY <1>1, <2>3
<1>3. CASE n = Leaf[t]
  <2>1. /\ at' = at /\ pc'[t] # "b_reset"
        /\ \A u \in Threads \ {t} : pc'[u] = pc[u]
    BY <1>1, <1>3 DEF Reset, Store, Goto
  <2>2. \A c \in Nodes : ~Holds(t, c)'
    BY <1>1, <1>3, <2>1 DEF Holds
  <2>3. \A u \in Threads \ {t}, c \in Nodes : Holds(u, c)' => Holds(u, c)
    BY <2>1 DEF Holds
  <2> QED BY <2>2, <2>3
<1> QED BY <1>2, <1>3

\* The thread that filled a node resets it.
LEMMA StepReset ==
  ASSUME IInv, NEW t \in Threads, Reset(t)
  PROVE  IInv'
<1> DEFINE n == at[t]
           q == Parent[n]
           c == Down(n, t)
<1>0. TypeOK /\ OnPath /\ Counted /\ HeldIsFull /\ OneHolder /\ ChildOfParent /\ AtParent
      /\ ParentFirst /\ AtLeaf /\ AncestorsFirst /\ EnteredFirst /\ Serials
      /\ NoLostWakeup /\ NoOverrun
  BY DEF IInv
<1>1. /\ pc[t] = "b_reset"
      /\ seq' = [seq EXCEPT ![n] = (seq[n] + 1) % SeqMod]
      /\ waiting' = [waiting EXCEPT ![n] = 0]
      /\ resets' = [resets EXCEPT ![n] = resets[n] + 1]
      /\ arrived' = [arrived EXCEPT ![n] = {}]
      /\ UNCHANGED <<cur, entered>>
      /\ \/ /\ n # Leaf[t]
            /\ at' = [at EXCEPT ![t] = c] /\ UNCHANGED <<pc, left, serials>>
         \/ /\ n = Leaf[t] /\ Total(n) > 1
            /\ pc' = [pc EXCEPT ![t] = "b_wake"] /\ UNCHANGED <<at, left, serials>>
         \/ /\ n = Leaf[t] /\ Total(n) <= 1
            /\ pc' = [pc EXCEPT ![t] = "out"]
            /\ left' = [left EXCEPT ![t] = left[t] + 1]
            /\ serials' = [serials EXCEPT ![n] = serials[n] + 1]
            /\ UNCHANGED at
  BY DEF Reset, Store, Goto
<1>2. /\ n \in Nodes /\ t \in Members[n] /\ Members[n] \subseteq Threads
      /\ Holds(t, n) /\ arrived[n] = Members[n]
      /\ q # NoNode => /\ q \in Nodes /\ q # n /\ Members[n] \subseteq Members[q]
                       /\ resets[q] = resets[n] + 1
      /\ \A u \in Threads : Holds(u, n) => u = t
  <2>1. n \in Nodes /\ t \in Members[n] /\ Members[n] \subseteq Threads
    BY <1>0, TreeAssumption DEF TypeOK, OnPath
  <2>2. Holds(t, n)
    BY <1>1, <2>1 DEF Holds
  <2> QED BY <1>0, <1>1, <2>1, <2>2, ParentIs DEF HeldIsFull, OneHolder, ParentFirst
<1>3. n # Leaf[t] => /\ c \in Nodes /\ Parent[c] = n /\ t \in Members[c]
                     /\ Depth[c] <= Depth[Leaf[t]]
  BY <1>0, BelowIsHeld
<1>4. \A u \in Threads, d \in Nodes : Holds(u, d)' => Holds(u, d) /\ ~(u = t /\ d = n)
  BY <1>0, ResetHolds
<1>5. /\ \A d \in Nodes : /\ arrived'[d] = IF d = n THEN {} ELSE arrived[d]
                          /\ resets'[d] = IF d = n THEN resets[n] + 1 ELSE resets[d]
                          /\ seq'[d] = IF d = n THEN (seq[n] + 1) % SeqMod ELSE seq[d]
                          /\ waiting'[d] = IF d = n THEN 0 ELSE waiting[d]
                          /\ resets[d] \in Nat
      /\ \A u \in Threads \ {t} : at'[u] = at[u] /\ pc'[u] = pc[u] /\ left'[u] = left[u]
      /\ at'[t] = IF n = Leaf[t] THEN n ELSE c
      /\ seq[n] \in 0 .. SeqMod - 1
  BY <1>0, <1>1, <1>2 DEF TypeOK
<1>6. \/ n # Leaf[t] /\ pc'[t] = "b_reset"
      \/ n = Leaf[t] /\ Total(n) > 1 /\ pc'[t] = "b_wake"
      \/ n = Leaf[t] /\ Total(n) <= 1 /\ pc'[t] = "out"
  <2>1. pc \in [Threads -> Labels]
    BY <1>0 DEF TypeOK
  <2>2. CASE n # Leaf[t]
    BY <1>1, <2>2
  <2>3. CASE n = Leaf[t]
    BY <1>1, <2>1, <2>3
  <2> QED BY <2>2, <2>3
<1> HIDE DEF n, q, c
<1>9. TypeOK'
  <2>1. at' \in [Threads -> Nodes] /\ pc' \in [Threads -> Labels]
    BY <1>0, <1>1, <1>3 DEF TypeOK, Labels
  <2>2. seq' \in [Nodes -> 0 .. SeqMod - 1]
    BY <1>0, <1>1, <1>2, <1>5, NextSeq DEF TypeOK
  <2>3. left' \in [Threads -> Nat] /\ serials' \in [Nodes -> Nat]
    BY <1>0, <1>1, <1>2 DEF TypeOK
  <2>4. waiting' \in [Nodes -> Nat] /\ resets' \in [Nodes -> Nat]
    BY <1>0, <1>1, <1>2 DEF TypeOK
  <2>5. arrived' \in [Nodes -> SUBSET Threads]
    BY <1>0, <1>1 DEF TypeOK
  <2> QED BY <1>0, <1>1, <2>1, <2>2, <2>3, <2>4, <2>5 DEF TypeOK
<1>10. OnPath'
  <2>1. /\ t \in Members[at'[t]] /\ Depth[at'[t]] <= Depth[Leaf[t]]
        /\ pc'[t] \in {"out", "b_futex", "b_sleep", "b_wake"} => at'[t] = Leaf[t]
        /\ pc'[t] # "b_read"
    BY <1>0, <1>2, <1>3, <1>5, <1>6 DEF OnPath, n
  <2> QED BY <1>0, <1>5, <2>1 DEF OnPath
<1>11. Counted'
  BY <1>0, <1>5, FS_EmptySet DEF Counted
<1>12. HeldIsFull' /\ OneHolder'
  BY <1>0, <1>2, <1>4, <1>5 DEF HeldIsFull, OneHolder
<1>13. ChildOfParent'
  <2> SUFFICES ASSUME NEW d \in Nodes, Parent[d] # NoNode, Members[d] # {}
               PROVE  LET p == Parent[d]
                      IN \/ Members[d] \cap arrived'[p] = {} /\ resets'[d] = resets'[p]
                         \/ Members[d] \subseteq arrived'[p] /\ resets'[d] = resets'[p]
                                                             /\ arrived'[d] = Members[d]
                         \/ Members[d] \cap arrived'[p] = {} /\ resets'[p] = resets'[d] + 1
                                                             /\ arrived'[d] = Members[d]
    BY DEF ChildOfParent
  <2>1. Parent[d] \in Nodes /\ Parent[d] # d /\ Members[d] \subseteq Members[Parent[d]]
    BY ParentIs
  <2>2. CASE d = n
    <3>1. Members[d] \cap arrived[Parent[d]] = {}
      BY <1>0, <1>2, <1>5, <2>1, <2>2 DEF ChildOfParent, q
    <3> QED BY <1>2, <1>5, <2>1, <2>2, <3>1 DEF q
  <2>3. CASE d # n /\ Parent[d] = n
    BY <1>0, <1>2, <1>5, <2>1, <2>3 DEF ChildOfParent
  <2>4. CASE d # n /\ Parent[d] # n
    BY <1>0, <1>5, <2>1, <2>4 DEF ChildOfParent
  <2> QED BY <2>2, <2>3, <2>4
<1>14. AtParent'
  <2> SUFFICES ASSUME NEW u \in Threads, NEW d \in Nodes, Parent[d] = at'[u], u \in Members[d]
               PROVE  LET p == at'[u]
                      IN /\ pc'[u] \in {"b_read", "b_add"} => Members[d] \cap arrived'[p] = {}
                                                              /\ resets'[d] = resets'[p]
                         /\ pc'[u] = "b_add" => cur[u] = seq'[p]
                         /\ pc'[u] = "b_check" =>
                              \/ Members[d] \subseteq arrived'[p] /\ cur[u] = seq'[p]
                              \/ resets'[p] = resets'[d] + 1 /\ seq'[p] = (cur[u] + 1) % SeqMod
    BY <1>1 DEF AtParent
  <2>1. CASE u = t
    BY <1>6, <2>1
  <2>2. CASE u # t
    <3>1. at'[u] = at[u] /\ pc'[u] = pc[u] /\ at[u] \in Nodes /\ at[u] # NoNode
      BY <1>0, <1>5, <2>2, TreeAssumption DEF TypeOK
    <3>2. d # n
      <4>1. Holds(u, d)
        BY <1>0, <3>1, BelowIsHeld, LeafIs
      <4> QED BY <1>2, <2>2, <4>1
    <3>3. CASE at[u] # n
      BY <1>0, <1>5, <3>1, <3>2, <3>3 DEF AtParent
    <3>4. CASE at[u] = n
      <4>1. Members[d] \subseteq arrived[n] /\ Members[d] \cap arrived[n] # {}
        BY <1>2, <3>1, <3>4, ParentIs
      <4>2. resets[d] = resets[n]
        BY <1>0, <1>5, <3>1, <3>4, <4>1 DEF ChildOfParent
      <4>3. pc[u] \notin {"b_read", "b_add"} /\ (pc[u] = "b_check" => cur[u] = seq[n])
        BY <1>0, <1>2, <1>5, <3>1, <3>4, <4>1, <4>2 DEF AtParent
      <4> QED BY <1>2, <1>5, <3>1, <3>2, <3>4, <4>2, <4>3
    <3> QED BY <3>3, <3>4
  <2> QED BY <2>1, <2>2
<1>15. ParentFirst'
  <2> SUFFICES ASSUME NEW u \in Threads, pc'[u] = "b_reset", Parent[at'[u]] # NoNode
               PROVE  resets'[Parent[at'[u]]] = resets'[at'[u]] + 1
    BY DEF ParentFirst
  <2>1. CASE u = t
    <3>1. n # Leaf[t] /\ at'[u] = c /\ Parent[c] = n
      BY <1>3, <1>5, <1>6, <2>1
    <3>2. resets[c] = resets[n] /\ c # n
      BY <1>0, <1>2, <1>3, <1>5, <3>1, ParentIs DEF ChildOfParent
    <3> QED BY <1>2, <1>3, <1>5, <3>1, <3>2
  <2>2. CASE u # t
    <3>1. at'[u] = at[u] /\ pc[u] = "b_reset" /\ at[u] \in Nodes /\ u \in Members[at[u]]
          /\ Parent[at[u]] \in Nodes
      BY <1>0, <1>5, <2>2, ParentIs DEF TypeOK, OnPath
    <3>2. at[u] # n
      <4>1. Holds(u, at[u])
        BY <3>1 DEF Holds
      <4> QED BY <1>2, <2>2, <4>1
    <3>3. Parent[at[u]] # n
      <4>1. Members[at[u]] \subseteq Members[Parent[at[u]]]
        BY <2>2, <3>1, ParentIs
      <4>2. resets[Parent[at[u]]] = resets[at[u]] + 1
        BY <1>0, <3>1 DEF ParentFirst
      <4>3. Members[at[u]] \cap arrived[Parent[at[u]]] = {}
        BY <1>0, <1>5, <3>1, <4>2 DEF ChildOfParent
      <4> QED BY <1>2, <3>1, <4>1, <4>3
    <3> QED BY <1>0, <1>5, <3>1, <3>2, <3>3 DEF ParentFirst
  <2> QED BY <2>1, <2>2
<1>16. AtLeaf'
  <2> DEFINE P(u) == LET l      == Leaf[u]
                         adding == at[u] = l /\ pc[u] = "b_add"
                         loop   == at[u] = l /\ pc[u] \in {"b_check", "b_futex", "b_sleep"}
                     IN /\ entered[u] = IF pc[u] = "out" THEN left[u] ELSE left[u] + 1
                        /\ adding => u \notin arrived[l] /\ entered[u] = resets[l] + 1
                                                         /\ cur[u] = seq[l]
                        /\ u \in arrived[l] => /\ pc[u] \notin {"out", "b_wake"}
                                               /\ entered[u] = resets[l] + 1
                                               /\ loop => cur[u] = seq[l]
                        /\ u \notin arrived[l] /\ ~adding =>
                             /\ entered[u] = resets[l]
                             /\ loop => seq[l] = (cur[u] + 1) % SeqMod
  <2>1. \A u \in Threads : P(u)
    BY <1>0 DEF AtLeaf
  <2>2. n = Leaf[t] => P(t)'
    BY <1>0, <1>1, <1>2, <1>5, <1>6, <2>1 DEF TypeOK
  <2>3. n # Leaf[t] => P(t)'
    BY <1>0, <1>1, <1>2, <1>3, <1>5, <1>6, <2>1, LeafIs DEF TypeOK
  <2>4. ASSUME NEW u \in Threads, u # t PROVE P(u)'
    <3>1. CASE Leaf[u] = n
      <4>1. u \in arrived[n]
        BY <1>2, <3>1, LeafIs
      <4> QED BY <1>1, <1>2, <1>5, <2>1, <2>4, <3>1, <4>1
    <3>2. CASE Leaf[u] # n
      <4>1. Leaf[u] \in Nodes
        BY LeafIs
      <4> QED BY <1>1, <1>5, <2>1, <2>4, <3>2, <4>1
    <3> QED BY <3>1, <3>2
  <2>5. \A u \in Threads : P(u)'
    BY <2>2, <2>3, <2>4
  <2> QED BY <2>5 DEF AtLeaf
<1>17. AncestorsFirst'
  <2> SUFFICES ASSUME NEW m \in Nodes, NEW d \in Nodes, NEW u \in Members[m] \cap Members[d],
                      Depth[m] < Depth[d]
               PROVE  resets'[d] <= resets'[m]
    BY DEF AncestorsFirst
  <2>1. m # d /\ resets[d] <= resets[m]
    BY <1>0, TreeAssumption DEF AncestorsFirst
  <2>2. CASE d # n
    BY <1>5, <2>1, <2>2
  <2>3. CASE d = n
    <3>1. q \in Nodes /\ resets[q] = resets[n] + 1 /\ Depth[n] = Depth[q] + 1
          /\ u \in Members[q] /\ Depth[q] \in Nat /\ Depth[m] \in Nat
      BY <1>2, <2>3, ParentIs, TreeAssumption DEF q
    <3>2. CASE m = q
      BY <1>5, <2>1, <2>3, <3>1, <3>2
    <3>3. CASE m # q
      <4>1. Depth[m] < Depth[q]
        BY <2>3, <3>1, <3>3, SameDepth
      <4>2. resets[q] <= resets[m]
        BY <1>0, <3>1, <4>1 DEF AncestorsFirst
      <4> QED BY <1>5, <2>1, <2>3, <3>1, <4>2
    <3> QED BY <3>2, <3>3
  <2> QED BY <2>2, <2>3
<1>18. EnteredFirst'
  <2>1. \A u \in Members[n] : resets[n] + 1 <= entered[u]
    BY <1>0, <1>2, <1>5 DEF EnteredFirst, TypeOK
  <2> QED BY <1>0, <1>1, <1>2, <1>5, <2>1 DEF EnteredFirst
<1>19. Serials'
  <2> SUFFICES ASSUME NEW u \in Threads
               PROVE  LET l == Leaf[u]
                      IN /\ \A v, w \in Threads : Waking(v, l)' /\ Waking(w, l)' => v = w
                         /\ \A v \in Threads : Waking(v, l)' => resets'[l] = serials'[l] + 1
                         /\ (\A v \in Threads : ~Waking(v, l)') => resets'[l] = serials'[l]
    BY DEF Serials
  <2>1. Leaf[u] \in Nodes
    BY LeafIs
  <2>2. CASE Leaf[u] # n
    <3>1. \A v \in Threads : Waking(v, Leaf[u])' <=> Waking(v, Leaf[u])
      BY <1>0, <1>1, <1>5, <1>6, <2>2 DEF Waking, OnPath, n
    <3>2. serials'[Leaf[u]] = serials[Leaf[u]]
      BY <1>0, <1>1, <2>1, <2>2 DEF TypeOK
    <3> QED BY <1>0, <1>5, <2>1, <2>2, <3>1, <3>2 DEF Serials
  <2>3. CASE Leaf[u] = n
    <3>1. n = Leaf[t]
      BY <1>2, <2>3, LeafIs
    <3>2. \A v \in Threads : ~(pc[v] = "b_wake" /\ at[v] = n)
      BY <1>0, <1>2 DEF AtLeaf, OnPath
    <3>3. resets[n] = serials[n]
      BY <1>0, <2>3, <3>2 DEF Serials, Waking
    <3>4. \A v \in Threads : pc'[v] = "b_wake" /\ at'[v] = n => v = t
      BY <1>5, <3>2
    <3>5. at'[t] = n
      BY <1>5, <3>1
    <3>6. CASE pc'[t] = "b_wake"
      <4>1. serials'[n] = serials[n]
        BY <1>0, <1>1, <1>6, <3>1, <3>6 DEF TypeOK
      <4> QED BY <1>5, <2>1, <2>3, <3>3, <3>4, <3>5, <3>6, <4>1 DEF Waking
    <3>7. CASE pc'[t] = "out"
      <4>1. serials'[n] = serials[n] + 1
        BY <1>0, <1>1, <1>2, <1>6, <3>1, <3>7 DEF TypeOK
      <4> QED BY <1>5, <2>1, <2>3, <3>3, <3>4, <3>7, <4>1 DEF Waking
    <3> QED BY <1>6, <3>1, <3>6, <3>7
  <2> QED BY <2>2, <2>3
<1>20. NoLostWakeup'
  <2> SUFFICES ASSUME NEW u \in Threads, pc'[u] = "b_sleep", cur'[u] # seq'[at'[u]]
               PROVE  \E v \in Threads : pc'[v] = "b_wake" /\ at'[v] = at'[u]
    BY DEF NoLostWakeup
  <2>1. u # t /\ at'[u] = at[u] /\ pc[u] = "b_sleep" /\ at[u] \in Nodes /\ at[u] = Leaf[u]
    BY <1>0, <1>5, <1>6 DEF TypeOK, OnPath
  <2>2. CASE at[u] # n
    <3>1. PICK v \in Threads : pc[v] = "b_wake" /\ at[v] = at[u]
      BY <1>0, <1>1, <1>5, <2>1, <2>2 DEF NoLostWakeup
    <3>2. v # t
      BY <1>1, <3>1
    <3> QED BY <1>5, <2>1, <3>1, <3>2
  <2>3. CASE at[u] = n
    <3>1. u \in Members[n] /\ n = Leaf[t]
      BY <1>2, <2>1, <2>3, LeafIs
    <3>2. Total(n) > 1
      <4>1. IsFiniteSet(Members[n]) /\ Cardinality(Members[n]) \in Nat
        BY <1>2, FiniteThreads
      <4>2. {t, u} \subseteq Members[n] /\ Cardinality({t, u}) = 2
        <5>1. Cardinality({t}) = 1 /\ IsFiniteSet({t})
          BY FS_Singleton
        <5>2. Cardinality({t} \cup {u}) = Cardinality({t}) + 1
          BY <2>1, <5>1, FS_AddElement
        <5>3. {t, u} = {t} \cup {u}
          OBVIOUS
        <5> QED BY <1>2, <3>1, <5>1, <5>2, <5>3
      <4> QED BY <4>1, <4>2, FS_Subset DEF Total
    <3>3. Total(n) \in Nat
      BY <1>2, FiniteThreads DEF Total
    <3>4. pc'[t] = "b_wake" /\ at'[t] = n
      BY <1>5, <1>6, <3>1, <3>2, <3>3
    <3> QED BY <2>1, <2>3, <3>4
  <2> QED BY <2>2, <2>3
<1>21. NoOverrun'
  BY <1>0, <1>5, <1>6 DEF NoOverrun
<1> QED BY <1>9, <1>10, <1>11, <1>12, <1>13, <1>14, <1>15, <1>16, <1>17, <1>18, <1>19,
           <1>20, <1>21 DEF IInv

-----------------------------------------------------------------------------
(* The theorems.                                                           *)

\* The invariant holds of a new tree.
LEMMA InitIInv == Init => IInv
<1> SUFFICES ASSUME Init PROVE IInv
  OBVIOUS
<1> USE DEF Init
<1>1. \A t \in Threads, c \in Nodes : at[t] = Leaf[t] /\ Parent[c] # at[t] /\ ~Holds(t, c)
  BY TreeAssumption DEF Holds
<1>2. TypeOK
  BY TreeAssumption, SeqModAssumption, RoundsAssumption DEF TypeOK, Labels
<1>3. OnPath
  BY LeafIs, TreeAssumption DEF OnPath
<1>4. Counted
  BY FS_EmptySet DEF Counted
<1>5. HeldIsFull /\ OneHolder
  BY <1>1 DEF HeldIsFull, OneHolder
<1>6. ChildOfParent
  BY ParentIs DEF ChildOfParent
<1>7. AtParent /\ ParentFirst
  BY <1>1 DEF AtParent, ParentFirst
<1>8. AtLeaf
  BY LeafIs DEF AtLeaf
<1>9. AncestorsFirst /\ EnteredFirst
  BY TreeAssumption DEF AncestorsFirst, EnteredFirst
<1>10. Serials
  BY LeafIs DEF Serials, Waking
<1>11. NoLostWakeup /\ NoOverrun
  BY DEF NoLostWakeup, NoOverrun
<1> QED BY <1>2, <1>3, <1>4, <1>5, <1>6, <1>7, <1>8, <1>9, <1>10, <1>11 DEF IInv

\* Every step keeps the invariant.
LEMMA StepIInv ==
  ASSUME IInv, [Next]_barrierVars
  PROVE  IInv'
<1>1. CASE Next
  <2> PICK t \in Threads : Enter(t) \/ WaitStep(t) \/ Interrupt(t)
    BY <1>1 DEF Next
  <2> QED BY StepEnter, StepReadSeq, StepAdd, StepReset, StepWake, StepCheck, StepSpin,
             StepFutexWait DEF WaitStep
<1>2. CASE UNCHANGED barrierVars
  <2> USE <1>2 DEF barrierVars
  <2>1. \A t \in Threads, c \in Nodes : Holds(t, c)' <=> Holds(t, c)
    BY DEF Holds
  <2>2. TypeOK' /\ OnPath' /\ Counted' /\ ChildOfParent' /\ AtParent' /\ ParentFirst'
    BY DEF IInv, TypeOK, OnPath, Counted, ChildOfParent, AtParent, ParentFirst
  <2>3. HeldIsFull' /\ OneHolder'
    BY <2>1 DEF IInv, HeldIsFull, OneHolder
  <2>4. AtLeaf' /\ AncestorsFirst' /\ EnteredFirst' /\ Serials'
    BY DEF IInv, AtLeaf, AncestorsFirst, EnteredFirst, Serials, Waking
  <2>5. NoLostWakeup' /\ NoOverrun'
    BY DEF IInv, NoLostWakeup, NoOverrun
  <2> QED BY <2>2, <2>3, <2>4, <2>5 DEF IInv
<1> QED BY <1>1, <1>2

\* The inductive invariant of the barrier.
THEOREM Invariant == Spec => []IInv
<1>1. Init => IInv
  BY InitIInv
<1>2. IInv /\ [Next]_barrierVars => IInv'
  BY StepIInv
<1> QED BY <1>1, <1>2, PTL DEF Spec

\* Type correctness of the barrier.
THEOREM TypeCorrect == Spec => []TypeOK
<1>1. IInv => TypeOK
  BY DEF IInv
<1> QED BY <1>1, Invariant, PTL

\* "1: unreachable code executed" (fastsync.h): no node of any tree ever
\* counts more threads than its total_count, in any order of the arrivals.
THEOREM CountStaysWithinTotal == Spec => []NoOverrun
<1>1. IInv => NoOverrun
  BY DEF IInv
<1> QED BY <1>1, Invariant, PTL

\* fastsync_barrier_wait: a thread that sleeps for a round which is over has
\* its FUTEX_WAKE coming.
THEOREM WakeupNotLost == Spec => []NoLostWakeup
<1>1. IInv => NoLostWakeup
  BY DEF IInv
<1> QED BY <1>1, Invariant, PTL

\* fastsync_barrier_wait returns PTHREAD_BARRIER_SERIAL_THREAD to exactly one
\* thread of a leaf in each round.
THEOREM SerialOncePerRound == Spec => []OneSerialPerRound
<1>1. IInv => OneSerialPerRound
  <2> SUFFICES ASSUME IInv, NEW t \in Threads,
                      \A u \in Members[Leaf[t]] : pc[u] = "out" /\ left[u] = left[t]
               PROVE  serials[Leaf[t]] = left[t]
    BY DEF OneSerialPerRound
  <2>1. pc[t] = "out"
    BY LeafIs
  <2>2. left[t] = resets[Leaf[t]]
    BY <2>1 DEF IInv, AtLeaf
  <2>3. \A u \in Threads : ~Waking(u, Leaf[t])
    BY LeafIs DEF Waking, IInv, OnPath
  <2>4. resets[Leaf[t]] = serials[Leaf[t]]
    BY <2>3 DEF IInv, Serials
  <2> QED BY <2>2, <2>4
<1> QED BY <1>1, Invariant, PTL

-----------------------------------------------------------------------------
(* The refinement of the abstract barrier.                                 *)

\* When a thread is out of its k-th wait every thread has begun its own k-th:
\* the root has been reset k times, and a node is reset only when all its
\* threads have entered the round.
AllEntered ==
  \A t, u \in Threads : pc[t] = "out" => entered[t] = left[t] /\ entered[u] >= left[t]

\* A thread that is out of a round has left it after everybody entered it.
LEMMA IInvAllEntered == IInv => AllEntered
<1> SUFFICES ASSUME IInv, NEW t \in Threads, NEW u \in Threads, pc[t] = "out"
             PROVE  entered[t] = left[t] /\ entered[u] >= left[t]
  BY DEF AllEntered
<1> DEFINE l == Leaf[t]
<1>1. entered[t] = left[t] /\ entered[t] = resets[l]
  BY DEF IInv, AtLeaf
<1>2. PICK root \in Nodes : Members[root] = Threads /\ Depth[root] = 0
  BY TreeAssumption
<1>3. l \in Nodes /\ t \in Members[l] \cap Members[root] /\ Depth[l] \in Nat
  BY <1>2, LeafIs, TreeAssumption
<1>4. resets[l] <= resets[root]
  <2>1. CASE Depth[l] = 0
    BY <1>2, <1>3, <2>1, SameDepth DEF IInv, TypeOK
  <2>2. CASE Depth[l] # 0
    BY <1>2, <1>3, <2>2 DEF IInv, AncestorsFirst
  <2> QED BY <2>1, <2>2
<1>5. resets[root] <= entered[u]
  BY <1>2 DEF IInv, EnteredFirst
<1>6. resets[l] \in Nat /\ resets[root] \in Nat /\ entered[u] \in Nat
  BY <1>2, <1>3 DEF IInv, TypeOK
<1> QED BY <1>1, <1>4, <1>5, <1>6

\* fastsync_barrier.c: no thread of any leaf returns from a round before every
\* thread of every leaf has entered it.
THEOREM Refinement == Spec => ImplementsBarrier
<1>1. Init => Abstract!Init
  BY DEF Init, Abstract!Init
<1>2. IInv /\ AllEntered /\ AllEntered' /\ [Next]_barrierVars
        => [Abstract!Next]_(Abstract!barrierVars)
  <2> SUFFICES ASSUME IInv, AllEntered, AllEntered', [Next]_barrierVars
               PROVE  [Abstract!Next]_(Abstract!barrierVars)
    OBVIOUS
  <2> USE DEF Abstract!barrierVars
  <2>1. CASE UNCHANGED <<entered, left>>
    BY <2>1
  <2>2. ASSUME NEW t \in Threads, Enter(t) PROVE Abstract!Enter(t)
    BY <2>2 DEF Enter, Abstract!Enter, AllEntered
  <2>3. ASSUME NEW t \in Threads, UNCHANGED entered, pc'[t] = "out", pc[t] # "out",
               left' = [left EXCEPT ![t] = left[t] + 1]
        PROVE  Abstract!Leave(t)
    <3>1. entered[t] = left[t] + 1
      BY <2>3 DEF IInv, AtLeaf
    <3>2. \A u \in Threads : entered[u] >= left'[t]
      BY <2>3 DEF AllEntered
    <3>3. left'[t] = left[t] + 1
      BY <2>3 DEF IInv, TypeOK
    <3> QED BY <2>3, <3>1, <3>2, <3>3 DEF Abstract!Leave
  <2>4. ASSUME NEW t \in Threads, Check(t) PROVE [Abstract!Next]_(Abstract!barrierVars)
    BY <2>1, <2>3, <2>4 DEF Check, Goto, IInv, TypeOK, Abstract!Next
  <2>5. ASSUME NEW t \in Threads, Wake(t) PROVE Abstract!Leave(t)
    BY <2>3, <2>5 DEF Wake
  <2>6. ASSUME NEW t \in Threads, Reset(t) PROVE [Abstract!Next]_(Abstract!barrierVars)
    BY <2>1, <2>3, <2>6 DEF Reset, Store, Goto, IInv, TypeOK, Abstract!Next
  <2>7. ASSUME NEW t \in Threads, ReadSeq(t) \/ Spin(t) \/ FutexWait(t) \/ Interrupt(t) \/ Add(t)
        PROVE  UNCHANGED <<entered, left>>
    BY <2>7 DEF ReadSeq, Spin, FutexWait, Interrupt, Add, Arrive, history
  <2>8. CASE Next
    <3> PICK t \in Threads : Enter(t) \/ WaitStep(t) \/ Interrupt(t)
      BY <2>8 DEF Next
    <3> QED BY <2>1, <2>2, <2>4, <2>5, <2>6, <2>7 DEF WaitStep, Abstract!Next
  <2>9. CASE UNCHANGED barrierVars
    BY <2>1, <2>9 DEF barrierVars
  <2> QED BY <2>8, <2>9
<1>3. Spec => []IInv /\ []AllEntered
  BY Invariant, IInvAllEntered, PTL
<1> QED BY <1>1, <1>2, <1>3, PTL DEF Spec, ImplementsBarrier, Abstract!Spec

=============================================================================
