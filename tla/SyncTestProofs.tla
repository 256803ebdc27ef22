--------------------------- MODULE SyncTestProofs ---------------------------
(***************************************************************************)
(* What is proved of the test program, for every number of workers, every  *)
(* command line and any number of spurious wake-ups.                       *)
(*                                                                         *)
(* The argument: the number of barrier calls that a worker has completed   *)
(* follows from its place in the loop and its round (Position), and the    *)
(* barrier keeps these numbers together (Together).  So where one worker   *)
(* stands says where the others can be, worker 0 with the flag among them. *)
(***************************************************************************)
EXTENDS SyncTest, FiniteSetTheorems, TLAPS

(* The parts of the inductive invariant.                                   *)

\* The places in a round, by sync_type, and worker 0's among them.
RoundLabels(type) ==
  CASE type = 0 -> {"b_end"}
    [] type = 1 -> {"lock", "locked", "count", "counting", "unlock", "b_mutex"}
    [] type = 2 -> {"b_before", "reset", "b_after", "lock", "locked", "set", "wait",
                    "in_wait", "unlock", "notify", "b_end"}

\* How many barrier calls w has completed.
PerRounds(r) == IF p.sync_type = 2 THEN 3 * r ELSE r
Passed(w) ==
  CASE pc[w] \in {"new", "b_start"} -> 0
    [] pc[w] = "spin" -> 1
    [] pc[w] \in {"loop", "done"} -> PerRounds(round[w]) + 1
    [] pc[w] = "b_before" -> 3 * round[w] - 2
    [] pc[w] \in {"reset", "b_after"} -> 3 * round[w] - 1
    [] OTHER -> PerRounds(round[w])

Position(w) ==
  /\ pc[w] \in {"new", "b_start", "spin", "killed"} => round[w] = 0
  /\ pc[w] \in {"new", "b_start", "spin", "loop", "done", "killed"} \/ pc[w] \in RoundLabels(p.sync_type)
  /\ pc[w] \in RoundLabels(p.sync_type) => round[w] > 0
  /\ pc[w] # "killed" => left[w] = Passed(w)
  /\ pc[w] \in Sites => entered[w] \in {left[w], left[w] + 1}
  /\ pc[w] \notin Sites \cup {"killed"} => entered[w] = left[w]
  /\ pc[w] \in {"set", "notify"} => w = 0
  /\ pc[w] \in {"wait", "in_wait"} => w # 0
Positions == \A w \in Workers : Position(w)

\* Nobody has left a barrier that somebody has not reached.
Together == \A u, w \in Workers : left[w] <= entered[u]

\* What main has done so far, and where that lets the workers be.
MainIs ==
  /\ main = "create" => /\ created < thr_cnt
                        /\ \A w \in Workers : pc[w] = IF w < created THEN "b_start" ELSE "new"
  /\ main = "start" => \A w \in Workers : pc[w] \in {"b_start", "spin"}
  /\ main \in {"join", "report"} => \A w \in Workers : pc[w] \notin {"new", "killed"}
  /\ main = "report" => \A w \in Workers : pc[w] = "done"
  /\ main = "failed" => \A w \in Workers : pc[w] = "killed"
  /\ all_start => main \in {"join", "report"}

Moves == TypeOK /\ Positions /\ Together /\ MainIs

-----------------------------------------------------------------------------
\* What is known of the command line.
LEMMA OptionIs ==
  ASSUME p \in Options
  PROVE  /\ p.total_iters \in Nat \ {0} /\ p.bar_iters \in Nat \ {0} /\ p.sync_type \in 0..2
         /\ thr_trials \in Nat /\ extra_trials \in Nat
         /\ thr_cnt \in Nat \ {0}
<1>1. \A a \in Nat, b \in Nat \ {0} : a \div b \in Nat /\ a % b \in Nat
  OBVIOUS
<1> QED BY <1>1, OptionsAssumption DEF thr_trials, extra_trials

\* The parts of TypeOK: the program's own state, and that of the objects.
OwnTypes ==
  /\ p \in Options
  /\ main \in {"create", "start", "join", "report", "failed"} /\ created \in 0 .. thr_cnt
  /\ pc \in [Workers -> Labels]
  /\ critical_counter \in Nat
  /\ read \in [Workers -> Nat]
  /\ trials_done \in [Workers -> Nat] /\ worked \in [Workers -> Nat]
  /\ round \in [Workers -> Nat] /\ flag_round \in Nat /\ spurious \in 0 .. MaxSpurious
LockTypes ==
  /\ entered \in [Workers -> Nat] /\ left \in [Workers -> Nat]
  /\ owner \subseteq Workers /\ asking \subseteq Workers
  /\ inside \subseteq Workers /\ waiting \subseteq Workers /\ due \subseteq Workers
FlagType == all_start \in BOOLEAN
Owned == \A w \in Workers : pc[w] \in {"count", "counting", "set", "wait", "unlock"} => owner = {w}

\* They make it up.
LEMMA TypeOKIs == /\ TypeOK <=> OwnTypes /\ FlagType /\ LockTypes /\ Owned
                  /\ TypeOK' <=> OwnTypes' /\ FlagType' /\ LockTypes' /\ Owned'
BY Zenon DEF TypeOK, OwnTypes, FlagType, LockTypes, Owned

\* main and the workers start together.
LEMMA MovesInit == Init => Moves
<1> SUFFICES ASSUME Init PROVE Moves
  OBVIOUS
<1>1. thr_cnt \in Nat \ {0} /\ MaxSpurious \in Nat /\ p.sync_type \in 0..2
  BY OptionsAssumption DEF Init
<1>2. OwnTypes
  <2>1. "new" \in Labels
    BY DEF Labels
  <2>2. /\ main \in {"create", "start", "join", "report", "failed"} /\ created \in 0 .. thr_cnt
        /\ critical_counter \in Nat /\ p \in Options
        /\ flag_round \in Nat /\ spurious \in 0 .. MaxSpurious
    BY <1>1 DEF Init
  <2>3. pc \in [Workers -> Labels]
    BY <2>1 DEF Init
  <2>4. [w \in Workers |-> 0] \in [Workers -> Nat]
    OBVIOUS
  <2>5. /\ read \in [Workers -> Nat] /\ round \in [Workers -> Nat]
        /\ trials_done \in [Workers -> Nat] /\ worked \in [Workers -> Nat]
    BY <2>4 DEF Init
  <2> QED BY <2>2, <2>3, <2>5 DEF OwnTypes
<1>3. LockTypes /\ Owned
  BY <1>1 DEF Init, LockTypes, Owned, B!Init, C!Init, C!Lock!Init, Workers
<1>4. Positions /\ Together
  BY <1>1 DEF Init, Positions, Position, Passed, PerRounds, RoundLabels, Together, B!Init, Sites
<1>5. MainIs
  BY <1>1 DEF Init, MainIs, Workers
<1>6. FlagType
  BY Zenon DEF Init, FlagType
<1> QED BY <1>2, <1>3, <1>4, <1>5, <1>6, TypeOKIs DEF Moves

-----------------------------------------------------------------------------
(* The steps of a worker.                                                  *)

WorkerMoves(w) == WorkerStep(w) \/ SpuriousWakeUp(w)

\* A worker changes its own places and counts alone.
LEMMA OthersStay ==
  ASSUME OwnTypes, LockTypes, NEW w \in Workers, WorkerMoves(w)
  PROVE  /\ UNCHANGED mainVars
         /\ \A u \in Workers \ {w} :
              /\ pc'[u] = pc[u] /\ read'[u] = read[u] /\ trials_done'[u] = trials_done[u]
              /\ worked'[u] = worked[u] /\ round'[u] = round[u]
              /\ entered'[u] = entered[u] /\ left'[u] = left[u]
<1> USE DEF OwnTypes, LockTypes, Goto, mainVars, flagVars, workVars, barrierVars
<1>1. CASE EnterBarrier(w) \/ LeaveBarrier(w)
  BY <1>1 DEF EnterBarrier, LeaveBarrier, B!Enter, B!Leave
<1>2. CASE Spin(w) \/ Iterate(w) \/ Finish(w)
  BY <1>2 DEF Spin, Iterate, Finish, RunIterations
<1>3. CASE LockCall(w) \/ Locked(w) \/ CountRead(w) \/ CountWrite(w) \/ Unlock(w)
  BY <1>3 DEF LockCall, Locked, CountRead, CountFrom, CountWrite, Unlock
<1>4. CASE Reset(w) \/ SetFlag(w) \/ Notify(w)
  BY <1>4 DEF Reset, ResetThen, SetFlag, Notify, NotifyThen
<1>5. CASE TestFlag(w) \/ InWait(w) \/ WaitReturn(w) \/ SpuriousWakeUp(w)
  BY <1>5 DEF TestFlag, InWait, WaitReturn, SpuriousWakeUp
<1> QED BY <1>1, <1>2, <1>3, <1>4, <1>5 DEF WorkerMoves, WorkerStep

\* The program's own types.
LEMMA OwnTypesStep ==
  ASSUME OwnTypes, LockTypes, NEW w \in Workers, Position(w), WorkerMoves(w)
  PROVE  OwnTypes'
<1>0. /\ p.bar_iters \in Nat \ {0} /\ p.sync_type \in 0..2 /\ thr_trials \in Nat
  BY OptionIs DEF OwnTypes
<1> USE DEF OwnTypes, Goto, mainVars, flagVars, workVars, barrierVars, Labels, Sites
<1>1. CASE EnterBarrier(w) \/ LeaveBarrier(w)
  BY <1>1 DEF EnterBarrier, LeaveBarrier, After
<1>2. CASE Spin(w)
  BY <1>2 DEF Spin
<1>3. CASE Iterate(w)
  <2>1. \E n \in Nat : RunIterations(w, n)
    <3> DEFINE n == IF Remaining(w) >= p.bar_iters THEN p.bar_iters ELSE Remaining(w)
    <3>1. RunIterations(w, n)
      BY <1>3 DEF Iterate
    <3>2. Remaining(w) \in Nat
      BY <1>0, <3>1 DEF RunIterations, Remaining
    <3>3. n \in Nat
      BY <1>0, <3>2
    <3> HIDE DEF n
    <3> QED BY <3>1, <3>3
  <2> QED BY <1>0, <2>1 DEF RunIterations
<1>4. CASE Finish(w)
  BY <1>4 DEF Finish
<1>5. CASE LockCall(w) \/ Unlock(w)
  BY <1>0, <1>5 DEF LockCall, Unlock, Position, RoundLabels
<1>6. CASE Locked(w)
  BY <1>0, <1>6 DEF Locked, Position, RoundLabels
<1>7. CASE CountRead(w)
  BY <1>7 DEF CountRead, CountFrom
<1>8. CASE CountWrite(w)
  BY <1>8 DEF CountWrite
<1>9. CASE Reset(w) \/ Notify(w)
  BY <1>9 DEF Reset, ResetThen, Notify, NotifyThen
<1>10. CASE SetFlag(w)
  BY <1>10 DEF SetFlag
<1>11. CASE TestFlag(w) \/ InWait(w) \/ WaitReturn(w)
  BY <1>11 DEF TestFlag, InWait, WaitReturn
<1>12. CASE SpuriousWakeUp(w)
  BY <1>12, OptionsAssumption DEF SpuriousWakeUp
<1> QED BY <1>1, <1>2, <1>3, <1>4, <1>5, <1>6, <1>7, <1>8, <1>9, <1>10, <1>11, <1>12
        DEF WorkerMoves, WorkerStep

\* The types of the objects, and that the mutex is used by its owner.
LEMMA LockTypesStep ==
  ASSUME OwnTypes, LockTypes, NEW w \in Workers, WorkerMoves(w)
  PROVE  LockTypes'
<1> USE DEF LockTypes, barrierVars, condVars
<1>1. CASE EnterBarrier(w) \/ LeaveBarrier(w)
  BY <1>1 DEF EnterBarrier, LeaveBarrier, B!Enter, B!Leave
<1>2. CASE Spin(w) \/ Iterate(w) \/ Finish(w) \/ CountRead(w) \/ CountWrite(w) \/ Reset(w) \/ SetFlag(w)
  BY <1>2 DEF Spin, Iterate, Finish, RunIterations, CountRead, CountFrom, CountWrite,
              Reset, ResetThen, SetFlag
<1>3. CASE LockCall(w) \/ Locked(w) \/ Unlock(w)
  BY <1>3 DEF LockCall, Locked, Unlock, C!Ask, C!Lock!Ask, C!Acquire, C!Lock!Acquire,
              C!Unlock, C!Lock!Release
<1>4. CASE Notify(w)
  BY <1>4 DEF Notify, NotifyThen, C!Broadcast, C!Notify
<1>5. CASE TestFlag(w) \/ WaitReturn(w)
  BY <1>5 DEF TestFlag, WaitReturn, C!Wait, C!Return
<1>6. CASE InWait(w) \/ SpuriousWakeUp(w)
  BY <1>6 DEF InWait, SpuriousWakeUp, GiveUp, WakeUp, TakeBack, C!Unlock, C!Lock!Release,
              C!Release, C!Lock!Ask, C!Acquire, C!Lock!Acquire
<1> QED BY <1>1, <1>2, <1>3, <1>4, <1>5, <1>6 DEF WorkerMoves, WorkerStep

OwnerLabels == {"count", "counting", "set", "wait", "unlock"}

\* What a step does to the owner of the mutex, and where it leaves the worker.
LEMMA OwnerIs ==
  ASSUME OwnTypes, NEW w \in Workers, Position(w), WorkerMoves(w)
  PROVE  \/ owner' = owner /\ pc'[w] \in OwnerLabels /\ pc[w] \in OwnerLabels
         \/ owner' = owner /\ pc'[w] \notin OwnerLabels
         \/ owner = {} /\ owner' = {w}
         \/ owner = {w} /\ owner' = owner
         \/ owner = {w} /\ owner' = {} /\ pc'[w] \notin OwnerLabels
<1>0. p.sync_type \in 0..2
  BY OptionIs DEF OwnTypes
<1> USE DEF OwnTypes, barrierVars, condVars, Goto, OwnerLabels
<1>1. CASE EnterBarrier(w) \/ LeaveBarrier(w)
  BY <1>1 DEF EnterBarrier, LeaveBarrier, Sites, After
<1>2. CASE Spin(w) \/ Iterate(w) \/ Finish(w)
  BY <1>0, <1>2 DEF Spin, Iterate, Finish, RunIterations
<1>3. CASE CountRead(w) \/ CountWrite(w) \/ Reset(w) \/ SetFlag(w)
  BY <1>3 DEF CountRead, CountFrom, CountWrite, Reset, ResetThen, SetFlag
<1>4. CASE LockCall(w)
  BY <1>4 DEF LockCall, C!Ask, C!Lock!Ask
<1>5. CASE Locked(w)
  BY <1>5 DEF Locked, C!Acquire, C!Lock!Acquire
<1>6. CASE Unlock(w)
  BY <1>0, <1>6 DEF Unlock, C!Unlock, C!Lock!Release, Position, RoundLabels
<1>7. CASE Notify(w)
  BY <1>7 DEF Notify, NotifyThen, C!Broadcast, C!Notify
<1>8. CASE TestFlag(w) \/ WaitReturn(w)
  BY <1>8 DEF TestFlag, WaitReturn, C!Wait, C!Return
<1>9. CASE InWait(w) \/ SpuriousWakeUp(w)
  BY <1>9 DEF InWait, SpuriousWakeUp, GiveUp, WakeUp, TakeBack, C!Unlock, C!Lock!Release,
              C!Release, C!Lock!Ask, C!Acquire, C!Lock!Acquire
<1> QED BY <1>1, <1>2, <1>3, <1>4, <1>5, <1>6, <1>7, <1>8, <1>9 DEF WorkerMoves, WorkerStep

\* A worker that counts, sets or tests the flag owns the mutex.
LEMMA OwnedStep ==
  ASSUME OwnTypes, LockTypes, Owned, NEW w \in Workers, Position(w), WorkerMoves(w)
  PROVE  Owned'
<1>1. \A u \in Workers \ {w} : pc'[u] = pc[u]
  BY OthersStay
<1> QED BY <1>1, OwnerIs DEF Owned, OwnerLabels

\* The barrier keeps the workers together.
LEMMA TogetherStep ==
  ASSUME OwnTypes, LockTypes, Together, NEW w \in Workers, WorkerMoves(w)
  PROVE  Together'
<1> USE DEF LockTypes, Together, barrierVars
<1>1. CASE EnterBarrier(w)
  BY <1>1 DEF EnterBarrier, B!Enter
<1>2. CASE LeaveBarrier(w)
  BY <1>2 DEF LeaveBarrier, B!Leave
<1>3. CASE UNCHANGED barrierVars
  BY <1>3
<1>4. CASE ~EnterBarrier(w) /\ ~LeaveBarrier(w)
  <2>1. UNCHANGED barrierVars
    BY <1>4 DEF WorkerMoves, WorkerStep, Spin, Iterate, Finish, RunIterations, LockCall, Locked,
                CountRead, CountFrom, CountWrite, Unlock, Reset, ResetThen, SetFlag, Notify,
                NotifyThen, TestFlag, InWait, WaitReturn, SpuriousWakeUp
  <2> QED BY <1>3, <2>1
<1> QED BY <1>1, <1>2, <1>4

\* A worker that comes to its next place has completed the calls before it.
LEMMA PositionStep ==
  ASSUME OwnTypes, LockTypes, NEW w \in Workers, Position(w), WorkerMoves(w)
  PROVE  Position(w)'
<1>0. /\ p' = p /\ p.sync_type \in 0..2
      /\ pc[w] \in Labels /\ round[w] \in Nat /\ entered[w] \in Nat /\ left[w] \in Nat
  BY OthersStay, OptionIs DEF OwnTypes, LockTypes, mainVars
<1> USE DEF Position, Passed, PerRounds, RoundLabels, Sites, Goto,
            mainVars, flagVars, workVars, barrierVars, condVars
<1>1. CASE EnterBarrier(w)
  BY <1>0, <1>1 DEF EnterBarrier, B!Enter, LockTypes
<1>2. CASE LeaveBarrier(w)
  <2>1. /\ entered[w] = left[w] + 1 /\ left'[w] = left[w] + 1 /\ entered'[w] = entered[w]
        /\ round'[w] = round[w] /\ pc[w] \in Sites /\ pc'[w] = After(pc[w])
    BY <1>2 DEF LeaveBarrier, B!Leave, LockTypes, OwnTypes
  <2>2. CASE pc[w] = "b_start"
    BY <1>0, <2>1, <2>2 DEF After
  <2>3. CASE pc[w] = "b_mutex"
    BY <1>0, <2>1, <2>3 DEF After
  <2>4. CASE pc[w] \in {"b_before", "b_after"}
    BY <1>0, <2>1, <2>4 DEF After
  <2>5. CASE pc[w] = "b_end"
    BY <1>0, <2>1, <2>5 DEF After
  <2> QED BY <2>1, <2>2, <2>3, <2>4, <2>5
<1>3. CASE Spin(w) \/ Finish(w)
  BY <1>0, <1>3 DEF Spin, Finish, OwnTypes
<1>4. CASE Iterate(w)
  <2>1. /\ pc[w] = "loop" /\ round'[w] = round[w] + 1 /\ UNCHANGED <<entered, left>>
        /\ pc'[w] = CASE p.sync_type = 0 -> "b_end"
                      [] p.sync_type = 1 -> "lock"
                      [] p.sync_type = 2 -> "b_before"
    BY <1>4 DEF Iterate, RunIterations, OwnTypes
  <2> QED BY <1>0, <2>1
<1>5. CASE UNCHANGED <<round, entered, left>> /\ pc[w] \in RoundLabels(p.sync_type) \ Sites
  <2>1. /\ UNCHANGED <<round, entered, left>>
        /\ pc'[w] \in RoundLabels(p.sync_type)
        /\ Passed(w)' = Passed(w)
        /\ pc'[w] \in {"set", "notify"} => w = 0
        /\ pc'[w] \in {"wait", "in_wait"} => w # 0
    <3> HIDE DEF Sites
    <3>1. CASE LockCall(w) \/ Locked(w)
      BY <1>0, <1>5, <3>1 DEF LockCall, Locked, OwnTypes
    <3>2. CASE CountRead(w) \/ CountWrite(w)
      BY <1>0, <1>5, <3>2 DEF CountRead, CountFrom, CountWrite, OwnTypes
    <3>3. CASE Unlock(w)
      BY <1>0, <1>5, <3>3 DEF Unlock, OwnTypes
    <3>4. CASE SetFlag(w) \/ Notify(w)
      BY <1>0, <1>5, <3>4 DEF SetFlag, Notify, NotifyThen, OwnTypes
    <3>7. CASE Reset(w)
      BY <1>0, <1>5, <3>7 DEF Reset, ResetThen, OwnTypes
    <3>5. CASE TestFlag(w) \/ InWait(w) \/ WaitReturn(w) \/ SpuriousWakeUp(w)
      BY <1>0, <1>5, <3>5 DEF TestFlag, InWait, WaitReturn, SpuriousWakeUp, OwnTypes
    <3>6. CASE EnterBarrier(w) \/ LeaveBarrier(w) \/ Spin(w) \/ Iterate(w) \/ Finish(w)
      BY <1>0, <1>5, <3>6 DEF EnterBarrier, LeaveBarrier, Spin, Iterate, RunIterations, Finish, Sites
    <3> QED BY <3>1, <3>2, <3>3, <3>4, <3>5, <3>6, <3>7 DEF WorkerMoves, WorkerStep
  <2>2. pc[w] # "killed" /\ entered[w] = left[w] /\ left[w] = Passed(w) /\ round[w] > 0
    BY <1>0, <1>5
  <2>3. pc'[w] \notin {"new", "b_start", "spin", "loop", "done", "killed"}
    BY <1>0, <2>1
  <2> HIDE DEF Passed, RoundLabels, PerRounds
  <2> QED BY <1>0, <2>1, <2>2, <2>3
<1>6. ASSUME ~EnterBarrier(w), ~LeaveBarrier(w), ~Spin(w), ~Iterate(w), ~Finish(w)
      PROVE  UNCHANGED <<round, entered, left>> /\ pc[w] \in RoundLabels(p.sync_type) \ Sites
  <2> HIDE DEF Position, Passed, PerRounds, RoundLabels, Sites
  <2>1. /\ UNCHANGED <<round, entered, left>>
        /\ pc[w] \in {"lock", "locked", "count", "counting", "unlock", "reset", "set", "notify",
                     "wait", "in_wait"}
    BY <1>6 DEF WorkerMoves, WorkerStep, LockCall, Locked, CountRead, CountFrom, CountWrite, Unlock,
                Reset, ResetThen, SetFlag, Notify, NotifyThen, TestFlag, InWait, GiveUp, WakeUp,
                TakeBack, WaitReturn, SpuriousWakeUp
  <2> QED BY <2>1 DEF Position, Sites
<1> QED BY <1>1, <1>2, <1>3, <1>4, <1>5, <1>6

\* The position of a worker that does not move.
LEMMA PositionKept ==
  ASSUME NEW w, Position(w), UNCHANGED <<p, pc[w], round[w], entered[w], left[w]>>
  PROVE  Position(w)'
BY DEF Position, Passed, PerRounds

\* A worker does not move before main lets it, nor after it has returned.
LEMMA MainIsStep ==
  ASSUME OwnTypes, LockTypes, Positions, MainIs, NEW w \in Workers, WorkerMoves(w)
  PROVE  MainIs'
<1>0. /\ UNCHANGED <<main, created>> /\ \A u \in Workers \ {w} : pc'[u] = pc[u]
      /\ pc \in [Workers -> Labels] /\ created \in 0 .. thr_cnt /\ thr_cnt \in Nat
  BY OthersStay, OptionIs DEF OwnTypes, mainVars
<1>1. Position(w) /\ Position(w)'
  BY PositionStep DEF Positions
<1>2. pc[w] \notin {"new", "done", "killed"}
  BY DEF WorkerMoves, WorkerStep, EnterBarrier, LeaveBarrier, Sites, Spin, Iterate, Finish,
         RunIterations, LockCall, Locked, CountRead, CountFrom, CountWrite, Unlock, Reset,
         ResetThen, SetFlag, Notify, NotifyThen, TestFlag, InWait, GiveUp, WakeUp, TakeBack,
         WaitReturn, SpuriousWakeUp
<1>3. pc[w] = "b_start" => pc'[w] \in {"b_start", "spin"}
  BY DEF WorkerMoves, WorkerStep, EnterBarrier, LeaveBarrier, Sites, Spin, Iterate, Finish,
         RunIterations, LockCall, Locked, CountRead, CountFrom, CountWrite, Unlock, Reset,
         ResetThen, SetFlag, Notify, NotifyThen, TestFlag, InWait, GiveUp, WakeUp, TakeBack,
         WaitReturn, SpuriousWakeUp, Goto, After, OwnTypes
<1>4. pc[w] = "b_start" /\ main = "create" => pc'[w] = "b_start"
  <2> SUFFICES ASSUME pc[w] = "b_start", main = "create" PROVE pc'[w] = "b_start"
    OBVIOUS
  <2>1. /\ created \in Workers /\ pc[created] = "new"
    BY <1>0 DEF MainIs, Workers
  <2>2. entered[created] = 0
    BY <2>1 DEF Positions, Position, Passed, Sites
  <2>3. entered[w] >= 0 /\ left[w] = 0
    BY DEF LockTypes, Positions, Position, Passed
  <2>4. ~LeaveBarrier(w)
    BY <2>1, <2>2, <2>3 DEF LeaveBarrier, B!Leave
  <2> QED BY <2>4 DEF WorkerMoves, WorkerStep, EnterBarrier, barrierVars, Sites, Spin, Iterate,
         Finish, RunIterations, LockCall, Locked, CountRead, CountFrom, CountWrite, Unlock, Reset,
         ResetThen, SetFlag, Notify, NotifyThen, TestFlag, InWait, GiveUp, WakeUp, TakeBack,
         WaitReturn, SpuriousWakeUp
<1>5. pc[w] = "spin" /\ main = "start" => pc'[w] = "spin"
  BY DEF MainIs, WorkerMoves, WorkerStep, EnterBarrier, LeaveBarrier, Sites, Spin, Iterate, Finish,
         RunIterations, LockCall, Locked, CountRead, CountFrom, CountWrite, Unlock, Reset,
         ResetThen, SetFlag, Notify, NotifyThen, TestFlag, InWait, GiveUp, WakeUp, TakeBack,
         WaitReturn, SpuriousWakeUp
<1>6. all_start' => all_start \/ pc[w] = "set"
  BY DEF WorkerMoves, WorkerStep, EnterBarrier, LeaveBarrier, Spin, Iterate, Finish,
         RunIterations, LockCall, Locked, CountRead, CountFrom, CountWrite, Unlock, Reset,
         ResetThen, SetFlag, Notify, NotifyThen, TestFlag, InWait, WaitReturn, SpuriousWakeUp,
         flagVars
<1>7. main \in {"join", "report"} => pc'[w] \notin {"new", "killed"}
  <2> USE DEF Goto, OwnTypes
  <2>1. CASE EnterBarrier(w) \/ LeaveBarrier(w)
    BY <1>2, <2>1 DEF EnterBarrier, LeaveBarrier, Sites, After
  <2>2. CASE Spin(w) \/ Finish(w) \/ LockCall(w) \/ CountRead(w) \/ CountWrite(w) \/ Reset(w)
    BY <2>2 DEF Spin, Finish, LockCall, CountRead, CountFrom, CountWrite, Reset, ResetThen
  <2>3. CASE SetFlag(w) \/ Notify(w) \/ TestFlag(w) \/ InWait(w) \/ WaitReturn(w)
             \/ SpuriousWakeUp(w)
    BY <1>2, <2>3 DEF SetFlag, Notify, NotifyThen, TestFlag, InWait, WaitReturn, SpuriousWakeUp
  <2>4. CASE Iterate(w) \/ Locked(w) \/ Unlock(w)
    BY <1>1, <2>4, OptionIs DEF Iterate, RunIterations, Locked, Unlock, Position, RoundLabels
  <2> QED BY <2>1, <2>2, <2>3, <2>4 DEF WorkerMoves, WorkerStep
<1> QED BY <1>0, <1>2, <1>3, <1>4, <1>5, <1>6, <1>7 DEF MainIs, OwnTypes

\* What becomes of the flag.
LEMMA FlagStep ==
  ASSUME FlagType, NEW w \in Workers, WorkerMoves(w)
  PROVE  FlagType'
<1>1. all_start' \in {TRUE, FALSE, all_start}
  BY Zenon DEF WorkerMoves, WorkerStep, EnterBarrier, LeaveBarrier, Spin, Iterate, Finish,
         RunIterations, LockCall, Locked, CountRead, CountFrom, CountWrite, Unlock, Reset,
         ResetThen, SetFlag, Notify, NotifyThen, TestFlag, InWait, WaitReturn, SpuriousWakeUp,
         flagVars
<1> QED BY <1>1, Zenon DEF FlagType

-----------------------------------------------------------------------------
(* The steps of main.                                                      *)

\* A worker is created.
LEMMA MovesCreate ==
  ASSUME Moves, Create
  PROVE  Moves'
<1> USE TypeOKIs DEF Moves
<1>0. /\ created \in Workers /\ thr_cnt \in Nat \ {0} /\ created \in Nat /\ pc \in [Workers -> Labels]
      /\ created + 1 \in 0 .. thr_cnt /\ p.sync_type \in 0..2
  <2>1. /\ thr_cnt \in Nat \ {0} /\ p.sync_type \in 0..2
        /\ created \in 0 .. thr_cnt /\ pc \in [Workers -> Labels]
    BY OptionIs DEF OwnTypes
  <2>2. created < thr_cnt
    BY DEF Create, MainIs
  <2> QED BY <2>1, <2>2 DEF Workers
<1>1. /\ UNCHANGED <<p, all_start, flag_round, spurious, critical_counter, read, trials_done, worked,
                     round, entered, left, owner, asking, inside, waiting, due>>
      /\ main = "create" /\ main' = (IF created + 1 = thr_cnt THEN "start" ELSE "create")
      /\ created' = created + 1 /\ pc' = [pc EXCEPT ![created] = "b_start"]
  BY DEF Create, flagVars, workVars, barrierVars, condVars
<1>2. OwnTypes'
  BY <1>0, <1>1 DEF OwnTypes, Labels, Sites
<1>3. FlagType' /\ LockTypes' /\ Together'
  BY <1>1 DEF FlagType, LockTypes, Together
<1>4. Owned'
  BY <1>0, <1>1 DEF Owned
<1>5. Positions'
  <2> SUFFICES ASSUME NEW u \in Workers PROVE Position(u)'
    BY DEF Positions
  <2>1. CASE u = created
    <3>1. pc[u] = "new" /\ round[u] = 0 /\ left[u] = 0 /\ entered[u] = 0
      BY <1>0, <1>1, <2>1 DEF Positions, Position, MainIs, Passed, Sites
    <3>2. pc'[u] = "b_start" /\ round'[u] = 0 /\ left'[u] = 0 /\ entered'[u] = 0 /\ p' = p
      BY <1>0, <1>1, <2>1, <3>1
    <3> QED BY <1>0, <3>2 DEF Position, Passed, Sites, RoundLabels
  <2>2. CASE u # created
    BY <1>0, <1>1, <2>2, PositionKept DEF Positions
  <2> QED BY <2>1, <2>2
<1>6. MainIs'
  BY <1>0, <1>1 DEF MainIs, Workers
<1> QED BY <1>2, <1>3, <1>4, <1>5, <1>6

\* err() ends the process.
LEMMA MovesCreateFails ==
  ASSUME Moves, CreateFails
  PROVE  Moves'
<1> USE TypeOKIs DEF Moves
<1>1. /\ UNCHANGED <<p, created, all_start, flag_round, spurious, critical_counter, read, trials_done,
                     worked, round, entered, left, owner, asking, inside, waiting, due>>
      /\ main = "create" /\ main' = "failed" /\ pc' = [w \in Workers |-> "killed"]
  BY DEF CreateFails, flagVars, workVars, barrierVars, condVars
<1>2. OwnTypes'
  BY <1>1 DEF OwnTypes, Labels
<1>3. FlagType' /\ LockTypes' /\ Together'
  BY <1>1 DEF FlagType, LockTypes, Together
<1>4. Owned'
  BY <1>1 DEF Owned
<1>5. Positions'
  <2> SUFFICES ASSUME NEW u \in Workers PROVE Position(u)'
    BY DEF Positions
  <2>1. round[u] = 0
    BY <1>1 DEF MainIs, Positions, Position
  <2>2. p.sync_type \in 0..2
    BY OptionIs DEF OwnTypes
  <2> QED BY <1>1, <2>1, <2>2 DEF Position, RoundLabels, Sites
<1>6. MainIs'
  BY <1>1 DEF MainIs
<1> QED BY <1>2, <1>3, <1>4, <1>5, <1>6

\* main sets the flag, joins the workers, or nothing happens.
LEMMA MovesStart ==
  ASSUME Moves, Start \/ Join \/ UNCHANGED vars
  PROVE  Moves'
<1> USE TypeOKIs DEF Moves
<1>1. UNCHANGED <<p, created, pc, flag_round, spurious, critical_counter, read, trials_done, worked,
                  round, entered, left, owner, asking, inside, waiting, due>>
  BY DEF Start, Join, vars, mainVars, flagVars, workVars, barrierVars, condVars
<1>2. main' \in {"create", "start", "join", "report", "failed"}
  BY DEF Start, Join, vars, mainVars, OwnTypes
<1>3. OwnTypes' /\ LockTypes' /\ Owned' /\ Together'
  BY <1>1, <1>2 DEF OwnTypes, LockTypes, Owned, Together
<1>4. FlagType'
  BY Zenon DEF FlagType, Start, Join, vars, flagVars
<1>5. Positions'
  BY <1>1, PositionKept DEF Positions
<1>6. MainIs'
  BY <1>1 DEF MainIs, Start, Join, vars, mainVars, flagVars
<1> QED BY <1>3, <1>4, <1>5, <1>6

\* Every step keeps Moves.
LEMMA MovesStep == Moves /\ [Next]_vars => Moves'
<1> SUFFICES ASSUME Moves, [Next]_vars PROVE Moves'
  OBVIOUS
<1>1. ASSUME NEW w \in Workers, WorkerMoves(w) PROVE Moves'
  <2>1. OwnTypes /\ FlagType /\ LockTypes /\ Owned /\ Positions /\ Together /\ MainIs /\ Position(w)
    BY TypeOKIs DEF Moves, Positions
  <2>2. OwnTypes' /\ LockTypes' /\ Owned' /\ Together' /\ MainIs' /\ Position(w)'
    BY <1>1, <2>1, OwnTypesStep, LockTypesStep, OwnedStep, TogetherStep, MainIsStep, PositionStep
  <2>3. Positions'
    BY <1>1, <2>1, <2>2, PositionKept, OthersStay DEF Positions, mainVars
  <2>4. FlagType'
    BY <1>1, <2>1, FlagStep
  <2> QED BY <2>2, <2>3, <2>4, TypeOKIs DEF Moves
<1> QED BY <1>1, MovesCreate, MovesCreateFails, MovesStart
        DEF Next, MainStep, Ended, WorkerMoves

-----------------------------------------------------------------------------
(* Who is where.                                                           *)

\* As long as one worker lives, all do.
LEMMA NoneKilled ==
  ASSUME OwnTypes, MainIs, NEW w \in Workers, pc[w] # "killed"
  PROVE  \A u \in Workers : pc[u] # "killed"
BY DEF OwnTypes, MainIs

\* The workers in one wait have called it from the same place.
LEMMA SiteIsSame == Moves => SameSite
<1> SUFFICES ASSUME Moves, NEW u \in Workers, NEW w \in Workers, entered[u] = entered[w],
                    entered[u] > left[u], entered[w] > left[w]
             PROVE  pc[u] = pc[w] /\ round[u] = round[w]
  BY DEF SameSite
<1> USE TypeOKIs DEF Moves
<1>0. /\ p.sync_type \in 0..2 /\ Position(u) /\ Position(w)
      /\ round[u] \in Nat /\ round[w] \in Nat /\ left[u] \in Nat /\ left[w] \in Nat
      /\ entered[u] \in Nat /\ entered[w] \in Nat
  BY OptionIs DEF OwnTypes, LockTypes, Positions
<1>1. CASE pc[u] = "killed" \/ pc[w] = "killed"
  <2>1. pc[u] = "killed" /\ pc[w] = "killed"
    BY <1>1, NoneKilled
  <2> QED BY <1>0, <2>1 DEF Position
<1>2. CASE pc[u] # "killed" /\ pc[w] # "killed"
  <2>1. ASSUME NEW v \in Workers, Position(v), pc[v] # "killed", entered[v] > left[v],
               round[v] \in Nat, left[v] \in Nat, entered[v] \in Nat
        PROVE  /\ left[v] = entered[v] - 1
               /\ \/ pc[v] = "b_start" /\ round[v] = 0 /\ left[v] = 0
                  \/ /\ p.sync_type = 0 /\ pc[v] = "b_end"
                     /\ round[v] > 0 /\ left[v] = round[v]
                  \/ /\ p.sync_type = 1 /\ pc[v] = "b_mutex"
                     /\ round[v] > 0 /\ left[v] = round[v]
                  \/ /\ p.sync_type = 2 /\ round[v] > 0
                     /\ \/ pc[v] = "b_before" /\ left[v] = 3 * round[v] - 2
                        \/ pc[v] = "b_after" /\ left[v] = 3 * round[v] - 1
                        \/ pc[v] = "b_end" /\ left[v] = 3 * round[v]
    <3>1. pc[v] \in Sites /\ left[v] = Passed(v) /\ left[v] = entered[v] - 1
      BY <2>1 DEF Position
    <3> QED BY <1>0, <2>1, <3>1 DEF Position, Passed, PerRounds, RoundLabels, Sites
  <2>2. left[u] = left[w]
    BY <1>0, <1>2, <2>1
  <2>3. CASE p.sync_type # 2
    BY <1>0, <1>2, <2>1, <2>2, <2>3
  <2>4. CASE p.sync_type = 2
    <3> DEFINE At3(v) == \/ pc[v] = "b_start" /\ round[v] = 0 /\ left[v] = 0
                         \/ pc[v] = "b_before" /\ round[v] > 0 /\ left[v] = 3 * round[v] - 2
                         \/ pc[v] = "b_after" /\ round[v] > 0 /\ left[v] = 3 * round[v] - 1
                         \/ pc[v] = "b_end" /\ round[v] > 0 /\ left[v] = 3 * round[v]
    <3>1. At3(u) /\ At3(w)
      BY <1>0, <1>2, <2>1, <2>4
    <3> QED BY <1>0, <2>2, <3>1
  <2> QED BY <2>3, <2>4
<1> QED BY <1>1, <1>2

\* While a worker tests the flag, worker 0 is in the same round, past its reset.
LEMMA ZeroIs ==
  ASSUME Moves, p.sync_type = 2, NEW w \in Workers, pc[w] \in {"wait", "unlock"}
  PROVE  /\ 0 \in Workers /\ round[0] = round[w]
         /\ pc[0] \in {"b_after", "lock", "locked", "set", "unlock", "notify", "b_end"}
<1> USE TypeOKIs DEF Moves
<1>0. 0 \in Workers
  BY OptionIs DEF OwnTypes, Workers
<1>1. /\ Position(0) /\ Position(w)
      /\ round[0] \in Nat /\ round[w] \in Nat /\ left[0] \in Nat /\ left[w] \in Nat
      /\ entered[0] \in Nat /\ entered[w] \in Nat
      /\ left[0] <= entered[w] /\ left[w] <= entered[0]
  BY <1>0 DEF OwnTypes, LockTypes, Positions, Together
<1>2. left[w] = 3 * round[w] /\ entered[w] = 3 * round[w] /\ round[w] > 0
  BY <1>1 DEF Position, Passed, PerRounds, RoundLabels, Sites
<1>3. pc[0] # "killed"
  BY <1>0, NoneKilled
<1>4. left[0] = Passed(0) /\ (entered[0] = left[0] \/ (pc[0] \in Sites /\ entered[0] = left[0] + 1))
  BY <1>1, <1>3 DEF Position
<1>5. left[0] \in {3 * round[w] - 1, 3 * round[w]}
  BY <1>1, <1>2, <1>4
<1>6. pc[0] \in {"new", "b_start", "spin", "loop", "done"} \cup RoundLabels(2)
  BY <1>1, <1>3 DEF Position
<1>7. CASE pc[0] \in {"new", "b_start", "spin", "loop", "done"}
  BY <1>1, <1>2, <1>4, <1>5, <1>7 DEF Passed, PerRounds, Position, Sites
<1>8. CASE pc[0] \in {"b_before", "reset"}
  BY <1>1, <1>2, <1>4, <1>5, <1>8 DEF Passed, PerRounds, Sites
<1>9. CASE pc[0] \in {"b_after", "lock", "locked", "set", "wait", "in_wait", "unlock", "notify", "b_end"}
  BY <1>0, <1>1, <1>5, <1>4, <1>9 DEF Passed, PerRounds, Position, Sites
<1> QED BY <1>0, <1>6, <1>7, <1>8, <1>9 DEF RoundLabels

-----------------------------------------------------------------------------
(* The flag.                                                               *)

\* After its reset worker 0 finds the flag clear until it sets it, and from
\* then on to the end of its round the flag is of this round.
FlagIs ==
  p.sync_type = 2 =>
    /\ pc[0] \in {"b_after", "lock", "locked", "set"} => ~all_start
    /\ pc[0] \in {"unlock", "notify", "b_end"} => flag_round = round[0]
Flags == Moves /\ FlagIs /\ NoStaleFlag

\* What a step does to the flag, and when a worker comes to unlock.
LEMMA FlagChanges ==
  ASSUME Moves, p.sync_type = 2, NEW w \in Workers, WorkerMoves(w)
  PROVE  \/ /\ w = 0 /\ pc[w] = "reset" /\ pc'[w] = "b_after" /\ ~all_start'
            /\ flag_round' = flag_round
         \/ /\ w = 0 /\ pc[w] = "set" /\ pc'[w] = "unlock" /\ flag_round' = round[w]
            /\ round' = round
         \/ /\ UNCHANGED flag_round /\ (all_start' <=> all_start)
            /\ pc'[w] = "unlock" => pc[w] = "wait" /\ all_start /\ w # 0
            /\ w = 0 /\ pc'[w] \in {"b_after", "lock", "locked", "set"} =>
                 pc[w] \in {"b_after", "lock", "locked", "set"}
            /\ pc'[w] \in {"notify", "b_end"} =>
                 pc[w] \in {"unlock", "notify", "b_end"} /\ round' = round
<1>0. Position(w) /\ pc \in [Workers -> Labels]
  BY TypeOKIs DEF Moves, Positions, OwnTypes
<1>1. w = 0 \/ pc[w] # "set"
  BY <1>0 DEF Position
<1>2. pc[w] \in {"loop", "spin", "b_start", "b_before", "reset", "b_after", "lock", "locked", "set",
                 "wait", "in_wait", "unlock", "notify", "b_end", "new", "done", "killed"}
  BY <1>0 DEF Position, RoundLabels
<1> USE DEF Goto, flagVars, workVars
<1>3. CASE EnterBarrier(w) \/ LeaveBarrier(w)
  BY <1>0, <1>2, <1>3 DEF EnterBarrier, LeaveBarrier, Sites, After
<1>4. CASE Spin(w) \/ Iterate(w) \/ Finish(w)
  BY <1>0, <1>2, <1>4 DEF Spin, Iterate, RunIterations, Finish
<1>5. CASE LockCall(w) \/ Locked(w) \/ CountRead(w) \/ CountWrite(w)
  BY <1>0, <1>2, <1>5 DEF LockCall, Locked, CountRead, CountFrom, CountWrite
<1>6. CASE Unlock(w) \/ Notify(w)
  BY <1>0, <1>2, <1>6 DEF Unlock, Notify, NotifyThen
<1>7. CASE Reset(w)
  <2>1. /\ pc[w] = "reset" /\ pc'[w] = "b_after" /\ UNCHANGED flag_round
    BY <1>0, <1>7 DEF Reset, ResetThen
  <2>2. IF w = 0 THEN ~all_start' ELSE all_start' <=> all_start
    BY <1>7, Zenon DEF Reset, ResetThen
  <2> QED BY <2>1, <2>2
<1>8. CASE SetFlag(w)
  BY <1>0, <1>1, <1>8 DEF SetFlag
<1>9. CASE TestFlag(w)
  BY <1>0, <1>9 DEF TestFlag, Position
<1>10. CASE InWait(w) \/ WaitReturn(w) \/ SpuriousWakeUp(w)
  BY <1>0, <1>10 DEF InWait, GiveUp, WakeUp, TakeBack, WaitReturn, SpuriousWakeUp
<1> QED BY <1>3, <1>4, <1>5, <1>6, <1>7, <1>8, <1>9, <1>10 DEF WorkerMoves, WorkerStep

\* main sets the flag only before the first round, and nobody else is moved.
LEMMA FlagsMain ==
  ASSUME Flags, MainStep \/ CreateFails \/ UNCHANGED vars
  PROVE  FlagIs' /\ NoStaleFlag'
<1>0. 0 \in Workers /\ pc \in [Workers -> Labels] /\ p.sync_type \in 0..2
  BY TypeOKIs, OptionIs DEF Flags, Moves, OwnTypes, Workers
<1>1. CASE Create \/ CreateFails
  <2>1. /\ UNCHANGED <<p, flag_round, round>>
        /\ \A w \in Workers : pc'[w] \in {"new", "b_start", "killed"}
    BY <1>0, <1>1 DEF Create, CreateFails, flagVars, workVars, Flags, Moves, MainIs
  <2> QED BY <1>0, <2>1 DEF FlagIs, NoStaleFlag
<1>2. CASE Start
  <2>1. UNCHANGED <<p, flag_round, round, pc>> /\ pc[0] \in {"b_start", "spin"}
    BY <1>0, <1>2 DEF Start, workVars, Flags, Moves, MainIs
  <2> QED BY <1>0, <2>1 DEF Flags, FlagIs, NoStaleFlag
<1>3. CASE Join \/ UNCHANGED vars
  <2>1. UNCHANGED <<p, flag_round, round, pc>> /\ (all_start' <=> all_start)
    BY <1>3 DEF Join, vars, mainVars, flagVars, workVars
  <2> QED BY <1>0, <2>1 DEF Flags, FlagIs, NoStaleFlag
<1> QED BY <1>1, <1>2, <1>3 DEF MainStep

\* A worker that sees the flag, sees the one of its round.
LEMMA FlagsWorker ==
  ASSUME Flags, NEW w \in Workers, WorkerMoves(w)
  PROVE  FlagIs' /\ NoStaleFlag'
<1>0. /\ 0 \in Workers /\ Moves /\ p' = p
      /\ \A u \in Workers \ {w} : pc'[u] = pc[u] /\ round'[u] = round[u]
  BY TypeOKIs, OptionIs, OthersStay DEF Flags, Moves, OwnTypes, Workers, mainVars
<1>1. CASE p.sync_type # 2
  BY <1>0, <1>1 DEF FlagIs, NoStaleFlag
<1>2. CASE p.sync_type = 2
  <2>1. CASE w = 0 /\ pc[w] = "reset" /\ pc'[w] = "b_after" /\ ~all_start' /\ flag_round' = flag_round
    BY <1>0, <2>1 DEF Flags, FlagIs, NoStaleFlag
  <2>2. CASE w = 0 /\ pc[w] = "set" /\ pc'[w] = "unlock" /\ flag_round' = round[w] /\ round' = round
    <3>1. \A u \in Workers \ {0} : pc[u] = "unlock" => round[0] = round[u]
      BY <1>0, <1>2, ZeroIs
    <3> QED BY <1>0, <2>2, <3>1 DEF FlagIs, NoStaleFlag
  <2>3. CASE /\ UNCHANGED flag_round /\ (all_start' <=> all_start)
             /\ pc'[w] = "unlock" => pc[w] = "wait" /\ all_start /\ w # 0
             /\ w = 0 /\ pc'[w] \in {"b_after", "lock", "locked", "set"} =>
                  pc[w] \in {"b_after", "lock", "locked", "set"}
             /\ pc'[w] \in {"notify", "b_end"} =>
                  pc[w] \in {"unlock", "notify", "b_end"} /\ round' = round
    <3>1. FlagIs'
      <4>1. CASE w = 0
        BY <1>0, <1>2, <2>3, <4>1 DEF Flags, FlagIs
      <4>2. CASE w # 0
        BY <1>0, <1>2, <2>3, <4>2 DEF Flags, FlagIs
      <4> QED BY <4>1, <4>2
    <3>2. pc'[w] = "unlock" => flag_round = round[w] /\ round'[w] = round[w]
      <4> SUFFICES ASSUME pc'[w] = "unlock" PROVE flag_round = round[w] /\ round'[w] = round[w]
        OBVIOUS
      <4>1. pc[w] = "wait" /\ all_start
        BY <2>3
      <4>2. /\ round[0] = round[w]
            /\ pc[0] \in {"b_after", "lock", "locked", "set", "unlock", "notify", "b_end"}
        BY <1>0, <1>2, <4>1, ZeroIs
      <4>3. flag_round = round[0]
        BY <1>2, <4>1, <4>2 DEF Flags, FlagIs
      <4>4. round' = round
        BY <4>1 DEF WorkerMoves, WorkerStep, EnterBarrier, LeaveBarrier, Sites, Spin, Iterate, Finish,
          RunIterations, LockCall, Locked, CountRead, CountFrom, CountWrite, Unlock, Reset,
          ResetThen, SetFlag, Notify, NotifyThen, TestFlag, InWait, WaitReturn, SpuriousWakeUp, workVars
      <4> QED BY <4>2, <4>3, <4>4
    <3>3. NoStaleFlag'
      BY <1>0, <1>2, <2>3, <3>2 DEF Flags, NoStaleFlag
    <3> QED BY <3>1, <3>3
  <2> QED BY <1>0, <1>2, <2>1, <2>2, <2>3, FlagChanges
<1> QED BY <1>1, <1>2

\* Every step keeps Flags.
LEMMA FlagsStep == Flags /\ [Next]_vars => Flags'
<1> SUFFICES ASSUME Flags, [Next]_vars PROVE Flags'
  OBVIOUS
<1>1. Moves'
  BY MovesStep DEF Flags
<1>2. ASSUME NEW w \in Workers, WorkerMoves(w) PROVE FlagIs' /\ NoStaleFlag'
  BY <1>2, FlagsWorker
<1>3. ASSUME MainStep \/ CreateFails \/ UNCHANGED vars PROVE FlagIs' /\ NoStaleFlag'
  BY <1>3, FlagsMain
<1>4. FlagIs' /\ NoStaleFlag'
  BY <1>2, <1>3 DEF Next, Ended, WorkerMoves
<1> QED BY <1>1, <1>4 DEF Flags

\* They hold at first.
LEMMA FlagsInit == Init => Flags
<1> SUFFICES ASSUME Init PROVE Flags
  OBVIOUS
<1>1. Moves /\ 0 \in Workers
  BY MovesInit, OptionIs DEF Init, Workers
<1>2. \A w \in Workers : pc[w] = "new"
  BY DEF Init
<1> QED BY <1>1, <1>2 DEF Flags, FlagIs, NoStaleFlag

-----------------------------------------------------------------------------
(* The iterations.                                                         *)

\* One round more.
LEMMA Distribute ==
  ASSUME NEW a \in Nat, NEW b \in Nat
  PROVE  (a + 1) * b = a * b + b /\ a * b \in Nat
OBVIOUS

\* A worker has run what it has counted, and not more than its share; only in
\* its last round it counts more than it has run.
WorkIs ==
  \A w \in Workers :
    /\ trials_done[w] = round[w] * p.bar_iters
    /\ round[w] > 0 => trials_done[w] < thr_trials + p.bar_iters
    /\ worked[w] = (IF trials_done[w] <= thr_trials THEN trials_done[w] ELSE thr_trials)
                   + (IF pc[w] = "done" /\ w < extra_trials THEN 1 ELSE 0)
    /\ pc[w] = "done" => trials_done[w] >= thr_trials

\* What a step does to the counts of a worker.
LEMMA WorkSame ==
  ASSUME Moves, NEW w \in Workers, WorkerMoves(w)
  PROVE  \/ Iterate(w) \/ Finish(w)
         \/ /\ UNCHANGED <<trials_done, worked, round>> /\ pc[w] # "done" /\ pc'[w] # "done"
<1>0. Position(w) /\ pc \in [Workers -> Labels]
  BY TypeOKIs DEF Moves, Positions, OwnTypes
<1>1. p.sync_type \in 0..2
  BY TypeOKIs, OptionIs DEF Moves, OwnTypes
<1> USE DEF Goto, workVars
<1>2. CASE EnterBarrier(w) \/ LeaveBarrier(w)
  BY <1>0, <1>2 DEF EnterBarrier, LeaveBarrier, Sites, After
<1>3. CASE Spin(w) \/ LockCall(w) \/ CountRead(w) \/ CountWrite(w)
  BY <1>0, <1>3 DEF Spin, LockCall, CountRead, CountFrom, CountWrite
<1>4. CASE Locked(w) \/ Unlock(w)
  BY <1>0, <1>1, <1>4 DEF Locked, Unlock, Position, RoundLabels
<1>5. CASE Reset(w) \/ SetFlag(w) \/ Notify(w)
  BY <1>0, <1>5 DEF Reset, ResetThen, SetFlag, Notify, NotifyThen
<1>6. CASE TestFlag(w) \/ InWait(w) \/ WaitReturn(w) \/ SpuriousWakeUp(w)
  BY <1>0, <1>6 DEF TestFlag, InWait, GiveUp, WakeUp, TakeBack, WaitReturn, SpuriousWakeUp
<1> QED BY <1>2, <1>3, <1>4, <1>5, <1>6 DEF WorkerMoves, WorkerStep

\* Every step of a worker keeps WorkIs.
LEMMA WorkWorker ==
  ASSUME Moves, WorkIs, NEW w \in Workers, WorkerMoves(w)
  PROVE  WorkIs'
<1>0. /\ p' = p /\ thr_trials' = thr_trials /\ extra_trials' = extra_trials
      /\ p.bar_iters \in Nat \ {0} /\ p.sync_type \in 0..2 /\ thr_trials \in Nat /\ extra_trials \in Nat
      /\ trials_done \in [Workers -> Nat] /\ worked \in [Workers -> Nat] /\ round \in [Workers -> Nat]
      /\ pc \in [Workers -> Labels]
      /\ \A u \in Workers \ {w} : /\ pc'[u] = pc[u] /\ round'[u] = round[u]
                                  /\ trials_done'[u] = trials_done[u] /\ worked'[u] = worked[u]
  BY TypeOKIs, OptionIs, OthersStay DEF Moves, OwnTypes, mainVars, thr_trials, extra_trials
<1> HIDE DEF thr_trials, extra_trials
<1> SUFFICES /\ trials_done'[w] = round'[w] * p.bar_iters
             /\ round'[w] > 0 => trials_done'[w] < thr_trials + p.bar_iters
             /\ worked'[w] = (IF trials_done'[w] <= thr_trials THEN trials_done'[w] ELSE thr_trials)
                             + (IF pc'[w] = "done" /\ w < extra_trials THEN 1 ELSE 0)
             /\ pc'[w] = "done" => trials_done'[w] >= thr_trials
  BY <1>0 DEF WorkIs
<1>1. CASE Iterate(w)
  <2>1. /\ pc[w] = "loop" /\ trials_done[w] < thr_trials
        /\ worked'[w] = worked[w] + IF Remaining(w) >= p.bar_iters THEN p.bar_iters ELSE Remaining(w)
        /\ trials_done'[w] = trials_done[w] + p.bar_iters /\ round'[w] = round[w] + 1
        /\ pc'[w] # "done"
    BY <1>0, <1>1 DEF Iterate, RunIterations, Goto
  <2>2. round'[w] * p.bar_iters = round[w] * p.bar_iters + p.bar_iters
    BY <1>0, <2>1, Distribute
  <2>3. trials_done[w] = round[w] * p.bar_iters /\ worked[w] = trials_done[w]
    BY <1>0, <2>1 DEF WorkIs
  <2>4. trials_done'[w] = round'[w] * p.bar_iters
    BY <2>1, <2>2, <2>3
  <2>5. worked'[w] = IF trials_done'[w] <= thr_trials THEN trials_done'[w] ELSE thr_trials
    BY <1>0, <2>1, <2>3 DEF Remaining
  <2> QED BY <1>0, <2>1, <2>4, <2>5
<1>2. CASE Finish(w)
  <2>1. /\ pc[w] = "loop" /\ trials_done[w] >= thr_trials /\ pc'[w] = "done"
        /\ worked'[w] = worked[w] + IF w < extra_trials THEN 1 ELSE 0
        /\ UNCHANGED <<trials_done, round>>
    BY <1>0, <1>2 DEF Finish, Goto
  <2> QED BY <1>0, <2>1 DEF WorkIs
<1>3. CASE UNCHANGED <<trials_done, worked, round>> /\ pc[w] # "done" /\ pc'[w] # "done"
  BY <1>0, <1>3 DEF WorkIs
<1> QED BY <1>1, <1>2, <1>3, WorkSame

\* The quotient is the only number between these bounds.
LEMMA DivideIs ==
  ASSUME NEW a \in Nat, NEW b \in Nat \ {0}, NEW r \in Nat, r * b <= a, a < (r + 1) * b
  PROVE  a \div b = r
<1> DEFINE q == a \div b
<1>1. q \in Nat /\ q * b <= a /\ a < (q + 1) * b
  <2>1. q \in Nat /\ a % b \in 0 .. b - 1 /\ a = (b * q) + (a % b)
    OBVIOUS
  <2> HIDE DEF q
  <2>2. (q + 1) * b = q * b + b /\ b * q = q * b
    BY <2>1, Distribute
  <2> QED BY <2>1, <2>2
<1> HIDE DEF q
<1>2. \A i, j \in Nat : i < j => (i + 1) * b <= j * b
  OBVIOUS
<1>3. ~(q < r) /\ ~(r < q)
  BY <1>1, <1>2
<1>4. q = r
  BY <1>1, <1>3
<1> QED BY <1>4 DEF q

\* main keeps it, and every step does.
LEMMA WorkMain ==
  ASSUME Moves, WorkIs, MainStep \/ CreateFails \/ UNCHANGED vars
  PROVE  WorkIs'
<1>1. /\ UNCHANGED <<p, trials_done, worked, round>>
      /\ \A w \in Workers : pc'[w] = "done" <=> pc[w] = "done"
  <2>1. CASE Create \/ CreateFails
    BY <2>1, TypeOKIs DEF Create, CreateFails, workVars, Moves, MainIs, OwnTypes
  <2>2. CASE Start \/ Join \/ UNCHANGED vars
    BY <2>2 DEF Start, Join, vars, mainVars, workVars
  <2> QED BY <2>1, <2>2 DEF MainStep
<1>2. thr_trials' = thr_trials /\ extra_trials' = extra_trials
  BY <1>1 DEF thr_trials, extra_trials
<1> QED BY <1>1, <1>2 DEF WorkIs

Works == Moves /\ WorkIs

\* The iterations are counted from nothing, and every step keeps the account.
LEMMA WorksHolds == Spec => []Works
<1>1. Init => Works
  <2> SUFFICES ASSUME Init PROVE Works
    OBVIOUS
  <2>1. Moves
    BY MovesInit
  <2>2. p.bar_iters \in Nat \ {0} /\ thr_trials \in Nat
    BY OptionIs DEF Init
  <2>3. 0 * p.bar_iters = 0
    BY <2>2
  <2>4. WorkIs
    BY <2>2, <2>3 DEF Init, WorkIs
  <2> QED BY <2>1, <2>4 DEF Works
<1>2. Works /\ [Next]_vars => Works'
  <2> SUFFICES ASSUME Works, [Next]_vars PROVE Works'
    OBVIOUS
  <2>1. ASSUME NEW w \in Workers, WorkerMoves(w) PROVE WorkIs'
    BY <2>1, WorkWorker DEF Works
  <2>2. WorkIs'
    BY <2>1, WorkMain DEF Works, Next, Ended, WorkerMoves
  <2> QED BY <2>2, MovesStep DEF Works
<1> QED BY <1>1, <1>2, PTL DEF Spec

\* The rounds of a worker that has run its share.
LEMMA RoundsAre ==
  ASSUME Works, NEW w \in Workers, pc[w] = "done"
  PROVE  round[w] = (thr_trials + p.bar_iters - 1) \div p.bar_iters
<1> DEFINE r == round[w]
           b == p.bar_iters
           T == thr_trials
<1>1. r \in Nat /\ b \in Nat \ {0} /\ T \in Nat
  BY TypeOKIs, OptionIs DEF Works, Moves, OwnTypes
<1>2. r * b >= T /\ (r > 0 => r * b < T + b)
  BY DEF Works, WorkIs
<1> HIDE DEF r, b, T
<1>3. r * b <= T + b - 1
  BY <1>1, <1>2
<1>4. (r + 1) * b > T + b - 1
  BY <1>1, <1>2, Distribute
<1>5. (T + b - 1) \div b = r
  BY <1>1, <1>3, <1>4, DivideIs
<1> QED BY <1>5 DEF r, b, T

-----------------------------------------------------------------------------
(* The counter of the critical section.                                    *)

\* How many times w has counted, and the workers that have done so k times.
Counted(w) ==
  IF pc[w] \in {"lock", "locked", "count", "counting"} THEN round[w] - 1 ELSE round[w]
CountedTo(k) == {w \in Workers : Counted(w) = k}

\* The counter holds k counts of every worker, and one more of those ahead.
CountIs(k) ==
  /\ \A w \in Workers : Counted(w) \in {k, k + 1}
  /\ critical_counter = thr_cnt * k + Cardinality(CountedTo(k + 1))
Counter ==
  p.sync_type = 1 =>
    /\ \A w \in Workers : pc[w] = "counting" => read[w] = critical_counter
    /\ \E k \in Nat : CountIs(k)
Counting == Moves /\ Counter

\* The workers can be counted.
LEMMA WorkersAre ==
  ASSUME p \in Options
  PROVE  /\ IsFiniteSet(Workers) /\ Cardinality(Workers) = thr_cnt
         /\ \A S \in SUBSET Workers : IsFiniteSet(S) /\ Cardinality(S) \in Nat
<1>1. thr_cnt \in Nat \ {0}
  BY OptionIs
<1>2. IsFiniteSet(Workers) /\ Cardinality(Workers) = thr_cnt
  <2>1. 0 \in Int /\ thr_cnt - 1 \in Int /\ ~(0 > thr_cnt - 1)
    BY <1>1
  <2>2. Cardinality(Workers) = (thr_cnt - 1) - 0 + 1 /\ IsFiniteSet(Workers)
    BY <2>1, FS_Interval DEF Workers
  <2> QED BY <1>1, <2>2
<1> QED BY <1>2, FS_Subset, FS_CardinalityType

\* When all have counted k + 1 times, nobody is ahead of that.
LEMMA CountsRound ==
  ASSUME p \in Options, NEW k \in Nat, CountIs(k), \A w \in Workers : Counted(w) = k + 1
  PROVE  CountIs(k + 1)
<1>1. thr_cnt \in Nat
  BY OptionIs
<1>2. CountedTo(k + 1) = Workers /\ CountedTo(k + 2) = {}
  BY DEF CountedTo
<1>3. critical_counter = thr_cnt * k + thr_cnt
  BY <1>2, WorkersAre DEF CountIs
<1>4. thr_cnt * (k + 1) = thr_cnt * k + thr_cnt /\ thr_cnt * (k + 1) \in Nat
  BY <1>1
<1>5. critical_counter = thr_cnt * (k + 1) + Cardinality(CountedTo(k + 2))
  BY <1>2, <1>3, <1>4, FS_EmptySet
<1>6. (k + 1) + 1 = k + 2
  OBVIOUS
<1> QED BY <1>5, <1>6 DEF CountIs

\* While a worker counts in its round, the others have counted in the round
\* before, or in this one.
LEMMA CountTogether ==
  ASSUME Moves, p.sync_type = 1, NEW w \in Workers, pc[w] = "counting", NEW u \in Workers
  PROVE  /\ Counted(w) = round[w] - 1 /\ round[w] \in Nat \ {0}
         /\ Counted(u) \in {round[w] - 1, round[w]}
<1> USE TypeOKIs DEF Moves
<1>1. /\ Position(u) /\ Position(w)
      /\ round[u] \in Nat /\ round[w] \in Nat /\ left[u] \in Nat /\ left[w] \in Nat
      /\ entered[u] \in Nat /\ entered[w] \in Nat
      /\ left[u] <= entered[w] /\ left[w] <= entered[u] /\ pc[u] # "killed"
  BY NoneKilled DEF OwnTypes, LockTypes, Positions, Together
<1>2. left[w] = round[w] /\ entered[w] = round[w] /\ round[w] > 0
  BY <1>1 DEF Position, Passed, PerRounds, RoundLabels, Sites
<1>3. left[u] = Passed(u) /\ (entered[u] = left[u] \/ (pc[u] \in Sites /\ entered[u] = left[u] + 1))
  BY <1>1 DEF Position
<1>4. left[u] \in {round[w] - 1, round[w]} /\ (left[u] = round[w] - 1 => pc[u] \in Sites)
  BY <1>1, <1>2, <1>3
<1>5. pc[u] \in {"new", "b_start", "spin", "loop", "done"} \cup RoundLabels(1)
  BY <1>1 DEF Position
<1>6. CASE pc[u] \in {"new", "b_start", "spin"}
  BY <1>1, <1>2, <1>3, <1>4, <1>6 DEF Counted, Passed, Position, Sites
<1>7. CASE pc[u] \in {"loop", "done"}
  BY <1>1, <1>2, <1>3, <1>4, <1>7 DEF Counted, Passed, PerRounds, Sites
<1>8. CASE pc[u] \in RoundLabels(1)
  BY <1>1, <1>2, <1>3, <1>4, <1>8 DEF Counted, Passed, PerRounds, RoundLabels, Sites
<1> QED BY <1>2, <1>5, <1>6, <1>7, <1>8 DEF Counted

\* What the steps of a worker do to its count.
LEMMA CountSame ==
  ASSUME Moves, p.sync_type = 1, NEW w \in Workers, WorkerMoves(w)
  PROVE  \/ CountWrite(w)
         \/ /\ critical_counter' = critical_counter /\ Counted(w)' = Counted(w)
            /\ pc'[w] = "counting" => read'[w] = critical_counter
<1>0. /\ Position(w) /\ pc \in [Workers -> Labels] /\ round \in [Workers -> Nat]
      /\ read \in [Workers -> Nat]
  BY TypeOKIs DEF Moves, Positions, OwnTypes
<1>1. /\ pc[w] # "reset" /\ pc[w] # "set" /\ pc[w] # "notify" /\ pc[w] # "wait" /\ pc[w] # "in_wait"
      /\ pc[w] # "b_after"
  BY <1>0 DEF Position, RoundLabels
<1> USE DEF Goto, workVars, Counted
<1>2. CASE EnterBarrier(w) \/ LeaveBarrier(w)
  BY <1>0, <1>1, <1>2 DEF EnterBarrier, LeaveBarrier, Sites, After
<1>3. CASE Spin(w) \/ Finish(w) \/ LockCall(w) \/ CountRead(w)
  BY <1>0, <1>3 DEF Spin, Finish, LockCall, CountRead, CountFrom
<1>4. CASE Locked(w) \/ Unlock(w)
  BY <1>0, <1>4 DEF Locked, Unlock
<1>5. CASE Iterate(w)
  BY <1>0, <1>5 DEF Iterate, RunIterations
<1>6. CASE Reset(w) \/ SetFlag(w) \/ Notify(w) \/ TestFlag(w) \/ InWait(w) \/ WaitReturn(w)
           \/ SpuriousWakeUp(w)
  BY <1>1, <1>6 DEF Reset, ResetThen, SetFlag, Notify, NotifyThen, TestFlag, InWait, GiveUp,
                    WakeUp, TakeBack, WaitReturn, SpuriousWakeUp
<1> QED BY <1>2, <1>3, <1>4, <1>5, <1>6 DEF WorkerMoves, WorkerStep

\* A count is not lost, and the counter keeps up with the workers.
LEMMA CounterWorker ==
  ASSUME Counting, NEW w \in Workers, WorkerMoves(w)
  PROVE  Counter'
<1>0. /\ Moves /\ p' = p /\ p \in Options /\ thr_cnt \in Nat \ {0}
      /\ \A u \in Workers \ {w} : pc'[u] = pc[u] /\ round'[u] = round[u] /\ read'[u] = read[u]
      /\ pc \in [Workers -> Labels] /\ round \in [Workers -> Nat] /\ critical_counter \in Nat
  BY TypeOKIs, OptionIs, OthersStay DEF Counting, Moves, OwnTypes, mainVars
<1> SUFFICES ASSUME p.sync_type = 1 PROVE Counter'
  BY <1>0 DEF Counter
<1>1. \A u \in Workers \ {w} : Counted(u)' = Counted(u)
  BY <1>0 DEF Counted
<1>2. ASSUME ~CountWrite(w) PROVE Counter'
  <2>1. /\ critical_counter' = critical_counter /\ Counted(w)' = Counted(w)
        /\ pc'[w] = "counting" => read'[w] = critical_counter
    BY <1>0, <1>2, CountSame
  <2>2. \A u \in Workers : Counted(u)' = Counted(u)
    BY <1>1, <2>1
  <2>3. \A u \in Workers : pc'[u] = "counting" => read'[u] = critical_counter'
    BY <1>0, <2>1 DEF Counting, Counter
  <2>4. ASSUME NEW k \in Nat, CountIs(k) PROVE CountIs(k)'
    BY <2>1, <2>2, <2>4 DEF CountIs, CountedTo
  <2> QED BY <1>0, <2>3, <2>4 DEF Counting, Counter
<1>3. CASE CountWrite(w)
  <2>1. /\ pc[w] = "counting" /\ pc'[w] = "unlock" /\ critical_counter' = read[w] + 1
        /\ UNCHANGED round
    BY <1>0, <1>3 DEF CountWrite, Goto
  <2>2. critical_counter' = critical_counter + 1
    BY <2>1 DEF Counting, Counter
  <2>3. \A u \in Workers \ {w} : pc[u] # "counting"
    <3>1. owner = {w}
      BY <1>0, <2>1, TypeOKIs DEF Moves, Owned
    <3> QED BY <1>0, <3>1, TypeOKIs DEF Moves, Owned
  <2>4. \A u \in Workers : pc'[u] # "counting"
    BY <1>0, <2>1, <2>3
  <2>0. round[w] - 1 \in Nat
    BY <1>0, <2>1, CountTogether
  <2> PICK k \in Nat : k = round[w] - 1
    BY <2>0
  <2>5. k \in Nat /\ Counted(w) = k /\ Counted(w)' = k + 1
        /\ \A u \in Workers : Counted(u) \in {k, k + 1}
    <3>1. round[w] \in Nat \ {0} /\ \A u \in Workers : Counted(u) \in {round[w] - 1, round[w]}
      BY <1>0, <2>1, CountTogether
    <3>2. Counted(w) = round[w] - 1 /\ Counted(w)' = round[w]
      BY <2>1 DEF Counted
    <3> QED BY <3>1, <3>2
  <2>6. CountIs(k)
    <3> PICK j \in Nat : CountIs(j)
      BY DEF Counting, Counter
    <3>1. k \in {j, j + 1}
      BY <2>5 DEF CountIs
    <3>2. CASE k = j + 1
      <4>1. \A u \in Workers : Counted(u) = j + 1
        BY <2>5, <3>2 DEF CountIs
      <4> QED BY <1>0, <3>2, <4>1, CountsRound
    <3> QED BY <3>1, <3>2
  <2>7. CountedTo(k + 1)' = CountedTo(k + 1) \cup {w} /\ w \notin CountedTo(k + 1)
    BY <1>1, <2>5 DEF CountedTo
  <2>8. Cardinality(CountedTo(k + 1)') = Cardinality(CountedTo(k + 1)) + 1
        /\ Cardinality(CountedTo(k + 1)) \in Nat
    <3>1. CountedTo(k + 1) \in SUBSET Workers
      BY DEF CountedTo
    <3>2. IsFiniteSet(CountedTo(k + 1)) /\ Cardinality(CountedTo(k + 1)) \in Nat
      BY <1>0, <3>1, WorkersAre
    <3> QED BY <2>7, <3>2, FS_AddElement
  <2>9. critical_counter' = thr_cnt * k + Cardinality(CountedTo(k + 1)')
    <3>1. thr_cnt * k \in Nat
      BY <1>0, <2>5
    <3> QED BY <2>2, <2>6, <2>8, <3>1 DEF CountIs
  <2>10. \A u \in Workers : Counted(u)' \in {k, k + 1}
    BY <1>1, <2>5
  <2>11. \E j \in Nat : CountIs(j)'
    BY <2>9, <2>10 DEF CountIs
  <2> QED BY <1>0, <2>4, <2>11 DEF Counter
<1> QED BY <1>2, <1>3

-----------------------------------------------------------------------------
(* The iterations of all workers.                                          *)

\* A sum over a finite set is h of that set, if h is 0 of none and grows by
\* g with each element: a least set where it is not would have no element.
LEMMA SumIs ==
  ASSUME NEW S, IsFiniteSet(S), NEW g \in [S -> Nat], NEW h \in [SUBSET S -> Nat], h[{}] = 0,
         \A T \in SUBSET S : \A x \in T : h[T] = g[x] + h[T \ {x}]
  PROVE  MapThenSumSet(LAMBDA x : g[x], S) = h[S]
<1> DEFINE Sum(f) == [s \in SUBSET S |-> IF s = {} THEN 0
                                         ELSE LET x == CHOOSE x \in s : TRUE IN g[x] + f[s \ {x}]]
           iter == CHOOSE f : f = Sum(f)
<1>1. h = Sum(h)
  <2>1. ASSUME NEW s \in SUBSET S PROVE h[s] = Sum(h)[s]
    <3>1. CASE s = {}
      BY <3>1
    <3>2. CASE s # {}
      BY <3>2
    <3> QED BY <3>1, <3>2
  <2> QED BY <2>1
<1>2. iter = Sum(iter)
  <2> HIDE DEF Sum
  <2>1. \E f : f = Sum(f)
    BY <1>1
  <2> QED BY <2>1
<1>3. MapThenSumSet(LAMBDA x : g[x], S) = iter[S]
  BY DEF MapThenSumSet, MapThenFoldSet
<1> HIDE DEF iter
<1>4. iter[S] = h[S]
  <2> DEFINE Bad == {T \in SUBSET S : iter[T] # h[T]}
             R == StrictSubsetOrdering(S)
  <2>1. IsWellFoundedOn(R, SUBSET S)
    BY FS_StrictSubsetOrderingWellFounded, FS_FiniteSubsetsOfFinite
  <2>2. ASSUME Bad # {} PROVE FALSE
    <3>1. Bad \subseteq SUBSET S
      OBVIOUS
    <3> HIDE DEF Bad, R
    <3>2. PICK T \in Bad : \A U \in Bad : ~(<<U, T>> \in R)
      BY <2>1, <2>2, <3>1, WFMin
    <3>3. T \in SUBSET S /\ iter[T] # h[T]
      BY DEF Bad
    <3>4. ASSUME NEW x \in T PROVE iter[T \ {x}] = h[T \ {x}]
      <4>1. <<T \ {x}, T>> \in R
        BY <3>3 DEF R, StrictSubsetOrdering
      <4> QED BY <3>2, <3>3, <4>1 DEF Bad
    <3>5. CASE T = {}
      BY <1>2, <3>3, <3>5
    <3>6. CASE T # {}
      <4> DEFINE x == CHOOSE x \in T : TRUE
      <4>1. x \in T
        BY <3>6
      <4>2. iter[T] = g[x] + iter[T \ {x}]
        BY <1>2, <3>3, <3>6
      <4> QED BY <3>3, <3>4, <4>1, <4>2
    <3> QED BY <3>5, <3>6
  <2> QED BY <2>2
<1> QED BY <1>3, <1>4

\* The workers that run one more iteration.
Extra == {w \in Workers : w < extra_trials}

\* There are extra_trials of them, and the shares add up.
LEMMA SharesAddUp ==
  ASSUME p \in Options
  PROVE  Cardinality(Extra) = extra_trials /\ p.total_iters = thr_cnt * thr_trials + extra_trials
<1>1. thr_cnt \in Nat \ {0} /\ p.total_iters \in Nat /\ extra_trials \in Nat
  BY OptionIs
<1>2. extra_trials \in 0 .. thr_cnt - 1
  BY <1>1 DEF extra_trials
<1>3. p.total_iters = thr_cnt * thr_trials + extra_trials
  BY <1>1 DEF thr_trials, extra_trials
<1>4. Extra = 0 .. extra_trials - 1
  BY <1>1, <1>2 DEF Extra, Workers
<1>5. Cardinality(0 .. extra_trials - 1) = extra_trials
  <2>1. 0 \in Int /\ extra_trials - 1 \in Int
    BY <1>1
  <2>2. Cardinality(0 .. extra_trials - 1)
          = IF 0 > extra_trials - 1 THEN 0 ELSE (extra_trials - 1) - 0 + 1
    BY <2>1, FS_Interval
  <2> QED BY <1>1, <2>2
<1> QED BY <1>3, <1>4, <1>5

\* When each has run its share, all iterations have been run.
LEMMA SharesAreAll ==
  ASSUME p \in Options, worked \in [Workers -> Nat],
         \A w \in Workers : worked[w] = thr_trials + IF w < extra_trials THEN 1 ELSE 0
  PROVE  MapThenSumSet(LAMBDA w : worked[w], Workers) = p.total_iters
<1> DEFINE h == [T \in SUBSET Workers |-> thr_trials * Cardinality(T) + Cardinality(T \cap Extra)]
<1>0. /\ thr_trials \in Nat /\ extra_trials \in Nat /\ thr_cnt \in Nat \ {0}
      /\ IsFiniteSet(Workers) /\ Cardinality(Workers) = thr_cnt
      /\ \A T \in SUBSET Workers : IsFiniteSet(T) /\ Cardinality(T) \in Nat
      /\ Cardinality({}) = 0
  BY OptionIs, WorkersAre, FS_EmptySet
<1> HIDE DEF thr_trials, extra_trials
<1>1. h \in [SUBSET Workers -> Nat]
  <2>1. ASSUME NEW T \in SUBSET Workers
        PROVE  thr_trials * Cardinality(T) + Cardinality(T \cap Extra) \in Nat
    BY <1>0
  <2> QED BY <2>1
<1>2. h[{}] = 0
  <2>1. h[{}] = thr_trials * Cardinality({}) + Cardinality({} \cap Extra)
    OBVIOUS
  <2> QED BY <1>0, <2>1
<1>3. ASSUME NEW T \in SUBSET Workers, NEW w \in T
      PROVE  h[T] = worked[w] + h[T \ {w}]
  <2> DEFINE n == Cardinality(T \ {w})
             m == Cardinality((T \ {w}) \cap Extra)
  <2>1. n \in Nat /\ m \in Nat /\ IsFiniteSet(T \ {w}) /\ IsFiniteSet((T \ {w}) \cap Extra)
    BY <1>0
  <2>2. Cardinality(T) = n + 1
    <3>1. (T \ {w}) \cup {w} = T
      OBVIOUS
    <3> QED BY <2>1, <3>1, FS_AddElement
  <2>3. Cardinality(T \cap Extra) = m + IF w < extra_trials THEN 1 ELSE 0
    <3>1. CASE w < extra_trials
      <4>1. ((T \ {w}) \cap Extra) \cup {w} = T \cap Extra /\ w \notin (T \ {w}) \cap Extra
        BY <3>1 DEF Extra
      <4> QED BY <2>1, <3>1, <4>1, FS_AddElement
    <3>2. CASE ~(w < extra_trials)
      <4>1. (T \ {w}) \cap Extra = T \cap Extra
        BY <3>2 DEF Extra
      <4> QED BY <2>1, <3>2, <4>1
    <3> QED BY <3>1, <3>2
  <2>4. /\ h[T] = thr_trials * Cardinality(T) + Cardinality(T \cap Extra)
        /\ h[T \ {w}] = thr_trials * n + m
    BY <1>3
  <2> HIDE DEF n, m, h
  <2>5. thr_trials * (n + 1) = thr_trials * n + thr_trials /\ thr_trials * n \in Nat
    BY <1>0, <2>1
  <2>6. worked[w] = thr_trials + IF w < extra_trials THEN 1 ELSE 0
    OBVIOUS
  <2> QED BY <1>0, <2>1, <2>2, <2>3, <2>4, <2>5, <2>6
<1>4. h[Workers] = p.total_iters
  <2>1. h[Workers] = thr_trials * thr_cnt + Cardinality(Workers \cap Extra)
    BY <1>0
  <2>2. Workers \cap Extra = Extra /\ thr_trials * thr_cnt = thr_cnt * thr_trials
    BY <1>0 DEF Extra
  <2> QED BY <2>1, <2>2, SharesAddUp
<1> HIDE DEF h
<1> QED BY <1>0, <1>1, <1>2, <1>3, <1>4, SumIs

\* main does not count.
LEMMA CounterMain ==
  ASSUME Counting, MainStep \/ CreateFails \/ UNCHANGED vars
  PROVE  Counter'
<1>1. /\ UNCHANGED <<p, critical_counter, read>>
      /\ \A w \in Workers : Counted(w)' = Counted(w) /\ (pc'[w] = "counting" => pc[w] = "counting")
  <2>1. CASE Create \/ CreateFails
    BY <2>1, TypeOKIs DEF Create, CreateFails, workVars, Counting, Moves, MainIs, OwnTypes, Counted
  <2>2. CASE Start \/ Join \/ UNCHANGED vars
    BY <2>2 DEF Start, Join, vars, mainVars, workVars, Counted
  <2> QED BY <2>1, <2>2 DEF MainStep
<1>2. ASSUME NEW k \in Nat, CountIs(k) PROVE CountIs(k)'
  BY <1>1, <1>2 DEF CountIs, CountedTo
<1> QED BY <1>1, <1>2 DEF Counting, Counter

\* The counter counts from nothing.
LEMMA CountingHolds == Spec => []Counting
<1>1. Init => Counting
  <2> SUFFICES ASSUME Init PROVE Counting
    OBVIOUS
  <2>1. Moves /\ p \in Options /\ thr_cnt \in Nat
    BY MovesInit, OptionIs DEF Init
  <2>2. critical_counter = 0 /\ \A w \in Workers : pc[w] = "new" /\ Counted(w) = 0
    BY DEF Init, Counted
  <2>3. CountedTo(0 + 1) = {} /\ thr_cnt * 0 = 0
    BY <2>1, <2>2 DEF CountedTo
  <2>4. CountIs(0)
    BY <2>2, <2>3, FS_EmptySet DEF CountIs
  <2> QED BY <2>1, <2>2, <2>4 DEF Counting, Counter
<1>2. Counting /\ [Next]_vars => Counting'
  <2> SUFFICES ASSUME Counting, [Next]_vars PROVE Counting'
    OBVIOUS
  <2>1. ASSUME NEW w \in Workers, WorkerMoves(w) PROVE Counter'
    BY <2>1, CounterWorker
  <2>2. Counter'
    BY <2>1, CounterMain DEF Next, Ended, WorkerMoves
  <2> QED BY <2>2, MovesStep DEF Counting
<1> QED BY <1>1, <1>2, PTL DEF Spec

-----------------------------------------------------------------------------
(* The theorems.                                                           *)

\* Type correctness; and the mutex is given back, and waited with, by its owner.
THEOREM TypeCorrect == Spec => []TypeOK
<1>1. Moves => TypeOK
  BY DEF Moves
<1> QED BY <1>1, MovesInit, MovesStep, PTL DEF Spec

\* thread_func: the workers that meet in pthread_barrier_wait have called it
\* from the same of its five places, in the same round.
THEOREM SiteIsTheSame == Spec => []SameSite
<1> QED BY MovesInit, MovesStep, SiteIsSame, PTL DEF Spec

\* "the predicate that all threads can start" (sync_v2.c:37): a worker that
\* goes on because of the flag saw the one that worker 0 set in this round.
THEOREM FlagIsNotStale == Spec => []NoStaleFlag
<1>1. Flags => NoStaleFlag
  BY DEF Flags
<1> QED BY <1>1, FlagsInit, FlagsStep, PTL DEF Spec

\* "these iterations will be evenly distributed among the worker threads"
\* (print_usage): a worker has run its share, and the first extra_trials of
\* them one more, when main reports.
THEOREM SharesAreRun ==
  Spec => [](main = "report" =>
              \A w \in Workers : worked[w] = thr_trials + IF w < extra_trials THEN 1 ELSE 0)
<1>1. Works => (main = "report" =>
                 \A w \in Workers : worked[w] = thr_trials + IF w < extra_trials THEN 1 ELSE 0)
  <2> SUFFICES ASSUME Works, main = "report", NEW w \in Workers
               PROVE  worked[w] = thr_trials + IF w < extra_trials THEN 1 ELSE 0
    OBVIOUS
  <2>1. pc[w] = "done"
    BY DEF Works, Moves, MainIs
  <2>2. trials_done[w] \in Nat /\ thr_trials \in Nat
    BY TypeOKIs, OptionIs DEF Works, Moves, OwnTypes
  <2> HIDE DEF thr_trials, extra_trials
  <2>3. trials_done[w] >= thr_trials
    BY <2>1 DEF Works, WorkIs
  <2>4. worked[w] = (IF trials_done[w] <= thr_trials THEN trials_done[w] ELSE thr_trials)
                    + (IF w < extra_trials THEN 1 ELSE 0)
    BY <2>1 DEF Works, WorkIs
  <2> QED BY <2>2, <2>3, <2>4
<1> QED BY <1>1, WorksHolds, PTL

\* "the total number of iterations to run" (print_usage): that many have been
\* run when main reports, whatever is left over of either division.
THEOREM AllIterationsAreRun == Spec => []AllIterationsRun
<1>1. Works /\ (main = "report" =>
        \A w \in Workers : worked[w] = thr_trials + IF w < extra_trials THEN 1 ELSE 0)
      => AllIterationsRun
  <2>1. Works => p \in Options /\ worked \in [Workers -> Nat]
    BY TypeOKIs DEF Works, Moves, OwnTypes
  <2> HIDE DEF thr_trials, extra_trials
  <2> QED BY <2>1, SharesAreAll DEF AllIterationsRun
<1> QED BY <1>1, WorksHolds, SharesAreRun, PTL

\* "a global counter for critical section test" (sync_v2.c:56): no increment
\* of critical_counter is lost.
THEOREM NoCountIsLost == Spec => []CounterIsRight
<1>1. Works /\ Counting => CounterIsRight
  <2> SUFFICES ASSUME Works, Counting, main = "report", p.sync_type = 1
               PROVE  critical_counter
                        = thr_cnt * ((thr_trials + p.bar_iters - 1) \div p.bar_iters)
    BY DEF CounterIsRight
  <2> DEFINE rounds == (thr_trials + p.bar_iters - 1) \div p.bar_iters
  <2>1. /\ \A w \in Workers : pc[w] = "done" /\ round[w] \in Nat
        /\ p \in Options /\ thr_cnt \in Nat \ {0} /\ 0 \in Workers
    <3>1. OwnTypes /\ MainIs
      BY TypeOKIs DEF Works, Moves
    <3>2. /\ p \in Options /\ thr_cnt \in Nat \ {0} /\ round \in [Workers -> Nat]
      BY <3>1, OptionIs DEF OwnTypes
    <3>3. \A w \in Workers : pc[w] = "done"
      BY <3>1 DEF MainIs
    <3>4. 0 \in Workers
      BY <3>2 DEF Workers
    <3> QED BY <3>2, <3>3, <3>4
  <2>2. \A w \in Workers : Counted(w) = rounds
    BY <2>1, RoundsAre DEF Counted
  <2>3. rounds \in Nat
    BY <2>1, RoundsAre
  <2> HIDE DEF rounds
  <2> PICK k \in Nat : CountIs(k)
    BY DEF Counting, Counter
  <2>4. rounds \in {k, k + 1}
    BY <2>1, <2>2 DEF CountIs
  <2>5. CountIs(rounds)
    BY <2>1, <2>2, <2>4, CountsRound
  <2>6. CountedTo(rounds + 1) = {}
    BY <2>2, <2>3 DEF CountedTo
  <2>7. critical_counter = thr_cnt * rounds
    <3>1. thr_cnt * rounds \in Nat
      BY <2>1, <2>3
    <3>2. critical_counter = thr_cnt * rounds + Cardinality({})
      BY <2>5, <2>6 DEF CountIs
    <3> QED BY <3>1, <3>2, FS_EmptySet
  <2> QED BY <2>7 DEF rounds
<1> QED BY <1>1, WorksHolds, CountingHolds, PTL

=============================================================================
