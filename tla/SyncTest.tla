------------------------------ MODULE SyncTest ------------------------------
(***************************************************************************)
(* The synchronization test program, src/tests/sync_v2.c: main and the     *)
(* workers of thread_func, as clients of a barrier, a mutex and a          *)
(* condition variable.  It calls the pthread functions that REEact         *)
(* interposes on, and counts on what Barrier and Cond promise: what        *)
(* FastsyncBarrier and FastsyncCond are shown to keep, for a policy that   *)
(* puts them behind the hooks.                                             *)
(*                                                                         *)
(* One action is one access to a shared variable, one call that cannot     *)
(* block, or one side of a call that can: its beginning or its return.     *)
(* A run uses one mutex, mtx or cond_mtx according to its sync_type, so    *)
(* one mutex stands for both.                                              *)
(***************************************************************************)
EXTENDS Integers, FiniteSetsExt

CONSTANTS
  thr_cnt,    \* the number of workers
  Options,    \* the command lines: records of total_iters, bar_iters, sync_type
  MaxSpurious \* how many spurious wake-ups a run may have

\* parse_parameters refuses a zero, and sync_type selects a barrier only (0),
\* the mutex (1) or the condition variable (2).
ASSUME OptionsAssumption ==
  /\ thr_cnt \in Nat \ {0} /\ MaxSpurious \in Nat
  /\ \A o \in Options : /\ o.total_iters \in Nat \ {0}
                        /\ o.bar_iters \in Nat \ {0}
                        /\ o.sync_type \in 0..2

Workers == 0 .. thr_cnt - 1       \* tidx

VARIABLES
  p,                 \* the command line in use
  main, created,     \* where main stands, how many workers it has created
  pc,                \* where each worker stands
  all_start,         \* the predicate that all threads can start
  critical_counter,  \* counted under the mutex
  read,              \* the value a worker has read of it
  trials_done,       \* the iterations of each worker, as it counts them
  entered, left,     \* the barrier sync_point: see Barrier
  owner, asking, inside, waiting, due,   \* the mutex and all_start's condition: see Cond
  (* History: the program keeps no trace of these.                         *)
  worked,            \* how many iterations each worker has run
  round,             \* how often each worker has come round its loop
  flag_round,        \* worker 0's round when all_start was last set
  spurious           \* how many spurious wake-ups there have been

barrierVars == <<entered, left>>
condVars    == <<owner, asking, inside, waiting, due>>
mainVars    == <<p, main, created>>
workVars    == <<critical_counter, read, trials_done, worked, round>>
flagVars    == <<all_start, flag_round, spurious>>
vars        == <<mainVars, pc, flagVars, workVars, barrierVars, condVars>>

B == INSTANCE Barrier WITH Threads <- Workers
C == INSTANCE Cond WITH Threads <- Workers

\* The calls of pthread_barrier_wait: label of the call, and what follows.
Sites == {"b_start", "b_mutex", "b_before", "b_after", "b_end"}
After(site) == CASE site = "b_start"  -> "spin"
                 [] site = "b_mutex"  -> "loop"
                 [] site = "b_before" -> "reset"
                 [] site = "b_after"  -> "lock"
                 [] site = "b_end"    -> "loop"

Labels == Sites \cup {"new", "spin", "loop", "lock", "locked", "count", "counting", "set", "wait",
                      "in_wait", "unlock", "notify", "reset", "done", "killed"}

\* The iterations of each worker; the first of them do one extra.
thr_trials   == p.total_iters \div thr_cnt
extra_trials == p.total_iters % thr_cnt

Goto(w, label) == pc' = [pc EXCEPT ![w] = label]

Init ==
  /\ p \in Options
  /\ main = "create" /\ created = 0
  /\ pc = [w \in Workers |-> "new"]
  /\ all_start = FALSE /\ flag_round = 0 /\ spurious = 0
  /\ critical_counter = 0
  /\ read = [w \in Workers |-> 0]
  /\ trials_done = [w \in Workers |-> 0]
  /\ worked = [w \in Workers |-> 0]
  /\ round = [w \in Workers |-> 0]
  /\ B!Init /\ C!Init

-----------------------------------------------------------------------------
(* main                                                                    *)

\* pthread_create: the worker runs from here on.
Create ==
  /\ main = "create"
  /\ created' = created + 1
  /\ pc' = [pc EXCEPT ![created] = "b_start"]
  /\ main' = IF created' = thr_cnt THEN "start" ELSE main
  /\ UNCHANGED <<p, flagVars, workVars, barrierVars, condVars>>

\* A worker cannot be created: err() ends the process and all its threads.
CreateFails ==
  /\ main = "create"
  /\ main' = "failed"
  /\ pc' = [w \in Workers |-> "killed"]
  /\ UNCHANGED <<p, created, flagVars, workVars, barrierVars, condVars>>

\* params.all_start = 1
Start ==
  /\ main = "start"
  /\ all_start' = TRUE
  /\ main' = "join"
  /\ UNCHANGED <<p, created, pc, flag_round, spurious, workVars, barrierVars, condVars>>

\* pthread_join, of all workers
Join ==
  /\ main = "join"
  /\ \A w \in Workers : pc[w] = "done"
  /\ main' = "report"
  /\ UNCHANGED <<p, created, pc, flagVars, workVars, barrierVars, condVars>>

-----------------------------------------------------------------------------
(* Barrier calls.                                                          *)

EnterBarrier(w) ==
  /\ pc[w] \in Sites
  /\ B!Enter(w)
  /\ UNCHANGED <<mainVars, pc, flagVars, workVars, condVars>>

LeaveBarrier(w) ==
  /\ pc[w] \in Sites
  /\ B!Leave(w)
  /\ Goto(w, After(pc[w]))
  /\ UNCHANGED <<mainVars, flagVars, workVars, condVars>>

-----------------------------------------------------------------------------
(* The worker's loop.                                                      *)

\* while(!p->all_start)
Spin(w) ==
  /\ pc[w] = "spin" /\ all_start
  /\ Goto(w, "loop")
  /\ UNCHANGED <<mainVars, flagVars, workVars, barrierVars, condVars>>

RunIterations(w, trials_to_do) ==
  /\ pc[w] = "loop" /\ trials_done[w] < thr_trials
  /\ worked' = [worked EXCEPT ![w] = @ + trials_to_do]
  /\ trials_done' = [trials_done EXCEPT ![w] = @ + p.bar_iters]
  /\ round' = [round EXCEPT ![w] = @ + 1]
  /\ Goto(w, CASE p.sync_type = 0 -> "b_end"
               [] p.sync_type = 1 -> "lock"
               [] p.sync_type = 2 -> "b_before")
  /\ UNCHANGED <<mainVars, flagVars, critical_counter, read, barrierVars, condVars>>

Remaining(w) == thr_trials - trials_done[w]

\* Mutant of Iterate: what remains is not looked at.
IterateFull(w) == RunIterations(w, p.bar_iters)

\* The iterations before the next synchronization, which sync_type selects.
Iterate(w) ==
  RunIterations(w, IF Remaining(w) >= p.bar_iters THEN p.bar_iters ELSE Remaining(w))

\* The loop ends; the extra trial.
Finish(w) ==
  /\ pc[w] = "loop" /\ trials_done[w] >= thr_trials
  /\ worked' = [worked EXCEPT ![w] = @ + IF w < extra_trials THEN 1 ELSE 0]
  /\ Goto(w, "done")
  /\ UNCHANGED <<mainVars, flagVars, critical_counter, read, trials_done, round,
                 barrierVars, condVars>>

-----------------------------------------------------------------------------
(* The mutex.                                                              *)

\* Mutant of LockCall: worker 0 sets the flag without the mutex.
LockCallNotZero(w) ==
  /\ pc[w] = "lock"
  /\ IF p.sync_type = 2 /\ w = 0 THEN Goto(w, "set") /\ UNCHANGED condVars
                                ELSE Goto(w, "locked") /\ C!Ask(w)
  /\ UNCHANGED <<mainVars, flagVars, workVars, barrierVars>>

LockCall(w) ==
  /\ pc[w] = "lock"
  /\ C!Ask(w)
  /\ Goto(w, "locked")
  /\ UNCHANGED <<mainVars, flagVars, workVars, barrierVars>>

\* The lock is granted.  What the owner does with it: count, or worker 0
\* sets the flag that the others wait for.
Locked(w) ==
  /\ pc[w] = "locked"
  /\ C!Acquire(w)
  /\ Goto(w, CASE p.sync_type = 1 -> "count"
               [] p.sync_type = 2 /\ w = 0 -> "set"
               [] p.sync_type = 2 /\ w # 0 -> "wait")
  /\ UNCHANGED <<mainVars, flagVars, workVars, barrierVars>>

CountFrom(w, value) ==
  /\ pc[w] = "count"
  /\ read' = [read EXCEPT ![w] = value]
  /\ Goto(w, "counting")
  /\ UNCHANGED <<mainVars, flagVars, critical_counter, trials_done, worked, round,
                 barrierVars, condVars>>

\* Mutant of CountRead: the worker goes on from its own last count, as if the
\* counter were kept in a register.
CountReadKept(w) == CountFrom(w, round[w] - 1)

\* critical_counter++: a read and a write
CountRead(w) == CountFrom(w, critical_counter)

CountWrite(w) ==
  /\ pc[w] = "counting"
  /\ critical_counter' = read[w] + 1
  /\ Goto(w, "unlock")
  /\ UNCHANGED <<mainVars, flagVars, read, trials_done, worked, round,
                 barrierVars, condVars>>

\* After the unlock: the barrier of the case, or worker 0's broadcast.
Unlock(w) ==
  /\ pc[w] = "unlock"
  /\ C!Unlock(w)
  /\ Goto(w, CASE p.sync_type = 1 -> "b_mutex"
               [] p.sync_type = 2 /\ w = 0 -> "notify"
               [] p.sync_type = 2 /\ w # 0 -> "b_end")
  /\ UNCHANGED <<mainVars, flagVars, workVars, barrierVars>>

-----------------------------------------------------------------------------
(* The flag and the condition variable.                                    *)

ResetThen(w, label) ==
  /\ pc[w] = "reset"
  /\ all_start' = IF w = 0 THEN FALSE ELSE all_start
  /\ Goto(w, label)
  /\ UNCHANGED <<mainVars, flag_round, spurious, workVars, barrierVars, condVars>>

\* Mutant of Reset: the barrier after it is left out.
ResetNoBarrier(w) == ResetThen(w, "lock")

\* if(args->tidx == 0) p->all_start = 0, between two barriers
Reset(w) == ResetThen(w, "b_after")

\* p->all_start = 1, under cond_mtx
SetFlag(w) ==
  /\ pc[w] = "set"
  /\ all_start' = TRUE
  /\ flag_round' = round[w]
  /\ Goto(w, "unlock")
  /\ UNCHANGED <<mainVars, spurious, workVars, barrierVars, condVars>>

NotifyThen(w, label) ==
  /\ pc[w] = "notify"
  /\ C!Broadcast
  /\ Goto(w, label)
  /\ UNCHANGED <<mainVars, flagVars, workVars, barrierVars>>

\* Mutants of Notify: a signal; a break after the broadcast.
NotifyOne(w) ==
  /\ pc[w] = "notify"
  /\ \/ waiting = {} /\ C!Broadcast
     \/ \E u \in waiting : C!Notify({u})
  /\ Goto(w, "b_end")
  /\ UNCHANGED <<mainVars, flagVars, workVars, barrierVars>>
NotifyBreak(w) == NotifyThen(w, "loop")

\* pthread_cond_broadcast, after the unlock.  Case 2 has no break.
Notify(w) == NotifyThen(w, "b_end")

\* while(!p->all_start): leave the loop, or wait.
TestFlag(w) ==
  /\ pc[w] = "wait"
  /\ \/ all_start /\ Goto(w, "unlock") /\ UNCHANGED condVars
     \/ ~all_start /\ C!Wait(w) /\ Goto(w, "in_wait")
  /\ UNCHANGED <<mainVars, flagVars, workVars, barrierVars>>

\* The steps of pthread_cond_wait: the mutex is given back; the waiter that a
\* notification is meant for comes back, takes the mutex and returns.
GiveUp(w)     == pc[w] = "in_wait" /\ C!Unlock(w)
WakeUp(w)     == pc[w] = "in_wait" /\ w \in due /\ C!Release({w})
TakeBack(w)   == pc[w] = "in_wait" /\ C!Acquire(w)
InWait(w) ==
  /\ GiveUp(w) \/ WakeUp(w) \/ TakeBack(w)
  /\ UNCHANGED <<mainVars, pc, flagVars, workVars, barrierVars>>

WaitReturn(w) ==
  /\ pc[w] = "in_wait"
  /\ C!Return(w)
  /\ Goto(w, "wait")
  /\ UNCHANGED <<mainVars, flagVars, workVars, barrierVars>>

\* A waiter comes back although no notification was meant for it.
SpuriousWakeUp(w) ==
  /\ pc[w] = "in_wait" /\ spurious < MaxSpurious
  /\ C!Release({w})
  /\ spurious' = spurious + 1
  /\ UNCHANGED <<mainVars, pc, all_start, flag_round, workVars, barrierVars>>

-----------------------------------------------------------------------------
MainStep == Create \/ Start \/ Join

WorkerStep(w) ==
  \/ EnterBarrier(w) \/ LeaveBarrier(w)
  \/ Spin(w) \/ Iterate(w) \/ Finish(w)
  \/ LockCall(w) \/ Locked(w) \/ CountRead(w) \/ CountWrite(w) \/ Unlock(w)
  \/ Reset(w) \/ SetFlag(w) \/ Notify(w)
  \/ TestFlag(w) \/ InWait(w) \/ WaitReturn(w)

Ended == main \in {"report", "failed"} /\ UNCHANGED vars

Next == \/ MainStep \/ CreateFails \/ Ended
        \/ \E w \in Workers : WorkerStep(w) \/ SpuriousWakeUp(w)

Spec == Init /\ [][Next]_vars

(* The scheduler runs main and every worker.  The mutex is taken a bounded *)
(* number of times, so that a worker that asks for it finds it free in the *)
(* end and weak fairness is enough.  No spurious wake-up is promised.      *)
Fairness == WF_vars(MainStep) /\ \A w \in Workers : WF_vars(WorkerStep(w))

FairSpec == Spec /\ Fairness

-----------------------------------------------------------------------------
(* Properties.                                                             *)

\* Types, and the promises of the objects are used as they are meant: a
\* worker that unlocks or waits owns the mutex.
TypeOK ==
  /\ p \in Options
  /\ main \in {"create", "start", "join", "report", "failed"} /\ created \in 0 .. thr_cnt
  /\ pc \in [Workers -> Labels]
  /\ all_start \in BOOLEAN
  /\ critical_counter \in Nat
  /\ read \in [Workers -> Nat]
  /\ trials_done \in [Workers -> Nat] /\ worked \in [Workers -> Nat]
  /\ round \in [Workers -> Nat] /\ flag_round \in Nat /\ spurious \in 0 .. MaxSpurious
  /\ entered \in [Workers -> Nat] /\ left \in [Workers -> Nat]
  /\ \A S \in {owner, asking, inside, waiting, due} : S \subseteq Workers
  /\ \A w \in Workers :
       pc[w] \in {"count", "counting", "set", "wait", "unlock"} => owner = {w}

\* "the predicate that all threads can start" (sync_v2.c:37), reset between
\* two barriers and set under the mutex in each round: a worker that goes on
\* because it saw the flag saw the one set in this very round.
NoStaleFlag ==
  \A w \in Workers \ {0} : p.sync_type = 2 /\ pc[w] = "unlock" => flag_round = round[w]

\* thread_func calls one barrier from five places: the workers that meet in
\* the same wait have all called it from the same place, in the same round.
\* Otherwise the reset of the flag is not between the two barriers that
\* protect it.
SameSite ==
  \A u, w \in Workers :
    /\ entered[u] = entered[w]
    /\ entered[u] > left[u] /\ entered[w] > left[w]
    => pc[u] = pc[w] /\ round[u] = round[w]

\* "the total number of iterations to run; these iterations will be evenly
\* distributed among the worker threads" (print_usage): when main reports,
\* that many have been run, whatever is left over of either division.
AllIterationsRun ==
  main = "report" => MapThenSumSet(LAMBDA w : worked[w], Workers) = p.total_iters

\* "a global counter for critical section test" (sync_v2.c:56): main reports
\* one count per worker and round, a round being bar_iters iterations or what
\* is left of them.
CounterIsRight ==
  main = "report" /\ p.sync_type = 1 =>
    critical_counter = thr_cnt * ((thr_trials + p.bar_iters - 1) \div p.bar_iters)

\* Every run comes to its end: nobody waits at a barrier that another worker
\* does not come to, or for a flag that is not set again.  A process that
\* cannot create its workers ends without a report.
EveryRunEnds == <>(main \in {"report", "failed"})

=============================================================================
