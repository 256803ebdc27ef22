# A formal model of REEact

REEact (`libreeact.so`) is a library that is preloaded into a threaded program. It
interposes on the pthread synchronization functions, finds out the processor topology
of the machine, and offers `fastsync`: a mutex, a barrier and a condition variable built
directly on `futex(2)`, the barrier and the condition variable arranged in trees that
follow the sockets and nodes of the machine.

This directory holds TLA+ modules translated from the source, the TLC configurations
that check them on small instances, and TLAPS proofs that the properties hold for every
value of the constants.
`PROJECT.json` maps each definition to the lines it models, lists the runs, a
mutation of the code model for each property, and the hazards the properties are for.

## 1. The system

### Components

| component | source | state | operations |
|---|---|---|---|
| mutex | `fastsync/fastsync_mutex.c` | one word: bit 0 locked, bit 1 contended | init, lock, trylock, unlock |
| barrier | `fastsync/fastsync_barrier.c` | `seq`, `waiting` (two halves of one 64-bit word), `total_count`, `parent_bar` | init, wait, inter-processor wait (a parent of a barrier), destroy |
| condition variable | `fastsync/fastsync_cond.c` | `seq`, `mutex`, `use_child`, `parent` | init, wait, signal, signal_count, broadcast, destroy |
| pthread hooks | `pthread_hooks/*.c` | 17 pointers to the real functions | init (17 `dlsym`, one `dlerror`), cleanup, one hook per function |
| default policy | `policies/reeact_policy.c` | none | forwards each hook to the real function; lock and unlock look it up on demand |
| gomp hooks | `hooks/gomp_hooks/*.c` | none | init and cleanup, both `return 0`; the `reeact_gomp_*` functions of the policy return a constant |
| life cycle | `reeact.c` | `reeact_handle` | constructor, destructor, the log of the topology (debug build, the default) |
| topology | `utils/reeact_topology.c` | the five outputs | read the configuration file, or sysfs |
| logging | `utils/reeact_log.c` | none | print |
| test program | `tests/sync_v2.c` | `all_start`, `critical_counter`, the iterations of each worker | main, which creates and joins the workers; workers that lock, wait at barriers and on a condition variable in rounds |

### How they interact

* The condition variable drives the mutex: a wait unlocks it, sleeps on the condition
  variable's own word, and takes it back with the "contended" form of lock
  (`xchg(state, 3)`); a broadcast moves sleepers straight to the queue of the mutex
  (`FUTEX_REQUEUE`) without touching the mutex word. Nothing but the word and the two
  kernel queues connects the two files.
* A tree of condition variables: the first waiter of a node sets the node's `use_child`
  and waits at the parent; released there, it holds the mutex and releases the node.
* A tree of barriers: the last thread of a node takes the node's count to the parent,
  spins there, and resets the node when the parent opens.
* The constructor reads the topology, resolves the pointers and initialises the policy;
  a hook may be called before, while and after it runs. `dlsym` may call the allocator, and the
  allocator the hooks of lock and unlock, which may need a `dlsym` of their own.
* The constructor ignores what the topology code returns; the debug build then logs the
  topology, indexing the arrays by the counts.
* Nothing in `src/src` connects `fastsync` with the policy: a user's own policy is
  expected to.
* The test program calls the pthread functions and so reaches whatever the policy puts
  behind the hooks. It is the one client in the repository, and uses all three
  primitives: one barrier from five places, a mutex around a counter, and a flag with its
  condition variable that is reset and set again in every round.

### What is hard

* **Interleaving at instruction granularity.** The unlocker works on the mutex word after
  it has released the lock, with a new owner and new sleepers around it. The barrier's
  last thread wakes the futex after the reset, when the others may already sleep in the
  next round. The waiter of a condition variable has given the mutex back and not
  suspended yet. The representative's `cond->seq++` is a plain read and write beside
  atomic additions.
* **Lost wake-ups.** Every `FUTEX_WAIT` races the `FUTEX_WAKE` it waits for. The mutex
  additionally drops wake-ups on purpose (throttling), and requeued sleepers wait on a
  word that does not say they are there.
* **Wrap-around and equality.** A sequence number is compared for equality, modulo 2^32.
* **Spurious wake-ups.** `FUTEX_WAIT` may return for no reason; only the mutex and the
  barrier look at their word again. The condition variable passes the return on to its
  caller, and a representative of a tree then releases its node.
* **Re-entry.** The lock and unlock hooks test their pointer, look the function up, store it and
  read the pointer again for the call. A lock of the allocator inside that `dlsym`, another
  thread, and the constructor may store the same pointer at any moment in between, and nothing
  bounds how often lookups nest.
* **Partial failure.** The topology code fails at any of its many file reads and leaves
  its outputs half set, and the constructor goes on with them; a lookup may fail among 17.
* **A flag used over and over.** The test program's `all_start` is reset by one worker
  between two barriers and set by the same worker under the mutex, while the others are
  anywhere between the barriers, the test of the flag and the wait.

### What makes each component correct

* mutex: at most one owner, and the word says so; no sleeper is forgotten; if somebody
  asks for the lock, somebody gets it.
* barrier: nobody leaves round k before everybody has entered it, across all leaves of
  the tree; everybody leaves; one thread per leaf and round gets
  `PTHREAD_BARRIER_SERIAL_THREAD`; no count exceeds its total.
* condition variable: a notification sent after the mutex was given back is not missed; a
  node with waiters has exactly one representative; a broadcast to the root releases all
  waiters of the tree; the plain fields are never raced for; whoever leaves the wait owns
  the mutex; an object may be destroyed as soon as nobody will touch it again.
* topology: a topology reported as a success is that of the machine, or what the file says,
  up to where it could be read; a failure is reported and nothing else happens (something does,
  see the run `topology_failure`).
* hooks: a lock or unlock finds its function whenever the process has it, at any time and from
  inside any lookup; after the initialisation so does every other hook; a successful
  initialisation has found every function (it has not).
* test program: no worker goes on with the flag of an earlier round; the workers that meet
  at a barrier are at the same place; every iteration is run, every count counted, and
  every run ends.

## 2. The modules

| module | role |
|---|---|
| `Futex` | the kernel's side: what wait, wake and requeue promise (external) |
| `Mutex` | abstract: owner, and the threads that asked |
| `FastsyncMutex` | the mutex, one action per atomic instruction or system call |
| `FastsyncMutexProofs` | theorems about `FastsyncMutex` |
| `Barrier` | abstract: rounds entered and left |
| `FastsyncBarrier` | the tree barrier |
| `FastsyncBarrierProofs` | theorems about `FastsyncBarrier` |
| `Cond` | abstract: the mutex, and who waits and must not be missed |
| `FastsyncCond` | the condition variable tree, composed with `FastsyncMutex`; implements `Cond` |
| `FastsyncCondProofs` | theorems about `FastsyncCond` and its mutex |
| `SyncTest` | the test program, on top of `Barrier` and `Cond` |
| `SyncTestProofs` | theorems about `SyncTest` |
| `Topology` | both topology parsers, with their reference definition, and the log of their outputs |
| `TopologyProofs` | theorems about `Topology`: the configuration file, the contexts |
| `TopologySysfsProofs` | theorems about `Topology`: the arrays |
| `ReeactHooks` | constructor, destructor, lookups and hooks |
| `ReeactHooksProofs` | theorems about `ReeactHooks` |
| `MC*` | instances for TLC |

### FastsyncMutex

`state` is `mutex->state` (0 to 3). `pc[t]` is the place in the code: `l_spin` (the
fetch-and-or loop), `l_xchg`, `l_futex` (decided to sleep), `l_sleep` (in the kernel), `cs`,
`u_cas` (the fast path has read the word), `u_and` (the release), `u_check` (spinning after the
release), `u_clear` (dropping the contended bit), `u_wake`. `loop[t]` is the loop counter of
either spin. `LockCall`, `LockSpin`, `LockXchg`, `LockFutexWait` are the steps of
`fastsync_mutex_lock`; `UnlockRead`, `UnlockCas`, `UnlockAnd`, `UnlockCheck`, `UnlockClear`, `UnlockWake`
those of `fastsync_mutex_unlock`; `TryLock` is `trylock`; `FutexInterrupt` is `FUTEX_WAIT`
returning early. `Relock` and `Requeue` are the two ways in from a condition variable. They
are in `Next`, so whatever is shown of the mutex holds while a condition variable uses it.

### FastsyncBarrier

`at[t]` is the node of the running frame and `pc[t]` the place in it. Both functions
(`fastsync_barrier_wait` and `fastsynt_barrier_wait_interproc`) share the steps that are the
same: `ReadSeq` (`cur_seq = seq`), `Add` (count in; sleep, climb or reset), `Reset` (the 64-bit
store that zeroes `waiting` and increments `seq` at once), `Wake`, `Check` and `FutexWait` at a
leaf, `Spin` at a parent. The history variables `entered`, `left`, `resets`, `arrived`,
`serials` are read by properties, and `entered` and `left` are the state of `Barrier`.

### FastsyncCond

`M == INSTANCE FastsyncMutex` shares `state`, `pc`, `loop`; `cpc[t]` says where in
`fastsync_cond.c` a thread is, `stack[t]` holds the objects of its nested waits, innermost
first. `Wait` and `WaitParent` are one frame of the recursion each; `WaitReadSeq`, the unlock
(`UnlockCall` and the mutex's own steps), `WaitFutex`, `LeaveFutex` into `M!Relock`, `WaitReturn`;
then, in the frame of a child, `ReleaseRead`, `ReleaseWrite` (the plain `seq++`),
`ReleaseRequeue` (the system call) and `ReleaseReturn` (`use_child = 0` and the return).
`Signal`/`SignalWake` and `Broadcast`/`BroadcastCheck`/`BroadcastRequeue` may be called with or
without the mutex. `Destroy` may come as soon as no thread is going to touch the object
(`Users`): waiters that have left the futex and have not returned from `wait` do not
matter. A waiter that has been notified and is still on its way to the futex does: the
mutation `DestroyNotified` ignores it, and it sleeps for ever.
`notified` and `due` are history. Fields touched only by the mutex owner (`mutex`,
`use_child`, `parent`) are read and written in one step; `PlainFieldsExclusive` checks that
this merging is justified.

`Abstract == INSTANCE Cond WITH ...` maps the owner and the askers of the mutex as
`FastsyncMutex` does, a waiter to a thread that has read `seq` and has not left the futex,
and `due` to the waiters a broadcast is meant for. A signal promises less than a broadcast
(the code wakes whoever is in the futex), so it stutters in `Cond`, and every way out of the
futex, notified or not, is the abstract `Release`.

### SyncTest

`B == INSTANCE Barrier` and `C == INSTANCE Cond` share their variables with the test program.
`pc[w]` is the place of a worker in `thread_func`; the five calls of `pthread_barrier_wait` are
the labels `b_start`, `b_mutex`, `b_before`, `b_after`, `b_end`. A call that can block has two actions, its
beginning and its return (`EnterBarrier`/`LeaveBarrier`, `LockCall`/`Locked`,
`TestFlag`/`WaitReturn` with the inner steps `InWait`); `CountRead` and `CountWrite` are the two
halves of `critical_counter++`. `Create`, `CreateFails`, `Start` and `Join` are `main`.
`read` is the register of the increment; `worked`, `round` and `flag_round` are history,
`spurious` counts the spurious wake-ups of a run.

### Topology

The inputs are a machine (contexts sharing a core, contexts of a node, package of a
context) and the lines of a configuration file. `pc` names the loop or allocation, `i` its
counter; an action handles one line or one file. `ReadFails` and the failing alternatives of
`AllocCores` and `AllocNodes` may happen wherever the code can fail. A file may end after
any of its lines (`ConfEndChecking`), because the loop over `getline` takes a read error for the end of
the file; what the file says (`ConfTopology`) is what the lines say that were read. Outputs are kept across
failures exactly as the code keeps them: a failed configuration file leaves what it had set.
When the call has returned, whatever it returned, the constructor may log the outputs
(`Log`); when a read of the log is not of an entry that was stored (`Readable` fails), the
process ends or prints what it finds (`LogUndefined`). A release build stops at `done`.

### ReeactHooks

`real` is the set of pointers that are set, `looked` how far the constructor's lookups are,
`dlerr` the pending dynamic-linking error of the thread that runs the constructor. A hook that
looks its function up takes three steps, with the other threads between them: `CallOnDemand`
tests the pointer and enters `dlsym`, or goes on to the call; `LookupReturns` stores what
`dlsym` found; `Jump` reads the pointer again and calls. `inside[t]` holds the hooks of a thread that are inside
their `dlsym`, innermost first, and `jump[t]` the one that is about to call. A thread inside
a `dlsym` may call any hook, the same one too: the nested call finds the pointer still
unset and looks it up again. When `StackDepth` lookups have not returned, one more ends the process
(`overflown`); a call through an unset pointer ends it too (`crashed`). The other hooks are one step,
`Call`, because they only read the pointer.

`LockingFindsFunction` does not say that locking always succeeds. An allocator that locks in every
`dlsym` recurses until the stack is used up, unless the constructor's lookups come first, and
`reeact_policy.c` has no remedy for that. It says that a lock never calls through NULL a function that the
process has. A flag that keeps nested calls from a second lookup, which is the obvious
remedy, breaks it: the mutation `CallUnlessLooking` makes a nested lock, or one of another thread,
call through the unset pointer.

## 3. The runs

All numbers are distinct states.

| run | instance | shows |
|---|---|---|
| `mutex` | 4 threads, `SpinLoops` = 2; 36 thousand states | `TypeOK`, `MutualExclusion`, `NoLostWakeup`, `LockProgress`, refinement of `Mutex` |
| `barrier_flat` | 4 threads, one node, 3 rounds, `SeqMod` = 2; 10 thousand | `NoOverrun`, `NoLostWakeup`, `EveryWaitReturns` |
| `barrier_tree` | 4 threads, leaves of 2, 1 and 1 threads at depths 2, 2, 1; 3 rounds, `SeqMod` = 2; 10 thousand | `TypeOK`, `NoOverrun`, `OneSerialPerRound`, `EveryWaitReturns`, refinement of `Barrier` |
| `cond_tree` | 3 threads, two at a leaf, one at the root, 6 calls altogether; 1.2 million | `TypeOK`, `Represented`, `PlainFieldsExclusive`, `NotifiedDoesNotSleep`, `NoLostBroadcast`, refinement of `Cond` |
| `cond_pair` | the same tree, 5 calls, no spinning; fairness; 0.2 million | `BroadcastReleases` |
| `sync_test` | 3 workers; 2, 7 or 9 iterations, 1 or 2 between synchronizations, all three types; 2 spurious wake-ups; 30 thousand | `TypeOK`, `NoStaleFlag`, `SameSite`, `AllIterationsRun`, `CounterIsRight`, `EveryRunEnds` |
| `topology` | 2 sockets x 2 nodes x 3 cores x 2 threads at most, 24 orders of numbering the levels, nodes adjacent or interleaved; files of up to 4 lines of 9 kinds, a read error after any line; 0.71 million | `TypeOK`, `WithinArrays`, `SysfsTopology`, `ConfTopology` |
| `hooks` | 2 threads, each with up to 2 unfinished lookups; no function missing, any one, or both that are looked up on demand; 1.1 million | `LockingFindsFunction`, `HooksWorkAfterInit` |
| `cond_init` | a tree whose `use_child` fields start arbitrary | `Represented` violated |
| `topology_packages` | two sockets with package ids 0 and 3 | `SysfsTopology` violated |
| `topology_failure` | one machine; no configuration file, or one that has only the counts | `FailureReturns` violated |
| `hooks_init` | as `hooks` | `SuccessMeansResolved` violated |

The last four are disagreements between the code and what it says of itself:

* `fastsync_cond_init` does not set `use_child` and `parent`. In memory that was not zeroed the
  first waiter of a leaf stays at the leaf, nobody represents it above, and a broadcast to
  the root does not reach it, contrary to the description at the head of
  `fastsync_cond.c`.
* `reeact_get_topo_sysfs` reports the largest package id plus one as "the number of sockets".
* `reeact_init` ignores the return value of `reeact_get_topology`. After a configuration file
  that sets the counts and nothing else, and a sysfs that cannot be read, the log of the
  debug build reads through NULL. The same property fails without any file, later: the
  parser stores through the result of `malloc` for `nodes` without looking at it (it does look
  at that for `cores`), although "3: error allocating space" is documented.
* `reeact_pthread_hooks_init` asks `dlerror` once after 17 calls of `dlsym`; in glibc each call
  forgets the error of the one before, so it returns 0 unless the last lookup fails.

### Why the bounds are enough

* `SpinLoops` = 2 makes both spin loops iterate, fail and succeed; the number of spins changes
  nothing else. Four threads allow an owner, an unlocker in its late steps, a
  sleeper and a newcomer at once. The theorems need neither bound.
* `SeqMod` = 2 makes the barrier's sequence number wrap in the second round; two is the
  least modulus that tells a round from the next, and the runs show that no thread
  lags further. `SeqMod` = 16 in the condition variable runs exceeds every number of
  notifications a run can make, so no wrap occurs: 2^32 notifications between a waiter's
  read and its futex call would defeat the code, and are outside the model. The theorems
  about the barrier hold for any modulus from 2 and any number of rounds.
* `Rounds` = 3: an early thread can be in round k+1 while late ones leave round k, with one
  more round for what that leaves behind.
* `MaxCalls` bounds the client calls of all threads together in the condition variable runs,
  so that one run has every way of sharing them out. A lock and a wait of each thread
  take six; with four for two waiters there are two left for notifications, a destruction
  or a second wait. `cond_pair` has five, enough for two waiters at the leaf and a broadcast,
  and leaves out the spinning of the mutex (`SpinLoops` = 0), which the `mutex` run covers.
* `sync_test`: 2 iterations for three workers are none each and two extra ones, 7 are two each
  and one extra, 9 are three each; 1 or 2 per synchronization gives rounds that come out
  even and rounds that do not, up to three (the theorems have no such bounds). A flag of round k and workers of round k+1
  meet in two rounds already; the third shows what is left behind. `MaxSpurious` = 2
  lets both waiters of a round come back early, or one of them twice.
* The tree of the barrier has leaves at different depths and of different sizes. That of
  the condition variable has two levels; deeper recursion is the same frame again.
* `hooks`: two lookups nest in one thread while another is at any place, and the third ends the
  process. The theorems are for any number of threads, any depth and any missing functions.
* `topology`: four lines are one of each kind and one that overrides another, in any
  order. The machines have equal nodes, as the code assumes ("Assuming nodes are homogeneous"); what
  becomes of its quotients without that is not a property it promises, and no run asks for it.
* Symmetry is not used, because the threads differ in their leaf and in their number of
  calls, and because several runs check liveness.

### Fairness, and where the system may stop

`FairSpec` assumes weak fairness of each thread's steps inside the code (a runnable thread is
scheduled, a spinning one too) and of the unlock that ends a critical section. In the
barrier runs each thread also makes its `Rounds` calls. Never assumed: that a client calls
lock, wait or a notification; that a lock call wins a race (`LockProgress` promises that
some thread gets the lock, and the code promises no more); that `FUTEX_WAIT` is interrupted.

In `SyncTest` fairness is weak for `main` and for each worker: a worker asks for the mutex a
bounded number of times, so the mutex stays free for a slow one in the end. A spurious
wake-up is never required and its number is bounded: waiters that wake up without end
could keep worker 0 from the mutex, and nothing in the program prevents that.

Deadlock is checked in the mutex, topology, hooks and test program runs. `CHECK_DEADLOCK FALSE` appears
where a run ends by design: barrier clients after their rounds, condition variable clients
after their calls, possibly with waiters that nobody notified.

## 4. The theorems

Each holds for every value of the constants that the named assumptions allow. TLC
evaluates these assumptions for the constants of each run, and the inductive invariants
below were checked on the instances of section 3 before they were proved.

### The mutex

`FastsyncMutexProofs`, for every set of threads and every number of spins:

| theorem | statement |
|---|---|
| `TypeCorrect` | `Spec => []TypeOK` |
| `MutualExclusionHolds` | `Spec => []MutualExclusion` |
| `NoLostWakeupHolds` | `Spec => []NoLostWakeup` |
| `FastsyncMutexRefinesMutex` | `Spec => ImplementsMutex` |

The only assumption is that `SpinLoops` is a natural number. `TypeOK` is inductive by itself.
`MutualExclusion` is inductive together with `TypeOK` because it has two halves: at most one
thread owns the mutex, *and* the locked bit is set exactly while one does. The second
half is what makes an acquisition that finds the bit clear exclusive, and what the late
steps of an unlocker must preserve. `NoLostWakeup` is inductive with `TypeOK` because
`WakeupPending` lists who is responsible for the sleepers at each moment: the owner,
through the contended bit; an unlocker between its release and its decision; a thread
whose wake-up is decided; or a thread that is about to set the bit. Every step that takes
one of these away puts another in its place (lemmas `WakeupInHand` and `WakeupKept`), case by
case for the steps of a thread (`WakeupThreadStep`) and for a requeue (`WakeupRequeue`). The refinement
uses `MutualExclusion` as its invariant and one step per action. The step lemmas do not
mention `Spec`, so that `FastsyncCondProofs` can cite them of the mutex it drives.

### The barrier

`FastsyncBarrierProofs`, for every tree, every finite set of threads, every width of `seq` and
every number of rounds:

| theorem | statement |
|---|---|
| `TypeCorrect` | `Spec => []TypeOK` |
| `CountStaysWithinTotal` | `Spec => []NoOverrun` |
| `WakeupNotLost` | `Spec => []NoLostWakeup` |
| `SerialOncePerRound` | `Spec => []OneSerialPerRound` |
| `Refinement` | `Spec => ImplementsBarrier` |

`TreeAssumption` says what a tree is by facts of any tree with one root whose threads are at
its leaves: depths, the threads below a node (`Members`), and that two nodes of one depth
share no thread. The last would follow from the others by induction over the depth,
which the provers do not do; TLC checks it of the trees of the runs. `SeqModAssumption` asks
that a round's number differ from the next one's.

The properties are not inductive: that a count stays within its total depends on no
thread being counted twice, at any level. The invariant `IInv` says for each pair of a node
and its parent where they are with respect to each other (`ChildOfParent`: nobody has gone up
yet; everybody is counted above, and the node is full; or the parent has been reset and the
node has not); who may reset a node (`Holds`, `HeldIsFull`, `OneHolder`: the one that filled it,
and it stays full meanwhile); what a thread has read of `seq` against what `seq` is now, at a parent
(`AtParent`) and at its leaf (`AtLeaf`), which is where the wrap-around matters; the order of resets from the
root down (`ParentFirst`, `AncestorsFirst`, `EnteredFirst`), from which the refinement follows; and the thread on its way out
with `PTHREAD_BARRIER_SERIAL_THREAD` (`Serials`). It is proved with one lemma per action; the two that
matter are `Add`, of the last thread of a node, and `Reset`.

### The condition variable

`FastsyncCondProofs`, for every tree, every finite set of threads, every mix of calls and of
interrupted sleeps, with and without the mutex:

| theorem | statement | needs |
|---|---|---|
| `TypeCorrect` | `Spec => []TypeOK` | |
| `MutexStaysMutex` | `Spec => [](M!MutualExclusion /\ M!NoLostWakeup)` | |
| `PlainFieldsAreExclusive` | `Spec => []PlainFieldsExclusive` | clear `use_child` |
| `WaitersAreRepresented` | `Spec => []Represented` | clear `use_child` |
| `NotifiedStayAwake` | `Spec => []NotifiedDoesNotSleep` | clear `use_child`, no wrap |
| `BroadcastIsNotLost` | `Spec => []NoLostBroadcast` | clear `use_child`, no wrap |
| `Refinement` | `Spec => ImplementsCond` | |

"Clear `use_child`" is `InitialUseChild \subseteq {FALSE}`: objects in zeroed memory. `fastsync_cond_init` does
not see to it, and the run `cond_init` shows that it is needed. "No wrap" is `MaxCalls < SeqMod`:
every notification of a run is a call, and one call raises a given `seq` once, so a waiter's `cur_seq`
cannot become right again. The configurations of the passing runs satisfy both. The refinement needs neither,
because `Cond` promises of a release only that the mutex is taken back: it is in the two
theorems above it that a waiter is not left asleep.

The invariant comes in layers, each inductive with those below it:

* `Control`: types, the mutex's own invariants through its step lemmas, and where a thread is
  in the mutex while it is in the condition variable (`Places`). It needs the mutex's theorems,
  because a frame of a wait touches the plain fields on the strength of owning the mutex.
* `Exclusive`: `use_child` of an object is set exactly while a thread represents it, in the middle
  of its stack or releasing it, and one thread only. This is what makes the merged reads
  and writes of section 2 sound.
* `Climbs`: nobody waits at a child without a representative, *or* the release is decided. The
  second alternative is what a representative leaves behind between `seq++` and the
  return.
* `Counts`: what a waiter has read is at most `seq`, and less once it has been notified. What a
  representative writes back is more than any waiter has read, even where its plain `seq++`
  overwrites somebody's addition. `Budget` bounds `seq` by the calls made and those still owing
  a step, which is why it does not wrap.
* `Sleeps`: who sleeps in the kernel has not been notified, and is bound to the mutex it gave
  back.
* `Releases`: a waiter that a broadcast must release and that nobody has notified yet has a
  representative that must be released in its turn, or is on its way.

### The test program

`SyncTestProofs`, for every number of workers, every command line that is accepted and any
number of spurious wake-ups:

| theorem | statement |
|---|---|
| `TypeCorrect` | `Spec => []TypeOK` |
| `SiteIsTheSame` | `Spec => []SameSite` |
| `FlagIsNotStale` | `Spec => []NoStaleFlag` |
| `SharesAreRun` | each worker has run its share of the iterations when main reports |
| `AllIterationsAreRun` | `Spec => []AllIterationsRun` |
| `NoCountIsLost` | `Spec => []CounterIsRight` |

The assumption `OptionsAssumption` is what `parse_parameters` checks. The number of barrier calls a worker has
completed is a function of its place and its round (`Position`), and the barrier lets
nobody be more than one call ahead (`Together`); together they say where the other workers can be
when one is at a given place. From this follow `SameSite`, the flag's value against worker
0's place (`FlagIs`), and for each worker the iterations it has run by its round (`WorkIs`). The counter is the
number of critical sections completed (`CountIs`), and a thread between its read and write
of it owns the mutex. The two totals are sums over the workers, which
the model takes with a fold of the community modules. A fold cannot be unfolded by induction here; the lemma `SumIs`
proves its closed form first-order: the finite sets for which it fails would have, by
the well-foundedness of strict inclusion, a least member, and a set without one element
refutes that.

### The topology

`TopologyProofs`, for every machine and every configuration file:

| theorem | statement |
|---|---|
| `FileIsObeyed` | `Spec => []ConfTopology` |
| `CoresAreFound` | after a success of the sysfs parser, the contexts taken for cores are the least of each core, and `core_cnt` is their number divided by that of the nodes |

`TopologySysfsProofs`, for every configuration file and machines of any size that are as the last
column says:

| theorem | statement | of |
|---|---|---|
| `TopologyTypes` | `Spec => []TypeOK` | equal nodes |
| `StoresAreWithin` | `Spec => []WithinArrays` | equal nodes |
| `CoresAreListed` | after a success of the sysfs parser the rows of `cores` list the cores of the nodes, and `socket_cnt` is one more than the largest package id | equal nodes |
| `SysfsIsRight` | `Spec => []SysfsTopology` | equal nodes, equal sockets |

`InputsAssumption` says what the inputs are: contexts and nodes numbered without gaps, as the code
assumes in so many words; sharing a core is an equivalence; a context belongs to one node; the
numbers of a line are naturals. `UnsetAssumption` tells an entry that was never stored from a number.
The rest are hypotheses of the theorems that need them, since the machines of some runs do
not have them:

* `EqualNodes`: the nodes have equally many cores, and have any. The code says "Assuming nodes
  are homogeneous" and divides. Without it rows overlap, or the last one leaves the array.
* `EqualSockets`: the sockets have equally many nodes and share none, and the package ids have no
  gaps. The run `topology_packages` shows what a gap does; `CoresAreListed` is what remains true
  then.

TLC evaluates both for the inputs of the run `topology` (`MachinesAreEqual` in `MCTopology`), which
satisfy them. Nothing is assumed of the configuration file.

`FileIsObeyed` follows from what has been read so far (`ReadSoFar`): each output is the array of the
last line of its kind among those read, or still empty; a count of zero or a NULL after the
last line that could be read sends the parser to sysfs. `CoresAreFound` follows from `Scanned`: a context is set aside
exactly when a smaller one of its core has been met.

The others rest on one fact about an ascending list: the place of an element is the
number of elements below it. Fewer are below a smaller one, so that this rank is an injection
from a set of n elements into n places, hence onto them (`AscendingIs`); no induction over the
list is needed. It follows that rows of equal width, one after the other, are a bijection between
indices and elements (`Layout`): disjoint rows have rows x width elements (`LayoutCount`), which is
why the quotients `core_cnt` and `node_cnt` are the widths of the rows and why
the array of cores is large enough.

The invariant has two parts. `CoresBuilt` says for each loop what it has done: the entries of the first `i`
rows are stored and the others are not, or `socket_cnt` is the largest package of the
first `i` nodes. Types depend on it: a count is a number because the entry of `cores` that
the package is read through has been stored. `NodesBuilt` says that in the two nested loops
a node is stored exactly when the pair of its socket and itself (`Pair`) has been passed, and that
when the array could not be allocated no such pair has been passed yet, so that the loops do
not get to the end without the crash that the model has there.

### The hooks

`ReeactHooksProofs`, for every set of missing functions, any threads and any `StackDepth`:

| theorem | statement |
|---|---|
| `LockingHolds` | `Spec => []LockingFindsFunction` |
| `HooksWorkHolds` | `Spec => []HooksWorkAfterInit` |

Neither is inductive: a call goes through the pointer as it is *then*, which nested
lookups, other threads and the constructor may have stored since the test. The invariant
`HooksInv` has three parts. `Pointers`: a pointer that is set belongs to a function the process
has, and a thread past the test or the lookup of f finds f set, or f is missing.
It is kept because no step unsets a pointer: a lookup that comes late stores what is there
already. `Settled`: what the constructor has looked up so far is resolved or missing. `Ending`: a
process that has ended did so in a call of a missing function, or in a lookup before the
constructor had done its own; it does not come back to finish it. That an overflow can come only
before the end of the constructor is part of `HooksWorkAfterInit`: after it, a lookup is needed for a missing
function only.

### Only model-checked

* `LockProgress`, `EveryWaitReturns`, `BroadcastReleases` and `EveryRunEnds`: liveness, which rests on fairness and
  is out of the prover's reach.

Every other property of a passing run is stated by a theorem. Of the properties that a run finds
violated, `Represented` and `SysfsTopology` are proved under the hypotheses that these runs lack (a
clear `use_child`; equal sockets and ids without gaps); `FailureReturns` and `SuccessMeansResolved` are
false of the code.

## 5. What is not modelled

* NULL arguments of the `fastsync` functions, and the return 2 of a wait with a second mutex:
  early returns that change nothing, of callers that break the rules of the interface.
* A barrier used by more threads than its count. The destruction of a barrier by a thread
  that has been let go, while the last thread is still to wake the futex, and that of a mutex
  behind the back of an unlocker: neither has an operation in the code that would make
  the late access go wrong (`fastsync_barrier_destroy` does nothing, a mutex has no
  destroy), only memory that is used for something else. The late steps themselves
  (`Wake`, `UnlockClear`, `UnlockWake`) are modelled. The test program destroys its barrier after
  it has joined every thread.
* The 64-bit store of the barrier's reset on machines where it is not atomic.
* Open file descriptors (each file but the last stays open; a read may fail at any point
  of the model), memory leaks and messages of the topology code; machines whose nodes
  have different numbers of cores, which its comment excludes.
* What the consumers of the topology need of a configuration file. `reeact_get_topo_conf` is to "check if
  we have all the information we need", and compares the counts with 0 and the arrays with NULL; it
  does not compare the lengths of the lists with the counts. A file whose list is too short is
  a success, and the log of the debug build then reads past its end. Both steps are in the
  model and in the run `topology` (`ConfEndChecking`, `LogUndefined`), but that a success can be read by its
  counts is not a property of this code, and none states it.
* A `dlsym` that never returns, and `pthread` calls of a signal handler between two steps of a hook
  (the allocator's, inside `dlsym`, are modelled).
* `parse_value_list_expand`, the kernel and the dynamic linker, which are external.
* The gomp hooks, logging and build files, which have no state; the policy built without
  `_REEACT_DEFAULT_POLICY_`, a stub.
* The test program's command line (`Options` are those that `parse_parameters` lets through)
  and the work its library does between two synchronizations.

## 6. The plan

Done: `Futex`, `Mutex`, `FastsyncMutex`, `Barrier`, `FastsyncBarrier`, `Cond`, `FastsyncCond`,
`SyncTest`, `Topology`, `ReeactHooks`, and proofs about each of the six of them that model code: of
every safety property, every action property and every refinement that a passing run checks.

Not planned: nothing in the repository composes the barrier with the condition variable
except the test program, which uses them through `Barrier` and `Cond`; a composition of `SyncTest` with the
detailed modules would follow from their refinements and add no property.
