---------------------------- MODULE ReeactHooks ----------------------------
(***************************************************************************)
(* The life of the preloaded library: the constructor and the destructor   *)
(* of src/reeact.c, the lookup of the real pthread functions in            *)
(* src/pthread_hooks/pthread_hooks.c, and the hooks, which in the default  *)
(* policy call the real functions (src/policies/reeact_policy.c).          *)
(*                                                                         *)
(* Any thread may call any hook at any time: before the constructor (from  *)
(* a constructor that runs earlier), beside it and after the destructor.   *)
(* dlsym may allocate, and the allocator lock and unlock: a thread that is *)
(* inside dlsym may call the hooks again, also the one it comes from, and  *)
(* that may go on until the stack is used up.  One action has at most one  *)
(* read or write of a pointer that other threads may read or write too.    *)
(***************************************************************************)
EXTENDS Integers, Sequences, FiniteSets

CONSTANTS
  MissingSets,  \* which functions the other libraries may lack
  Threads,      \* the threads of the process
  Main,         \* the one that runs the constructor
  StackDepth    \* how many unfinished lookups fit on the stack of a thread

\* The functions, in the order in which they are looked up.
Lookups == <<"create", "barrier_init", "barrier_wait", "barrier_destroy",
             "mutex_init", "mutex_lock", "mutex_trylock", "mutex_unlock",
             "mutex_consistent", "mutex_destroy", "mutex_timedlock", "cond_init",
             "cond_destroy", "cond_signal", "cond_broadcast", "cond_wait",
             "cond_timedwait">>

Functions == {Lookups[n] : n \in 1 .. Len(Lookups)}
OnDemand  == {"mutex_lock", "mutex_unlock"}

ASSUME MissingAssumption == MissingSets \subseteq SUBSET Functions
ASSUME ThreadsAssumption == Main \in Threads /\ StackDepth \in Nat

VARIABLES
  missing,  \* the functions that no other library provides
  stage,    \* "loaded", "lookup", "running", "exited"; or how the process
            \* ended: "crashed" (a call through NULL) or "overflown" (the stack)
  handle,   \* reeact_handle: "null", "allocated" or "freed"
  looked,   \* how many functions the constructor has looked up
  real,     \* the functions f whose pointer real_f is set
  dlerr,    \* what dlerror would tell Main: is there an error
  initRet,  \* what reeact_pthread_hooks_init returned, -1 before
  called,   \* the hook whose call ended the process, if any
  inside,   \* the lock and unlock hooks of each thread that are inside their
            \* dlsym, innermost first
  jump      \* the lock or unlock hook in which the thread is past the test and
            \* the lookup, about to call through the pointer, or "none"

vars == <<missing, stage, handle, looked, real, dlerr, initRet, called, inside, jump>>

Init ==
  /\ missing \in MissingSets
  /\ stage = "loaded"
  /\ handle = "null"
  /\ looked = 0
  /\ real = {}
  /\ dlerr = FALSE
  /\ initRet = -1
  /\ called = "none"
  /\ inside = [t \in Threads |-> <<>>]
  /\ jump = [t \in Threads |-> "none"]

Alive   == stage \notin {"crashed", "overflown"}
Idle(t) == inside[t] = <<>> /\ jump[t] = "none"

\* A dlsym(RTLD_NEXT, f) of t returns, and its result is stored in real_f.  The
\* call forgets an earlier error of the thread, whether or not it fails itself.
Dlsym(t, f) ==
  /\ real' = IF f \in missing THEN real \ {f} ELSE real \cup {f}
  /\ dlerr' = IF t = Main THEN f \in missing ELSE dlerr

-----------------------------------------------------------------------------
(* The constructor, reeact_init, and the destructor.                       *)

\* calloc; nothing else is done when it fails.
AllocateFails ==
  /\ stage = "loaded" /\ Idle(Main)
  /\ stage' = "running"
  /\ UNCHANGED <<missing, handle, looked, real, dlerr, initRet, called, inside, jump>>

\* calloc, the per-process data, the topology (see Topology; its result is
\* not looked at), and the dlerror() that clears an earlier error.
Allocate ==
  /\ stage = "loaded" /\ Idle(Main)
  /\ stage' = "lookup"
  /\ handle' = "allocated"
  /\ dlerr' = FALSE
  /\ UNCHANGED <<missing, looked, real, initRet, called, inside, jump>>

LookupThen(next) ==
  /\ stage = "lookup" /\ looked < Len(Lookups) /\ Idle(Main)
  /\ Dlsym(Main, Lookups[looked + 1])
  /\ looked' = next
  /\ UNCHANGED <<missing, stage, handle, initRet, called, inside, jump>>

\* Mutant of Lookup: the first function that is not found ends the lookups.
LookupUntilError ==
  LookupThen(IF Lookups[looked + 1] \in missing THEN Len(Lookups) ELSE looked + 1)

\* The constructor is inside one dlsym after the other, where the allocator
\* may call the hooks; Main is idle again when its dlsym returns.
Lookup == LookupThen(looked + 1)

\* The one dlerror() after the lookups, the return, and the rest of the
\* constructor: the error is logged only, gomp hooks and policy keep no state.
CheckError ==
  /\ stage = "lookup" /\ looked = Len(Lookups) /\ Idle(Main)
  /\ stage' = "running"
  /\ initRet' = IF dlerr THEN 1 ELSE 0
  /\ dlerr' = FALSE
  /\ UNCHANGED <<missing, handle, looked, real, called, inside, jump>>

\* reeact_cleanup, run by the thread that exits: reeact_handle keeps its value.
Cleanup ==
  /\ stage = "running" /\ \E t \in Threads : Idle(t)
  /\ stage' = "exited"
  /\ handle' = IF handle = "null" THEN "null" ELSE "freed"
  /\ UNCHANGED <<missing, looked, real, dlerr, initRet, called, inside, jump>>

-----------------------------------------------------------------------------
(* The hooks.                                                              *)

\* The process ends in this way, in a call of f.
Ends(how, f) == stage' = how /\ called' = f

\* pthread_mutex_lock or unlock is called, by the program or, inside dlsym, by
\* the allocator, and tests its pointer.  A lookup that is needed takes another
\* piece of the stack: nothing tells that one is under way already.
OnDemandCall(t, f, needed) ==
  /\ Alive /\ f \in OnDemand /\ jump[t] = "none"
  /\ \/ /\ ~needed
        /\ jump' = [jump EXCEPT ![t] = f]
        /\ UNCHANGED <<stage, called, inside>>
     \/ /\ needed /\ Len(inside[t]) < StackDepth
        /\ inside' = [inside EXCEPT ![t] = <<f>> \o @]
        /\ UNCHANGED <<stage, called, jump>>
     \/ /\ needed /\ Len(inside[t]) >= StackDepth
        /\ Ends("overflown", f)
        /\ UNCHANGED <<inside, jump>>
  /\ UNCHANGED <<missing, handle, looked, real, dlerr, initRet>>

\* Mutant of CallOnDemand: a flag says that a lookup is under way, and whoever
\* finds it set does not start another.
CallUnlessLooking(t, f) ==
  OnDemandCall(t, f, f \notin real /\ \A u \in Threads : inside[u] = <<>>)

CallOnDemand(t, f) == OnDemandCall(t, f, f \notin real)

\* The innermost dlsym of a thread returns and its result is stored.
LookupReturns(t) ==
  /\ Alive /\ inside[t] # <<>> /\ jump[t] = "none"
  /\ Dlsym(t, Head(inside[t]))
  /\ inside' = [inside EXCEPT ![t] = Tail(@)]
  /\ jump' = [jump EXCEPT ![t] = Head(inside[t])]
  /\ UNCHANGED <<missing, stage, handle, looked, initRet, called>>

\* The call through the pointer, which is read once more.
Jump(t) ==
  /\ Alive /\ jump[t] # "none"
  /\ IF jump[t] \in real
     THEN jump' = [jump EXCEPT ![t] = "none"] /\ UNCHANGED <<stage, called>>
     ELSE Ends("crashed", jump[t]) /\ UNCHANGED jump
  /\ UNCHANGED <<missing, handle, looked, real, dlerr, initRet, inside>>

\* The other hooks call through their pointer and nothing else.
Call(t, f) ==
  /\ Alive /\ f \in Functions \ OnDemand /\ jump[t] = "none"
  /\ IF f \in real THEN UNCHANGED <<stage, called>> ELSE Ends("crashed", f)
  /\ UNCHANGED <<missing, handle, looked, real, dlerr, initRet, inside, jump>>

Stopped == ~Alive /\ UNCHANGED vars

Next ==
  \/ AllocateFails \/ Allocate \/ Lookup \/ CheckError \/ Cleanup
  \/ \E t \in Threads :
       \/ LookupReturns(t) \/ Jump(t)
       \/ \E f \in Functions : CallOnDemand(t, f) \/ Call(t, f)
  \/ Stopped

Spec == Init /\ [][Next]_vars

-----------------------------------------------------------------------------
(* Properties.                                                             *)

\* A lock or unlock never calls through NULL in a process that has the
\* function: not before the constructor or after one that gave up, not from
\* inside the dlsym of the constructor or of any number of other locks, not
\* when several threads look the pointer up at once, not after the destructor.
\* It may still use up the stack: reeact_policy.c has no remedy for an allocator
\* that locks in every dlsym.
LockingFindsFunction == stage = "crashed" /\ called \in OnDemand => called \in missing

\* A constructor that got its memory leaves every function resolved that the
\* process has, also when others are missing: from then on only a call of a
\* missing function ends the process, and no lock of a function that is there
\* nests lookups until the stack is used up.
HooksWorkAfterInit ==
  initRet # -1 => real = Functions \ missing /\ (called # "none" => called \in missing)

\* "Return value: 0: success, other: error" and
\* REEACT_PTHREAD_HOOKS_ERR_LOAD_ORIGINAL_FUNCTION (pthread_hooks.h): an
\* initialisation that returns 0 has found every function.
SuccessMeansResolved == initRet = 0 => real = Functions

=============================================================================
