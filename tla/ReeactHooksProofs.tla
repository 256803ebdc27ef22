------------------------- MODULE ReeactHooksProofs -------------------------
(***************************************************************************)
(* Theorems about ReeactHooks, for every set of missing functions, any     *)
(* threads and any depth to which the allocator nests lookups.             *)
(***************************************************************************)
EXTENDS ReeactHooks, TLAPS, SequenceTheorems

(* The invariant.  A pointer that is set stays set.  So a thread that is   *)
(* past the test or the lookup finds the function when it reads the        *)
(* pointer again, whatever nested lookups, other threads and the           *)
(* constructor have stored in between, or the process does not have it.    *)

Pointers ==
  /\ real \subseteq Functions \ missing
  /\ inside \in [Threads -> Seq(OnDemand)]
  /\ jump \in [Threads -> OnDemand \cup {"none"}]
  /\ \A t \in Threads : jump[t] # "none" => jump[t] \in real \cup missing

\* What the constructor has looked up so far is resolved or missing.
Settled ==
  /\ looked \in 0 .. Len(Lookups)
  /\ \A n \in 1 .. looked : Lookups[n] \in real \cup missing
  /\ stage \in {"loaded", "lookup"} => initRet = -1
  /\ initRet # -1 => looked = Len(Lookups)

\* What may have ended the process: a call through a pointer that was not set,
\* or a lookup that was needed; it does not come back to finish its constructor.
Ending ==
  /\ called # "none" => ~Alive
  /\ LockingFindsFunction
  /\ initRet # -1 /\ called # "none" => called \in missing

HooksInv == Pointers /\ Settled /\ Ending

\* The functions looked up on demand are functions, and "none" is not.
LEMMA OnDemandAre == OnDemand \subseteq Functions /\ "none" \notin Functions
<1>1. /\ Len(Lookups) = 17 /\ 6 \in 1 .. Len(Lookups) /\ 8 \in 1 .. Len(Lookups)
      /\ Lookups[6] = "mutex_lock" /\ Lookups[8] = "mutex_unlock"
      /\ \A n \in 1 .. 17 : Lookups[n] # "none"
  BY DEF Lookups
<1> QED BY <1>1 DEF OnDemand, Functions

\* The result of a dlsym is stored: no pointer is lost, and that of f is set
\* unless the process lacks f.
LEMMA DlsymKeeps ==
  ASSUME NEW t, NEW f \in Functions, real \subseteq Functions \ missing,
         Dlsym(t, f), missing' = missing
  PROVE  /\ real' \subseteq Functions \ missing'
         /\ real \subseteq real'
         /\ f \in real' \cup missing'
BY DEF Dlsym

\* Once the constructor has looked everything up, a function that is not
\* resolved is missing.
LEMMA Resolved ==
  ASSUME HooksInv, initRet # -1
  PROVE  \A f \in Functions : f \in real \cup missing
BY DEF HooksInv, Settled, Functions

\* No pointer is lost: what was settled stays so.
LEMMA SettledStays ==
  ASSUME Settled, real \subseteq real', UNCHANGED <<missing, looked, initRet>>,
         stage' \in {"loaded", "lookup"} => stage' = stage
  PROVE  Settled'
BY DEF Settled

\* The lookups of the constructor.
LEMMA LookupKeeps ==
  ASSUME HooksInv, Lookup
  PROVE  HooksInv'
<1>1. /\ looked \in Nat /\ looked + 1 \in 1 .. Len(Lookups) /\ Lookups[looked + 1] \in Functions
      /\ looked' = looked + 1
  BY DEF HooksInv, Settled, Lookup, LookupThen, Functions, Lookups
<1>2. /\ Dlsym(Main, Lookups[looked + 1]) /\ stage = "lookup"
      /\ UNCHANGED <<missing, stage, handle, initRet, called, inside, jump>>
  BY DEF Lookup, LookupThen
<1>3. /\ real' \subseteq Functions \ missing' /\ real \subseteq real'
      /\ Lookups[looked + 1] \in real' \cup missing'
  BY <1>1, <1>2, DlsymKeeps DEF HooksInv, Pointers
<1>4. Pointers'
  BY <1>2, <1>3 DEF HooksInv, Pointers
<1>5. \A n \in 1 .. looked' : n \in 1 .. looked \/ n = looked + 1
  BY <1>1
<1>6. Settled'
  BY <1>1, <1>2, <1>3, <1>5 DEF HooksInv, Settled
<1>7. Ending'
  BY <1>2 DEF HooksInv, Ending, LockingFindsFunction, Alive
<1> QED BY <1>4, <1>6, <1>7 DEF HooksInv

\* The other steps of the constructor, and the destructor.
LEMMA ConstructorKeeps ==
  ASSUME HooksInv, AllocateFails \/ Allocate \/ CheckError \/ Cleanup
  PROVE  HooksInv'
<1>1. /\ UNCHANGED <<missing, looked, real, called, inside, jump>>
      /\ Alive /\ Alive' /\ stage' # "loaded"
      /\ stage' = "lookup" => stage = "loaded"
      /\ UNCHANGED initRet \/ (stage' = "running" /\ looked = Len(Lookups))
  BY DEF AllocateFails, Allocate, CheckError, Cleanup, Alive
<1>2. called = "none"
  BY <1>1 DEF HooksInv, Ending
<1>3. Pointers'
  BY <1>1 DEF HooksInv, Pointers
<1>4. Settled'
  BY <1>1 DEF HooksInv, Settled
<1>5. Ending'
  BY <1>1, <1>2 DEF Ending, LockingFindsFunction, Alive
<1> QED BY <1>3, <1>4, <1>5 DEF HooksInv

\* A lock or unlock that tests its pointer: it goes on to the call, to a
\* lookup on top of those it is called from, or to the end of the stack.
LEMMA CallOnDemandKeeps ==
  ASSUME HooksInv, NEW t \in Threads, NEW f \in Functions, CallOnDemand(t, f)
  PROVE  HooksInv'
<1>1. /\ Alive /\ f \in OnDemand /\ called = "none"
      /\ UNCHANGED <<missing, handle, looked, real, dlerr, initRet>>
  BY DEF CallOnDemand, OnDemandCall, HooksInv, Ending
<1>2. CASE f \in real
  <2>1. jump' = [jump EXCEPT ![t] = f] /\ UNCHANGED <<stage, called, inside>>
    BY <1>2 DEF CallOnDemand, OnDemandCall
  <2>2. Pointers'
    BY <1>1, <1>2, <2>1 DEF HooksInv, Pointers
  <2>3. Settled' /\ Ending'
    BY <1>1, <2>1, SettledStays DEF HooksInv, Ending, LockingFindsFunction, Alive
  <2> QED BY <2>2, <2>3 DEF HooksInv
<1>3. CASE f \notin real /\ Len(inside[t]) < StackDepth
  <2>1. inside' = [inside EXCEPT ![t] = <<f>> \o @] /\ UNCHANGED <<stage, called, jump>>
    BY <1>3, ThreadsAssumption DEF CallOnDemand, OnDemandCall
  <2>2. <<f>> \o inside[t] \in Seq(OnDemand)
    BY <1>1 DEF HooksInv, Pointers
  <2>3. Pointers'
    BY <1>1, <2>1, <2>2 DEF HooksInv, Pointers
  <2>4. Settled' /\ Ending'
    BY <1>1, <2>1, SettledStays DEF HooksInv, Ending, LockingFindsFunction, Alive
  <2> QED BY <2>3, <2>4 DEF HooksInv
<1>4. CASE f \notin real /\ ~(Len(inside[t]) < StackDepth)
  <2>1. stage' = "overflown" /\ called' = f /\ UNCHANGED <<inside, jump>>
    BY <1>4, ThreadsAssumption DEF CallOnDemand, OnDemandCall, Ends
  <2>2. Pointers'
    BY <1>1, <2>1 DEF HooksInv, Pointers
  <2>3. Settled'
    BY <1>1, <2>1, SettledStays DEF HooksInv
  <2>4. initRet # -1 => f \in missing
    BY <1>4, Resolved
  <2>5. Ending'
    BY <1>1, <2>1, <2>4 DEF Ending, LockingFindsFunction, Alive
  <2> QED BY <2>2, <2>3, <2>5 DEF HooksInv
<1> QED BY <1>2, <1>3, <1>4

\* A dlsym of a lock or unlock returns.
LEMMA LookupReturnsKeeps ==
  ASSUME HooksInv, NEW t \in Threads, LookupReturns(t)
  PROVE  HooksInv'
<1> DEFINE f == Head(inside[t])
<1>1. /\ Alive /\ called = "none" /\ Dlsym(t, f)
      /\ inside' = [inside EXCEPT ![t] = Tail(@)] /\ jump' = [jump EXCEPT ![t] = f]
      /\ UNCHANGED <<missing, stage, handle, looked, initRet, called>>
  BY DEF LookupReturns, HooksInv, Ending
<1>2. inside[t] \in Seq(OnDemand) /\ inside[t] # <<>>
  BY DEF LookupReturns, HooksInv, Pointers
<1>3. f \in OnDemand /\ Tail(inside[t]) \in Seq(OnDemand)
  BY <1>2, HeadTailProperties
<1>4. f \in Functions
  BY <1>3, OnDemandAre
<1> HIDE DEF f
<1>5. /\ real' \subseteq Functions \ missing' /\ real \subseteq real'
      /\ f \in real' \cup missing'
  BY <1>1, <1>4, DlsymKeeps DEF HooksInv, Pointers
<1>6. Pointers'
  BY <1>1, <1>3, <1>5 DEF HooksInv, Pointers
<1>7. Settled'
  BY <1>1, <1>5, SettledStays DEF HooksInv
<1>8. Ending'
  BY <1>1 DEF Ending, LockingFindsFunction, Alive
<1> QED BY <1>6, <1>7, <1>8 DEF HooksInv

\* A call through a pointer, of a hook of either kind: what ends the process is
\* a pointer that is not set.
LEMMA CallKeeps ==
  ASSUME HooksInv, NEW t \in Threads, Jump(t) \/ \E f \in Functions : Call(t, f)
  PROVE  HooksInv'
<1>1. Alive /\ called = "none" /\ UNCHANGED <<missing, handle, looked, real, initRet, inside>>
  BY DEF Jump, Call, HooksInv, Ending
<1>2. jump' = jump \/ jump' = [jump EXCEPT ![t] = "none"]
  BY DEF Jump, Call
<1>3. \/ UNCHANGED <<stage, called>>
      \/ \E f \in Functions \ real : /\ stage' = "crashed" /\ called' = f
                                     /\ f \in OnDemand => f \in missing
  <2>1. CASE Jump(t)
    BY <2>1, OnDemandAre DEF Jump, Ends, HooksInv, Pointers
  <2>2. CASE \E f \in Functions : Call(t, f)
    BY <2>2 DEF Call, Ends
  <2> QED BY <2>1, <2>2
<1>4. Pointers'
  BY <1>1, <1>2 DEF HooksInv, Pointers
<1>5. Settled'
  BY <1>1, <1>3, SettledStays DEF HooksInv
<1>6. Ending'
  BY <1>1, <1>3, Resolved DEF Ending, LockingFindsFunction, Alive
<1> QED BY <1>4, <1>5, <1>6 DEF HooksInv

\* The invariant holds throughout the life of the library.
LEMMA HooksInvHolds == Spec => []HooksInv
<1>1. Init => HooksInv
  <2> SUFFICES ASSUME Init PROVE HooksInv
    OBVIOUS
  <2>1. Pointers
    BY DEF Init, Pointers
  <2>2. Settled
    BY DEF Init, Settled, Lookups
  <2>3. Ending
    BY DEF Init, Ending, LockingFindsFunction
  <2> QED BY <2>1, <2>2, <2>3 DEF HooksInv
<1>2. HooksInv /\ [Next]_vars => HooksInv'
  <2> SUFFICES ASSUME HooksInv, [Next]_vars
               PROVE  HooksInv'
    OBVIOUS
  <2>1. CASE Lookup
    BY <2>1, LookupKeeps
  <2>2. CASE AllocateFails \/ Allocate \/ CheckError \/ Cleanup
    BY <2>2, ConstructorKeeps
  <2>3. ASSUME NEW t \in Threads, LookupReturns(t) \/ Jump(t)
        PROVE  HooksInv'
    BY <2>3, LookupReturnsKeeps, CallKeeps
  <2>4. ASSUME NEW t \in Threads, NEW f \in Functions, CallOnDemand(t, f) \/ Call(t, f)
        PROVE  HooksInv'
    BY <2>4, CallOnDemandKeeps, CallKeeps
  <2>5. CASE Stopped \/ UNCHANGED vars
    BY <2>5 DEF Stopped, vars, HooksInv, Pointers, Settled, Ending, LockingFindsFunction, Alive
  <2> QED BY <2>1, <2>2, <2>3, <2>4, <2>5 DEF Next
<1> QED BY <1>1, <1>2, PTL DEF Spec

-----------------------------------------------------------------------------
(* The theorems.                                                           *)

\* reeact_policy_pthread_mutex_lock and unlock: their call through the pointer
\* reaches the real function of a process that has one, at whatever depth of
\* lookups inside lookups and whichever threads look it up at the same time.
THEOREM LockingHolds == Spec => []LockingFindsFunction
<1>1. HooksInv => LockingFindsFunction
  BY DEF HooksInv, Ending
<1> QED BY <1>1, HooksInvHolds, PTL

\* reeact_pthread_hooks_init: once it has returned, with whatever value, every
\* function that the process has is resolved, and only a call of a missing one
\* ends the process, be it through NULL or in lookups that nest without end.
THEOREM HooksWorkHolds == Spec => []HooksWorkAfterInit
<1>1. HooksInv => HooksWorkAfterInit
  BY Resolved DEF HooksInv, Pointers, Ending, HooksWorkAfterInit
<1> QED BY <1>1, HooksInvHolds, PTL

=============================================================================
