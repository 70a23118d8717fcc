--------------------------- MODULE ModuleLeaseProofs ---------------------------
(***************************************************************************)
(* NativeLibrary (Zig) and NativeServer (.NET) for any number of calls and *)
(* references.  In both a count decides when the library is unloaded; it   *)
(* is the number of the live references and leases, so no call runs in a   *)
(* module that has been closed, and the counter implements the abstract    *)
(* ModuleLease.                                                            *)
(*                                                                         *)
(* IInv adds two facts to the properties of the Zig module.  The module is *)
(* loaded exactly while the count is positive: with the count it is the    *)
(* reason the last release may close the loader.  And a call that has not  *)
(* taken its lease yet began from a reference that is still live: it is    *)
(* what makes its retain an increment of a positive count.                 *)
(***************************************************************************)
EXTENDS MCModuleLeases, HostInvokeProofs, FiniteSetTheorems

LoadedWhileReferenced == module = "loaded" <=> refs > 0

StartsFromLive == \A c \in Calls :
  pc[c] = "entered" => via[c] \in Owners /\ own[via[c]] = "live"

LeaseTypeOK == /\ refs \in Nat
               /\ module \in {"unopened", "loaded", "closing", "closed", "destroyed"}
               /\ own \in [Owners -> {"none", "live", "released"}]
               /\ via \in [Calls -> Owners \cup {None}]

IInv == /\ CallInv
        /\ LeaseTypeOK
        /\ RefsCounted
        /\ LoadedWhileReferenced
        /\ StartsFromLive

-------------------------------------------------------------------------------
\* Live references and leases are finite, so they can be counted.
LEMMA Finite ==
  /\ IsFiniteSet(Live) /\ IsFiniteSet(Leases)
  /\ Cardinality(Live) \in Nat /\ Cardinality(Leases) \in Nat
<1>1. Live \subseteq Owners /\ Leases \subseteq Calls
  BY DEF Live, Leases
<1> QED BY <1>1, OwnersAreFinite, FS_Subset, FS_CardinalityType

\* One more, or one fewer, counts as one.
LEMMA CountOne ==
  ASSUME NEW S, IsFiniteSet(S), NEW x
  PROVE  /\ x \notin S => Cardinality(S \cup {x}) = Cardinality(S) + 1
         /\ x \in S => /\ Cardinality(S \ {x}) = Cardinality(S) - 1
                       /\ Cardinality(S) > 0
<1>1. Cardinality(S) \in Nat
  BY FS_CardinalityType
<1>2. x \notin S => Cardinality(S \cup {x}) = Cardinality(S) + 1
  BY FS_AddElement
<1>3. x \in S => Cardinality(S \ {x}) = Cardinality(S) - 1
  BY FS_RemoveElement
<1>4. x \in S => Cardinality(S) # 0
  BY FS_EmptySet
<1> QED BY <1>1, <1>2, <1>3, <1>4

\* What holds the module is counted, and what is counted keeps it loaded.
LEMMA HeldIsLoaded ==
  ASSUME IInv
  PROVE  /\ \A c \in Calls : Leased(c) => refs > 0 /\ module = "loaded"
         /\ Live # {} => refs > 0 /\ module = "loaded"
<1> USE DEF IInv, LeaseTypeOK, RefsCounted, LoadedWhileReferenced
<1>1. ASSUME NEW c \in Calls, Leased(c)
      PROVE  refs > 0
  <2>1. c \in Leases
    BY <1>1 DEF Leases
  <2>2. Cardinality(Leases) > 0
    BY <2>1, Finite, CountOne
  <2> QED BY <2>2, Finite
<1>2. ASSUME NEW o \in Live
      PROVE  refs > 0
  <2>1. Cardinality(Live) > 0
    BY <1>2, Finite, CountOne
  <2> QED BY <2>1, Finite
<1> QED BY <1>1, <1>2

-------------------------------------------------------------------------------
\* Before the module is opened nothing is counted.
LEMMA InitInv == Init => IInv
<1> SUFFICES ASSUME Init PROVE IInv
  OBVIOUS
<1>1. Live = {} /\ Leases = {}
  BY DEF Init, CallInit, Live, Leases, Leased, InNative
<1>2. RefsCounted
  BY <1>1, FS_EmptySet DEF RefsCounted, Init
<1>3. LeaseTypeOK /\ LoadedWhileReferenced /\ StartsFromLive
  BY DEF LeaseTypeOK, LoadedWhileReferenced, StartsFromLive, Init, CallInit
<1> QED BY <1>2, <1>3, CallInitInv DEF IInv, Init

\* open, retain and the deinit of a reference.
LEMMA OwnerInv ==
  ASSUME NEW o \in Owners, IInv, Open(o) \/ RetainOwner(o) \/ ReleaseOwner(o)
  PROVE  IInv'
<1> USE DEF IInv, LeaseTypeOK
<1>1. UNCHANGED callVars
  BY DEF Open, RetainOwner, ReleaseOwner
<1>2. CallInv' /\ Leases' = Leases
  BY <1>1, CallUnchanged DEF callVars, Leases, Leased, InNative
<1>3. CASE Open(o)
  <2>1. Live = {} /\ Leases = {}
    BY <1>3, HeldIsLoaded DEF Open, Leases
  <2>2. Live' = {o}
    BY <1>3, <2>1 DEF Open, Live
  <2>3. RefsCounted'
    <3>1. Cardinality(Leases') = 0
      BY <1>2, <2>1, Finite, FS_EmptySet
    <3>2. Cardinality(Live') = 1
      BY <2>2, FS_Singleton
    <3> QED BY <1>3, <3>1, <3>2 DEF RefsCounted, Open
  <2>4. StartsFromLive'
    BY <1>3, <2>1 DEF StartsFromLive, Open, callVars, Live
  <2> QED BY <1>2, <1>3, <2>3, <2>4 DEF Open, LoadedWhileReferenced
<1>4. CASE RetainOwner(o)
  <2>1. Live' = Live \cup {o} /\ o \notin Live
    BY <1>4 DEF RetainOwner, Live
  <2>2. RefsCounted'
    BY <1>2, <1>4, <2>1, Finite, CountOne DEF RefsCounted, RetainOwner, Retain
  <2>3. LoadedWhileReferenced'
    BY <1>4, HeldIsLoaded DEF LoadedWhileReferenced, RetainOwner, Retain
  <2>4. StartsFromLive'
    BY <1>4 DEF StartsFromLive, RetainOwner, Retain, callVars
  <2> QED BY <1>2, <1>4, <2>2, <2>3, <2>4 DEF RetainOwner, Retain
<1>5. CASE ReleaseOwner(o)
  <2>1. Live' = Live \ {o} /\ o \in Live
    BY <1>5 DEF ReleaseOwner, Live
  <2>2. refs > 0 /\ module = "loaded"
    BY <2>1, HeldIsLoaded
  <2>3. RefsCounted'
    BY <1>2, <1>5, <2>1, Finite, CountOne DEF RefsCounted, ReleaseOwner, Release
  <2>4. LoadedWhileReferenced'
    BY <1>5, <2>2 DEF LoadedWhileReferenced, ReleaseOwner, Release
  <2>5. StartsFromLive'
    BY <1>5 DEF StartsFromLive, ReleaseOwner, callVars
  <2>6. LeaseTypeOK'
    BY <1>5, <2>2 DEF ReleaseOwner, Release
  <2> QED BY <1>2, <2>3, <2>4, <2>5, <2>6
<1> QED BY <1>3, <1>4, <1>5

\* The end of release, in the thread that took the last reference.
LEMMA CloseInv ==
  ASSUME IInv, CloseLoader \/ DestroyHandle \/ UNCHANGED vars
  PROVE  IInv'
<1>1. CallInv'
  BY CallUnchanged DEF IInv, CloseLoader, DestroyHandle, vars
<1>2. Live' = Live /\ Leases' = Leases
  BY DEF CloseLoader, DestroyHandle, vars, leaseVars, callVars, Live, Leases, Leased, InNative
<1> QED BY <1>1, <1>2 DEF IInv, LeaseTypeOK, RefsCounted, LoadedWhileReferenced,
                          StartsFromLive, CloseLoader, DestroyHandle, vars, leaseVars, callVars

\* A call enters from a live reference; it holds no lease yet.
LEMMA InvokeInv ==
  ASSUME NEW c \in Calls, NEW p \in Calls \cup {None}, NEW o \in Owners,
         IInv, Invoke(c, p, o)
  PROVE  IInv'
<1> USE DEF IInv, LeaseTypeOK
<1>1. CallInv'
  BY EnterInv DEF Invoke
<1>2. Live' = Live /\ Leases' = Leases
  BY LeaseSteps DEF Invoke, Live, Leases
<1>3. StartsFromLive'
  <2>1. \A d \in Calls : d # c => pc'[d] = pc[d] /\ via'[d] = via[d]
    BY LeaseSteps DEF Invoke
  <2>2. via'[c] = o /\ own'[o] = "live"
    BY DEF Invoke
  <2> QED BY <2>1, <2>2 DEF StartsFromLive, Invoke
<1> QED BY <1>1, <1>2, <1>3 DEF Invoke, RefsCounted, LoadedWhileReferenced

\* retain at the start of invoke.
LEMMA TakeCallLeaseInv ==
  ASSUME NEW c \in Calls, IInv, TakeCallLease(c)
  PROVE  IInv'
<1> USE DEF IInv, LeaseTypeOK, TakeCallLease, Retain
<1>1. CallInv'
  BY LeaseInv
<1>2. Leases' = Leases \cup {c} /\ c \notin Leases /\ Live' = Live
  BY LeaseSteps DEF Leases, Live
<1>3. RefsCounted'
  BY <1>2, Finite, CountOne DEF RefsCounted
<1>4. refs > 0
  <2>1. pc[c] = "entered"
    BY LeaseSteps
  <2>2. Live # {}
    BY <2>1 DEF StartsFromLive, Live
  <2> QED BY <2>2, HeldIsLoaded
<1>5. LoadedWhileReferenced'
  BY <1>4 DEF LoadedWhileReferenced
<1>6. StartsFromLive'
  BY LeaseSteps DEF StartsFromLive, TakeLease, Goto, CallInv, CallTypeOK
<1> QED BY <1>1, <1>3, <1>5, <1>6

\* Between the two, on every path, the lease stays.
LEMMA ProceedInv ==
  ASSUME NEW c \in Calls, IInv, Proceed(c)
  PROVE  IInv'
<1> USE DEF IInv, LeaseTypeOK, Proceed
<1>1. CallInv'
  BY WorkInv
<1>2. Live' = Live /\ Leases' = Leases
  BY WorkKeepsLeases DEF leaseVars, Live, Leases
<1>3. StartsFromLive'
  BY WorkKeepsLeases DEF StartsFromLive, leaseVars
<1> QED BY <1>1, <1>2, <1>3 DEF leaseVars, RefsCounted, LoadedWhileReferenced

\* The deferred release, the last thing invoke does.
LEMMA ReturnCallLeaseInv ==
  ASSUME NEW c \in Calls, IInv, ReturnCallLease(c)
  PROVE  IInv'
<1> USE DEF IInv, LeaseTypeOK, ReturnCallLease, Release
<1>1. CallInv'
  BY LeaseInv
<1>2. Leases' = Leases \ {c} /\ c \in Leases /\ Live' = Live
  BY LeaseSteps DEF Leases, Live
<1>3. refs > 0 /\ module = "loaded"
  BY LeaseSteps, HeldIsLoaded
<1>4. RefsCounted'
  BY <1>2, Finite, CountOne DEF RefsCounted
<1>5. LoadedWhileReferenced' /\ LeaseTypeOK'
  BY <1>3 DEF LoadedWhileReferenced
<1>6. StartsFromLive'
  BY LeaseSteps DEF StartsFromLive, ReturnLease, Goto, CallInv, CallTypeOK
<1> QED BY <1>1, <1>4, <1>5, <1>6

\* One case for each disjunct of Next.
LEMMA NextInv == IInv /\ [Next]_vars => IInv'
<1> SUFFICES ASSUME IInv, [Next]_vars PROVE IInv'
  OBVIOUS
<1>1. ASSUME NEW o \in Owners, Open(o) \/ RetainOwner(o) \/ ReleaseOwner(o)
      PROVE  IInv'
  BY <1>1, OwnerInv
<1>2. CASE CloseLoader \/ DestroyHandle \/ Finished \/ UNCHANGED vars
  BY <1>2, CloseInv DEF Finished
<1>3. ASSUME NEW c \in Calls, Continue(c)
      PROVE  IInv'
  BY <1>3, TakeCallLeaseInv, ProceedInv, ReturnCallLeaseInv DEF Continue
<1>4. ASSUME NEW c \in Calls, NEW p \in Calls \cup {None}, NEW o \in Owners, Invoke(c, p, o)
      PROVE  IInv'
  BY <1>4, InvokeInv
<1> QED BY <1>1, <1>2, <1>3, <1>4 DEF Next

\* The inductive invariant holds in every state.
LEMMA Invariance == Spec => []IInv
  BY InitInv, NextInv, PTL DEF Spec

-------------------------------------------------------------------------------
\* The state of the module and of the calls made through it stays well typed;
\* the count never goes below zero.
THEOREM TypeCorrect == Spec => []TypeOK
<1>1. IInv => TypeOK
  BY DEF IInv, CallInv, LeaseTypeOK, TypeOK
<1> QED BY <1>1, Invariance, PTL

\* retain and release are balanced on every path through invoke, also those
\* that end in an error.
THEOREM ReferencesCounted == Spec => []RefsCounted
<1>1. IInv => RefsCounted
  BY DEF IInv
<1> QED BY <1>1, Invariance, PTL

\* No call runs in, or frees its result with, a module that is being closed.
THEOREM NeverUsedAfterUnload == Spec => []NoUseAfterUnload
<1>1. IInv => NoUseAfterUnload
  BY HeldIsLoaded DEF NoUseAfterUnload
<1> QED BY <1>1, Invariance, PTL

\* An application's own error is what invoke gives back to it.
THEOREM HostErrorReturned == Spec => []HostErrorWins
<1>1. IInv => HostErrorWins
  BY CallInvSafe DEF IInv
<1> QED BY <1>1, Invariance, PTL

\* invoke frees every result lks_invoke allocated.
THEOREM EveryResultFreed == Spec => []ResultFreed
<1>1. IInv => ResultFreed
  BY CallInvSafe DEF IInv
<1> QED BY <1>1, Invariance, PTL

-------------------------------------------------------------------------------
\* The module begins unopened, for the counter as for the abstract lease.
LEMMA LeaseInit == Init => Lease!Init
  BY DEF Init, CallInit, Lease!Init, Live, Leases, Leased, InNative, ModuleState

\* Steps of the references: they open, own and disown the module.
LEMMA OwnerRefines ==
  ASSUME NEW o \in Owners, IInv, Open(o) \/ RetainOwner(o) \/ ReleaseOwner(o)
  PROVE  Lease!Next
<1>1. Leases' = Leases
  BY DEF Open, RetainOwner, ReleaseOwner, callVars, Leases, Leased, InNative
<1>2. Live # {} => refs > 0 /\ module = "loaded"
  BY HeldIsLoaded
<1>3. CASE Open(o)
  <2>1. Live' = {o}
    BY <1>2, <1>3 DEF Open, Live, IInv, LeaseTypeOK
  <2>2. Lease!Open(o)
    BY <1>1, <1>3, <2>1 DEF Open, Lease!Open, ModuleState
  <2> QED BY <2>2 DEF Lease!Next
<1>4. CASE RetainOwner(o)
  <2>1. Live' = Live \cup {o}
    BY <1>4 DEF RetainOwner, Live, IInv, LeaseTypeOK
  <2>2. Lease!Own(o)
    BY <1>1, <1>4, <2>1 DEF RetainOwner, Retain, Lease!Own, ModuleState
  <2> QED BY <2>2 DEF Lease!Next
<1>5. CASE ReleaseOwner(o)
  <2>1. Live' = Live \ {o} /\ o \in Live
    BY <1>5 DEF ReleaseOwner, Live, IInv, LeaseTypeOK
  <2>2. Lease!Disown(o)
    BY <1>1, <1>2, <1>5, <2>1 DEF ReleaseOwner, Release, Lease!Disown, ModuleState
  <2> QED BY <2>2 DEF Lease!Next
<1> QED BY <1>3, <1>4, <1>5

\* Steps of a call: it takes its lease, returns it, or leaves the lease alone.
LEMMA ContinueRefines ==
  ASSUME NEW c \in Calls, IInv, Continue(c)
  PROVE  Lease!Next \/ UNCHANGED Lease!vars
<1>1. CASE TakeCallLease(c)
  <2>1. Live' = Live /\ Live # {} /\ module' = module
    BY <1>1, LeaseSteps DEF TakeCallLease, Retain, Live, IInv, StartsFromLive
  <2>2. Leases' = Leases \cup {c}
    BY <1>1, LeaseSteps DEF TakeCallLease, Leases, IInv
  <2>3. Lease!Lease(c)
    BY <2>1, <2>2 DEF Lease!Lease, ModuleState
  <2> QED BY <2>3 DEF Lease!Next
<1>2. CASE ReturnCallLease(c)
  <2>1. Live' = Live /\ module = "loaded" /\ module' \in {"loaded", "closing"}
    BY <1>2, LeaseSteps, HeldIsLoaded DEF ReturnCallLease, Release, Live, IInv
  <2>2. Leases' = Leases \ {c} /\ c \in Leases
    BY <1>2, LeaseSteps DEF ReturnCallLease, Leases, IInv
  <2>3. Lease!Return(c)
    BY <2>1, <2>2 DEF Lease!Return, ModuleState
  <2> QED BY <2>3 DEF Lease!Next
<1>3. CASE Proceed(c)
  BY <1>3, WorkKeepsLeases
     DEF Proceed, leaseVars, Lease!vars, Live, Leases, ModuleState, IInv
<1> QED BY <1>1, <1>2, <1>3 DEF Continue

\* Closing the loader is the abstract unload; nothing is held by then.
LEMMA CloseRefines ==
  ASSUME IInv, CloseLoader
  PROVE  Lease!Next
<1>1. module = "closing" /\ Live = {} /\ Leases = {}
  BY HeldIsLoaded DEF CloseLoader, Leases
<1>2. Live' = Live /\ Leases' = Leases
  BY DEF CloseLoader, callVars, Live, Leases, Leased, InNative
<1>3. Lease!Unload
  BY <1>1, <1>2 DEF CloseLoader, Lease!Unload, ModuleState
<1> QED BY <1>3 DEF Lease!Next

\* Every step is a step of the abstract lease or leaves it alone.
LEMMA NextRefines == IInv /\ [Next]_vars => [Lease!Next]_(Lease!vars)
<1> SUFFICES ASSUME IInv, [Next]_vars PROVE [Lease!Next]_(Lease!vars)
  OBVIOUS
<1>1. ASSUME NEW o \in Owners, Open(o) \/ RetainOwner(o) \/ ReleaseOwner(o)
      PROVE  Lease!Next
  BY <1>1, OwnerRefines
<1>2. CASE CloseLoader
  BY <1>2, CloseRefines
<1>3. CASE DestroyHandle
  BY <1>3 DEF DestroyHandle, Lease!vars, callVars, Live, Leases, Leased, InNative, ModuleState
<1>4. ASSUME NEW c \in Calls, Continue(c)
      PROVE  Lease!Next \/ UNCHANGED Lease!vars
  BY <1>4, ContinueRefines
<1>5. ASSUME NEW c \in Calls, NEW p \in Calls \cup {None}, NEW o \in Owners, Invoke(c, p, o)
      PROVE  UNCHANGED Lease!vars
  BY <1>5, LeaseSteps DEF Invoke, Lease!vars, Live, Leases, ModuleState, IInv
<1>6. CASE UNCHANGED vars
  BY <1>6 DEF vars, leaseVars, callVars, Lease!vars, Live, Leases, Leased, InNative, ModuleState
<1> QED BY <1>1, <1>2, <1>3, <1>4, <1>5, <1>6 DEF Next, Finished

\* The reference count implements the lease the bindings promise: loaded while
\* owned or leased, unloaded once, and never before.
THEOREM LeaseImplemented == Spec => ImplementsLease
<1>1. Init => Lease!Init
  BY LeaseInit
<1>2. IInv /\ [Next]_vars => [Lease!Next]_(Lease!vars)
  BY NextRefines
<1> QED BY <1>1, <1>2, Invariance, PTL DEF Spec, ImplementsLease, Lease!Spec

-------------------------------------------------------------------------------
(***************************************************************************)
(* NativeServer.  The handle's count is the calls that lease it and, until *)
(* Dispose, the one of the NativeServer; the library is loaded exactly     *)
(* while the count is positive.                                            *)
(***************************************************************************)

\* What the shared steps preserve, for the calls of .NET.
NetHost == INSTANCE HostInvokeProofs WITH
  Calls <- NetCalls, pc <- net_pc, parent <- net_parent, failure <- net_failure,
  result <- net_result, heap <- net_heap, outcome <- net_outcome

\* Its calls are what HostInvoke assumes of calls.
LEMMA NetAssumptions == None \notin NetCalls /\ NetHost!IsFiniteSet(NetCalls)
  BY NetCallsAreFinite, Zenon DEF NetHost!IsFiniteSet, IsFiniteSet

\* The steps of NativeServer are those steps.
LEMMA SameCalls ==
  /\ Net!CallInit <=> NetHost!CallInit
  /\ Net!callVars = NetHost!callVars /\ Net!callVars' = NetHost!callVars'
  /\ Net!CallTypeOK <=> NetHost!CallTypeOK
  /\ Net!HostErrorWins <=> NetHost!HostErrorWins
  /\ Net!ResultFreed <=> NetHost!ResultFreed
  /\ \A c : /\ Net!TakeLease(c) <=> NetHost!TakeLease(c)
            /\ Net!ReturnLease(c) <=> NetHost!ReturnLease(c)
            /\ Net!Forget(c) <=> NetHost!Forget(c)
            /\ Net!Work(c) <=> NetHost!Work(c)
            /\ Net!Leased(c) <=> NetHost!Leased(c)
            /\ Net!Leased(c)' <=> NetHost!Leased(c)'
            /\ \A p : Net!Enter(c, p) <=> NetHost!Enter(c, p)
  BY DEF Net!CallInit, NetHost!CallInit, Net!callVars, NetHost!callVars, Net!CallTypeOK,
         NetHost!CallTypeOK, Net!HostErrorWins, NetHost!HostErrorWins, Net!ResultFreed,
         NetHost!ResultFreed, Net!TakeLease, NetHost!TakeLease, Net!ReturnLease,
         NetHost!ReturnLease, Net!Forget, NetHost!Forget, Net!Work, NetHost!Work, Net!Leased, NetHost!Leased, Net!Enter,
         NetHost!Enter, Net!InNative, NetHost!InNative, Net!Goto, NetHost!Goto, Net!Active,
         NetHost!Active, Net!Resumable, NetHost!Resumable, Net!EncodingFails,
         NetHost!EncodingFails, Net!CallNative, NetHost!CallNative, Net!CallBack,
         NetHost!CallBack, Net!CallbackReturns, NetHost!CallbackReturns, Net!NativeReturns,
         NetHost!NativeReturns, Net!Decode, NetHost!Decode, Net!FreeResult,
         NetHost!FreeResult, Net!Answer, NetHost!Answer, Net!Decoded, NetHost!Decoded,
         Net!Results, NetHost!Results, Net!Outcomes, NetHost!Outcomes

NetHandleTypeOK == /\ count \in Nat
                   /\ disposed \in BOOLEAN
                   /\ net_module \in {"loaded", "releasing", "unloaded"}

NetCounted == count = Cardinality(Net!Leases) + (IF disposed THEN 0 ELSE 1)

NetLoadedWhileCounted == net_module = "loaded" <=> count > 0

NetIInv == NetHost!CallInv /\ NetHandleTypeOK /\ NetCounted /\ NetLoadedWhileCounted

-------------------------------------------------------------------------------
\* The leases are finite, so they can be counted.
LEMMA NetFinite == IsFiniteSet(Net!Leases) /\ Cardinality(Net!Leases) \in Nat
<1>1. Net!Leases \subseteq NetCalls
  BY DEF Net!Leases
<1> QED BY <1>1, NetCallsAreFinite, FS_Subset, FS_CardinalityType

\* One more lease, or one fewer, counts as one.
LEMMA NetCountLease ==
  ASSUME NEW c \in NetCalls
  PROVE  /\ c \notin Net!Leases => Cardinality(Net!Leases \cup {c}) = Cardinality(Net!Leases) + 1
         /\ c \in Net!Leases => /\ Cardinality(Net!Leases \ {c}) = Cardinality(Net!Leases) - 1
                                /\ Cardinality(Net!Leases) > 0
<1>1. c \notin Net!Leases => Cardinality(Net!Leases \cup {c}) = Cardinality(Net!Leases) + 1
  BY NetFinite, FS_AddElement
<1>2. c \in Net!Leases => Cardinality(Net!Leases \ {c}) = Cardinality(Net!Leases) - 1
  BY NetFinite, FS_RemoveElement
<1>3. c \in Net!Leases => Cardinality(Net!Leases) # 0
  BY NetFinite, FS_EmptySet
<1> QED BY <1>1, <1>2, <1>3, NetFinite

\* What leases or owns the handle keeps its count positive.
LEMMA NetHeldIsLoaded ==
  ASSUME NetIInv
  PROVE  /\ \A c \in NetCalls : Net!Leased(c) => count > 0 /\ net_module = "loaded"
         /\ ~disposed => count > 0 /\ net_module = "loaded"
<1> USE DEF NetIInv, NetHandleTypeOK, NetCounted, NetLoadedWhileCounted
<1>1. ASSUME NEW c \in NetCalls, Net!Leased(c)
      PROVE  count > 0
  <2>1. Cardinality(Net!Leases) > 0
    BY <1>1, NetCountLease DEF Net!Leases
  <2> QED BY <2>1, NetFinite
<1>2. ~disposed => count > 0
  BY NetFinite
<1> QED BY <1>1, <1>2

\* A NativeServer begins loaded, with its own reference.
LEMMA NetInitInv == Net!Init => NetIInv
<1> SUFFICES ASSUME Net!Init PROVE NetIInv
  OBVIOUS
<1>1. Net!Leases = {}
  BY DEF Net!Init, Net!CallInit, Net!Leases, Net!Leased, Net!InNative
<1>2. Cardinality(Net!Leases) = 0
  BY <1>1, NetFinite, FS_EmptySet
<1>3. NetCounted
  BY <1>2 DEF Net!Init, NetCounted
<1>4. NetHandleTypeOK /\ NetLoadedWhileCounted
  <2>1. disposed \in BOOLEAN
    BY Zenon DEF Net!Init
  <2> QED BY <2>1 DEF Net!Init, NetHandleTypeOK, NetLoadedWhileCounted
<1>5. NetHost!CallInv
  BY NetHost!CallInitInv, NetAssumptions, SameCalls DEF Net!Init
<1> QED BY <1>3, <1>4, <1>5 DEF NetIInv

\* Dispose gives up the reference of the NativeServer.
LEMMA NetDisposeInv ==
  ASSUME NetIInv, Net!Dispose
  PROVE  NetIInv'
<1> USE DEF NetIInv, NetHandleTypeOK, Net!Dispose, Net!DropRef
<1>1. NetHost!CallInv' /\ Net!Leases' = Net!Leases
  BY NetHost!CallUnchanged, NetAssumptions, SameCalls DEF Net!callVars, Net!Leases, Net!Leased,
         Net!InNative
<1>2. count > 0 /\ net_module = "loaded"
  BY NetHeldIsLoaded
<1>3. NetCounted'
  BY <1>1, NetFinite DEF NetCounted
<1> QED BY <1>1, <1>2, <1>3 DEF NetLoadedWhileCounted

\* ReleaseHandle, and steps that leave everything alone.
LEMMA NetReleaseInv ==
  ASSUME NetIInv, Net!ReleaseHandle \/ UNCHANGED Net!vars
  PROVE  NetIInv'
<1>1. NetHost!CallInv' /\ Net!Leases' = Net!Leases
  BY NetHost!CallUnchanged, NetAssumptions, SameCalls DEF NetIInv, Net!ReleaseHandle, Net!vars,
         Net!callVars, Net!Leases, Net!Leased, Net!InNative
<1> QED BY <1>1 DEF NetIInv, NetHandleTypeOK, NetCounted, NetLoadedWhileCounted,
       Net!ReleaseHandle,
                    Net!vars, Net!handleVars

\* A call that enters holds no lease yet.
LEMMA NetInvokeInv ==
  ASSUME NEW c \in NetCalls, NEW p \in NetCalls \cup {None}, NetIInv, Net!Invoke(c, p)
  PROVE  NetIInv' /\ Net!Leases' = Net!Leases
<1>1. NetHost!CallInv'
  BY NetHost!EnterInv, NetAssumptions, SameCalls DEF Net!Invoke, NetIInv
<1>2. Net!Leases' = Net!Leases
  BY NetHost!LeaseSteps, NetAssumptions, SameCalls DEF Net!Invoke, Net!Leases, NetIInv
<1> QED BY <1>1, <1>2 DEF NetIInv, NetHandleTypeOK, NetCounted, NetLoadedWhileCounted,
       Net!Invoke, Net!handleVars

\* DangerousAddRef of a handle that is not closed: it is loaded.
LEMMA NetAddRefInv ==
  ASSUME NEW c \in NetCalls, NetIInv, Net!AddRef(c)
  PROVE  NetIInv' /\ Net!Leases' = Net!Leases \cup {c}
<1> USE DEF NetIInv, NetHandleTypeOK, Net!AddRef
<1>1. NetHost!CallInv'
  BY NetHost!LeaseInv, NetAssumptions, SameCalls
<1>2. Net!Leases' = Net!Leases \cup {c} /\ c \notin Net!Leases
  BY NetHost!LeaseSteps, NetAssumptions, SameCalls DEF Net!Leases
<1>3. NetCounted'
  BY <1>2, NetFinite, NetCountLease DEF NetCounted
<1> QED BY <1>1, <1>2, <1>3 DEF NetLoadedWhileCounted

\* A call that is turned away leased nothing, so it has nothing to return.
LEMMA NetAddRefThrowsInv ==
  ASSUME NEW c \in NetCalls, NetIInv, Net!AddRefThrows(c)
  PROVE  NetIInv' /\ Net!Leases' = Net!Leases
<1> USE DEF NetIInv, NetHandleTypeOK, Net!AddRefThrows, Net!Goto
<1>1. NetHost!CallInv'
  BY DEF NetHost!CallInv, NetHost!CallTypeOK, NetHost!CallInvOf, NetHost!Outcomes
<1>2. Net!Leases' = Net!Leases
  BY DEF Net!Leases, Net!Leased, Net!InNative, NetHost!CallInv, NetHost!CallTypeOK
<1> QED BY <1>1, <1>2 DEF NetCounted, NetLoadedWhileCounted, Net!handleVars

\* Between DangerousAddRef and DangerousRelease, on every path, the lease stays.
LEMMA NetProceedInv ==
  ASSUME NEW c \in NetCalls, NetIInv, Net!Proceed(c)
  PROVE  NetIInv' /\ Net!Leases' = Net!Leases
<1>1. NetHost!CallInv'
  BY NetHost!WorkInv, NetAssumptions, SameCalls DEF Net!Proceed, NetIInv
<1>2. Net!Leases' = Net!Leases
  BY NetHost!WorkKeepsLeases, NetAssumptions, SameCalls DEF Net!Proceed, Net!Leases, NetIInv
<1> QED BY <1>1, <1>2 DEF Net!Proceed, NetIInv, NetHandleTypeOK, NetCounted,
       NetLoadedWhileCounted, Net!handleVars

\* DangerousRelease gives back a lease that was counted.
LEMMA NetUnleaseInv ==
  ASSUME NEW c \in NetCalls, NetIInv, Net!Unlease(c)
  PROVE  NetIInv' /\ Net!Leases' = Net!Leases \ {c} /\ c \in Net!Leases
<1> USE DEF NetIInv, NetHandleTypeOK, Net!Unlease, Net!DropRef
<1>1. NetHost!CallInv'
  BY NetHost!LeaseInv, NetAssumptions, SameCalls
<1>2. Net!Leases' = Net!Leases \ {c} /\ c \in Net!Leases
  BY NetHost!LeaseSteps, NetAssumptions, SameCalls DEF Net!Leases
<1>3. count > 0 /\ net_module = "loaded"
  BY NetHost!LeaseSteps, NetAssumptions, SameCalls, NetHeldIsLoaded
<1>4. NetCounted'
  BY <1>2, NetFinite, NetCountLease DEF NetCounted
<1> QED BY <1>1, <1>2, <1>3, <1>4 DEF NetLoadedWhileCounted

\* A call that is over leases nothing, nor does the one that takes its place.
LEMMA NetAgainInv ==
  ASSUME NEW c \in NetCalls, NetIInv, Net!Again(c)
  PROVE  NetIInv' /\ Net!Leases' = Net!Leases
<1>1. NetHost!CallInv'
  BY NetHost!ForgetInv, NetAssumptions, SameCalls DEF Net!Again, NetIInv
<1>2. Net!Leases' = Net!Leases
  BY NetHost!LeaseSteps, NetAssumptions, SameCalls DEF Net!Again, Net!Leases, NetIInv
<1> QED BY <1>1, <1>2 DEF Net!Again, NetIInv, NetHandleTypeOK, NetCounted,
       NetLoadedWhileCounted, Net!handleVars

\* One case for each disjunct of Next.
LEMMA NetNextInv == NetIInv /\ [Net!Next]_(Net!vars) => NetIInv'
<1> SUFFICES ASSUME NetIInv, [Net!Next]_(Net!vars) PROVE NetIInv'
  OBVIOUS
<1>1. CASE Net!Dispose
  BY <1>1, NetDisposeInv
<1>2. CASE Net!ReleaseHandle \/ Net!Finished \/ UNCHANGED Net!vars
  BY <1>2, NetReleaseInv DEF Net!Finished
<1>3. ASSUME NEW c \in NetCalls, Net!Continue(c)
      PROVE  NetIInv'
  BY <1>3, NetAddRefInv, NetAddRefThrowsInv, NetProceedInv, NetUnleaseInv DEF Net!Continue
<1>4. ASSUME NEW c \in NetCalls, NEW p \in NetCalls \cup {None}, Net!Invoke(c, p)
      PROVE  NetIInv'
  BY <1>4, NetInvokeInv
<1>5. ASSUME NEW c \in NetCalls, Net!Again(c)
      PROVE  NetIInv'
  BY <1>5, NetAgainInv
<1> QED BY <1>1, <1>2, <1>3, <1>4, <1>5 DEF Net!Next

\* The inductive invariant holds in every state.
LEMMA NetInvariance == Net!Spec => []NetIInv
  BY NetInitInv, NetNextInv, PTL DEF Net!Spec

-------------------------------------------------------------------------------
\* The handle's count never goes below zero, however often Dispose is called and
\* whatever calls come after it.
THEOREM NetTypeCorrect == Net!Spec => []Net!TypeOK
<1>1. NetIInv => Net!TypeOK
  BY SameCalls DEF NetIInv, NetHost!CallInv, NetHandleTypeOK, Net!TypeOK
<1> QED BY <1>1, NetInvariance, PTL

\* Dispose never unloads the library under a call that has leased it, before
\* Dispose or after it, nor before that call freed its result.
THEOREM NetLeaseHeld == Net!Spec => []Net!LeaseKeepsModule
<1>1. NetIInv => Net!LeaseKeepsModule
  BY NetHeldIsLoaded DEF Net!LeaseKeepsModule
<1> QED BY <1>1, NetInvariance, PTL

\* A callback's own exception is what Invoke throws.
THEOREM NetHostErrorReturned == Net!Spec => []Net!HostErrorWins
<1>1. NetIInv => Net!HostErrorWins
  BY NetHost!CallInvSafe, NetAssumptions, SameCalls DEF NetIInv
<1> QED BY <1>1, NetInvariance, PTL

\* Invoke frees every result lks_invoke allocated.
THEOREM NetEveryResultFreed == Net!Spec => []Net!ResultFreed
<1>1. NetIInv => Net!ResultFreed
  BY NetHost!CallInvSafe, NetAssumptions, SameCalls DEF NetIInv
<1> QED BY <1>1, NetInvariance, PTL

-------------------------------------------------------------------------------
\* A NativeServer begins as a lease that is loaded and owned.
LEMMA NetLeaseInit == Net!Init => Net!Lease!LoadedInit
  BY DEF Net!Init, Net!CallInit, Net!Lease!LoadedInit, Net!Leases, Net!Leased, Net!InNative

\* A call leases the module, returns its lease, or leaves the lease alone.
LEMMA NetContinueRefines ==
  ASSUME NEW c \in NetCalls, NetIInv, Net!Continue(c)
  PROVE  Net!Lease!Next \/ UNCHANGED Net!Lease!vars
<1>1. CASE Net!AddRef(c)
  <2>1. ~disposed \/ Net!Leases # {}
    BY <1>1, FS_EmptySet, NetFinite DEF Net!AddRef, NetIInv, NetHandleTypeOK, NetCounted
  <2>2. Net!Lease!Lease(c)
    BY <1>1, <2>1, NetAddRefInv DEF Net!AddRef, Net!Lease!Lease
  <2> QED BY <2>2 DEF Net!Lease!Next
<1>2. CASE Net!Unlease(c)
  <2>1. net_module = "loaded"
    BY <1>2, NetUnleaseInv, NetHeldIsLoaded DEF Net!Leases
  <2>2. Net!Lease!Return(c)
    BY <1>2, <2>1, NetUnleaseInv DEF Net!Unlease, Net!DropRef, Net!Lease!Return
  <2> QED BY <2>2 DEF Net!Lease!Next
<1>3. CASE Net!AddRefThrows(c) \/ Net!Proceed(c)
  BY <1>3, NetAddRefThrowsInv, NetProceedInv DEF Net!AddRefThrows, Net!Proceed, Net!handleVars,
         Net!Lease!vars
<1> QED BY <1>1, <1>2, <1>3 DEF Net!Continue

\* Every step is a step of the abstract lease or leaves it alone.
LEMMA NetNextRefines == NetIInv /\ [Net!Next]_(Net!vars) => [Net!Lease!Next]_(Net!Lease!vars)
<1> SUFFICES ASSUME NetIInv, [Net!Next]_(Net!vars) PROVE [Net!Lease!Next]_(Net!Lease!vars)
  OBVIOUS
<1>1. CASE Net!Dispose
  <2>1. net_module = "loaded" /\ Net!Leases' = Net!Leases
    BY <1>1, NetHeldIsLoaded DEF Net!Dispose, Net!callVars, Net!Leases, Net!Leased, Net!InNative
  <2>2. Net!Lease!Disown("NativeServer")
    BY <1>1, <2>1 DEF Net!Dispose, Net!DropRef, Net!Lease!Disown
  <2> QED BY <2>2 DEF Net!Lease!Next
<1>2. CASE Net!ReleaseHandle
  <2>1. net_module = "releasing" /\ disposed /\ Net!Leases = {}
    BY <1>2, NetHeldIsLoaded DEF Net!ReleaseHandle, Net!Leases, NetIInv, NetHandleTypeOK
  <2>2. Net!Leases' = Net!Leases
    BY <1>2 DEF Net!ReleaseHandle, Net!callVars, Net!Leases, Net!Leased, Net!InNative
  <2>3. Net!Lease!Unload
    BY <1>2, <2>1, <2>2 DEF Net!ReleaseHandle, Net!Lease!Unload
  <2> QED BY <2>3 DEF Net!Lease!Next
<1>3. ASSUME NEW c \in NetCalls, Net!Continue(c)
      PROVE  Net!Lease!Next \/ UNCHANGED Net!Lease!vars
  BY <1>3, NetContinueRefines
<1>4. ASSUME NEW c \in NetCalls, NEW p \in NetCalls \cup {None}, Net!Invoke(c, p)
      PROVE  UNCHANGED Net!Lease!vars
  BY <1>4, NetInvokeInv DEF Net!Invoke, Net!handleVars, Net!Lease!vars
<1>5. CASE UNCHANGED Net!vars
  BY <1>5 DEF Net!vars, Net!handleVars, Net!callVars, Net!Lease!vars, Net!Leases, Net!Leased,
         Net!InNative
<1>6. ASSUME NEW c \in NetCalls, Net!Again(c)
      PROVE  UNCHANGED Net!Lease!vars
  BY <1>6, NetAgainInv DEF Net!Again, Net!handleVars, Net!Lease!vars
<1> QED BY <1>1, <1>2, <1>3, <1>4, <1>5, <1>6 DEF Net!Next, Net!Finished

\* "In-flight invokes retain a lease" (.NET README:69): the SafeHandle implements
\* the lease of a module that starts loaded, which a disposed NativeServer no
\* longer owns but calls that overlap may go on leasing.
THEOREM NetLeaseImplemented == Net!Spec => Net!ImplementsLease
<1>1. Net!Init => Net!Lease!LoadedInit
  BY NetLeaseInit
<1>2. NetIInv /\ [Net!Next]_(Net!vars) => [Net!Lease!Next]_(Net!Lease!vars)
  BY NetNextRefines
<1> QED BY <1>1, <1>2, NetInvariance, PTL DEF Net!Spec, Net!ImplementsLease,
       Net!Lease!LoadedSpec

-------------------------------------------------------------------------------
\* An application that uses either binding takes only steps of that binding,
\* and the other one stays as it began.
LEMMA EitherBinding == Leases_Spec => Spec /\ Net!Spec
<1>1. Leases_Init => Init /\ Net!Init
  BY DEF Leases_Init
<1>2. [Leases_Next]_allVars => [Next]_vars /\ [Net!Next]_(Net!vars)
  <2> SUFFICES ASSUME [Leases_Next]_allVars PROVE [Next]_vars /\ [Net!Next]_(Net!vars)
    OBVIOUS
  <2>1. UNCHANGED netVars => UNCHANGED Net!vars
    BY DEF netVars, Net!vars, Net!callVars, Net!handleVars
  <2> QED BY <2>1 DEF Leases_Next, UsesZig, UsesNet, allVars
<1> QED BY <1>1, <1>2, PTL DEF Leases_Spec, Spec, Net!Spec

\* Dispose and the calls of .NET, those that begin after it as well, implement
\* the lease of a module that starts loaded, whichever binding is used.
THEOREM DisposeImplementsLease == Leases_Spec => DisposeLeasesModule
  BY EitherBinding, NetLeaseImplemented DEF DisposeLeasesModule

\* The reference count of Zig implements the lease, too.
THEOREM CountImplementsLease == Leases_Spec => ImplementsLease
  BY EitherBinding, LeaseImplemented

\* In either binding no call runs in a module that is being closed, the host's
\* own error is what the application gets and every result is freed.
THEOREM LeasesSafe ==
  Leases_Spec => /\ [](NoUseAfterUnload /\ HostErrorWins /\ ResultFreed)
                 /\ [](Net!LeaseKeepsModule /\ Net!HostErrorWins /\ Net!ResultFreed)
  BY EitherBinding, NeverUsedAfterUnload, HostErrorReturned, EveryResultFreed,
     NetLeaseHeld, NetHostErrorReturned, NetEveryResultFreed, PTL
================================================================================
