----------------------------- MODULE NativeServer -----------------------------
(***************************************************************************)
(* The native module of the .NET binding (NativeServer.cs): one SafeHandle *)
(* owns it, Dispose may be called at any time and more than once, and each *)
(* call leases the handle with DangerousAddRef.  Nothing in Invoke asks    *)
(* whether Dispose was called: a handle is closed when its count is zero,  *)
(* so that calls that overlap keep a disposed module loaded.               *)
(***************************************************************************)
EXTENDS HostInvoke, Naturals

VARIABLES count,    \* the SafeHandle's reference count
          disposed, \* Dispose was called
          module    \* "loaded", "releasing" or "unloaded"

handleVars == <<count, disposed, module>>
vars == <<callVars, handleVars>>

Init == CallInit /\ count = 1 /\ disposed = FALSE /\ module = "loaded"

-------------------------------------------------------------------------------
\* SafeHandle of the .NET runtime: the thread that drops the count to zero
\* calls ReleaseHandle.
DropRef == /\ count' = count - 1
           /\ module' = IF count = 1 THEN "releasing" ELSE module

ReleaseHandle == /\ module = "releasing" /\ module' = "unloaded"
                 /\ UNCHANGED <<callVars, count, disposed>>

\* Mutant: Dispose frees the library itself, calls or not.
DisposeUnloads == /\ ~disposed
                  /\ disposed' = TRUE
                  /\ count' = count - 1 /\ module' = "releasing"
                  /\ UNCHANGED callVars

Dispose == /\ ~disposed
           /\ disposed' = TRUE
           /\ DropRef
           /\ UNCHANGED callVars

Invoke(c, p) == Enter(c, p) /\ UNCHANGED handleVars

\* DangerousAddRef of a handle that is not closed, disposed or not.
AddRef(c) ==
  /\ TakeLease(c)
  /\ count > 0
  /\ count' = count + 1
  /\ UNCHANGED <<disposed, module>>

\* DangerousAddRef of a closed handle throws ObjectDisposedException; lease
\* stays false.
AddRefThrows(c) ==
  /\ count = 0
  /\ Goto(c, "entered", "ended")
  /\ outcome' = [outcome EXCEPT ![c] = "disposed"]
  /\ UNCHANGED <<parent, failure, result, heap, handleVars>>

\* The last statement of finally, after lks_free.
Unlease(c) == ReturnLease(c) /\ DropRef /\ UNCHANGED disposed

Proceed(c) == Work(c) /\ UNCHANGED handleVars

\* The application, done with a call, makes another one.
Again(c) == Forget(c) /\ UNCHANGED handleVars

Continue(c) == AddRef(c) \/ AddRefThrows(c) \/ Proceed(c) \/ Unlease(c)

\* The application is done with the module.
Finished == disposed /\ (\A c \in Calls : ~Active(c)) /\ UNCHANGED vars

Next == \/ Dispose \/ ReleaseHandle
        \/ \E c \in Calls : Continue(c) \/ Again(c)
        \/ \E c \in Calls, p \in Calls \cup {None} : Invoke(c, p)
        \/ Finished

Fairness == (\A c \in Calls : WF_vars(Continue(c))) /\ WF_vars(ReleaseHandle)

Spec == Init /\ [][Next]_vars
FairSpec == Spec /\ Fairness

-------------------------------------------------------------------------------
TypeOK == /\ CallTypeOK
          /\ count \in Nat
          /\ disposed \in BOOLEAN
          /\ module \in {"loaded", "releasing", "unloaded"}

\* Dispose during a call does not unload the module under it, nor before the
\* native result of the call is freed.
LeaseKeepsModule == \A c \in Calls : Leased(c) => module = "loaded"

Leases == {c \in Calls : Leased(c)}

Lease == INSTANCE ModuleLease WITH
  Owners <- {"NativeServer"},
  owners <- IF disposed THEN {} ELSE {"NativeServer"},
  leases <- Leases,
  module <- IF module = "releasing" THEN "loaded" ELSE module

\* "In-flight invokes retain a lease" (.NET README:69): the handle implements the
\* lease of the module, its one owner the NativeServer until it is disposed.  A
\* call made after that may still lease it beside another one that does.
ImplementsLease == Lease!LoadedSpec

\* A disposed module is unloaded in the end, once new calls no longer follow on
\* those that run: every call gives its lease back, failing or not.
LeasingEnds == <>[](\A c \in Calls : pc[c] # "leased")
UnloadedInTheEnd == LeasingEnds => (disposed ~> (module = "unloaded"))
================================================================================
