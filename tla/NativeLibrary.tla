---------------------------- MODULE NativeLibrary ----------------------------
(***************************************************************************)
(* The reference-counted native module of the Zig binding                  *)
(* (pkg/zig/src/native.zig), and the calls made through it.                *)
(*                                                                         *)
(* Owners are the references an application holds: the pointer open()      *)
(* returns, further retain()s, and the APIs, receivers and token builders, *)
(* which retain the module when made and release it in deinit.  The        *)
(* application keeps the documented contract: it starts a call, or makes   *)
(* an owner, from a reference that is live.  It may drop any reference     *)
(* while a call runs, also from a callback of that call.                   *)
(***************************************************************************)
EXTENDS HostInvoke, Naturals

CONSTANT Owners

ASSUME OwnersAreFinite ==
  IsFiniteSet(Owners) /\ IsFiniteSet(Calls) /\ None \notin Owners

VARIABLES refs,   \* the atomic reference count
          module, \* the loader and the handle
          own,    \* what each owner did with its reference
          via     \* the owner a call was made through

leaseVars == <<refs, module, own, via>>
vars == <<callVars, leaseVars>>

Init == /\ CallInit
        /\ refs = 0
        /\ module = "unopened"
        /\ own = [o \in Owners |-> "none"]
        /\ via = [c \in Calls |-> None]

Live == {o \in Owners : own[o] = "live"}
Leases == {c \in Calls : Leased(c)}

-------------------------------------------------------------------------------
\* open: the loader and the handle, with one reference.  An open that fails
\* closes the loader again and leaves nothing.
Open(o) ==
  /\ module = "unopened"
  /\ module' = "loaded"
  /\ refs' = 1
  /\ own' = [own EXCEPT ![o] = "live"]
  /\ UNCHANGED <<callVars, via>>

Retain == refs' = refs + 1 /\ UNCHANGED module

\* fetchSub: the release that takes the last reference closes the loader.
\* Mutant: the count after the subtraction is compared, as if fetchSub
\* returned it.
ReleaseComparesNew ==
  /\ refs' = refs - 1
  /\ module' = IF refs - 1 = 1 THEN "closing" ELSE module

Release ==
  /\ refs' = refs - 1
  /\ module' = IF refs = 1 THEN "closing" ELSE module

\* LiveKitApi.init, AccessToken.init, WebhookReceiver.init and retain itself.
RetainOwner(o) ==
  /\ own[o] = "none" /\ Live # {}
  /\ own' = [own EXCEPT ![o] = "live"]
  /\ Retain
  /\ UNCHANGED <<callVars, via>>

\* deinit, or release itself.  A call through o has taken its own lease.
ReleaseOwner(o) ==
  /\ own[o] = "live"
  /\ \A c \in Calls : via[c] = o => pc[c] # "entered"
  /\ own' = [own EXCEPT ![o] = "released"]
  /\ Release
  /\ UNCHANGED <<callVars, via>>

CloseLoader == /\ module = "closing" /\ module' = "closed"
               /\ UNCHANGED <<callVars, refs, own, via>>

DestroyHandle == /\ module = "closed" /\ module' = "destroyed"
                 /\ UNCHANGED <<callVars, refs, own, via>>

-------------------------------------------------------------------------------
\* invoke

Invoke(c, p, o) ==
  /\ own[o] = "live"
  /\ Enter(c, p)
  /\ via' = [via EXCEPT ![c] = o]
  /\ UNCHANGED <<refs, module, own>>

\* Mutant: a call relies on the reference of its owner.
TakeCallLeaseByOwner(c) == TakeLease(c) /\ UNCHANGED leaseVars

TakeCallLease(c) == TakeLease(c) /\ Retain /\ UNCHANGED <<own, via>>

\* deferred last, so run last: after lks_free.
ReturnCallLease(c) == ReturnLease(c) /\ Release /\ UNCHANGED <<own, via>>

Proceed(c) == Work(c) /\ UNCHANGED leaseVars

Continue(c) == TakeCallLease(c) \/ Proceed(c) \/ ReturnCallLease(c)

\* The application is done with the module.
Finished == /\ module # "unopened" /\ Live = {}
            /\ \A c \in Calls : ~Active(c)
            /\ UNCHANGED vars

Next == \/ \E o \in Owners : Open(o) \/ RetainOwner(o) \/ ReleaseOwner(o)
        \/ CloseLoader \/ DestroyHandle
        \/ \E c \in Calls : Continue(c)
        \/ \E c \in Calls, p \in Calls \cup {None}, o \in Owners : Invoke(c, p, o)
        \/ Finished

\* A running call runs on, its callback returns, and the thread that took the
\* last reference finishes release.
Fairness == /\ \A c \in Calls : WF_vars(Continue(c))
            /\ WF_vars(CloseLoader) /\ WF_vars(DestroyHandle)

Spec == Init /\ [][Next]_vars
FairSpec == Spec /\ Fairness

-------------------------------------------------------------------------------
TypeOK == /\ CallTypeOK
          /\ refs \in Nat
          /\ module \in {"unopened", "loaded", "closing", "closed", "destroyed"}
          /\ own \in [Owners -> {"none", "live", "released"}]
          /\ via \in [Calls -> Owners \cup {None}]

\* The count is exactly the live references and the leases of calls, on every
\* path through a call, also those that fail.
RefsCounted == refs = Cardinality(Live) + Cardinality(Leases)

\* No call runs in, or frees a result with, a module whose loader is being
\* closed; no live reference points to a destroyed handle.
NoUseAfterUnload ==
  /\ \A c \in Calls : Leased(c) => module = "loaded"
  /\ Live # {} => module = "loaded"

\* Until the loader is closed the module is loaded.
ModuleState == IF module = "closing" THEN "loaded"
               ELSE IF module \in {"closed", "destroyed"} THEN "unloaded"
               ELSE module

Lease == INSTANCE ModuleLease WITH
  owners <- Live, leases <- Leases, module <- ModuleState

\* The counter implements the lease of the module: calls and references begin
\* from a live reference and the module is unloaded when nothing holds it.
ImplementsLease == Lease!Spec

\* Dropping the last reference unloads the module in the end: no path through
\* a call, a failing one or one whose owner is gone, keeps a count it never
\* gives back.
UnloadedInTheEnd ==
  (module # "unopened" /\ Live = {}) ~> (module = "destroyed")
================================================================================
