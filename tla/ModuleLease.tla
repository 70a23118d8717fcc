----------------------------- MODULE ModuleLease -----------------------------
(***************************************************************************)
(* What the language bindings promise about the native module (the shared  *)
(* library behind the C ABI): it stays loaded while an application object  *)
(* owns it or a call leases it, and is unloaded once, after the last of    *)
(* them let go.                                                            *)
(***************************************************************************)
CONSTANTS Owners,  \* application objects that can own a module reference
          Calls    \* calls that can lease it

VARIABLES owners,  \* the objects that own the module
          leases,  \* the calls that lease it
          module   \* "unopened", "loaded" or "unloaded"

vars == <<owners, leases, module>>

Init == owners = {} /\ leases = {} /\ module = "unopened"

Open(o) == /\ module = "unopened"
           /\ module' = "loaded" /\ owners' = {o}
           /\ UNCHANGED leases

\* A new owner starts from one that is there.
Own(o) == /\ owners # {} /\ owners' = owners \cup {o}
          /\ UNCHANGED <<leases, module>>

\* A new call starts from a module that is owned, or leased by another call.
Lease(c) == /\ owners \cup leases # {}
            /\ leases' = leases \cup {c}
            /\ UNCHANGED <<owners, module>>

Disown(o) == /\ o \in owners /\ owners' = owners \ {o}
             /\ UNCHANGED <<leases, module>>

Return(c) == /\ c \in leases /\ leases' = leases \ {c}
             /\ UNCHANGED <<owners, module>>

Unload == /\ module = "loaded" /\ owners = {} /\ leases = {}
          /\ module' = "unloaded"
          /\ UNCHANGED <<owners, leases>>

Next == \/ \E o \in Owners : Open(o) \/ Own(o) \/ Disown(o)
        \/ \E c \in Calls : Lease(c) \/ Return(c)
        \/ Unload

Spec == Init /\ [][Next]_vars

\* The same, from a module that is loaded with one owner.
LoadedInit == /\ owners \in {{o} : o \in Owners}
              /\ leases = {} /\ module = "loaded"

LoadedSpec == LoadedInit /\ [][Next]_vars
==============================================================================
