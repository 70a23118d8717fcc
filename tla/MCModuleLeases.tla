---------------------------- MODULE MCModuleLeases ----------------------------
(***************************************************************************)
(* Instances of NativeLibrary (Zig) and of NativeServer (.NET) for TLC: an *)
(* application uses one binding or the other, so a behaviour is one of     *)
(* either module while the variables of the other keep their first values. *)
(***************************************************************************)
EXTENDS NativeLibrary

CONSTANT NetCalls

ASSUME NetCallsAreFinite == IsFiniteSet(NetCalls) /\ None \notin NetCalls

VARIABLES host, net_pc, net_parent, net_failure, net_result, net_heap, net_outcome,
          count, disposed, net_module

netVars == <<net_pc, net_parent, net_failure, net_result, net_heap, net_outcome,
             count, disposed, net_module>>

Net == INSTANCE NativeServer WITH
  Calls <- NetCalls, pc <- net_pc, parent <- net_parent, failure <- net_failure,
  result <- net_result, heap <- net_heap, outcome <- net_outcome, module <- net_module

UsesZig == host = "zig" /\ UNCHANGED <<host, netVars>>
UsesNet == host = "net" /\ UNCHANGED <<host, vars>>

allVars == <<host, vars, netVars>>

Leases_Init == host \in {"zig", "net"} /\ Init /\ Net!Init
Leases_Next == (UsesZig /\ Next) \/ (UsesNet /\ Net!Next)

\* The fairness of either module.
Leases_Fairness ==
  /\ \A c \in Calls : WF_allVars(UsesZig /\ Continue(c))
  /\ WF_allVars(UsesZig /\ CloseLoader) /\ WF_allVars(UsesZig /\ DestroyHandle)
  /\ \A c \in NetCalls : WF_allVars(UsesNet /\ Net!Continue(c))
  /\ WF_allVars(UsesNet /\ Net!ReleaseHandle)

Leases_Spec == Leases_Init /\ [][Leases_Next]_allVars /\ Leases_Fairness

-------------------------------------------------------------------------------
\* The SafeHandle of the .NET binding implements the lease of a module with
\* one owner (NativeServer.tla).
DisposeLeasesModule == Net!ImplementsLease

\* "Dispose() rejects future calls" (.NET README:69): what has not begun when
\* Dispose was called never runs in the module.
DisposeRejects == \A c \in NetCalls :
  [](disposed /\ net_pc[c] = "idle" => []~Net!Leased(c))

\* A library whose owners are gone, or whose NativeServer is disposed and gets no
\* new calls, is unloaded in the end (NativeLibrary.tla, NativeServer.tla).
ModuleUnloads == UnloadedInTheEnd /\ Net!UnloadedInTheEnd
================================================================================
