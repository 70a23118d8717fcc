\* Zig: two calls, nested or on threads of their own, through two references.
\* .NET: three calls against Dispose.
CONSTANTS
  c1 = c1
  c2 = c2
  c3 = c3
  Calls = {c1, c2}
  NetCalls = {c1, c2, c3}
  o1 = o1
  o2 = o2
  Owners = {o1, o2}
  None = None
SPECIFICATION Leases_Spec
INVARIANTS
  NoUseAfterUnload
  HostErrorWins
  ResultFreed
PROPERTIES
  ImplementsLease
  ModuleUnloads
  DisposeLeasesModule
