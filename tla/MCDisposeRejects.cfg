\* .NET: a call in flight, and another one, against Dispose.
CONSTANTS
  c1 = c1
  c2 = c2
  Calls = {c1}
  NetCalls = {c1, c2}
  o1 = o1
  Owners = {o1}
  None = None
SPECIFICATION Leases_Spec
PROPERTY DisposeRejects
