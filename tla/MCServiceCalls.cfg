\* Every combination of options and variables, two threads that call; above it one
\* call of every operation in every host.
CONSTANTS
  c1 = c1
  c2 = c2
  Calls = {c1, c2}
  None = None
  Urls <- AllKinds
  r1 = r1
  r2 = r2
  Rooms = {r1, r2}
  Blank = Blank
  n1 = n1
  Nonces = {n1}
  Fresh = Fresh
  d1 = d1
  d2 = d2
  Dispatches = {d1, d2}
SPECIFICATION ClientSpec
INVARIANTS
  ExplicitCredentials
  NoLateAuthentication
  RejectedUnsent
  SentAsAsked
PROPERTIES
  ImplementsRpc
