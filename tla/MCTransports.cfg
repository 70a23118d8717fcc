\* Three threads.  libcurl: they share the handle; up to one interim response
\* before the final one.  WinHTTP: two of them need the same connection, an
\* allocation failure may lose one; one redirect each, bodies of two bytes.
\* That every Send ends says more than that no state is a dead end.
CONSTANTS
  s1 = s1
  s2 = s2
  s3 = s3
  near = near
  far = far
  h1 = h1
  h2 = h2
  Sends = {s1, s2, s3}
  None = None
  MaxBlocks = 2
  Targets = {near, far}
  Target <- TargetOf
  Handles = {h1, h2}
  MaxBody = 2
  MaxRedirects = 1
CHECK_DEADLOCK FALSE
SPECIFICATION Transports
INVARIANTS
  NoDanglingOption
  FinalResponseOnly
  CallbackFailureWins
  ConnectionsKept
PROPERTIES
  ImplementsTransport
  WinImplementsTransport
  EverySendReturns
