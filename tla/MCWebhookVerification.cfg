\* One call, whose secrets are rotated and whose clock moves between its steps;
\* calls share nothing but the clock and the secret.  Claims at both ends of the
\* leeway, and one so large that the leeway overflows.
\* Events with any of the parts, one of them with any of its members.
CONSTANTS
  c1 = c1
  Calls = {c1}
  s1 = s1
  s2 = s2
  Secrets = {s1, s2}
  None = None
  Invalid = Invalid
  MaxTime = 5
  Leeway = 1
  Times <- Boundaries
  EventTimes <- BoundaryTimes
  MaxExact = 8
  Empty = Empty
  Raw = Raw
SYMMETRY Symmetry
SPECIFICATION Webhooks
INVARIANTS
  OnlyVouchedBodyRead
  GenuineAccepted
  EventDelivered
