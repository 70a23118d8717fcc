\* Two calls, three members (on_event and two named events), reentrant callbacks;
\* the atomic register and that every call ends.
CONSTANTS
  c1 = c1
  c2 = c2

  Calls = {c1, c2}
  room_started = room_started
  track_published = track_published
  EventNames = {room_started, track_published}
  OnEvent = OnEvent
  Ctor = Ctor
  None = None
  DestructorsReenter = FALSE
SPECIFICATION FairSpec
INVARIANTS
  SnapshotConsistent
  Fresh
  OnlyVerified
PROPERTIES
  ImplementsRegister
  EveryCallEnds
