\* A replaced target whose destructor calls the receiver.
CONSTANTS
  c1 = c1
  c2 = c2
  Calls = {c1, c2}
  room_started = room_started
  EventNames = {room_started}
  OnEvent = OnEvent
  Ctor = Ctor
  None = None
  DestructorsReenter = TRUE
SPECIFICATION FairSpec
PROPERTY ReplacementEnds
CHECK_DEADLOCK FALSE
