\* Each binding; three calls on threads of their own or made by user code of
\* each other: enough for a replacement between the words of another call and
\* for a destructor that calls again.
CONSTANTS
  c1 = c1
  c2 = c2
  c3 = c3
  SlotCalls = {c1, c2, c3}
  OnEvent = OnEvent
  Ctor = Ctor
  NoCall = NoCall
  Bindings = {"php", "python", "ruby", "rust", "java", "net", "zig"}
SPECIFICATION Webhooks_Spec
INVARIANT UserCodeUnlocked
PROPERTIES
  SlotImplementsRegister
  SlotCallsEnd
