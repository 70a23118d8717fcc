\* Three calls of one binding: on threads of their own (not in PHP), one after
\* the other, or up to three deep in callbacks; two callbacks of Java, with up to
\* 16 headers; one call of lks_invoke with every input, and every answer of the
\* host that is read differently.
CONSTANTS
  c1 = c1
  c2 = c2
  c3 = c3
  Calls = {c1, c2, c3}
  None = None
  NativeCall = NativeCall
  NoAnswer = NoAnswer
  MaxHeaders = 16
  MaxCalls = 2
SPECIFICATION Calls_Spec
INVARIANTS
  OwnContext
  OwnErrorWins
  CallsCleanUp
  JniRespected
  EnvelopeTrue
PROPERTY ImplementsHostInvoke
SYMMETRY CallSymmetry
