\* What the check of the URL says of it.
CONSTANTS
  c1 = c1
  c2 = c2
  Calls = {c1, c2}
  None = None
  Urls <- AllKinds
SPECIFICATION Spec
INVARIANT AcceptedUrlSendable
