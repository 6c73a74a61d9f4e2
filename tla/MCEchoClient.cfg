CONSTANTS
  Iterations = 4
  FdsLen = 3
  MaxAir = 2
  MaxInbox = 2
SPECIFICATION Spec
INVARIANT NeverBothWait
PROPERTIES KeepsSending EndsQuietly
