\* Split texts: the header map is not whole.
SPECIFICATION Spec
CONSTANTS
  TextLen = 2
  Script <- Conversations
  MaxHeads = 1
  MaxBody = 2
INVARIANT
  HeadersAreWhole
CHECK_DEADLOCK FALSE
