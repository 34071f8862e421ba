\* Two messages on one connection, reads of any size.
SPECIFICATION Spec
CONSTANTS
  TextLen = 2
  Script <- Conversations
  MaxHeads = 1
  MaxBody = 2
CHECK_DEADLOCK FALSE
INVARIANTS
  PacketOfOneMessage
  IntactAreDelivered
