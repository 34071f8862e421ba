\* Three packets, reads of any size, connections broken anywhere.
SPECIFICATION Spec
CONSTANTS
  HeaderSize = 2
  Length = {0, 1, 2}
  MaxPackets = 3
INVARIANTS
  FramingIsSound
  SeparateAreDelivered
