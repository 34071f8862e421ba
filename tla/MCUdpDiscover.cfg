\* Two hosts, one of which does not know its address, over a fair-lossy network.
SPECIFICATION FairSpec
CONSTANTS
  a = a
  b = b
  Node = {a, b}
  HasEth0 = {a}
  AliveLimit = 2
  MaxCopies = 1
INVARIANTS
  MapIsTrue
PROPERTIES
  DeletedOnlyAfterSilence
  MapFollowsPeers
