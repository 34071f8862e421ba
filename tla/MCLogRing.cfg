SPECIFICATION FairSpec
CONSTANTS
    Threads = {t1, t2}
    Modes <- MCModes
CHECK_DEADLOCK FALSE
INVARIANTS
  RingIsSound
  StopDrains
PROPERTIES
  CallsReturn
