\* The comments on GOOD and SICK against a broker that goes away.
SPECIFICATION FairSpec
CONSTANTS
  j1 = j1
  j2 = j2
  Job = {j1, j2}
  Topic = {}
  MaxAsync = 3
  MaxMessages = 0
  MaxStops = 0
  ErrLimit = 2
  Races = {FALSE}
\* Nothing need happen in a process whose application does nothing.
CHECK_DEADLOCK FALSE
PROPERTIES
  LossIsNoticed
