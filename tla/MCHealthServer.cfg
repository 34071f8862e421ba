\* The health server under a fair timer: two objects, limit 6 for 1000.
SPECIFICATION FairSpec
CONSTANTS
  o1 = o1
  o2 = o2
  Obj = {o1, o2}
  ErrLimit = 6
INVARIANTS
  BackoffIsSound
  RegisteredAreLive
  AlertsAgree
PROPERTIES
  BackoffNotRestarted
  SickIsRetried
