\* The three threads, with and without losses from races, up to two executions of
\* work_ in flight; liveness for the behaviours without stop() and races.
SPECIFICATION FairSpec
CONSTANTS
  j1 = j1
  j2 = j2
  Job = {j1, j2}
  t1 = t1
  Topic = {t1}
  MaxAsync = 2
  MaxMessages = 2
  MaxStops = 1
  ErrLimit = 2
  Races = {TRUE, FALSE}
\* Nothing need happen in a process whose application does nothing.
CHECK_DEADLOCK FALSE
INVARIANTS
  TypeOK
  GoodWhenQuiet
PROPERTIES
  TopicsAreFollowed
  SuspendedIsTemporary
  Recovers
