\* Safety, refinement and liveness: two writes, a connection and a second one.
SPECIFICATION FairSpec
CONSTANTS
  w1 = w1
  w2 = w2
  Write = {w1, w2}
  MaxConnects = 2
\* A client may be left alone for good: every request answered, nothing asked.
CHECK_DEADLOCK FALSE
INVARIANTS
  ClientIsSound
PROPERTIES
  NeverUpAfterClose
  ImplementsChannel
  RequestsEnd
