SPECIFICATION Spec
CONSTANTS
    Sessions = {s1, s2}
    MaxWrites = 2
    Items = {"a"}
    First = "m"
    MaxRequests = 2
    ErrLimit = 4
    Callers = {t1, t2}
    MaxRequest = 2
    Keys = {"k"}
    MaxEvents = 6
    MaxAsked = 3
    p1 = p1
    p2 = p2
    Peers = {p1, p2}
    Ids = {"1", "2"}
    Functions = {"sum", "add"}
    Calls <- RpcCalls
    Repeated <- RpcRepeated
    MaxCalls = 2
CHECK_DEADLOCK FALSE
INVARIANTS
  
  NaviIsSound
  LineIsExclusive
  
  RequestsAreOwn
  ResponseOfId
PROPERTIES
  ServicesSettle
