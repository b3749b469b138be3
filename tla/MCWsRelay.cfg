\* Connections that end, fail and come back, with a request on the way.
SPECIFICATION FairSpec
CONSTANTS
  Sock = {s1, s2}
  None = None
  Req = {r1}
  FaultKinds = {"drop", "stall", "late", "early", "database", "internal", "device"}
  MaxFaults = 1
INVARIANTS
  ResolvedIsComplete
PROPERTIES
  KeepsLiveConnector
  StatusCatchesUp
\* The requests and the sockets of the instance run out.
CHECK_DEADLOCK FALSE
