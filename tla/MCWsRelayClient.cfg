\* Every end of a socket, under requests that wait, are sent and are answered.
SPECIFICATION ClientFairSpec
CONSTANTS
  WebSocket = {s1, s2, s3, s4}
  Null = Null
  Call = {r1, r2, r3}
  ClientFaultKinds = {"refused", "drop", "error", "goingAway", "hang"}
  MaxClientFaults = 2
INVARIANTS
  OneSocket
PROPERTIES
  EveryCallSettles
\* The calls come to their end.
CHECK_DEADLOCK FALSE
