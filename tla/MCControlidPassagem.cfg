SPECIFICATION Spec
CONSTANTS
  p1 = p1
  p2 = p2
  Passage = {p1, p2}
  Known = {p1}
  a = a
  b = b
  c = c
  id = id
  Person = {a, b, c}
  IdExterno <- MCIdExterno
  Passer <- MCPasser
  Call <- MCCall
  AtOnce = 2
  None = None
  FaultKinds = {"database", "crash"}
  MaxFaults = 1
  Stamps <- MCStamps
INVARIANTS
  NothingMissed
  ProcessedIsRegistered
  RegisteredOnce
  RightPerson
\* The notifications of the instance are worked off.
CHECK_DEADLOCK FALSE
