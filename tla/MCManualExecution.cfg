\* Three requests of any kind, one run at a time, with one fault of any kind.
SPECIFICATION FairSpec
CONSTANTS
  c1 = c1
  c2 = c2
  c3 = c3
  r1 = r1
  r2 = r2
  Call = {c1, c2, c3}
  Routine = {r1, r2}
  Targets <- MCTargets
  MaxConcurrent = 1
  FaultKinds = {"database", "silent", "crash", "race"}
  MaxFaults = 1
INVARIANTS
  LockMeansRun
  OpenRowHasRun
PROPERTIES
  CancelStands
  EveryRunEnds
\* Every request is answered in the end.
CHECK_DEADLOCK FALSE
