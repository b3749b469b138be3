\* Three submissions in batches of two, with two faults of any kind.
SPECIFICATION FairSpec
CONSTANTS
  Item = {i1, i2, i3}
  BatchSize = 2
  FaultKinds = {"connect", "channel", "database", "lostInsert",
                "buffer", "unroutable", "crash"}
  MaxFaults = 2
INVARIANTS
  ResolvedMeansAccepted
  NoOrphanRow
  RejectedNeverRan
PROPERTIES
  EverySubmitSettles
\* Every submission is decided in the end.
CHECK_DEADLOCK FALSE
