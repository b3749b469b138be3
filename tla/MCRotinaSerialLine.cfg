\* Three executions and what leaves the line in order: a tenant without room, a
\* cancellation or an expired counter.
SPECIFICATION Spec
CONSTANTS
  Exe = {e1, e2, e3}
  NoExe = NoExe
  MaxAttempts = 2
  Worker = {w1, w2}
  NoWorker = NoWorker
  FaultKinds = {"capacity", "cancel", "attemptsTtl"}
  MaxFaults = 1
SYMMETRY Symmetry
PROPERTIES
  ImplementsFifo
  SuccessIsFinal
