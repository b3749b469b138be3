\* Liveness, with a capacity or database fault on the way.
SPECIFICATION FairSpec
CONSTANTS
  Exe = {e1, e2}
  NoExe = NoExe
  MaxAttempts = 2
  Worker = {w1, w2}
  NoWorker = NoWorker
  FaultKinds = {"capacity", "database"}
  MaxFaults = 1
PROPERTIES
  EventuallyDecided
