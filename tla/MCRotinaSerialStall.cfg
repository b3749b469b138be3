\* Leases that lapse under a living owner, counters that expire, executions
\* deferred for capacity, cancelled or given up at the hard timeout, with retries.
SPECIFICATION Spec
CONSTANTS
  Exe = {e1, e2}
  NoExe = NoExe
  MaxAttempts = 2
  Worker = {w1, w2}
  NoWorker = NoWorker
  FaultKinds = {"stall", "attemptsTtl", "capacity", "cancel",
                "hardTimeout"}
  MaxFaults = 1
SYMMETRY Symmetry
INVARIANTS
  NeverForgotten
  RunningLockHasTask
  OneHolder
PROPERTIES
  NoSilentLoss
  OnlyWatchdogDoubles
