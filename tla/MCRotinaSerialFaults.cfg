\* One fault at any point: crash, lost channel, unreachable Redis or database,
\* a lost answer of Redis, no capacity, cancellation, a run given up at the hard
\* timeout.  A failure is the last attempt, which keeps the state space small.
SPECIFICATION Spec
CONSTANTS
  Exe = {e1, e2}
  NoExe = NoExe
  MaxAttempts = 1
  Worker = {w1, w2}
  NoWorker = NoWorker
  FaultKinds = {"crash", "channel", "capacity", "database", "redis", "reply",
                "cancel", "hardTimeout"}
  MaxFaults = 1
SYMMETRY Symmetry
INVARIANTS
  OneAtATime
