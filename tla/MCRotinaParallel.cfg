\* A routine and an INTERNAL job of one tenant, with one fault of any kind.
SPECIFICATION FairSpec
CONSTANTS
  Exe = {e1, e2}
  Internal = {e2}
  Worker = {w1, w2}
  NoWorker = NoWorker
  Copy = {c1, c2, c3}
  Settings <- MCSettings
  FaultKinds = {"crash", "channel", "database", "redis", "hardTimeout", "buffer",
                "unroutable", "cancel", "delete", "noRoutine", "lapse"}
  MaxFaults = 1
INVARIANTS
  TenantBound
  RunsAlone
  NothingLost
  NothingLeaks
PROPERTIES
  SuccessStands
  EventuallyDecided
\* Every message is worked off.
CHECK_DEADLOCK FALSE
