\* Refreshes, the poll and reconnections, in turn and at the same time.
SPECIFICATION FairSpec
CONSTANTS
  h0 = h0
  h1 = h1
  h2 = h2
  h3 = h3
  Handlers = {h0, h1, h2, h3}
  Poller = h0
  Reconnector = h1
  MaxTag = 5
  MaxUpdates = 3
  FaultKinds = {"overlap", "lost", "overtaken", "drop", "unheard"}
  MaxFaults = 3
INVARIANTS
  OneConsumer
PROPERTIES
  OnIsConsumed
  OffIsNotConsumed
