\* Calls of the worker and of the webapi, with two faults of any kind.
SPECIFICATION FairSpec
CONSTANTS
  Run = {r1, r2}
  NoRun = NoRun
  Exe = {e1, e2}
  NoExe = NoExe
  Cadastro = {30, 2147483}
  Hardened = {e1}
  FaultKinds = {"spawn", "oom", "stuck", "overlap", "reorder"}
  MaxFaults = 2
INVARIANTS
  Tracked
  CancelledByUser
  ForcedOnlyWhenStuck
PROPERTIES
  ReportIsKept
  EverySettles
\* The calls come to their end.
CHECK_DEADLOCK FALSE
