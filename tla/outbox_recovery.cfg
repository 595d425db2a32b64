\* A crash or a shutdown anywhere, then a restart; a submitter, the worker and the
\* prune loop race for a one-row table; one database call fails.  The submitter is
\* a manual trigger: the process may exit while it submits, or after it.
SPECIFICATION Spec
CONSTANTS
  Reports <- ThreeReports
  Submitters = {s1}
  CronJobs = {}
  Worker = worker
  None = None
  MemoryMax = 1
  PageSize = 2
  Configs <- OneConfig
  MaxCap = 1
  MaxClock = 0
  MaxFaults = 1
  MaxRestarts = 1
INVARIANTS
  TypeOK
  SpillBound
  SingleOwner
  NoSilentLoss
  NoSpuriousDuplicate
PROPERTIES
  LedgerSpec
CHECK_DEADLOCK FALSE
