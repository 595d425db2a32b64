\* Every report leaves the outbox, while tunables change and rows age.
SPECIFICATION FairSpec
CONSTANTS
  Reports <- TwoReports
  Submitters = {s1}
  CronJobs = {}
  Worker = worker
  None = None
  MemoryMax = 1
  PageSize = 1
  Configs <- TwoConfigs
  MaxCap = 1
  MaxClock = 1
  MaxFaults = 0
  MaxRestarts = 0
INVARIANTS
  NoEarlyDrop
PROPERTIES
  Settles
CHECK_DEADLOCK FALSE
