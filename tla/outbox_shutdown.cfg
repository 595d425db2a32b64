\* An orderly shutdown, nothing failing.
SPECIFICATION Spec
CONSTANTS
  Reports <- TwoReports
  Submitters = {s1}
  CronJobs = {s1}
  Worker = worker
  None = None
  MemoryMax = 1
  PageSize = 1
  Configs <- RetryConfig
  MaxCap = 1
  MaxClock = 0
  MaxFaults = 0
  MaxRestarts = 0
INVARIANTS
  ShutdownKeepsReports
CHECK_DEADLOCK FALSE
