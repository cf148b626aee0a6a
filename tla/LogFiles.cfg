\* Three configurations over two paths; file operations fail, one restart.
SPECIFICATION FairLogSpec
CONSTANTS
  Absent = Absent
  LogConfigs <- MCConfigs
  QueueSize = 2
  MaxRecords = 5
  MaxFaults = 2
  MaxRestarts = 1
  MaxReloads = 1
INVARIANTS LogConsistent SuffixRetained
PROPERTIES RestartRemembers CloseReturns
CHECK_DEADLOCK FALSE
