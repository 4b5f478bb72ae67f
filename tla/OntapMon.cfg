SPECIFICATION BusyFairSpec
CONSTANTS
  NULL = NULL
  NoFile = NoFile
  Filers = {fas1, fas10}
  Volumes = {v1}
  NThreads = 2
  Refresh = 2
  Faults = {"fail", "raise", "write", "kill"}
  MaxFaults = 1
  MaxChanges = 1
INVARIANTS
  MonitorInv
  NeverBlocked
PROPERTIES
  OneWriterPerFile
  Republished
  DiskLoadFollows
CHECK_DEADLOCK FALSE
