SPECIFICATION BusyFairSpec
CONSTANTS
  NULL = NULL
  NoFile = NoFile
  Filers = {fas1, fas10}
  Volumes = {v1}
  NThreads = 1
  Refresh = 2
  Faults = {"raise"}
  MaxFaults = 1
  MaxChanges = 1
PROPERTY
  SelfCorrects
CHECK_DEADLOCK FALSE
