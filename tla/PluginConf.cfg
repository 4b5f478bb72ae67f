SPECIFICATION FairSpec
CONSTANTS
  NULL = NULL
  Files <- MCFiles
  Names = {"m1", "m2", "m3", "f1", "f2", "v1", "v2"}
  Values = {"60", "30", "no"}
  Junk = {20, 90}
  Faults = {"open", "hash_mk", "stormap", "entry", "filerpol", "handler"}
INVARIANTS
  ConfInv
  ConfAsWritten
PROPERTY
  ReadConfEnds
CHECK_DEADLOCK FALSE
