SPECIFICATION Spec
CONSTANTS
  NULL = NULL
  Freed = Freed
  k1 = k1
  k2 = k2
  k3 = k3
  k4 = k4
  fas1 = fas1
  fas10 = fas10
  Keys <- MCKeys
  Data = {d1, d2}
  Names = {fas1, fas10}
  Contains <- MCContains
  Nodes = {n1, n2, n3}
  Size = 2
  hash <- MChash
  Faults = {"node", "table"}
INVARIANTS
  NoBadPointer
  ChainsWellFormed
  TableInv
PROPERTIES
  IsMap
  CallsReturn
CHECK_DEADLOCK FALSE
