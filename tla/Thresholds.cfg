SPECIFICATION Spec
CONSTANTS
  DomainSize = 2
  NULL = NULL
INVARIANT
  VolumePolicyFirst
PROPERTY
  WorseNeverClears
CHECK_DEADLOCK FALSE
