SPECIFICATION Spec
CONSTANTS
  None = None
  MaxId = 6
  MaxCrash = 3
  CacheSize = 3
INVARIANTS
  TypeOK
  GetDnIsRight
  LastIdIsDone
CHECK_DEADLOCK FALSE
