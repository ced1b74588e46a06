SPECIFICATION Spec
CONSTANTS
  MaxId = 2
  MaxCrash = 2
  MaxQueue = 1
  Clients = {c1, c2}
  Versions = {1, 4}
  TfMayFail = TRUE
  MinVersion = 1
SYMMETRY ClientSymmetry
INVARIANTS
  TypeOK
  NoTransactionLost
  LogOrdered
  AnnouncedIsDurable
  NeverGoesBack
CHECK_DEADLOCK FALSE
