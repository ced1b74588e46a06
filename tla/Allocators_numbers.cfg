SPECIFICATION Spec
CONSTANTS
  p1 = p1
  p2 = p2
  p3 = p3
  n1 = n1
  n2 = n2
  n3 = n3
  NoProc = NoProc
  Procs = {p1, p2}
  Names = {n1, n2, n3}
  Jobs <- AllJobs
  Existing <- OneUser
  Stale <- OneLock
  Ranges <- TwoRanges
  Timeout = 1
  MaxTime = 3
  MaxCrash = 1
SYMMETRY ProcSymmetry
INVARIANTS
  TypeOK
  LockIsHeldOnce
  NumbersUnique
  UsersAndGroupsApart
  UserNamesUnique
CHECK_DEADLOCK FALSE
