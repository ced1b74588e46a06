SPECIFICATION FairSpec
CONSTANTS
  MaxId = 3
  MaxBatch = 2
  MaxFaults = 2
  MaxQueue = 3
  MaxMsgid = 6
INVARIANTS
  TypeOK
  AnswerIsNew
  RequestIsKept
PROPERTIES
  InOrder
  EveryTransactionIsFetched
CHECK_DEADLOCK FALSE
