SPECIFICATION FairSpec
CONSTANTS
  MaxId = 3
  MaxCrash = 1
  MaxQueue = 1
  Clients = {c1}
  Versions = {1, 2, 3}
  TfMayFail = FALSE
  MinVersion = 2
PROPERTIES
  ImplementsLog
  TakenOverIsPublished
  TakenOverIsAnnounced
  SignalDrainsListener
