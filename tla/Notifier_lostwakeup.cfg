SPECIFICATION PatientSpec
CONSTANTS
  MaxId = 3
  MaxCrash = 0
  MaxQueue = 1
  Clients = {c1}
  Versions = {3}
  TfMayFail = FALSE
  MinVersion = 2
PROPERTIES
  WaiterIsAnswered
