SPECIFICATION Spec
CONSTANTS
  None = None
  Empty = Empty
  d1 = d1
  d2 = d2
  d3 = d3
  h1 = h1
  h2 = h2
  DNs = {d1, d2}
  Restricted = {}
  Vals = {"in"}
  Handlers = {h1}
  Filter <- FilterAll
  Watched = {}
  Always = {}
  Replication = {}
  Uncached = {}
  MayFail = {}
  Racing = {}
  Reuse = FALSE
  Cascade = FALSE
  Killed = FALSE
  Fresh = TRUE
  Resyncable = {}
  MaxLog = 2
  MaxCrash = 0
PROPERTIES
  DeletedIsIgnored
CHECK_DEADLOCK FALSE
