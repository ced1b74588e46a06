SPECIFICATION Spec
CONSTANTS
  None = None
  Empty = Empty
  d1 = d1
  d2 = d2
  d3 = d3
  h1 = h1
  h2 = h2
  DNs = {d1, d2, d3}
  Restricted = {}
  Vals = {"in"}
  Handlers = {h1}
  Filter <- FilterAll
  Watched = {}
  Always = {}
  Replication = {}
  Uncached = {}
  MayFail = {}
  Racing = {"add", "modify", "move"}
  Reuse = FALSE
  Cascade = FALSE
  Killed = TRUE
  Fresh = FALSE
  Resyncable = {}
  MaxLog = 5
  MaxCrash = 1
INVARIANTS
  CacheConverges
  ModulesConverge
  ModuleIsStillCalled
  ModulesSucceeded
CHECK_DEADLOCK FALSE
