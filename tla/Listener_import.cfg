SPECIFICATION Spec
CONSTANTS
  None = None
  Empty = Empty
  d1 = d1
  d2 = d2
  d3 = d3
  h1 = h1
  h2 = h2
  DNs = {d1, d2, d3}
  Restricted = {d3}
  Vals = {"in", "out"}
  Handlers = {h1, h2}
  Filter <- FilterFirst
  Watched = {h2}
  Always = {}
  Replication = {}
  Uncached = {}
  MayFail = {}
  Racing = {"add", "modify", "move"}
  Reuse = FALSE
  Cascade = FALSE
  Killed = FALSE
  Fresh = TRUE
  Resyncable = {h1}
  MaxLog = 3
  MaxCrash = 1
INVARIANTS
  TypeOK
  CacheConverges
  ModulesConverge
  ModulesSucceeded
CHECK_DEADLOCK FALSE
