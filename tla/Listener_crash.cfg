SPECIFICATION FairSpec
CONSTANTS
  None = None
  Empty = Empty
  d1 = d1
  d2 = d2
  d3 = d3
  h1 = h1
  h2 = h2
  DNs = {d1, d2}
  Restricted = {}
  Vals = {"in"}
  Handlers = {h1, h2}
  Filter <- FilterAll
  Watched = {}
  Always = {h1}
  Replication = {h1}
  Uncached = {}
  MayFail = {h1}
  Racing = {"add", "modify", "move"}
  Reuse = FALSE
  Cascade = TRUE
  Killed = TRUE
  Fresh = FALSE
  Resyncable = {h1}
  MaxLog = 3
  MaxCrash = 1
INVARIANTS
  CacheConverges
  ModulesConverge
  CascadeComplete
PROPERTIES
  FailedLdifStops
  EveryTransactionIsDone
CHECK_DEADLOCK FALSE
