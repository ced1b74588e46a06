SPECIFICATION Spec
CONSTANTS
  None = None
  Empty = Empty
  d1 = d1
  d2 = d2
  d3 = d3
  h1 = h1
  h2 = h2
  DNs = {d1, d2}
  Restricted = {}
  Vals = {"in"}
  Handlers = {h1}
  Filter <- FilterAll
  Watched = {}
  Always = {}
  Replication = {}
  Uncached = {}
  MayFail = {}
  Racing = {"delete"}
  Reuse = FALSE
  Cascade = FALSE
  Killed = FALSE
  Fresh = FALSE
  Resyncable = {}
  MaxLog = 4
  MaxCrash = 0
INVARIANTS
  CacheConverges
CHECK_DEADLOCK FALSE
