SPECIFICATION Spec
CONSTANTS
  h1 = h1
  h2 = h2
  t1 = t1
  i1 = i1
  Hosts <- TwoHosts
  Tables <- OneTable
  Indexes <- NoIndexes
  TableOf <- OnlyTable
  Interval = 2
  HotRetention = 3
  ColdWindow = 2
  AttachedCounts = {0}
  MaxNow = 4
  MaxActivity = 1
  MaxResets = 0
  MaxDdl = 1
  MaxSwitches = 2
SYMMETRY AnyHost
INVARIANTS
  IntervalsTile
  OncePerFiring
  ColdConfirmed
