SPECIFICATION Spec
CONSTANTS
  h1 = h1
  h2 = h2
  t1 = t1
  i1 = i1
  Hosts <- OneHost
  Tables <- OneTable
  Indexes <- OneIndex
  TableOf <- OnlyTable
  Interval = 1
  HotRetention = 3
  ColdWindow = 2
  AttachedCounts = {0}
  MaxNow = 3
  MaxActivity = 1
  MaxResets = 1
  MaxDdl = 1
  MaxSwitches = 0
INVARIANTS
  MismatchBreaksDeltas
