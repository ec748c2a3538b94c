SPECIFICATION Spec
CONSTANTS
  h1 = h1
  h2 = h2
  t1 = t1
  i1 = i1
  Hosts <- OneHost
  Tables <- OneTable
  Indexes <- OneIndex
  TableOf <- OnlyTable
  Interval = 1
  HotRetention = 1
  ColdWindow = 2
  AttachedCounts = {0, 2}
  MaxNow = 2
  MaxActivity = 1
  MaxResets = 1
  MaxDdl = 2
  MaxSwitches = 0
INVARIANTS
  IntervalsTile
  ObservationUnbroken
  QuietConfirmed
  AnchorsUniform
