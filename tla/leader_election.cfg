SPECIFICATION Spec
CONSTANTS
  d1 = d1
  d2 = d2
  d3 = d3
  None = None
  Daemons <- ThreeDaemons
  MaxNow = 3
  MaxFaults = 1
INVARIANTS
  OneWorks
  LeaderShownAlive
PROPERTIES
  SomebodyWorks
