SPECIFICATION Spec
CONSTANTS
  c1 = c1
  k1 = k1
  k2 = k2
  Callers <- OneCaller
  Keys <- TwoKeys
  Slots = 1
  MaxComputations = 2
  MaxJobs = 1
  MaxFlights = 3
INVARIANTS
  SlotsAccounted
  ComputationsBounded
  OneComputationPerKey
PROPERTIES
  CallerServed
