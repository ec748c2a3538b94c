SPECIFICATION Spec
CONSTANTS
  c1 = c1  c2 = c2  k1 = k1  k2 = k2
  Callers <- TwoCallers
  Keys <- TwoKeys
  Secrets <- OneSecret
  Lifetimes <- Lives
  TTL = 1
  NegativeTTL = 0
  TouchEvery = 3
  Idle = 5
  CacheSize = 1
  MaxLookup = 1
  MaxNow = 6
SYMMETRY AnyCaller
INVARIANTS
  RevokedStopsWorking
  ValidNotPoisoned
  UsedIsNotIdle
  CacheBounded
PROPERTIES
  TouchesThrottled
