SPECIFICATION Spec
CONSTANTS
  c1 = c1  c2 = c2  k1 = k1  k2 = k2
  Callers <- TwoCallers
  Keys <- OneKey
INVARIANTS
  CancelledIsRefreshedAgain
