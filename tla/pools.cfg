SPECIFICATION Spec
CONSTANTS
  c1 = c1  c2 = c2  s1 = s1  s2 = s2  a = a  b = b  p = p  x = x  y = y
  q1 = q1  q2 = q2  q3 = q3  q4 = q4  q5 = q5
  Sources <- TwoSources
  Names <- TwoNames
  Places <- OnePlace
  Conns <- TwoConns
  Static <- OneStatic
  Feeds <- SomeFeeds
  Callers <- TwoCallers
  PoolIds <- FivePools
  MaxPublishes = 4
SYMMETRY Interchangeable
INVARIANTS
  PoolsInv
  ServedWhenClean
  StaleCacheOnlyByLateQuery
PROPERTIES
  DroppedOnlyUnwanted
  ImplementsDirectory
