SPECIFICATION Spec
CONSTANTS
  h1 = h1
  Hosts <- OneHost
  Counts <- QuietOrLoud
  Blocked = {0, 1}
  WindowSize = 4
  SpikeDuration = 2
  ActiveThresholdPct = 50
  MinBaselineActive = 2
  RecoveryDuration = 1
  DeferredInterval = 0
  MaxSnapshotFrequency = 12
  Direction = "both"
  Roles <- OneRole
  MaxNow = 11
  MaxCrashes = 0
INVARIANTS
  CandidateMatchesProbes
  DipsWithinGrace
  ThresholdIsOnset
