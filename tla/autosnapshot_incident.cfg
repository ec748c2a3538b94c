SPECIFICATION Spec
CONSTANTS
  h1 = h1
  Hosts <- OneHost
  Counts <- QuietOrLoud
  Blocked = {0}
  WindowSize = 3
  SpikeDuration = 1
  ActiveThresholdPct = 50
  MinBaselineActive = 0
  RecoveryDuration = 2
  DeferredInterval = 2
  MaxSnapshotFrequency = 2
  Direction = "master_to_replica"
  Roles <- BothRoles
  MaxNow = 8
  MaxCrashes = 1
INVARIANTS
  DeferredOncePerSpike
  ResolvedHasNoFollowUp
  SpikeReportIsCurrent
PROPERTIES
  ImplementsQueue
  DebounceRespected
  DropAfterRecovery
