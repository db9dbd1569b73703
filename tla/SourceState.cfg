CONSTANTS
  Cadence = 4
  MinInterval = 3
  HardStaleness = 6
  Grace = 1
  OverrideFloor = 1
  RetryBase = 1
  RetryMax = 2
  BreakerThreshold = 2
  BreakerBase = 2
  BreakerMax = 4
  MaxResumes = 1
  MaxFailures = 3
  MaxDelay = 1
  MaxPause = 1
  MaxActs = 2
  NULL = NULL
SPECIFICATION FairSpec
INVARIANT SourceTypeOK
PROPERTIES PolitePulls NoPullInBackoff OnlyNewDataIsFresh PulledAgain
