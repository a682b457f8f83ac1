CONSTANTS
  p1 = p1
  p2 = p2
  Enabled <- BothAnalyzers
  Projects <- Projects2
  Workers = 2
  SpawnMayFail = TRUE
  Exits <- AnyExit
  MaxSaves = 2
  MaxRestarts = 1
SPECIFICATION Spec
INVARIANT CapacityRespected
INVARIANT StateAgreesWithJob
INVARIANT ShownIsCommitted
PROPERTY CommittedNeverRegresses
PROPERTY OutdatedOnlyIfUnmarked
CONSTRAINT Rival
CONSTRAINT Few
