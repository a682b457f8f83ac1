CONSTANTS
  p1 = p1
  p2 = p2
  Enabled <- PhpStanOnly
  Projects <- Projects2
  Workers = 1
  SpawnMayFail = FALSE
  Exits <- AnyExit
  MaxSaves = 1
  MaxRestarts = 1
SPECIFICATION FairSpec
PROPERTY SavesSettle
