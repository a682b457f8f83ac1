CONSTANTS
  d1 = d1
  d2 = d2
  Docs <- OneDoc
  OnChange = TRUE
  MayStall = TRUE
  MaxRestarts = 1
  Backoff = 1
  Healthy = 2
  MaxText = 2
  MaxId = 3
  MaxWire = 1
SPECIFICATION FairSpec
INVARIANT InSync
INVARIANT AnswersFit
INVARIANT BurstsBounded
PROPERTY Collected
