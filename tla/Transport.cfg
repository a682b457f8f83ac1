CONSTANTS
  u1 = u1
  u2 = u2
  Ids <- TwoIds
  Uris <- TwoUris
  Kinds <- AllTraffic
  ReuseIds = FALSE
  MaxSent = 3
SPECIFICATION FairSpec
CHECK_DEADLOCK FALSE
INVARIANT RefusedWasCancelled
PROPERTY ImplementsRpc
PROPERTY RequestsServed
PROPERTY PublishedInTime
