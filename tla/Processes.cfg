SPECIFICATION Spec
CONSTANTS
  Pids = {1, 2, 3}
  MaxSpawns = 3
  MaxWrites = 1
INVARIANT NeverSignalsStranger
PROPERTY CompleteUnlessOverdue
PROPERTY ServerReturns
PROPERTY SessionsEndWithServer
CHECK_DEADLOCK FALSE
ACTION_CONSTRAINT LowestFirst
