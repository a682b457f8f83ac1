CONSTANTS
  f1 = f1
  f2 = f2
  own1 = own1
  shared = shared
  Files <- TwoFiles
  Primary <- FirstFile
  Editable <- FirstFile
  Symbols <- TwoSymbols
  Texts <- RivalTexts
  Capacity = 4
  MayFail = TRUE
  MayCrash = TRUE
  MayMove = TRUE
  MaxBuilds = 2
  MaxEvents = 4
SPECIFICATION Spec
CHECK_DEADLOCK FALSE
INVARIANT RegionsInSync
INVARIANT Sound
INVARIANT Complete
