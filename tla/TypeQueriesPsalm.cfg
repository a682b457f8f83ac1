CONSTANTS
  e1 = e1
  e2 = e2
  Exprs <- TwoExprs
  Line <- SameLine
  Analyzer = "psalm"
  RunnerMayDie = TRUE
  StartMayFail = TRUE
  MaxVersion = 2
  MaxJobs = 3
SPECIFICATION FairSpec
INVARIANT JobsAreOwned
INVARIANT ShadowsAccountedFor
PROPERTY AnswersAreOwn
PROPERTY DrainsWhileAlive
