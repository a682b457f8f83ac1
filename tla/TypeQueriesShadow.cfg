CONSTANTS
  e1 = e1
  e2 = e2
  Exprs <- TwoExprs
  Line <- SameLine
  Analyzer = "phpstan"
  RunnerMayDie = FALSE
  StartMayFail = FALSE
  MaxVersion = 1
  MaxJobs = 2
SPECIFICATION Spec
INVARIANT ShadowSurvives
