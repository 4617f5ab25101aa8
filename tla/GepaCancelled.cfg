\* A run cut short by its caller, with no budget near its limit.
CONSTANTS
  TokenLimit = 0
  EvalLimit = 0
  Cells = {c1, c2}
  Constrained = FALSE
  FullRate = 1
  Scores = {0, 1}
  Reps = 1
  Batch = 1
  Deviations = {0}
  MaxNoise = 0
  Rates = {1}
  Inherited <- MCFresh
  MaxSampleCost = 1
  StageCosts = {0, 2}
  OptLimit = 0
  MaxRounds = 3
  MaxHypotheses = 2
  StagnationLimit = 2
SPECIFICATION Spec
INVARIANTS
  BudgetStopIsReal
