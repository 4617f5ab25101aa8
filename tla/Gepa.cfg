\* Five rounds with every limit within reach, crossed at every place of a
\* round: failing rounds, restarts, truncated children, cancellation.  Rows of two
\* repetitions, with or without deviations, and budgets a pipeline has used.
CONSTANTS
  TokenLimit = 1
  EvalLimit = 14
  Cells = {c1, c2}
  Constrained = FALSE
  FullRate = 1
  Scores = {0, 1}
  Reps = 2
  Batch = 1
  Deviations = {0, 1}
  MaxNoise = 1
  Rates = {1}
  Inherited <- MCInherited
  MaxSampleCost = 1
  StageCosts = {0, 3}
  OptLimit = 4
  MaxRounds = 5
  MaxHypotheses = 2
  StagnationLimit = 2
SPECIFICATION FairSpec
INVARIANTS
  TypeOK
  BestDelivered
  MembersExplained
  StopsHeld
PROPERTIES
  RestartsSpaced
  UsesFrontier
  Terminates
