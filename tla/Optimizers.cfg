\* Two rounds of every optimiser but Gepa, from a budget that was used as the
\* router reckons with, less, and more, beyond the valve even.  Rows measured
\* once, under a constraint.
CONSTANTS
  TokenLimit = 1
  EvalLimit = 10
  Cells = {c1, c2}
  Constrained = TRUE
  FullRate = 1
  Scores = {0, 1}
  Reps = 1
  Deviations = {0}
  MaxNoise = 0
  Rates = {0, 1}
  MaxSampleCost = 1
  StageCosts = {0, 3}
  OptLimit = 3
  MaxRounds = 2
  Inherited <- MCInherited
  MaxArms = 4
  FoldSize = 1
  FullScore = 1
  PopulationSize = 2
  Train = {c1}
  DemoPoolCap = 2
  DemosPerCombo = 2
  NumInstructions = 2
  CombosPerRound = 2
  Batch = 1
  MaxHypotheses = 2
SPECIFICATION Spec
INVARIANTS
  TypeOK
  RunsExplained
  BooksAgree
  SpendsAsPlanned
