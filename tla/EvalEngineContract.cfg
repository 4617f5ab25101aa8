\* The run against its contract, and its termination, with the decision judge
\* and its fallback.
CONSTANTS
  TokenLimit = 2
  EvalLimit = 0
  N = 3
  Workers = {w1, w2}
  Reps = 0
  Judge = "decision"
  TokenCosts = {1}
  StartBudgets <- MCFresh
SPECIFICATION FairSpec
PROPERTIES
  Reports
  ImplementsContract
