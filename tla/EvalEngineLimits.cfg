\* Two repetitions of judged samples against both limits, the evaluation limit
\* cutting a sample in half, on budgets earlier runs have used.
CONSTANTS
  TokenLimit = 2
  EvalLimit = 8
  N = 4
  Workers = {w1, w2}
  Reps = 2
  Judge = "llm"
  TokenCosts = {1}
  StartBudgets <- MCInherited
SPECIFICATION Spec
INVARIANTS
  TypeOK
  LimitsHeld
  StopsInOrder
  ReportIsFinal
