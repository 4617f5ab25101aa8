\* One reasoning model behind the Messages format.
CONSTANTS
  TokenLimit = 0
  EvalLimit = 0
  Callers = {opt, w1}
  Optimizer = opt
  Backend = "anthropic"
  MaxAttempts = 1
  Interval = 0
  Backoff = 1
  MaxRetryAfter = 1
  RetryAfters = {0}
  TokenCosts = {1}
  MaxCount = 7
  OptLimit = 4
  MaxStages = 1
SPECIFICATION Spec
PROPERTIES
  BurnEscalates
