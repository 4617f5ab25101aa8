\* The optimiser and two workers over one paced client.
CONSTANTS
  TokenLimit = 0
  EvalLimit = 0
  Callers = {opt, w1, w2}
  Optimizer = opt
  Backend = "openai"
  MaxAttempts = 2
  Interval = 1
  Backoff = 1
  MaxRetryAfter = 1
  RetryAfters = {0, 2}
  TokenCosts = {1}
  MaxCount = 7
  OptLimit = 4
  MaxStages = 1
SPECIFICATION FairSpec
INVARIANTS
  TypeOK
  RateHeld
  CallsAccounted
PROPERTIES
  CallsReturn
