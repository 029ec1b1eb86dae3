SPECIFICATION Spec
CONSTANTS
  Requests = {r1, r2}
  FailureThreshold = 2
  SuccessThreshold = 1
  ResetTimeout = 1
  HalfOpenRequests = 1
  FailureWindow = 0
  Horizon = 1
  CallBound = 2
  RetryEnabled = TRUE
  MaxAttempts = 3
  RetryStatuses = {"s408", "s503"}
  RetryOnConnectionError = TRUE
  RetryOnTimeout = FALSE
  MaxRetryTime = 3
  MaxStall = 1
  Backoff <- Steady
  DurationMax = 9
  Outcomes = {"s200", "s408", "s501", "connect", "egress"}
  Intercepting = TRUE
  RateLimitWait = 0
  Droppable = TRUE
  None = None
SYMMETRY RequestSymmetry
INVARIANTS TypeOK AttemptsBounded SameRequest GivesUpOnlyWhenSpent
