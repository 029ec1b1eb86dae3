SPECIFICATION FairSpec
CONSTANTS
  Requests = {r1, r2}
  FailureThreshold = 2
  SuccessThreshold = 2
  ResetTimeout = 1
  HalfOpenRequests = 2
  FailureWindow = 1
  Horizon = 2
  CallBound = 4
  RetryEnabled = TRUE
  MaxAttempts = 2
  RetryStatuses = {"s408", "s429"}
  RetryOnConnectionError = TRUE
  RetryOnTimeout = FALSE
  MaxRetryTime = 1
  MaxStall = 1
  Backoff <- Steady
  DurationMax = 9
  Outcomes = {"s200", "s429", "connect", "too_large"}
  Intercepting = FALSE
  RateLimitWait = 2
  Droppable = FALSE
  None = None
INVARIANTS NeverStarved
PROPERTIES EveryRequestReturns RecoversUnderTraffic
