SPECIFICATION Spec
CONSTANTS
  Requests = {r1}
  FailureThreshold = 2
  SuccessThreshold = 1
  ResetTimeout = 1
  HalfOpenRequests = 1
  FailureWindow = 1
  Horizon = 2
  CallBound = 2
  RetryEnabled = TRUE
  MaxAttempts = 3
  RetryStatuses = {"s408", "s503"}
  RetryOnConnectionError = TRUE
  RetryOnTimeout = FALSE
  MaxRetryTime = 1
  MaxStall = 1
  Backoff <- Steady
  DurationMax = 9
  Outcomes = {"s200", "s408", "s501", "s503", "timeout", "connect", "reset", "too_large", "egress", "redirect"}
  Intercepting = FALSE
  RateLimitWait = 0
  Droppable = FALSE
  None = None
INVARIANTS NeverStarved
