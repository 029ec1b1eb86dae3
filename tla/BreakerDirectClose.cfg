SPECIFICATION Spec
CONSTANTS
  Callers = {c1, c2}
  FailureThreshold = 2
  SuccessThreshold = 1
  ResetTimeout = 1
  HalfOpenRequests = 2
  FailureWindow = 1
  None = None
  CounterWidth = 8
  CallBound = 3
  MaxStall = 1
  Horizon = 3
  Abandonable = FALSE
  Resettable = FALSE
  Overlapping = TRUE
PROPERTIES NoDirectClose
