SPECIFICATION Spec
CONSTANTS
  Callers = {c1, c2}
  FailureThreshold = 3
  SuccessThreshold = 2
  ResetTimeout = 2
  HalfOpenRequests = 2
  FailureWindow = 1
  None = None
  CounterWidth = 8
  CallBound = 4
  MaxStall = 1
  Horizon = 3
  Abandonable = TRUE
  Resettable = FALSE
  Overlapping = FALSE
SYMMETRY CallerSymmetry
PROPERTIES ContractSpec AtomicSpec
