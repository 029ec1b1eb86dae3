SPECIFICATION Spec
CONSTANTS
  Callers = {c1, c2, c3}
  FailureThreshold = 2
  SuccessThreshold = 2
  ResetTimeout = 1
  HalfOpenRequests = 2
  FailureWindow = 1
  None = None
  CounterWidth = 8
  CallBound = 3
  MaxStall = 1
  Horizon = 3
  Abandonable = FALSE
  Resettable = TRUE
  Overlapping = TRUE
SYMMETRY CallerSymmetry
INVARIANTS TypeOK NoMissedTrip NoMissedClose OpenHasTimer HalfOpenLimit NeverStarved
