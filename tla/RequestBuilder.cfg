SPECIFICATION Spec
CONSTANTS
  MaxCalls = 3
  MaxDefaults = 2
  None = None
INVARIANTS LastWellFormedWins BodyAsAsked
CHECK_DEADLOCK FALSE
