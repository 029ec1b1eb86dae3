SPECIFICATION Spec
CONSTANTS
  Millisecond = 2
  DurationMax = 3
  Durations = {1}
  Multipliers = {1}
  LastAttempt = 0
  PathLength = 0
  NameLength = 0
INVARIANTS V6AsTabled
CHECK_DEADLOCK FALSE
