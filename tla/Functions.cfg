SPECIFICATION Spec
CONSTANTS
  Millisecond = 2
  DurationMax = 63
  Durations = {0, 1, 2, 3, 4, 7, 16, 63}
  Multipliers = {1, 2, 3}
  LastAttempt = 6
  PathLength = 5
  NameLength = 5
INVARIANTS V4AsTabled V6CoversTable OnlyLoopbackRelaxed NamesDenied BaseConfines BaseAdmits  NeverSooner
CHECK_DEADLOCK FALSE
