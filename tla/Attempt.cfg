SPECIFICATION Spec
CONSTANTS
  RedirectBound = 2
  None = None
INVARIANTS HopsBounded LimitReached NeverDowngraded OneOrigin OnlyAllowedDialed
CHECK_DEADLOCK FALSE
