SPECIFICATION LocksSpec
CONSTANTS
  Process = {p1, p2}
  MaxFiles = 6
  MaxCrashes = 2
  MaxAge = TRUE
INVARIANT NeverBoth
CHECK_DEADLOCK FALSE
