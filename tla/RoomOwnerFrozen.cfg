SPECIFICATION FairSpec
CONSTANTS
  Viewer = {v1}
  Other = {o1}
  Message = {m1}
  None = None
  CanFreeze = TRUE
  MaxTurns = 2
CHECK_DEADLOCK FALSE
PROPERTY BackgroundTakesOver
