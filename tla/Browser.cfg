SPECIFICATION BrowserSpec
CONSTANTS
  v1 = v1
  v2 = v2
  o1 = o1
  o2 = o2
  Viewer = {v1, v2}
  Other = {o1, o2}
  Message = {m1}
  None = None
  CanFreeze = FALSE
  MaxTurns = 4
  Mine = {1}
  Others = {2}
  Reacted = {1, 2}
  Cap = 1
  MaxPending = 1
  CompactAt = 2
  MaxRev = 3
  d1 = d1
  d2 = d2
  Device = {d1, d2}
  Author = {d1}
  Burst = 1
  MaxWaiting = 1
  Buffer = 1
  MaxOps = 2
  MaxTrouble = 2
  f1 = f1
  f2 = f2
  p1 = p1
  File = {f1, f2}
  Holder = {p1}
  Size = 2
  Parallel = 2
  Slots = 1
  Ahead = 1
CHECK_DEADLOCK FALSE
INVARIANT NobodyFencedOut
PROPERTIES ViewerGetsRoom TakenOver DevicesConverge FilesArrive
