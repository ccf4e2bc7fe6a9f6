SPECIFICATION AgentsSpec
CONSTANTS
  MaxStarts = 7
  MaxUses = 2
  MaxTrouble = 1
  r1 = r1
  r2 = r2
  r3 = r3
  SessionRoom = {r1, r2, r3}
  MaxRefusals = 1
  MaxMishaps = 1
  d1 = d1
  x1 = x1
  t1 = t1
  m1 = m1
  Request = {d1, x1, t1, m1}
  Decisions = {d1}
  Reacting = {x1}
  Speaking = {m1}
  Caller = {c1}
  NoItem = NoItem
  MaxCalls = 2
  MaxHarms = 1
CHECK_DEADLOCK FALSE
INVARIANTS DoneOnce
PROPERTIES KeptRunning EveryRoomWakes ChangesSettle
