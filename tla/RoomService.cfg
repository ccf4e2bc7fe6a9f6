SPECIFICATION ServiceSpec
CONSTANTS
  r1 = r1
  r2 = r2
  Room = {r1, r2}
  Idle = 3
  Throttle = 2
  Hour = 2
  MaxDown = 2
  MaxStops = 2
  Low = Low
  High = High
  Bridge = {High}
  MaxTrouble = 2
INVARIANTS ActivityKnown SignalsOnce
PROPERTIES ClosedForGood SweptByRight IdleRoomsGo PeersConnect
CHECK_DEADLOCK FALSE
