CONSTANTS
  l1 = l1
  l2 = l2
  None = None
  Listener <- Nobody
  Reused = {}
  MaxWork = 2
  MaxGen = 0
  MaxOffers = 2
  Worlds = {{"unattended"}}
SPECIFICATION Spec
INVARIANT NoLostWork
CHECK_DEADLOCK FALSE
