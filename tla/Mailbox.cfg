CONSTANTS
  l1 = l1
  l2 = l2
  None = None
  Listener <- AllListeners
  Reused = {l1}
  MaxWork = 2
  MaxGen = 2
  MaxOffers = 2
  Worlds = {{"wall", "unseen"}, {"nap"}, {"wall", "restart", "unattended"}}
SPECIFICATION FairSpec
INVARIANTS MailboxSound NothingLost
PROPERTIES PutBackUnread WorkGoesOn
CHECK_DEADLOCK FALSE
