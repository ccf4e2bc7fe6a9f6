SPECIFICATION FairSpec
CONSTANTS
  a = a
  b = b
  m1 = m1
  m2 = m2
  m3 = m3
  Device = {a, b}
  Message = {m1, m2, m3}
  Author <- TwoAuthors
  MaxStored = 2
  MaxOutbox = 1
  Batch = 1
  Buffer = 2
  MaxFaults = 2
CHECK_DEADLOCK FALSE
INVARIANTS MessagesSound
PROPERTIES OutboxKept AllConfirmed
