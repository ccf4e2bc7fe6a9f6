CONSTANTS
  h = h
  p = p
  a = a
  dh = dh
  dp = dp
  da = da
  o1 = o1
  o2 = o2
  o3 = o3
  None = None
  Device = {dh, dp, da}
  Member = {h, p, a}
  MemberOf <- Owners
  Agent = {a}
  Operator <- Operators
  Host = h
  Page = {dh, dp}
  Creator = {a, p}
  First = {o1, o2}
  Extra = {o3}
  Leaver = {p}
  CompactAt = 3
  Top = 8
  MaxVotes = 2
  Plans <- LateVote
SPECIFICATION FairSpec
PROPERTY PagesClose
CHECK_DEADLOCK FALSE
