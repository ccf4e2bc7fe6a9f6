CONSTANTS
  Device = {d1, d2, d3}
  Member = {m1, m2, m3}
  Name = {n1, n2, n3}
  m1 = m1
  n3 = n3
  Address = {w1}
  NoOne = NoOne
  NoDevice = NoDevice
  NoAddress = NoAddress
  RoomDevices = 3
  DevicesPerMember = 2
  AgentsPerOperator = 2
  InvitesPerPerson = 1
  WaitingPerKind = 1
  WaitingPerAddress = 1
  RetiredDevices = 2
  RequestTTL = 1
  InviteTTL = 1
  MaxClock = 0
SPECIFICATION DoorSpec
SYMMETRY Symmetric
INVARIANTS RecordCoherent AgentNamesDistinct SharesKept
PROPERTIES KeysOutliveMembership ByRight LinksOnlyAddToTheLinker HostKeepsTheSay
