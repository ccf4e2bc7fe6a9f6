SPECIFICATION SafetySpec
CONSTANTS
  Viewer = {v1, v2}
  Other = {o1, o2}
  Message = {m1}
  None = None
  CanFreeze = TRUE
  MaxTurns = 2
  Setting = {"settings"}
  Window = 1
  Keep = 2
  Skew = 1
  Uses = 2
  CreateLimit = 1
  MaxTime = 2
  MaxIds = 2
  MaxNet = 2
  Device = {d1, d2}
  Assignee = {a, b}
  CompactAt = 2
  KeptTail = 1
  Jump = 3
  MaxOps = 3
  Mine = {1, 2}
  Others = {}
  Reacted = {1, 2}
  Cap = 1
  MaxPending = 1
  MaxRev = 2
  File = {f1}
  Holder = {p1, p2}
  Size = 2
  Parallel = 2
  Slots = 1
  Buffer = 1
  MaxTrouble = 3
  Stream = {"tasks", "decisions"}
  RecentOps = 1
  MaxMessages = 2
  MaxChanges = 1
  MaxListens = 2
  Process = {p1, p2, p3}
  MaxFiles = 5
  MaxCrashes = 2
  MaxAge = TRUE
  Unset = Unset
  Requests = {a}
  Draft = {c1, c2}
  MaxEdits = 1
  MaxReads = 1
  MaxLosses = 1
  MaxWakes = 1
  Hour = 2
  MaxIdle = 1
  Backoff = 1
  RetryAfter = 3
  Overdue = 2
  MaxRuns = 3
  MaxBindings = 2
  MaxMisfires = 2
  MaxHours = 4
  MaxBinds = 2
  MaxHolds = 2
  MaxFaults = 1
  PersonRoom = {r1, r2}
  Secret = {s1, s2}
  MaxWrong = 2
  MaxLinks = 2
  MaxJoins = 1
  MaxAccidents = 1
  Limit = 1
  Older = 1
  Stored = 2
  KeptEvents = 1
  Batch = 1
  MaxAdded = 3
  MaxRest = 1
  MaxRestarts = 1
  MaxFailures = 1
  Key = {k1, k2}
  Thing = {x1}
  WaitingKey = k1
  CoalesceTime = 2
  Minute = 2
  CapPerMinute = 1
  KeptNotices = 2
  PageSize = 1
  MaxItems = 3
  MaxMinutes = 5
  Sender = sn
  Receiver = rc
  NodeMessage = {q1, q2}
  Attached = {q2}
  PerMessage = 2
  MaxAssemblies = 1
CHECK_DEADLOCK FALSE
INVARIANTS OneOwner CommandsOnce DevicesSound NothingSkipped
PROPERTIES RecordKept LockIsMutex DesktopSound
