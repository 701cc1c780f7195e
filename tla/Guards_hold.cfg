SPECIFICATION GuardsSpec
CONSTANTS
  PerSecond = 2
  Second = 2
  PerMinute = 3
  Minute = 4
  MaxTime = 8
  MaxPerTick = 3
  MaxUsage = 2
  Period = 3
  Asks = {1, 2}
  Users = {u1, u2}
  SystemRoles = {"role_viewer"}
  CustomRoles = {"role_x"}
  Perms = {"admin", "data:read"}
  Admin = "admin"
  AccessLife = 1
  RefreshLife = 3
  MaxHistory = 2
  Retention = 1
  MaxTokens = 2
  MaxEvents = 3
  MaxChanges = 3
  LastTick = 4
  East = {2}
  West = {0, 4}
  Requests = {1, 2, 3, 4}
  Clients = {"x"}
  Audited = {1}
  ClientPerMinute = 1
  ClientPerHour = 2
  MinuteSpan = 2
  HourSpan = 5
  EndOfTime = 6
  ConsentIds = {"a", "b"}
  ConsentTypes = {"marketing"}
  Requirements = {"r1", "r2", "r3"}
  GdprChecks = 7
  ConfigKeys = {"k", "l"}
  ConfigValues = {1, 2}
  LastDay = 2
  MaxRecorded = 3
  MaxSettings = 3
  Coroutines = {c1, c2}
  Protocols = {"write_through", "write_back", "write_around", "invalidate"}
  MaxAttempts = 2
  MaxSets = 3
INVARIANT GuardsTypeOK
INVARIANT LimitsHold
INVARIANT AccessConsistent
INVARIANT Coherent
PROPERTY NothingRevived
PROPERTY PendingDrains
CHECK_DEADLOCK FALSE
