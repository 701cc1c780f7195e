SPECIFICATION Spec
CONSTANTS
  Clients = {c1, c2}
  Groups = {"company"}
  GroupsOf <- MCGroupsOf
  Topics = {"metric"}
  Everybody = "everybody"
  MaxBroadcasts = 2
  Company = "company"
  AlertClients = {c1}
  Rules = {"r"}
  Listeners = {l1, l2}
  MaxQueue = 2
  MaxPerSource = 1
  MaxAlerts = 3
  EventTypes = {"e"}
  HookListeners = {k1}
  MaxAttempts = 2
  MaxRecords = 2
  MaxWebhooks = 2
  MaxDeliveries = 2
  Calls = {"first", "second"}
  Channels = {"email", "slack"}
  Items = {"a", "b", "c", "d"}
  ItemsOf <- MCItemsOf
  ChannelOf <- MCChannelOf
  MaxItemRetries = 2
  MaxItemRecords = 2
  StreamSubscribers = {s1, s2}
  Priorities = {4, 5}
  MaxBuffer = 2
  BatchSize = 2
  MaxStreamHistory = 2
  MaxStreamed = 3
INVARIANT TypeOK
INVARIANT IndexesAgree
INVARIANT NothingAstray
PROPERTY BroadcastsComplete
PROPERTY LimitsSpareUrgent
SYMMETRY Interchangeable
CHECK_DEADLOCK FALSE
