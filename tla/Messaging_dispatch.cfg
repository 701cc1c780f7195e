SPECIFICATION Spec
CONSTANTS
  Handlers = {h1, h2}
  MaxHistory = 2
  MaxEvents = 3
  m1 = m1
  m2 = m2
  m3 = m3
  high = high
  low = low
  all = all
  Messages = {m1, m2, m3}
  Keys = {"a", "b"}
  Empty = {m2}
  KeyOf <- MCKeyOf
  Rules = {high, low, all}
  Priority <- MCPriority
  Matches <- MCMatches
  Default = {}
  MaxRetries = 1
  MaxCalls = 4
  Queues = {"q1", "q2"}
  BindingKeys = {"x"}
  Callbacks = {c1}
  MaxLen = 2
  MaxBindings = 2
  MaxPublished = 3
  MaxSubscribed = 2
INVARIANT TypeOK
INVARIANT DeliveredOnce
INVARIANT InOrder
INVARIANT RulesAndQueues
PROPERTY RetriesEnd
CHECK_DEADLOCK FALSE
