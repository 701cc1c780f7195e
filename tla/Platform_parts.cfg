SPECIFICATION PlatformSpec
CONSTANTS
  Policies <- SomePolicies
  Readings = {0, 9}
  Targets = {2}
  LongestCooldown = 2
  MaxMetrics = 2
  MaxScalings = 3
  Backends <- SomeBackends
  LBClients = {c}
  Algorithms = {"round_robin", "sticky"}
  AliveFor = 1
  Threshold = 1
  MaxRegistered = 3
  DeploymentIds = {d1, d2}
  HealthChecks = {h}
  Percentages = {40, 60, 100}
  MaxSteps = 2
  MaxDeployments = 2
  KeptDeployments = 1
  MaxExecutions = 2
  Adapters = {"s", "j", "n", "p"}
  KindOf <- Kinds4
  IntegrationOf <- Integrations4
  WithSecrets = {"s", "j", "n"}
  MaxCalls = 2
  MaxStarted = 5
  HealthRequests = {1, 2, 3}
  Parts = {"db", "llm"}
  MetricKeys <- LabelledKeys
  Values = {0, 1, 2}
  AlertObjects <- SomeAlerts
  Rules <- SomeRules
  SeriesKept = 2
  ReadBack = 1
  MaxObserved = 6
  MaxLogged = 3
  Strategies <- Rated
  MaxUses = 8
  LastNow = 2
  Scores <- OutOfRange
  FirstDate <- LastOfJanuary
  Shifts <- BothWays
  Years = {2023, 2024, 2025}
  Amounts = {0, 3, 12}
  Baselines <- SomeBaselines
  Trainings <- SomeTrainings
  Observations = {0, 2, 9}
  Segments = {"s1", "s2"}
  Competitors = {"c1"}
  Shares = {10, 60}
  Points = {0, 1, 3, 9}
  MaxData = 3
  MaxSeries = 6
  RsiPeriod = 3
  TrendWindow = 6
  Keywords = 1
  Sections = 1
  ClientTasks <- ForwardTasks
  MaxWorkflows = 2
  MaxMessages = 5
  Titles <- SomeTitles
  Queries = 2
  MaxSearches = 2
  MaxAnswers = 3
  Keys = {k1, k2}
  Tags = {t, u}
  RedisClients = {r1, r2}
  RedisKeys = {k1, k2}
  Ttls = {1, 2}
  SqlQueries <- SomeQueries
  MaxEntries = 2
  Warmings = {w1}
  WarmItems = 2
  Nodes = {n1, n2}
  MaxStored = 4
  Sockets = {"s1", "s2", "s3"}
  ChannelOf <- TwoOnOneKey
  Channels = {"task:1:c", "system:c", "task:1"}
  MaxWalks = 2
  RabbitMessages = {m1, m2}
  Prefetch = 1
  MaxSubscribes = 2
  MaxRabbitCalls = 2
INVARIANT PlatformTypeOK
INVARIANT OperationsSound
INVARIANT ObservedIsReported
INVARIANT KnowledgeSound
INVARIANT AnswersSound
INVARIANT StorageSound
PROPERTY LoadIsServed
CHECK_DEADLOCK FALSE
