SPECIFICATION FairSpec
CONSTANTS
  a = a
  b = b
  Workers = {w1, w2}
  Tasks <- TwoTasks
  Rank <- Urgent
  MaxRetries <- Retries
  Awaited <- OnlyB
  TimeLimited <- OnlyB
  Cancellable <- OnlyB
  MaxFailures = 2
INVARIANT TypeOK
INVARIANT Accounting
INVARIANT EventCoversQueue
INVARIANT Placement
PROPERTY SettledForGood
PROPERTY PoolLives
CHECK_DEADLOCK FALSE
