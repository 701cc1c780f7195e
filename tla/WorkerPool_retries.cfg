SPECIFICATION Spec
CONSTANTS
  a = a
  b = b
  Workers = {w1}
  Tasks <- TwoTasks
  Rank <- Urgent
  MaxRetries <- Retries
  Awaited <- Nobody
  TimeLimited <- Nobody
  Cancellable <- Nobody
  MaxFailures = 4
INVARIANT RetriesBounded
CHECK_DEADLOCK FALSE
