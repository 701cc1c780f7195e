SPECIFICATION FairSchedulerSpec
CONSTANTS
  o = o
  i = i
  Workers = {w1, w2}
  Tasks <- TwoJobs
  Rank <- SameRank
  MaxRetries <- Retries
  Awaited <- NoTask
  TimeLimited <- NoTask
  Cancellable <- NoTask
  MaxFailures = 1
  Jobs <- TwoJobs
  JobTask <- OwnTask
  Kind <- Kinds
  MaxRuns <- Limits
  FirstRun <- NotGiven
  MaxScheduled = 2
INVARIANT JobsTypeOK
INVARIANT RunsCounted
PROPERTY CancelledStaysQuiet
PROPERTY JobsAreRun
CHECK_DEADLOCK FALSE
