SPECIFICATION BreakerFairSpec
CONSTANTS
  BreakerCallers = {b1, b2}
  FailureThreshold = 2
  SuccessThreshold = 1
  HalfOpenMax = 1
  WindowSize = 3
  MaxBreakerCalls = 4
PROPERTY OpensOnFailures
CHECK_DEADLOCK FALSE
