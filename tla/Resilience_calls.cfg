SPECIFICATION ResilienceSpec
CONSTANTS
  Callers = {c1, c2, c3, c4}
  Max = 2
  MaxCalls = 6
  BreakerCallers = {b1, b2, b3}
  FailureThreshold = 2
  SuccessThreshold = 1
  HalfOpenMax = 1
  WindowSize = 3
  MaxBreakerCalls = 6
  Handled = {h1, h2}
  MaxRetries = 3
  Fallbacks = {h1}
INVARIANT TypeOK
INVARIANT Conserved
INVARIANT BreakerHolds
INVARIANT RetriesHold
PROPERTY NobodyPasses
PROPERTY Isolates
PROPERTY WaitersGetIn
CHECK_DEADLOCK FALSE
