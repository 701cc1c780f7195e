SPECIFICATION ResilienceSpec
CONSTANTS
  Callers = {c1}
  Max = 2
  MaxCalls = 1
  BreakerCallers = {b1}
  FailureThreshold = 2
  SuccessThreshold = 1
  HalfOpenMax = 1
  WindowSize = 3
  MaxBreakerCalls = 1
  Handled = {h1, h2}
  MaxRetries = 1
  Fallbacks = {h1}
INVARIANT PlainReturned
CHECK_DEADLOCK FALSE
