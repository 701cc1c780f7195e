SPECIFICATION Spec
CONSTANTS
  Coroutines = {c1}
  Protocols = {"write_back"}
  MaxAttempts = 2
  MaxSets = 2
INVARIANT LastWriteKept
CHECK_DEADLOCK FALSE
