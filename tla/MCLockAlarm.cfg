CONSTANTS
  ITERATIONS = 3
  WARMUP = 1
  TIMING_BUFFER_LEN = 4
  MaxRetries = 2
  MaxForeign = 1
SPECIFICATION Spec
INVARIANT TimedOutInThisIteration
CHECK_DEADLOCK FALSE
