SPECIFICATION Spec
CONSTANTS
  NumProgs = 3
  Rounds = 2
  Faults <- AllFaults
INVARIANT RoundEndsClean
PROPERTIES CleanRunsComplete BarrierSpec
\* A child that leaves by an error path really leaves the parent waiting.
CHECK_DEADLOCK FALSE
