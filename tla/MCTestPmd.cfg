CONSTANTS
  MaxPorts = 3
  NbLcores = 3
  MaxQ = 2
  Tcs = 2
  VmdqBase = 0
  Settings = {0, 1}
  StackCounts = {1, 3}
  Sessions <- PassSessions
SPECIFICATION Spec
INVARIANTS PollsReadyQueues NoSharedQueue CanStop ConfigInForce
PROPERTIES WaitEnds LifeCycle
