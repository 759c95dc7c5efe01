SPECIFICATION Spec
CONSTANTS
  Ports = {1, 2}
  FewPorts = {1}
  Vals = {0, 1}
  NbVlans = 2
  NbQueues = 2
  Protos = {"ip", "udp"}
  Priorities = {0}
  FdirMode = "IP"
  FlowTypes = {"ipv4-udp", "ipv6-other"}
  FlexMax = 3
  FlexLen = 4
  FilterRoom = 1
  LinkSpeed = 1
  RetaSize = 4
  Group = 2
  W = 4
  PciLen = 8
  McAddrs = {0, 1, 2, 3}
  MCAST_POOL_INC = 2
  NbCounters = 2
  MaxMappings = 2
  MaxSegs = 2
  NbTxd = 3
  MbufSize = 4
  LenMod = 6
  MinLen = 2
  NbPorts = 3
  MaxPorts = 4
  LaunchCores = 2
  MaxSocket = 2
  MaxQueueId = 3
  MaxBurst = 2
  SByte = 8
  MaxArgs = 3
  MaxCmds <- Limits
  Families <- AllFamilies
INVARIANTS FlowAsTyped OneInsertion FlexMasksAsTyped RetaAsTyped RegisterBits McastMirrors LaunchCounts
PROPERTY QmapInForce
CHECK_DEADLOCK FALSE
