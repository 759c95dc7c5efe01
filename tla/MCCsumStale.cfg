SPECIFICATION Spec
CONSTANTS
  Aspects <- CsumAspect
  CsumSteps = 5
  EngineNames = {"io", "mac_retry", "csum", "flowgen", "txonly", "rxonly", "icmpecho", "ieee1588"}
  Streams = {1, 2}
  NbMbufs = 4
  Burst = 2
  NbSegs = 2
  Retries = 1
  NbFlows = 3
  MaxRx = 2
  MaxMade = 3
  Ports = {1}
  FewPorts = {1}
  Vals = {0, 1}
  NbVlans = 2
  NbQueues = 2
  Protos = {"ip", "udp", "tcp", "sctp", "outer-ip"}
  EchoW = 16
  PortMac = 9
INVARIANT InfoOfCurrentPacket
CHECK_DEADLOCK FALSE
