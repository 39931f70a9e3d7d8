CONSTANTS
  Quad127 = Quad127
  Hosts <- MCHosts
  Loopback <- MCHosts
  Literal <- MCHosts
  Ipv6 = {}
  Unsendable = {}
  Ports <- MCPorts
  DefaultProxy <- MCDefaultProxy
  NoFlag = NoFlag
  Garbled = Garbled
  N = 3
  RelayHost = Quad127
SPECIFICATION TestSpec
INVARIANTS
  PassedMeansDelivered
PROPERTY MainReturns
