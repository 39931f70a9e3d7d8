CONSTANTS
  Quad127 = Quad127
  QuadRemote = QuadRemote
  Localhost = Localhost
  Name = Name
  NameLong = NameLong
  Name6 = Name6
  Hosts <- MCHosts
  Loopback <- MCLoopback
  Literal <- MCLiteral
  Ipv6 <- MCIpv6
  Ports <- MCPorts
  DefaultProxy <- MCDefaultProxy
  Unsendable <- MCUnsendable
  NoFlag = NoFlag
  Garbled = Garbled
  NoNext = NoNext
  Want = 2
SPECIFICATION Spec
INVARIANTS
  PrivacyPromise
  RequestedIsKept
  StreamIsVetted
  NothingLeftOpen
