CONSTANTS
  A = A
  B = B
  C = C
  Relays <- MCRelays
  Messages = {"m1", "m2"}
  Paths <- MCPaths
  Lengths <- MCLengths
  Window = 2
  MaxHops = 4
  HopOverhead = 98
  LengthPrefix = 2
  EnvelopePlain = 1024
  BiggestBucket = 8192
  WrapLimit = 4096
  MaxEpoch = 3
  Unsent = Unsent
SPECIFICATION Spec
INVARIANTS
  OncePerEpoch
  AcceptedIsPassedOn
PROPERTY SentIsDelivered
CHECK_DEADLOCK FALSE
