CONSTANTS
  r1 = r1
  r2 = r2
  r3 = r3
  c1 = c1
  c2 = c2
  Relays = {r1, r2, r3}
  Clients = {c1, c2}
  Requested = {r3}
  Nexts <- MCNexts
  Wants <- MCWants
  NoNext = NoNext
  Garbled = Garbled
  Sends <- MCSends
  Backlog = 1
  HeaderSize = 1
  DigestSize = 1
  MaxPayload = 1
SPECIFICATION Spec
INVARIANTS
  TypeOK
  FramesAreAsSent
