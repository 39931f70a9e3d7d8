CONSTANTS
  ShaBlock = 8
  ShaLength = 2
  B3Block = 2
  B3Chunk = 4
  PolyBlock = 4
  MaxFed = 74
  Pieces = {1, 2, 3, 5, 8, 13}
  AadLengths = {0, 1, 3, 4, 5}
  TextLengths = {0, 1, 3, 4, 5}
  StreamBlock = 3
  NoMessage = NoMessage
  Widths <- MCWidths
  ByteBits = 3
  Fold = 3
  A24 = 26
  Scalars <- MCScalars
  Points <- MCPoints
  Moduli = {32749, 32719}
  HashLength = 4
  MaxInfo = 5
  h1 = h1
  h2 = h2
  e1 = e1
  e2 = e2
  Hosts = {h1, h2}
  Ephemerals = {e1, e2}
  SmallOrder = SmallOrder
  Labels = {"hop", "link"}
  LabelLength <- MCLabelLength
  MaxDerived = 2
  ByteWidth = 3
  Capacities = {2, 5, 9, 22}
  Tags = {6}
  Values <- MCValues
  Lengths <- MCLengths
  Chunks = {0, 1, 4}
  MaxItems = 2
  MaxReads = 2
  Buckets <- MCBuckets
  NonceSize = 1
  TagSize = 2
  InnerHeader = 4
  PayloadLengths = {0, 2, 3, 4, 5}
  Rooms = {11, 13}
  Wrong = {0, 8, 9, 10, 11, 12}
  MaxFrames = 2
  RelayArguments = {0, 1, 3, 4, 5, 9}
  MaxRelays = 5
  BufferSize = 24
  LayerHeader = 5
  EiuLengths = {0, 1, 3, 4, 5, 9, 14, 15, 19, 20, 24, 25}
  Nonces = {1, 2, 3, 4}
  SlotOf <- MCSlotOf
  MaxChecks = 3
  BitsInByte = 2
  RightBytes = 2
  MaxGeneration = 2
  Grants <- MCGrants
  Removals <- MCRemovals
  RootKeys <- MCRootKeys
  MaxCapabilities = 4
  MaxTokens = 1
SPECIFICATION PartsSpec
INVARIANTS
  PartsTypeOK
  DigestsAreStandard
  OpenedIsSealed
  LadderMultiplies
  KeysAreSeparate
  ReadIsWritten
  FramesAreOpened
  SimulationDelivers
  TokensSpeakForRights
