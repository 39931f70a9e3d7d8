CONSTANTS
  Ids <- MCIds
  Window = 5
  Home <- MCHome
  EpochMod = 3
  Empty = Empty
SPECIFICATION Spec
INVARIANTS
  ProbeChainsUnbroken
PROPERTY RefinesReplaySet
