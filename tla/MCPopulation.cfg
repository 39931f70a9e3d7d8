CONSTANTS
  MemSize = 8
  DataDepth = 2
  RetDepth = 2
  OutSlots = 1
  SpawnMax = 2
  NoSpawn = NoSpawn
  MaxCode = 20
  MaxData = 1
  MaxState = 2
  CapabilitySize = 2
  MaxReplicas = 3
  Written <- MCWritten
  Templates <- MCTemplates
  Counts = {0, 1, 3, 5}
  RoundCounts = {0, 1, 4}
  Allowed = {0, 1, 2}
  FuelLimit = 12
  MaxPopulation = 4
SPECIFICATION PopulationSpec
INVARIANTS
  PopulationTypes
  LostSectionsAreFlagged
PROPERTIES
  DiversityNeverGrows
