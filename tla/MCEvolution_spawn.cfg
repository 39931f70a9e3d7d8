CONSTANTS
  MemSize = 8
  DataDepth = 2
  RetDepth = 2
  OutSlots = 1
  SpawnMax = 2
  NoSpawn = NoSpawn
  Units <- MCUnits
  Allowed = {0, 1, 2}
  FuelLimit = 10
  StateSize = 4
  MaxCode = 20
  MaxData = 1
  MaxState = 4
  CapabilitySize = 2
  MaxReplicas = 3
  Plans <- MCPlans
  MaxTrace = 5
  StepCounts = {0, 2, 7}
SPECIFICATION CommandSpec
INVARIANT SpawnNeedsItsRight
CHECK_DEADLOCK FALSE
