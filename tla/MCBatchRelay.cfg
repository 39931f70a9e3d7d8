CONSTANTS
  NFlows = 4
  Frames <- MCFrames
  None = None
  MaxSlots = 4
  Requested = 3
  Wait = 1
  OutCap = 4
  Backlog = 2
SPECIFICATION Spec
INVARIANTS
  NothingLost
PROPERTIES
  LeavesWhenDue
  RefinesPool
  HeldFramesLeave
  ShutdownEnds
