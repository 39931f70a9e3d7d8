CONSTANTS
  NFlows = 4
  Frames <- MCFrames
  None = None
  MaxSlots = 2
  Requested = 8
  Wait = 2
  OutCap = 2
  Backlog = 2
SPECIFICATION Spec
INVARIANT DrainedAtExit
