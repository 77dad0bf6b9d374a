CONSTANTS
  N = 4
  Limit = 2
  Shapes <- UsedShapes
SPECIFICATION FairSpec
INVARIANTS WaitIsFaithful
PROPERTIES WaitReturns ImplementsGroup
CHECK_DEADLOCK FALSE
