SPECIFICATION Spec
CONSTANTS
  CntMod = 4
  MaxConv = 7
  Depth = 2
INVARIANT TypeOK
INVARIANT FrameIsWhole
INVARIANT RecordsFollow
INVARIANT StagedInOrder
CHECK_DEADLOCK FALSE
