SPECIFICATION Spec
CONSTANTS
  Bursts = 2
  Beats = 2
  Ahead = 2
  AwDepth = 1
  MaxRec = 4
CHECK_DEADLOCK FALSE
INVARIANT RecordsStartOnSlots
