SPECIFICATION Spec
CONSTANTS
  MaxStarts = 2
  MaxStops = 0
  MaxConnects = 2
  NameLengths = {1}
  ChunkBytes = 2
PROPERTY StartsAtItsMark
CHECK_DEADLOCK FALSE
