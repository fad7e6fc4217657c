SPECIFICATION Spec
CONSTANTS
  MaxStarts = 2
  MaxStops = 0
  MaxConnects = 1
  NameLengths = {1, 3}
  ChunkBytes = 2
INVARIANT UsbLogHasItsName
CHECK_DEADLOCK FALSE
