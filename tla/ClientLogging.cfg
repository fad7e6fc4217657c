SPECIFICATION Spec
CONSTANTS
  MaxStarts = 2
  MaxStops = 1
  MaxConnects = 2
  NameLengths = {1}
  ChunkBytes = 2
INVARIANT TypeOK
INVARIANT NoZombieLog
PROPERTY TimerEndsLog
CHECK_DEADLOCK FALSE
