SPECIFICATION Spec
CONSTANTS
  MaxWraps = 3
INVARIANT TypeOK
INVARIANT UnattendedIsTimed
INVARIANT IdleMeansStopped
INVARIANT RowsInOrder
PROPERTY ReleasedIsLogged
PROPERTY TimedLogEnds
PROPERTY ImplementsPingPong
CHECK_DEADLOCK FALSE
