SPECIFICATION Spec
CONSTANTS
  Bursts = 2
  Beats = 2
  Ahead = 2
  AwDepth = 1
  MaxRec = 4
INVARIANT TypeOK
INVARIANT OneAddressPerBurst
INVARIANT WrapPeriod
INVARIANT AlignedIfDrained
INVARIANT OnlyTheTailFollows
INVARIANT InnerSlotsSettle
PROPERTY ImplementsPingPong
CHECK_DEADLOCK FALSE
