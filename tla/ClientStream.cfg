SPECIFICATION StreamSpec
CONSTANTS
  HeaderSize = 2
  FrameSize = 1
  LineSize = 2
  Modulus = 8
  ExtclkDiv = 1
  ModDiv = 12
  ClocksPerSample = 4
  Slack = 3
  FirstFrame = 5
  Steps = {2}
  Again = {1}
  MaxBulk = 2
  MaxFrames = 3
  MaxAhead = 2
INVARIANT MessagesAsSent
INVARIANT RowsAtDemodRate
INVARIANT RowsAfterMarker
CHECK_DEADLOCK FALSE
