SPECIFICATION StreamSpec
CONSTANTS
  HeaderSize = 2
  FrameSize = 1
  LineSize = 2
  Modulus = 8
  ExtclkDiv = 1
  ModDiv = 12
  ClocksPerSample = 4
  Slack = 3
  FirstFrame = 5
  Steps = {1}
  Again = {}
  MaxBulk = 1
  MaxFrames = 3
  MaxAhead = 2
INVARIANT ChangesAreRows
CHECK_DEADLOCK FALSE
