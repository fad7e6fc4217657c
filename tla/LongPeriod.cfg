SPECIFICATION StreamSpec
CONSTANTS
  HeaderSize = 2
  FrameSize = 1
  LineSize = 2
  Modulus = 8
  ExtclkDiv = 1
  ModDiv = 24
  ClocksPerSample = 4
  Slack = 3
  FirstFrame = 5
  Steps = {3}
  Again = {}
  MaxBulk = 1
  MaxFrames = 3
  MaxAhead = 2
INVARIANT PeriodGivesRow
CHECK_DEADLOCK FALSE
