SPECIFICATION Spec
CONSTANTS
  Clock = 12
  MinModDiv = 2
  MinFrequency = 2
  MaxFrequency = 6
  Frequencies = {2, 5}
  DefaultFrequency = 2
  Dividers = {3, 4}
  DefaultDivider = 3
  MinDivider = 3
  MaxDivider = 5
  Registers <- FoundInRange
  MaxActs = 4
  MaxAhead = 2
PROPERTY DividerEditSurvives
CHECK_DEADLOCK FALSE
