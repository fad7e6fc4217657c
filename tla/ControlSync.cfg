SPECIFICATION Spec
CONSTANTS
  Clock = 12
  MinModDiv = 2
  MinFrequency = 2
  MaxFrequency = 6
  Frequencies = {2, 5}
  DefaultFrequency = 2
  Dividers = {3}
  DefaultDivider = 3
  MinDivider = 3
  MaxDivider = 5
  Registers <- FoundRegisters
  MaxActs = 4
  MaxAhead = 2
INVARIANT TypeOK
INVARIANT ServerDoesAsCommanded
PROPERTY ControlsConverge
CHECK_DEADLOCK FALSE
