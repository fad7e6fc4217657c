SPECIFICATION Spec
CONSTANTS
  CntMod = 4
  MaxConv = 5
  Depth = 2
INVARIANT CountsOnByOne
CHECK_DEADLOCK FALSE
