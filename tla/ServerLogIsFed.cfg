SPECIFICATION Spec
CONSTANTS
  MaxWraps = 3
INVARIANT UnattendedLogIsFed
CHECK_DEADLOCK FALSE
