SPECIFICATION Spec
CONSTANTS
  MaxWraps = 3
PROPERTY TimedLogOutlivesClient
CHECK_DEADLOCK FALSE
