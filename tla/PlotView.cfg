SPECIFICATION Spec
CONSTANTS
  CHANNEL_COUNT = 2
  MaxTerms = 2
  MaxOps = 4
  MaxRevision = 3
  MaxEpoch = 2
  BoolsStayBools = FALSE
INVARIANT TypeOK
INVARIANT WindowIsConsistent
PROPERTY AsdIsOfLastRequest
CHECK_DEADLOCK FALSE
