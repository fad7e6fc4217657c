SPECIFICATION Spec
CONSTANTS
  CntMod = 3
  MaxConv = 4
  Channels = 2
  Retries = 2
INVARIANT AnswersAreCoherent
