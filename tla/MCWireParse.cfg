SPECIFICATION FairSpec
CONSTANTS
  Buffers <- MCBuffers
  Asked <- MCAsked
  Warned = {0, 5}
  Word = 16
  DefaultLimit = 4
  DefaultThreshold = 2
  DefaultRecursion = 2
CHECK_DEADLOCK FALSE
INVARIANTS
  TypeOK
  NeverPastLimit
  LimitsNest
PROPERTIES
  MessagesEndProperly
  ParseEnds
