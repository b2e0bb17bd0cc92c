SPECIFICATION FairSpec
CONSTANTS
  d1 = d1
  d2 = d2
  odd = odd
  junk = junk
  none = none
  obj = obj
  sub = sub
  list = list
  buf = buf
  Schema <- NodeSchema
  Objs <- MCObjs
  Names <- MCNames
  Data <- MCData
  Falsy <- MCFalsy
  Cut <- MCCut
  Odd = odd
  Junk = junk
  None = none
  Heaps <- NodeHeaps
  Updates <- NodeUpdates
  Answers <- NodeAnswers
  Callable = {obj}
  PreserveInt64 = TRUE
  MaxCalls = 1
  MaxStack = 3
PROPERTIES CallsEnd
CHECK_DEADLOCK FALSE
