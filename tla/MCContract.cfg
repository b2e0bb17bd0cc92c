SPECIFICATION FairSpec
CONSTANTS
  d1 = d1
  d2 = d2
  odd = odd
  junk = junk
  none = none
  obj = obj
  sub = sub
  sub2 = sub2
  list = list
  buf = buf
  Schema <- MCSchema
  Objs <- MCObjs
  Names <- MCNames
  Data <- MCData
  Falsy <- MCFalsy
  Cut <- MCCut
  Odd = odd
  Junk = junk
  None = none
  Heaps <- MCHeaps
  Updates <- MCUpdates
  Answers = {}
  Callable = {obj}
  PreserveInt64 = TRUE
  MaxCalls = 2
  MaxStack = 4
PROPERTIES ImplementsContract
CHECK_DEADLOCK FALSE
