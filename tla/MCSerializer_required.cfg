SPECIFICATION Spec
CONSTANTS
  d1 = d1
  d2 = d2
  odd = odd
  junk = junk
  none = none
  obj = obj
  sub = sub
  list = list
  buf = buf
  Schema <- MCSchema
  Objs <- MCObjs
  Names <- MCNames
  Data <- MCData
  Falsy = {}
  Cut <- MCCut
  Odd = odd
  Junk = junk
  None = none
  Heaps <- QuietHeaps
  Updates = {}
  Answers = {}
  Callable = {obj}
  PreserveInt64 = TRUE
  MaxCalls = 1
  MaxStack = 4
INVARIANTS BufferIsInitialized
CHECK_DEADLOCK FALSE
