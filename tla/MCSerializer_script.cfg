SPECIFICATION Spec
CONSTANTS
  d1 = d1
  d2 = d2
  odd = odd
  junk = junk
  none = none
  obj = obj
  sub = sub
  list = list
  buf = buf
  Schema <- MCSchema
  Objs <- MCObjs
  Names <- MCNames
  Data <- MCData
  Falsy = {}
  Cut <- MCCut
  Odd = odd
  Junk = junk
  None = none
  Heaps <- ScriptHeaps
  Updates <- ScriptUpdates
  Answers <- ScriptAnswers
  Callable = {obj}
  PreserveInt64 = TRUE
  MaxCalls = 2
  MaxStack = 4
INVARIANTS TypeOK BufferIsComplete NullMeansMissing Ledger OnePerIndex
PROPERTIES WritesInnermostOnly
CHECK_DEADLOCK FALSE
