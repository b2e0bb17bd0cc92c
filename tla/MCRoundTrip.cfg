SPECIFICATION Spec
CONSTANTS
  d1 = d1
  d2 = d2
  odd = odd
  junk = junk
  none = none
  obj = obj
  sub1 = sub1
  list = list
  objects = objects
  halves = halves
  buf = buf
  o1 = o1
  o2 = o2
  o3 = o3
  o4 = o4
  o5 = o5
  o6 = o6
  o7 = o7
  o8 = o8
  o9 = o9
  o10 = o10
  o11 = o11
  o12 = o12
  o13 = o13
  o14 = o14
  o15 = o15
  o16 = o16
  o17 = o17
  o18 = o18
  Schema <- MCSchema
  Objs <- MCObjs
  Names <- MCNames
  Data <- MCData
  Falsy = {}
  Cut <- MCCut
  Odd = odd
  Junk = junk
  None = none
  Heaps <- MCHeaps
  Callable = {obj}
  PreserveInt64 = TRUE
  MaxStack = 2
  Known <- MCKnown
  Arena <- MCArena
  Numerals <- MCNumerals
  WireTypes <- MCWireTypes
  Leftover = d2
  RootType = "Test"
  Trips = 3
INVARIANTS Settled ParsedIsSerializable
CHECK_DEADLOCK FALSE
