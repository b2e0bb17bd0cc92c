SPECIFICATION FairSpec
CONSTANTS
  d1 = d1
  d2 = d2
  n1 = n1
  n2 = n2
  n3 = n3
  n4 = n4
  n5 = n5
  varint = varint
  delimited = delimited
  odd = odd
  junk = junk
  none = none
  o1 = o1
  o2 = o2
  o3 = o3
  o4 = o4
  o5 = o5
  o6 = o6
  o7 = o7
  o8 = o8
  o9 = o9
  o10 = o10
  o11 = o11
  o12 = o12
  o13 = o13
  o14 = o14
  o15 = o15
  o16 = o16
  o17 = o17
  o18 = o18
  o19 = o19
  o20 = o20
  o21 = o21
  o22 = o22
  Schema <- MCSchema
  Objs <- MCObjs
  Names <- MCNames
  Data <- MCData
  Falsy = {}
  Cut <- MCCut
  Odd = odd
  Junk = junk
  None = none
  Tables <- MCTables
  Known <- MCKnown
  Arena <- MCArena
  Numerals <- MCNumerals
  WireTypes <- MCWireTypes
  Leftover = d2
  PreserveInt64 = TRUE
  MaxParses = 2
INVARIANTS TypeOK ResultIsDecoded OneOwner Released
PROPERTIES KeepsObjects ParsesAnswer
CHECK_DEADLOCK FALSE
