SPECIFICATION Spec
CONSTANTS
  MaxCalls = 2
  MaxTurns = 1
  MaxDepth = 3
  Objects = {"plain", "lively"}
  Lively = {"lively"}
  FieldCount = 2
  MaxWrites = 2
CHECK_DEADLOCK FALSE
INVARIANTS
  TypeOK
  ReadsGoForward
  LaterSeesLater
PROPERTY
  ResultIsCurrent
