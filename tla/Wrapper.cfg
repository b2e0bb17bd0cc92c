SPECIFICATION FairSpec
CONSTANTS
  MaxCalls = 3
  MaxTurns = 2
  MaxDepth = 4
INVARIANTS TypeOK RunsAlone OwnFaultOnly InOrder ResultIsReal
PROPERTIES EveryCallAnswered
CHECK_DEADLOCK FALSE
