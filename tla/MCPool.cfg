SPECIFICATION FairSpec
CONSTANTS
  Names <- MCNames
  FileSets <- MCFileSets
CHECK_DEADLOCK FALSE
INVARIANTS TypeOK BuiltIsWhole BuiltIsConsistent
PROPERTY ConsistentBuilds

