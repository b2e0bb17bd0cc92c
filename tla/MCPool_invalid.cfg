SPECIFICATION Spec
CONSTANTS
  Names <- MCNames
  FileSets <- MCFileSets
CHECK_DEADLOCK FALSE
INVARIANT InvalidThrows

