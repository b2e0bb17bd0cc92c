SPECIFICATION Spec
CONSTANTS
  Half = 8
  Exact = 16
  Scales <- MCScales
  Given <- MCGiven
CHECK_DEADLOCK FALSE
INVARIANTS TypeOK HalvesMeanTheNumber LosesLittle
PROPERTIES TextIsLossless NumbersComeBack
