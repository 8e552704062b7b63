SPECIFICATION Spec
CONSTANTS
  Names <- MCNames
  Ports <- AlsaPorts
  NoName = NoName
  name <- AlsaName
  base <- MCBase
PROPERTIES
  LoopEnds
CHECK_DEADLOCK FALSE
