SPECIFICATION Spec
CONSTANTS
  Names <- MCNames
  Ports <- MCNames
  NoName = NoName
  name <- UniqueName
  base <- MCBase
INVARIANTS
  OthersKeepOrder
  PairsTogether
PROPERTIES
  LoopEnds
CHECK_DEADLOCK FALSE
