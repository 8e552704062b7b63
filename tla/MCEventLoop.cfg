SPECIFICATION Spec
CONSTANTS
  MaxToken = 3
  MaxX = 1
  Windows = {w1, w2}
  NoWindow = NoWindow
  w1 = w1
  w2 = w2
INVARIANTS
  IInv
  OpenIsShown
  SleepsOnlyWhenDone
PROPERTIES
  ReactorSpec
  TimersServed
  FdsServed
CHECK_DEADLOCK FALSE
