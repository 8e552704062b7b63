SPECIFICATION Spec
CONSTANTS
  Pids = {p1}
  NoPid = NoPid
  kStartTicks = 2
  kKillTicks = 1
  kGiveUpTicks = 2
  MaxAttempts = 2
  p1 = p1
PROPERTIES
  OperationEnds
  ShutdownNoticed
  PollEnds
  PortChangeShown
