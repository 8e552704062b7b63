SPECIFICATION Safety
CONSTANTS
  Pids = {p1, p2}
  NoPid = NoPid
  kStartTicks = 2
  kKillTicks = 1
  kGiveUpTicks = 2
  MaxAttempts = 2
  p1 = p1
  p2 = p2
PROPERTY
  ForgottenOnlyWhenGone
