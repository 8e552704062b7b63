SPECIFICATION Spec
CONSTANTS
  Threads = {t1, t2}
  Pids = {p1, p2}
  PipeCap = 2
  BufSize = 1
  MaxPosts = 3
  t1 = t1
  t2 = t2
  p1 = p1
  p2 = p2
INVARIANTS
  IInv
  NoLostPost
  NoLostExit
PROPERTIES
  MailboxSpec
CHECK_DEADLOCK FALSE
