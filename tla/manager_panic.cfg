SPECIFICATION Spec
CONSTANTS
  Conns = {c1, c2}
  Cmds = {k1}
  Pushes = {}
  None = None
  SendBuf = 1
  ShutdownExpires = FALSE
INVARIANT
  NoPanic
CHECK_DEADLOCK FALSE
