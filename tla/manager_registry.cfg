SPECIFICATION FairSpec
CONSTANTS
  Conns = {c1, c2}
  Cmds = {k1}
  Pushes = {p1}
  None = None
  SendBuf = 1
  ShutdownExpires = TRUE
INVARIANTS
  TypeOK
  EntryOpen
  ClosedWakesCallers
  NoStalePending
  AnsweredByAgent
PROPERTY
  BrokenStreamEnds
CHECK_DEADLOCK FALSE
