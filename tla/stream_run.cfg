\* Two configurations and a command meet a one-slot outbound channel.
SPECIFICATION FairSpec
CONSTANTS
  Configs = {g1, g2}
  Commands = {k1}
  OutBuf = 1
INVARIANTS
  TypeOK
  WaitCoversHandlers
  NothingLeftBehind
PROPERTY
  RunReturns
CHECK_DEADLOCK FALSE
