\* One configuration arrives while the stream ends.
SPECIFICATION Spec
CONSTANTS
  Configs = {g1}
  Commands = {}
  OutBuf = 1
INVARIANT
  NoSendOnClosed
CHECK_DEADLOCK FALSE
