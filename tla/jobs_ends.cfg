SPECIFICATION Spec
CONSTANTS
  Plans = {p1}
  Triggers = {t1, t2}
  Runs = {r1, r2}
  None = None
  Calls = {c1}
  MaxResent = 0
  MaxFaults = 0
INVARIANT
  RunningEnds
CHECK_DEADLOCK FALSE
