SPECIFICATION Spec
CONSTANTS
  Plans = {p1, p2}
  Triggers = {t1}
  Runs = {r1, r2}
  None = None
  Calls = {c1, c2}
  MaxResent = 1
  MaxFaults = 1
SYMMETRY Symmetry
INVARIANTS
  TypeOK
  OneRunPerPlan
  AbortsApart
  AckedStored
  OwnPlan
  RepeatedIfUnanswered
  LeftOpenExplained
PROPERTY
  ReportedRowKept
CHECK_DEADLOCK FALSE
