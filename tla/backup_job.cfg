\* Two plans, two jobs of each, two repositories that may be missing; the
\* default policy keeps one snapshot.
SPECIFICATION Spec
CONSTANTS
  Plans = {p1, p2}
  Repos = {r1, r2}
  r1 = r1
  r2 = r2
  PlanChoices <- MCPlanChoices
  DefaultKeep = 1
  MaxRuns = 2
  None = None
INVARIANTS
  TypeOK
  SuccessHasSnapshot
  FailureCaused
  AbortStopsJob
  HooksInOrder
  NotifiedRight
  OwnPolicy
CHECK_DEADLOCK FALSE
