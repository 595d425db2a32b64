\* Three edits or approvals, two pushes and two handlers at a time; one call
\* fails, one stream or process ends.
SPECIFICATION Spec
CONSTANTS
  Pushes = {p1, p2}
  Handlers = {h1, h2}
  BufferSize = 1
  MaxEdits = 3
  MaxFaults = 1
  MaxLosses = 1
SYMMETRY Symmetry
INVARIANTS
  TypeOK
  OnlyKnownStaleness
  OnlyKnownLockout
  KeyValid
  OnlyApprovedConfigured
  StartsFromSaved
  VersionsDistinct
CHECK_DEADLOCK FALSE
