\* An entity read while it is deleted.
CONSTANTS
  Calls = {c1, c2, c3}
  Requests <- Torn
  Files <- MCFiles
  Rollback = FALSE
  MaxStarts = 1
SPECIFICATION Spec
INVARIANT GetsArePointsInTime
CHECK_DEADLOCK FALSE
SYMMETRY Symmetry
