\* Claims, items and reads of three clients, two processes, several schemas.
SPECIFICATION Spec
CONSTANTS
  Calls = {c1, c2, c3}
  Requests <- MCRequests
  Files <- MCFiles
  Rollback = FALSE
  MaxStarts = 2
INVARIANTS
  ClaimsHaveOneWinner
  AnswersAreTrue
  BoundedReadsAreSnapshots
  ItemsFitTheirSchemas
PROPERTY RestartsReviveNothing
CHECK_DEADLOCK FALSE
SYMMETRY Symmetry
