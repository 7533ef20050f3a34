\* Two-operation plans over crowded siblings, beside direct writers.
CONSTANTS
  Blocks = {1, 2, 3, 4}
  MaxTx = 1
  MaxPos = 12
  MaxEdits = 4
  Contents <- CrowdedContents
  Gap = 2
  MaxOps = 2
  MaxSiblings = 4
SPECIFICATION PlanSpec
VIEW PlanView
INVARIANTS PlanIsCurrent PlacedWhereAsked
PROPERTIES OperationsMoveOneBlock
CHECK_DEADLOCK FALSE
