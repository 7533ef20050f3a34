\* One property of one entity on three branches, without statuses.
CONSTANTS
  Slugs = {main, b, c}
  Main = main
  Entities = {e}
  Touchable = {e}
  Props = {p}
  Items = {}
  Fields = {}
  States = {open}
  VisibleStates = {open}
  Null = Null
  Value = Value
  HasStatuses = FALSE
  MaxDepth = 2
  MaxTx = 4
SPECIFICATION Spec
INVARIANTS SearchesAgree ProvenanceResolves HistoryExplainsEveryChange
PROPERTY BranchesAreIsolated
SYMMETRY BranchSymmetry
CHECK_DEADLOCK FALSE
