\* One managed item on branches as deep as allowed, and one deeper.
CONSTANTS
  Slugs = {main, b, c, d}
  Main = main
  Entities = {}
  Touchable = {}
  Props = {}
  Items = {m}
  Fields = {f}
  States = {open}
  Null = Null
  Value = Value
  HasStatuses = FALSE
  MaxDepth = 2
  MaxTx = 5
SPECIFICATION Spec
INVARIANT AncestryReachesMain
PROPERTY PinnedViewsAreStable
SYMMETRY BranchSymmetry
CHECK_DEADLOCK FALSE
