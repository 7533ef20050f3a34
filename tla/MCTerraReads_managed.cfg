\* The items listed on a branch when its parent moves on.
CONSTANTS
  Slugs = {main, b, c}
  Main = main
  Entities = {}
  Touchable = {}
  Props = {}
  Items = {m}
  Fields = {}
  States = {open, closed}
  VisibleStates = {open}
  Null = Null
  Value = Value
  HasStatuses = FALSE
  MaxDepth = 2
  MaxTx = 4
SPECIFICATION Spec
INVARIANT ListManagedShowsVisible
CHECK_DEADLOCK FALSE
