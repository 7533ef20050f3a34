\* One property of one entity on a branch and its parent, with statuses.
CONSTANTS
  Slugs = {main, b}
  Main = main
  Entities = {e}
  Touchable = {}
  Props = {p}
  Items = {}
  Fields = {}
  States = {open}
  Null = Null
  Value = Value
  HasStatuses = TRUE
  MaxDepth = 2
  MaxTx = 4
SPECIFICATION Spec
INVARIANTS DeletionsAreFinal MergeShowsLayers EmbeddingsDescribeWhatIsShown
CHECK_DEADLOCK FALSE
