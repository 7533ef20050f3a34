\* Stores of at most three keys, one column family at a time.
SPECIFICATION Spec
CONSTANTS
  Names = {1, 2, 3}
  Hash <- MCHash
  Uuids = {1, 2, 3}
  MaxSlug = 4
  MaxUuid = 4
  Half = 4
  Followed = {"entities", "embeddings", "managed", "touched", "children",
              "memberships", "assertions", "transactions", "versions", "branches",
              "changes", "logs"}
  Branches = {1, 3}
  Owners = {2, 3}
  Txs = {1, 2}
  Paths <- MCPaths
  Hyphened = {3}
  Positions = {0, 1, 3}
  Types = {1, 3}
  MaxRows = 3
INVARIANTS
  ScansMatchRows
  SkipsMissNothing
  SiblingsInOrder
  SelectionIsExact
CHECK_DEADLOCK FALSE
