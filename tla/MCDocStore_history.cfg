\* Indexes, versions and historical reads of moved, deleted and restored blocks.
CONSTANTS
  Blocks = {1, 2, 3}
  MaxTx = 3
  MaxPos = 1
  MaxEdits = 2
  Contents <- LinkContents
SPECIFICATION Spec
INVARIANTS TypeOK Topology ReadsAreExact
  IndexMatchesHeads HeadsMatchHistory HistoryIsTree
PROPERTIES ReadsAtCommittedTxAreStable ImplementsForest
CHECK_DEADLOCK FALSE
