\* Two tool calls of any kind over two projects.
CONSTANTS
  Blocks = {1, 2, 3, 4, 5}
  MaxTx = 3
  MaxPos = 1
  MaxEdits = 3
  Contents <- WrittenContents
  Roots = {1, 4}
  Setup <- TwoProjects
  Calls = {c1, c2}
  MaxChanged = 2
  MaxWritten = 1
SPECIFICATION MemorySpec
SYMMETRY Symmetry
INVARIANTS ReadsAreSnapshots ReceiptsAreCommitted
PROPERTIES RemovesWhatWasRead EditsNamedRevisions StaysInProject
CHECK_DEADLOCK FALSE
