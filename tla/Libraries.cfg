CONSTANTS
  Names = {f, g, h}
  BlockSize = 2
  NUM_DIRECT_BLOCKS = 2
  NUM_INDIRECT_BLOCKS = 2
  EntriesPerBlock = 1
  DataBlocks = {1, 2, 3, 4, 5, 6}
  Offsets = {0, 3}
  Counts = {1, 2, 5}
  MaxWrites = 3
  Jobs = {j1, j2, j3}
  NONE = NONE
  FREED = FREED
  Units = {1, 2}
  Kinds <- MCKinds
  MaxTime = 5
  MaxSeq = 5
  MaxCalls = 2
  Values = {0, 1}
  Default = 0
  INITIAL_CAPACITY = 2
  GROWTH_FACTOR = 2
  NULL = NULL
  JUNK = JUNK
  Address = {a1, a2, a3, a4, a5}
  MaxSize = 5
  Pids = {1, 2}
  SHELL = SHELL
  Lines <- ShellLines
  MaxForks = 3
  MaxLines = 4
SYMMETRY Symmetry
SPECIFICATION SuiteSpec
INVARIANTS RemainingExact VectorMatches ReadsBack DirectoryListsFiles
           ShellListExact InterruptsForeground
PROPERTY MeasuredAndChosen
CHECK_DEADLOCK FALSE
