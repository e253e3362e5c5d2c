CONSTANTS
  Pids = {0, 1}
  Pages = {0, 1, 2, 3}
  Testing = {1, 2}
  Readable = {1, 2, 3}
  Writable = {1, 2}
  Unmapped = {0}
  Dir <- MCDir
  Frames = {1, 2, 3, 4, 5, 6}
  TlbSize = 2
  MaxAdds = 2
  Values = {0, 1}
  Zero = 0
  NoProcess = NoProcess
  ENTRY = 32
  END = 8
  ALIGN = 16
  TRESHOLD = 1024
  Base = 4096
  Limit = 12000
  MaxLive = 4
  Sizes = {0, 1001, 2200, 3300}
  Address = {1, 2, 3}
  BlockSizes = {0, 1, 2}
  MaxTotal = 8
  MaxInvalid = 2
SPECIFICATION SuiteSpec
INVARIANTS TlbFresh FramesOwnedOnce HeapTiled FreeListExact ClientsOwnTheirBlocks LedgerExact
PROPERTY ImplementsPrivateMemory
CHECK_DEADLOCK FALSE
