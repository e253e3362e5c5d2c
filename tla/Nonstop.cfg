CONSTANTS
  Clients = {c1, c2}
  NONE = NONE
  Faulty = {c1}
  MaxLeaves = 1
  Requests <- MCRequests
SPECIFICATION SuiteSpec
INVARIANTS FilesMatchDirectory TransfersIntact StaleOnlyAfterReset
PROPERTIES PutStored EveryClientEnds
CHECK_DEADLOCK FALSE
