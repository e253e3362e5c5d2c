CONSTANTS
  Threads = {t1, t2, t3}
  Data = {d1, d2}
  Node = {n1, n2, n3}
  NULL = NULL
  MaxSizes <- MCMaxSizes
  MaxRounds = 4
SPECIFICATION SuiteSpec
INVARIANTS ListIntact NoLostWakeup BarrierHolds
PROPERTIES Progress ImplementsFIFO BarrierOpens
CHECK_DEADLOCK FALSE
