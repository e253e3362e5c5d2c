CONSTANTS
  Threads = {t1, t2, t3}
  Drms = {d1, d2, d3}
  NONE = NONE
SPECIFICATION Spec
INVARIANTS MutualExclusion GraphExact CycleTestExact
CHECK_DEADLOCK FALSE
