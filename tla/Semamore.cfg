CONSTANTS
  Threads = {t1, t2, t3}
  InitialValue = 0
  MaxVal = 1
SPECIFICATION FairSpec
PROPERTY OtherwiseCompletes
CHECK_DEADLOCK FALSE
