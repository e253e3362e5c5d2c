CONSTANTS
  tid1 = t1
  tid2 = t2
  drm1 = d1
  drm2 = d2
  Threads = {t1, t2}
  Drms = {d1, d2}
  NONE = NONE
SPECIFICATION TesterSpec
PROPERTY TesterReturns
CHECK_DEADLOCK FALSE
