CONSTANTS
  Conns = {c1, c2, c3}
  MAX_CLIENTS = 2
  NONE = NONE
  MaxEvents = 2
SPECIFICATION FairSpec

PROPERTY FlagIsSet
CHECK_DEADLOCK FALSE
