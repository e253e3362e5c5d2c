CONSTANTS
  Conns = {c1, c2, c3}
  MAX_CLIENTS = 2
  NONE = NONE
  MaxEvents = 3
SPECIFICATION FairSpec
INVARIANTS SlotsCounted OwnSlot
PROPERTY LeaversMakeRoom
CHECK_DEADLOCK FALSE
