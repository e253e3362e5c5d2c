CONSTANTS
  a = a
  b = b
  c = c
  d = d
  Rules = {a, b, c, d}
  Makefiles <- MCMakefiles
  MaxThreads = 2
  EOF = EOF
  NONE = NONE
SPECIFICATION FairSpec
INVARIANTS DepsBuiltFirst OneThreadBuilds
PROPERTY OneThreadReturns
CHECK_DEADLOCK FALSE
