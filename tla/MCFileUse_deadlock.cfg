SPECIFICATION FairSpec
CONSTANTS
  Tokens = {a, b}
  Files = {f}
  MaxElements = 2
  MaxSends = 1
  None = None
PROPERTY TakeOverEnds
CHECK_DEADLOCK FALSE
