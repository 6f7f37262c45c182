SPECIFICATION FairSpec
CONSTANTS
  Items = {i1, i2, i3}
  None = None
INVARIANTS TypeOK NotForgotten OneAtATime
PROPERTIES IsWorkQueue Leaves
\* All calls have returned and all threads have ended.
CHECK_DEADLOCK FALSE
