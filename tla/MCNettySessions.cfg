SPECIFICATION FairSpec
CONSTANTS
  Ids = {c1, c2}
  Sessions = {s1, s2}
  Rounds = {r1, r2}
  None = None
INVARIANTS TypeOK Goodbyes
PROPERTY IdleLeaves
\* All sessions made and gone, and the server closed.
CHECK_DEADLOCK FALSE
