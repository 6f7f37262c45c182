SPECIFICATION FairSpec
CONSTANTS
  Kinds <- Browse
  Faults <- Refused
  Pieces = 2
  Parts = 2
  Clients <- AnyClient
INVARIANTS RequestsOnceInOrder Responses OneSend
PROPERTY HandledIsAnswered
CHECK_DEADLOCK FALSE
