SPECIFICATION FairSpec
CONSTANTS
  Packets = {p1, p2}
  Null = Null
  MaxResendTimes = 3
  MaxConfirms = 1
INVARIANTS TypeOK TransmissionBound GivenUpAfterAllTries UnsettledIsListed
PROPERTY Drains
CHECK_DEADLOCK FALSE
