SPECIFICATION Spec
CONSTANTS
  m1 = m1
  Messages = {m1}
  PackageNos <- One
  PackageCount <- TwoParts
  MaxInt = 5
  QueueSize = 2
  Callbacks = {k1, k2}
  MaxResendTimes = 2
  MaxConfirms = 1
  None = None
CONSTRAINT SenderGoesOn
SYMMETRY CallbackSymmetry
INVARIANTS ConfirmedIsDelivered
PROPERTY IsDelivery
CHECK_DEADLOCK FALSE
