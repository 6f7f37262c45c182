SPECIFICATION Spec
CONSTANTS
  m1 = m1
  m2 = m2
  c = c
  Messages = {m1, m2, c}
  Confirmations = {c}
  PackageNos <- AnyNumbers
  PackageCount <- ThreeAndTwo
  ConfirmedNos <- FiveOrSix
  MaxInt = 5
  QueueSize = 1
  Callbacks = {k1, k2}
  Copies = 2
  None = None
SYMMETRY CallbackSymmetry
INVARIANTS TypeOK CompleteBeforeDelivered NothingLost DeliveredOnce ConfirmationsPop
CHECK_DEADLOCK FALSE
