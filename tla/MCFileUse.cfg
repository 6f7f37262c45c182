SPECIFICATION Spec
CONSTANTS
  Tokens = {a, b}
  Files = {f}
  MaxElements = 3
  MaxSends = 2
  None = None
SYMMETRY UploadSymmetry
INVARIANTS OpenIsNamed BoundIsListed
CHECK_DEADLOCK FALSE
