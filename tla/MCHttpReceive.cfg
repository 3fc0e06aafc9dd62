SPECIFICATION Spec
CONSTANTS
  Messages <- MCMessages
  MaxSegs = 4
INVARIANTS EndIsFound SuccessIsWhole ClosedIsWhole
CHECK_DEADLOCK FALSE
