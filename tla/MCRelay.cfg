CONSTANTS
  Kinds <- MCKinds
  MaxSent <- MCMaxSent
  Room = 1
  Tickets = TRUE
SPECIFICATION Spec
INVARIANTS LosesOnlyHeldByte
PROPERTIES ImplementsPipes Arrives EndReaches HalfClosedIsServed
CHECK_DEADLOCK FALSE
