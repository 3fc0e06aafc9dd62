SPECIFICATION Spec
CONSTANTS
  Coalesce = TRUE
  ServerDies = TRUE
INVARIANTS SameCipher AnswersMatch ModesAgree SuccessIsAccepted
PROPERTY Returns
CHECK_DEADLOCK FALSE
