SPECIFICATION Spec
CONSTANTS
  Name = {a, b}
  NoName = NoName
  MaxTokens = 6
  MaxNodes = 6
SYMMETRY Symmetry
INVARIANTS AltpTells RoundTrip Verdict
CHECK_DEADLOCK FALSE
