SPECIFICATION Spec
CONSTANTS
  Socks = {s1, s2}
  Tm = 2
  T = 4
  Signals = TRUE
INVARIANTS TypeOK BoundedWait MisreportsOnlyLate
