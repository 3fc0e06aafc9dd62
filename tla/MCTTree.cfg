SPECIFICATION Spec
CONSTANTS
  Nodes = {n1, n2, n3, n4}
  Null = Null
SYMMETRY Symmetry
INVARIANT LinksAgree
PROPERTY CallsKeepPromises
CHECK_DEADLOCK FALSE
