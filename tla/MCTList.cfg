SPECIFICATION Spec
CONSTANTS
  Node = {n1, n2, n3, n4}
  Key = {a, b}
  Null = Null
SYMMETRY AnyNode
INVARIANTS TypeOK LinksAgree NoCircle KeyDeleted
PROPERTY CallsKeepPromises
