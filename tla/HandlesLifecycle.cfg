CONSTANTS
  Conn = {c1}
  Stmt = {s1, s2}
  Stream = {x1, x2}
  Option = {o1}
  Context = {g1, g2, g3, g4, g5, g6}
  None = None
SPECIFICATION Spec
SYMMETRY Symmetry
CHECK_DEADLOCK FALSE
INVARIANTS TableAgrees UpstreamIsOwned InitIsComplete ContextsAreHeld ReaderIsHeld
PROPERTIES ImplementsApi
