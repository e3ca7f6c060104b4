CONSTANTS
  Canceller = {c1, c2}
  None = None
  MaxCall = 3
  MaxCancel = 3
  Serialised = TRUE
SPECIFICATION Spec
CHECK_DEADLOCK FALSE
INVARIANT NoContextLeaks
PROPERTY ImplementsContext
