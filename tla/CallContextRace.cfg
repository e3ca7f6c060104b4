CONSTANTS
  Canceller = {c1}
  None = None
  MaxCall = 2
  MaxCancel = 2
  Serialised = FALSE
SPECIFICATION Spec
CHECK_DEADLOCK FALSE
INVARIANT CancelIsThreadSafe
