CONSTANTS
  Session = {s1, s2}
  Timeout = 4
  Interval = 2
  None = None
SPECIFICATION Spec
CHECK_DEADLOCK FALSE
INVARIANTS TokenIsGranted TimeoutIsDue ErrorHasCause
PROPERTIES FlowEnds CancelEnds
