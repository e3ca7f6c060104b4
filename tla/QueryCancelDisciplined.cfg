CONSTANTS
  Stmt = {s1, s2}
  Helper = {h1}
  None = None
  MaxExec = 2
  MaxHelp = 3
  OneCallAtATime = TRUE
  OneResultAtATime = TRUE
  PromptCancels = TRUE
SPECIFICATION Spec
SYMMETRY Symmetry
PROPERTIES
  DrainedNotAsked
  ImplementsContract
CHECK_DEADLOCK FALSE
