CONSTANTS
  Stmt = {s1}
  Helper = {h1, h2}
  None = None
  MaxExec = 2
  MaxHelp = 2
  OneCallAtATime = FALSE
  OneResultAtATime = FALSE
  PromptCancels = FALSE
SPECIFICATION Spec
SYMMETRY Symmetry
INVARIANTS
  AskedAtMostOnce
  NoSilentAbandon
  ClosedIsClaimed
CHECK_DEADLOCK FALSE
