CONSTANTS
  Stmt = {s1}
  Helper = {h1}
  None = None
  MaxExec = 2
  MaxHelp = 2
  OneCallAtATime = FALSE
  OneResultAtATime = FALSE
  PromptCancels = TRUE
SPECIFICATION FairSpec
PROPERTIES
  CloseUnblocksUpdate
CHECK_DEADLOCK FALSE
