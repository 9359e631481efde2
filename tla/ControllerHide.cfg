SPECIFICATION FairSpec
CONSTANTS
  Actions <- MCActions
  Commands <- MCCommands
  Scenarios <- ActionThenClick
  EarlyInput = FALSE
  m_swallow_limit = 2
PROPERTIES EveryChangeShown
CHECK_DEADLOCK FALSE
