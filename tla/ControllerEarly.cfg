SPECIFICATION FairSpec
CONSTANTS
  Actions <- MCActions
  Commands <- MCCommands
  Scenarios <- EarlyAction
  EarlyInput = TRUE
  m_swallow_limit = 2
PROPERTIES InputsNeverStuck
CHECK_DEADLOCK FALSE
