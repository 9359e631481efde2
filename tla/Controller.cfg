SPECIFICATION FairSpec
CONSTANTS
  Actions <- MCActions
  Commands <- MCCommands
  Scenarios <- AllScenarios
  EarlyInput = FALSE
  m_swallow_limit = 2
INVARIANTS TypeOK OutcomeJustified InputHasEvent ChangeHasEvent ForcedHasEvent
PROPERTIES RequestsHonoured InputsNeverStuck ChangesShown
CHECK_DEADLOCK FALSE
