SPECIFICATION Spec
CONSTANTS
  Layout <- MCLayout
  Fallbacks <- MCFallbacks
  Presses <- MCPresses
  MaxEvents = 6
INVARIANTS TypeOK AreasMatchWindow ClicksNotMultiplied WindowShowsLastInput
CHECK_DEADLOCK FALSE
