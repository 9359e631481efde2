SPECIFICATION Spec
CONSTANTS
  Layout <- MCLayout
  Fallbacks <- MCFallbacks
  Presses <- TwoButtons
  MaxEvents = 3
INVARIANT ClicksActOnce
CHECK_DEADLOCK FALSE
