SPECIFICATION Spec
CONSTANTS
  Layout <- MCLayout
  Fallbacks <- MCFallbacks
  Presses <- LeftPress
  MaxEvents = 3
INVARIANT ActionExists
CHECK_DEADLOCK FALSE
