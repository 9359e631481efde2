SPECIFICATION FairSpec
CONSTANT
  MaxLines = 3
INVARIANT LinesInOrder
CHECK_DEADLOCK FALSE
