SPECIFICATION FairSpec
CONSTANTS
  dim = dim
  click = click
  Ids <- MCIds
  Requests <- MCRequests
  MaxOps = 1
PROPERTIES JoinsAlways
CHECK_DEADLOCK FALSE
