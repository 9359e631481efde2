SPECIFICATION FairSpec
CONSTANTS
  dim = dim
  click = click
  Ids <- MCIds
  Requests <- MCRequests
  MaxOps = 3
INVARIANTS TypeOK CallsWithinCount NoOversleep UniqueNames
PROPERTIES Contract EventuallyCalled JoinsWhenPending
CHECK_DEADLOCK FALSE
