SPECIFICATION Spec
CONSTANTS
  None = None
  TaskLimit = 2
  ReceiptLimit = 2
  Known <- SmallKnown
  AtBoot <- NothingYet
  MaxCalls = 2
  MaxChanges = 2
  MaxCrashes = 1
  MaxMoves = 1
INVARIANTS TypeOK ShownWasTrue TooltipWasTrue CirclesApart  LatestTasks
PROPERTIES PagesFollow
CHECK_DEADLOCK FALSE
