SPECIFICATION Spec
CONSTANTS
  None = None
  Conn = {c1}
  AppStates <- AllApps
  Requests <- AllRequests
  Replies <- AllReplies
INVARIANTS
  OversizedOptOutForwards
CHECK_DEADLOCK FALSE
