SPECIFICATION Spec
CONSTANTS
  None = None
  Conn = {c1}
  AppStates <- AllApps
  Requests <- AllRequests
  Replies <- AllReplies
INVARIANTS
  NoHintLeft
CHECK_DEADLOCK FALSE
