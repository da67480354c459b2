SPECIFICATION FairSpec
CONSTANTS
  None = None
  Conn = {c1, c2}
  AppStates <- FewApps
  Requests <- FewRequests
  Replies <- FewReplies
PROPERTIES
  GatewayPromise
  RequestAnswered
  ShutdownCompletes
CHECK_DEADLOCK FALSE
