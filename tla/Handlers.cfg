SPECIFICATION Spec
CONSTANTS
  None = None
  Conn = {c1}
  AppStates <- AllApps
  Requests <- AllRequests
  Replies <- AllReplies
INVARIANTS
  TypeOK
  CleanAsForwarded
  FailuresDecideNothing
  WholeBodyForwarded
  SuggestionsRemovedWithinBudget
  OnlySuggestionsAreCut
  AnnouncedReplyWithinBudget
CHECK_DEADLOCK FALSE
