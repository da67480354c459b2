SPECIFICATION Spec
CONSTANTS
  None = None
  Configs <- MCConfigs
  Calls <- MCCalls
  Limits <- MCLimits
INVARIANT GetRefusedOnlyForOperations
CHECK_DEADLOCK FALSE
