SPECIFICATION Spec
CONSTANTS
  None = None
  Configs <- MCConfigs
  Calls <- MCCalls
  Limits <- MCLimits
INVARIANTS
  TypeOK
  IntrospectionNeverMasked
  HealthProbePasses
PROPERTY
  LooseningNeverBlocks
CHECK_DEADLOCK FALSE
