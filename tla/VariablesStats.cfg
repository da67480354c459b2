SPECIFICATION FairSpec
CONSTANTS
  None = None
  Values <- MCValues
  Configs <- MCConfigs
INVARIANTS
  TypeOK
  StatsAreExact
  LimitsHoldEverywhere
PROPERTY
  CountEnds
CHECK_DEADLOCK FALSE
