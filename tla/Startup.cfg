SPECIFICATION FairSpec
CONSTANTS
  None = None
  Patterns <- MCPatterns
  Clis <- MCClis
  Disks <- MCDisks
  Plain <- MCPlain
  PlainDefault <- MCPlainDefault
  MaxDisks = 3
INVARIANTS
  TypeOK
  SettingsOfOneMoment
  EveryPatternEnforced
  StartsExactlyWhenSound
PROPERTY
  StartEnds
CHECK_DEADLOCK FALSE
