SPECIFICATION Spec
CONSTANTS
  None = None
  Patterns <- MCPatterns
  Clis <- MCClis
  Disks <- MCDisks
  Plain <- MCPlain
  PlainDefault <- MCPlainDefault
  MaxDisks = 3
INVARIANT ExpressionsFailFast
CHECK_DEADLOCK FALSE
