SPECIFICATION Spec
CONSTANTS
  Byte <- MCByte
  Ident <- MCIdent
  Follows <- MCFollows
  Tokens <- MCTokens
  Haystacks <- MCHaystacks
INVARIANTS
  EveryWordIsFound
CHECK_DEADLOCK FALSE
