SPECIFICATION FairSpec
CONSTANTS
  Byte <- MCByte
  Ident <- MCIdent
  Follows <- MCFollows
  Tokens <- MCTokens
  Haystacks <- MCHaystacks
INVARIANTS
  TypeOK
  FindsListedWords
PROPERTY
  ScanEnds
CHECK_DEADLOCK FALSE
