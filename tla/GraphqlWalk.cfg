SPECIFICATION FairSpec
CONSTANTS
  Documents <- MCDocuments
  Walks <- MCWalks
INVARIANTS
  TypeOK
  VisitingIsTheOpenPath
  DepthIsTheLongestChain
  CostIsTheSumOverChains
  ProbeIsMinimal
PROPERTIES
  EveryStepShortens
  WalkEnds
CHECK_DEADLOCK FALSE
