SPECIFICATION FairSpec
CONSTANTS
  NodeIds <- MCNodeIds
  Keys <- MCKeys
  NilText <- MCNilText
  ReturnMessage <- MCReturnMessage
  Nobody = Nobody
  Null = Null
  Graphs <- AllGraphs
  MaxStoreErrors = 1
INVARIANTS
  StaysOnEdges
  NeverStuck
  ExecutesOnce
  SucceededIsComplete
  QuietWhenFinished
  StepsBounded
  RecordsFollowEffects
  InductiveInvariant
PROPERTIES
  RunEnds
CHECK_DEADLOCK FALSE
