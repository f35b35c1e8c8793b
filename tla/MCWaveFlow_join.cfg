SPECIFICATION Spec
CONSTANTS
  NodeIds <- MCNodeIds
  Keys <- MCKeys
  NilText <- MCNilText
  ReturnMessage <- MCReturnMessage
  Nobody = Nobody
  Null = Null
  Graphs <- JustUneven
  MaxStoreErrors = 0
PROPERTY
  JoinsWaitForBranches
CHECK_DEADLOCK FALSE
