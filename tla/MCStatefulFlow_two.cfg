SPECIFICATION FairSpec
CONSTANTS
  NodeIds <- MCNodeIds
  Events = {"ev1", "ev2"}
  NoSource = NoSource
  NoEvent = NoEvent
  NoInstance = NoInstance
  Flows <- ParallelFlows
  Callers = {c1, c2}
  MaxCalls = 3
  MaxAborts = 1
  MaxLost = 1
INVARIANTS
  CopiesOK
  AuditMissesNothing
  SettledWhenIdle
PROPERTIES
  CallsReturn
CHECK_DEADLOCK FALSE
