SPECIFICATION Spec
CONSTANTS
  NodeIds <- MCNodeIds
  Events = {"ev1", "ev2"}
  NoSource = NoSource
  NoEvent = NoEvent
  NoInstance = NoInstance
  Flows <- WaitFlows
  Callers = {c1}
  MaxCalls = 2
  MaxAborts = 0
  MaxLost = 0
INVARIANT
  AuditMatchesStore
CHECK_DEADLOCK FALSE
