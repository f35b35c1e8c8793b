SPECIFICATION Spec
CONSTANTS
  NodeIds <- MCNodeIds
  Events = {"ev1", "ev2"}
  NoSource = NoSource
  NoEvent = NoEvent
  NoInstance = NoInstance
  Flows <- WaitFlows
  Callers = {c1, c2}
  MaxCalls = 2
  MaxAborts = 0
  MaxLost = 0
PROPERTY
  EventStaysApplied
CHECK_DEADLOCK FALSE
