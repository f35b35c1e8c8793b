SPECIFICATION Spec
CONSTANTS
  NodeIds <- MCNodeIds
  Events = {"ev1", "ev2"}
  NoSource = NoSource
  NoEvent = NoEvent
  NoInstance = NoInstance
  Flows <- AllFlows
  Callers = {c1}
  MaxCalls = 4
  MaxAborts = 2
  MaxLost = 0
INVARIANTS
  TypeOK
  InductiveInvariant
  EffectsAccounted
PROPERTIES
  ConsumedIsFinal
  ImplementsTokenNet
CHECK_DEADLOCK FALSE
