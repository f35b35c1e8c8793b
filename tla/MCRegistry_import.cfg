SPECIFICATION Spec
CONSTANTS
  AgentIds = {"a1", "agent_local_n1", "agent_local_n2", "agent_local_start"}
  FlowIds = {"f1"}
  WorkflowIds = {"w1"}
  ToolIds = {"t1", "t2", "t3", "t4"}
  SkillIds = {"s1"}
  ConnectorIds = {"k1"}
  OperationIds = {"o1", "o2"}
  NodeIds = {"start", "n1", "n2"}
  NoId = "none"
  NoRecord = NoRecord
  Start = "start"
  LocalAgentID <- MCLocalAgentID
  DefaultDepth = 1
  MaxGraphDepth = 2
  Clients = {c1}
  Seeds <- MCSeeds
  AgentSpecs = {}
  FlowSpecs = {}
  WorkflowSpecs = {}
  ToolSpecs = {}
  SkillSpecs = {}
  ConnectorSpecs = {}
  OperationSpecs = {}
  ImportLists <- MCTwice
  MaxCalls = 1
  MaxAborts = 0
INVARIANT ImportUpdatesExisting
CHECK_DEADLOCK FALSE
