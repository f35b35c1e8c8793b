SPECIFICATION Spec
CONSTANTS
  AgentIds = {"a1", "agent_local_n1", "agent_local_n2", "agent_local_start"}
  FlowIds = {"f1"}
  WorkflowIds = {"w1"}
  ToolIds = {"t1", "t2", "t3", "t4"}
  SkillIds = {"s1"}
  ConnectorIds = {"k1"}
  OperationIds = {"o1", "o2"}
  NodeIds = {"start", "n1", "n2"}
  NoId = "none"
  NoRecord = NoRecord
  Start = "start"
  LocalAgentID <- MCLocalAgentID
  DefaultDepth = 1
  MaxGraphDepth = 2
  Clients = {c1, c2}
  Seeds <- MCSeeds
  AgentSpecs <- MCAgentSpecs
  FlowSpecs <- MCFlowSpecs
  WorkflowSpecs <- MCWorkflowSpecs
  ToolSpecs <- MCToolSpecs
  SkillSpecs <- MCSkillSpecs
  ConnectorSpecs <- MCConnectorSpecs
  OperationSpecs <- MCOperationSpecs
  ImportLists <- MCImportLists
  MaxCalls = 3
  MaxAborts = 1
SYMMETRY ClientSymmetry
INVARIANTS
  TypeOK
  BindingsResolve
  LocalAgentsSaved
  EnabledSupervisorsBounded
  OneToolPerOperation
CHECK_DEADLOCK FALSE
