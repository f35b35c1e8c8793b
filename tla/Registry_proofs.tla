--------------------------- MODULE Registry_proofs ---------------------------
(***************************************************************************)
(* What the registry keeps true for any clients, requests and tables, any  *)
(* number of calls, and wherever a call dies.                              *)
(*                                                                         *)
(* The argument has four parts: a table is left sound by a save of what    *)
(* fits in it (Fits...); a call holds, at each of its places, what makes   *)
(* its next save fit, whatever the others save meanwhile, because rows are *)
(* only ever added and no operation forgets that a workflow was enabled    *)
(* (Held, Grows); the depth that is compared with the limit is that of the *)
(* longest path (Depths...); and imports agree on which tool an operation  *)
(* has.                                                                    *)
(***************************************************************************)
EXTENDS Registry, FiniteSetTheorems, FiniteRecursion, TLAPS

-----------------------------------------------------------------------------
(* The invariant.                                                          *)

\* A workflow as it is stored, or held to be.
WorkflowRow(spec) ==
    /\ spec \in Workflow /\ WorkflowValid(spec)
    /\ WithStart(spec.graph, StartStep) = spec.graph

\* The local agents of a flow at id are stored, but for those of the nodes in todo.
AgentsSaved(id, spec, todo) ==
    \A n \in LocalNodes(spec.graph) \ todo :
        /\ spec.graph.nodes[n].agent = LocalAgentID(id, n)
        /\ db.agents[LocalAgentID(id, n)] # NoRecord

\* What an operation is stored with: its connector.
Connected(spec) == spec.connector # NoId => db.connectors[spec.connector] # NoRecord

Runnable(spec) ==
    spec.status = "enabled" /\ spec.implementation = "workflow" => spec.workflow \in everEnabled

AgentsInv     == db.agents \in [AgentIds -> Row(Agent)]
SkillsInv     == db.skills \in [SkillIds -> Row(Skill)]
ConnectorsInv == db.connectors \in [ConnectorIds -> Row(Connector)]

OperationsInv ==
    /\ db.operations \in [OperationIds -> Row(Operation)]
    /\ \A o \in OperationIds : db.operations[o] # NoRecord =>
          ValidateConnectorOperation(db.operations[o]) /\ Connected(db.operations[o])

ToolsInv ==
    /\ db.tools \in [ToolIds -> Row(Tool)]
    /\ \A t \in ToolIds : db.tools[t] # NoRecord =>
          ValidateTool(db.tools[t]) /\ Runnable(db.tools[t])

WorkflowsInv ==
    /\ db.workflows \in [WorkflowIds -> Row(Workflow)]
    /\ everEnabled \subseteq WorkflowIds
    /\ \A w \in WorkflowIds :
          /\ db.workflows[w] # NoRecord =>
                /\ WorkflowRow(db.workflows[w])
                /\ db.workflows[w].status = "enabled" => w \in everEnabled
          /\ w \in everEnabled => db.workflows[w] # NoRecord

\* A flow the runtime may run as a supervisor's: its recursion over the graph ends.
Bounded(flow) ==
    flow.status = "enabled" /\ flow.mode = "supervisor" =>
        LET below == {e \in flow.graph.edges : e[1] # flow.graph.entry}
        IN /\ SupervisorNode(flow.graph) # NoId
           /\ After(below, SupervisorNode(flow.graph), MaxGraphDepth + 1) = {}

FlowsInv ==
    /\ DOMAIN db.flows = FlowIds
    /\ \A f \in FlowIds : db.flows[f] # NoRecord =>
          /\ IsAgentFlow(db.flows[f]) /\ FlowValid(db.flows[f]) /\ Bounded(db.flows[f])
          /\ AgentsSaved(f, db.flows[f], {})

TablesInv ==
    /\ DOMAIN db = DOMAIN Migrated
    /\ AgentsInv /\ SkillsInv /\ ConnectorsInv /\ OperationsInv
    /\ ToolsInv /\ WorkflowsInv /\ FlowsInv

\* An entry of an import: a tool for an operation that was there, or for none.
Importable(e) ==
    /\ e.id \in ToolIds \cup {NoId}
    /\ e.spec \in ToolBody /\ e.spec.implementation = "connector"
    /\ e.operation # NoRecord => /\ e.operation \in Operation
                                 /\ e.spec.operation \in OperationIds
                                 /\ db.operations[e.spec.operation] # NoRecord

HoldsRow(c) ==
    LET at == call[c].at  id == call[c].id  rec == call[c].rec IN
    /\ at = "SaveAgent"     => id \in AgentIds /\ rec \in Agent
    /\ at = "SaveSkill"     => id \in SkillIds /\ rec \in Skill
    /\ at = "SaveConnector" => id \in ConnectorIds /\ rec \in Connector
    /\ at = "GetConnector"  => id \in OperationIds /\ rec \in OperationBody /\ rec.connector # NoId
    /\ at = "SaveConnectorOperation" =>
          id \in OperationIds /\ rec \in Operation /\ ValidateConnectorOperation(rec) /\ Connected(rec)
    /\ at \in {"SaveWorkflow", "CheckBindings"} => id \in WorkflowIds /\ WorkflowRow(rec)

HoldsTool(c) ==
    LET at == call[c].at  id == call[c].id  rec == call[c].rec IN
    /\ at \in {"GetWorkflow", "SyncWorkflow", "SaveTool"} =>
          id \in ToolIds /\ rec \in Tool /\ ValidateTool(rec)
    /\ at \in {"GetWorkflow", "SyncWorkflow"} => rec.workflow \in WorkflowIds
    /\ at = "SyncWorkflow" => \A on \in call[c].todo : WorkflowRow(on) /\ on.status = "enabled"
    /\ at = "SaveTool" => Runnable(rec)

HoldsFlow(c) ==
    LET id == call[c].id  rec == call[c].rec  todo == call[c].todo IN
    call[c].at = "SaveLocalAgents" =>
        /\ id \in FlowIds /\ IsAgentFlow(rec) /\ rec.graph.entry \in DOMAIN rec.graph.nodes
        /\ todo \subseteq LocalNodes(rec.graph)
        /\ AgentsSaved(id, rec, todo)

HoldsImport(c) ==
    /\ call[c].at \in {"ListTools", "SaveTools"} => \A e \in call[c].todo : Importable(e)
    /\ call[c].at = "SaveTools" =>
          /\ call[c].rec \in [OperationIds -> ToolIds \cup {NoId}]
          /\ \A o \in OperationIds : call[c].rec[o] # NoId => db.tools[call[c].rec[o]] # NoRecord

Held(c) == HoldsRow(c) /\ HoldsTool(c) /\ HoldsFlow(c) /\ HoldsImport(c)

\* The tools that imports made are stored, and so are their operations.
MadeInv ==
    /\ made \in [ToolIds -> OperationIds \cup {NoId}]
    /\ \A t \in ToolIds : made[t] # NoId =>
          /\ db.tools[t] # NoRecord /\ db.tools[t].implementation = "connector"
          /\ db.tools[t].operation \in OperationIds
          /\ db.operations[db.tools[t].operation] # NoRecord

CountersInv ==
    /\ calls \in 0..MaxCalls /\ aborts \in 0..MaxAborts
    /\ crowded \subseteq OperationIds \cup {NoId}

RegistryInv ==
    /\ TablesInv /\ MadeInv /\ CountersInv
    /\ DOMAIN call = Clients /\ \A c \in Clients : Held(c)

\* While it has a tool of operation o to save, and does not crowd it: an import that found no
\* tool of o will make one, and there is none; one that found a tool will save that tool, and
\* no import made another, unless a client made the one it found. No other import is at o.
Knows(c, o) ==
    LET todo == {e \in call[c].todo : e.spec.operation = o}
        tool == call[c].rec[o]
    IN todo # {} /\ o \notin crowded =>
          /\ tool = NoId => ToolsMadeOf(o) = {} /\ \A d, e \in todo : d = e
          /\ tool # NoId => /\ made[tool] = o => ToolsMadeOf(o) \subseteq {tool}
                            /\ \A e \in todo : e.id \in {NoId, tool}
          /\ \A d \in Clients \ {c} : call[d].at = "SaveTools" =>
                \A e \in call[d].todo : e.spec.operation # o

ImportKnows(c) == call[c].at = "SaveTools" => \A o \in OperationIds : Knows(c, o)

OneToolInv ==
    /\ \A o \in OperationIds \ crowded : \A s, t \in ToolsMadeOf(o) : s = t
    /\ \A c \in Clients : ImportKnows(c)

-----------------------------------------------------------------------------
(* Tables.                                                                 *)

Kinds == {"agents", "flows", "workflows", "tools", "skills", "connectors", "operations"}

\* What no step takes back.
Grows ==
    /\ everEnabled \subseteq everEnabled'
    /\ \A a \in AgentIds : db.agents[a] # NoRecord => db'.agents[a] # NoRecord
    /\ \A k \in ConnectorIds : db.connectors[k] # NoRecord => db'.connectors[k] # NoRecord
    /\ \A o \in OperationIds : db.operations[o] # NoRecord => db'.operations[o] # NoRecord
    /\ \A t \in ToolIds : db.tools[t] # NoRecord => db'.tools[t] # NoRecord

\* A save of a row of one kind leaves the tables of the other kinds alone.
Saves(kind, id, row) ==
    /\ DOMAIN db' = Kinds
    /\ db'[kind] = [db[kind] EXCEPT ![id] = row]
    /\ \A other \in Kinds \ {kind} : db'[other] = db[other]

LEMMA KindsAre == DOMAIN Migrated = Kinds
BY DEF Migrated, Kinds

LEMMA OneTable ==
    ASSUME DOMAIN db = Kinds, NEW id, NEW row, NEW kind \in Kinds,
           db' = [db EXCEPT ![kind] = [@ EXCEPT ![id] = row]]
    PROVE  Saves(kind, id, row)
BY DEF Saves

\* The local agents of a flow stay stored while no agent is lost.
LEMMA AgentsStay ==
    ASSUME Grows, NEW id \in FlowIds, NEW spec, IsAgentFlow(spec), NEW todo,
           AgentsSaved(id, spec, todo)
    PROVE  AgentsSaved(id, spec, todo)'
BY RegistryDataAssumption DEF Grows, AgentsSaved, IsAgentFlow, LocalNodes

LEMMA ConnectedStays ==
    ASSUME Grows, NEW spec, spec.connector \in ConnectorIds \cup {NoId}, Connected(spec)
    PROVE  Connected(spec)'
BY DEF Grows, Connected

\* A kind's own part of the invariant, when its table is not the one that is saved to.
LEMMA AgentsKept == AgentsInv /\ db'.agents = db.agents => AgentsInv'
BY DEF AgentsInv

LEMMA SkillsKept == SkillsInv /\ db'.skills = db.skills => SkillsInv'
BY DEF SkillsInv

LEMMA ConnectorsKept == ConnectorsInv /\ db'.connectors = db.connectors => ConnectorsInv'
BY DEF ConnectorsInv

LEMMA OperationsKept ==
    ASSUME OperationsInv, db'.operations = db.operations, Grows
    PROVE  OperationsInv'
<1>1. \A o \in OperationIds : db.operations[o] # NoRecord =>
         db.operations[o].connector \in ConnectorIds \cup {NoId}
  BY DEF OperationsInv, Row, Operation
<1> QED BY <1>1, ConnectedStays DEF OperationsInv

LEMMA ToolsKept ==
    ASSUME ToolsInv, db'.tools = db.tools, Grows
    PROVE  ToolsInv'
BY DEF ToolsInv, Runnable, Grows

LEMMA WorkflowsKept ==
    ASSUME WorkflowsInv, db'.workflows = db.workflows, UNCHANGED everEnabled
    PROVE  WorkflowsInv'
BY DEF WorkflowsInv

LEMMA FlowsKept ==
    ASSUME FlowsInv, db'.flows = db.flows, Grows
    PROVE  FlowsInv'
BY AgentsStay DEF FlowsInv

-----------------------------------------------------------------------------
(* Saves that fit.                                                         *)

\* NoRecord is no row.
LEMMA AreRows ==
    /\ \A row \in Agent : row # NoRecord
    /\ \A row \in Skill : row # NoRecord
    /\ \A row \in Tool : row # NoRecord
    /\ \A row \in Connector : row # NoRecord
    /\ \A row \in Operation : row # NoRecord
    /\ \A row \in Workflow : row # NoRecord
BY RegistryAssumption

LEMMA AgentFits ==
    ASSUME TablesInv, NEW id \in AgentIds, NEW row \in Agent, SaveAgent(id, row),
           UNCHANGED everEnabled
    PROVE  TablesInv' /\ Grows /\ db'.tools = db.tools /\ db'.operations = db.operations
<1>1. Saves("agents", id, row)
  BY KindsAre, OneTable DEF TablesInv, SaveAgent, Kinds
<1>2. \A other \in Kinds \ {"agents"} : db'[other] = db[other]
  BY <1>1 DEF Saves
<1>3. Grows /\ AgentsInv'
  BY <1>1, <1>2, AreRows DEF Saves, Grows, TablesInv, AgentsInv, Row, Kinds
<1>4. SkillsInv' /\ ConnectorsInv' /\ OperationsInv' /\ ToolsInv' /\ WorkflowsInv' /\ FlowsInv'
  BY <1>2, <1>3, SkillsKept, ConnectorsKept, OperationsKept, ToolsKept, WorkflowsKept, FlowsKept
     DEF TablesInv, Kinds
<1> QED BY <1>1, <1>2, <1>3, <1>4, KindsAre DEF TablesInv, Saves, Kinds

LEMMA SkillFits ==
    ASSUME TablesInv, NEW id \in SkillIds, NEW row \in Skill, SaveSkill(id, row),
           UNCHANGED everEnabled
    PROVE  TablesInv' /\ Grows /\ db'.tools = db.tools /\ db'.operations = db.operations
<1>1. Saves("skills", id, row)
  BY KindsAre, OneTable DEF TablesInv, SaveSkill, Kinds
<1>2. \A other \in Kinds \ {"skills"} : db'[other] = db[other]
  BY <1>1 DEF Saves
<1>3. Grows /\ SkillsInv'
  BY <1>1, <1>2, AreRows DEF Saves, Grows, TablesInv, SkillsInv, Row, Kinds
<1>4. AgentsInv' /\ ConnectorsInv' /\ OperationsInv' /\ ToolsInv' /\ WorkflowsInv' /\ FlowsInv'
  BY <1>2, <1>3, AgentsKept, ConnectorsKept, OperationsKept, ToolsKept, WorkflowsKept, FlowsKept
     DEF TablesInv, Kinds
<1> QED BY <1>1, <1>2, <1>3, <1>4, KindsAre DEF TablesInv, Saves, Kinds

LEMMA ConnectorFits ==
    ASSUME TablesInv, NEW id \in ConnectorIds, NEW row \in Connector,
           SaveConnector(id, row), UNCHANGED everEnabled
    PROVE  TablesInv' /\ Grows /\ db'.tools = db.tools /\ db'.operations = db.operations
<1>1. Saves("connectors", id, row)
  BY KindsAre, OneTable DEF TablesInv, SaveConnector, Kinds
<1>2. \A other \in Kinds \ {"connectors"} : db'[other] = db[other]
  BY <1>1 DEF Saves
<1>3. Grows /\ ConnectorsInv'
  BY <1>1, <1>2, AreRows DEF Saves, Grows, TablesInv, ConnectorsInv, Row, Kinds
<1>4. AgentsInv' /\ SkillsInv' /\ OperationsInv' /\ ToolsInv' /\ WorkflowsInv' /\ FlowsInv'
  BY <1>2, <1>3, AgentsKept, SkillsKept, OperationsKept, ToolsKept, WorkflowsKept, FlowsKept
     DEF TablesInv, Kinds
<1> QED BY <1>1, <1>2, <1>3, <1>4, KindsAre DEF TablesInv, Saves, Kinds

LEMMA OperationFits ==
    ASSUME TablesInv, NEW id \in OperationIds, NEW row \in Operation,
           ValidateConnectorOperation(row), Connected(row),
           SaveConnectorOperation(id, row), UNCHANGED everEnabled
    PROVE  TablesInv' /\ Grows /\ db'.tools = db.tools
<1>1. Saves("operations", id, row)
  BY KindsAre, OneTable DEF TablesInv, SaveConnectorOperation, Kinds
<1>2. \A other \in Kinds \ {"operations"} : db'[other] = db[other]
  BY <1>1 DEF Saves
<1>3. Grows /\ OperationsInv'
  <2>1. Grows
    BY <1>1, <1>2, AreRows DEF Saves, Grows, TablesInv, OperationsInv, Kinds
  <2>2. db'.operations \in [OperationIds -> Row(Operation)]
    BY <1>1 DEF Saves, TablesInv, OperationsInv, Row
  <2>3. ASSUME NEW o \in OperationIds, db'.operations[o] # NoRecord
        PROVE  ValidateConnectorOperation(db'.operations[o]) /\ Connected(db'.operations[o])
    BY <1>1, <2>3 DEF Saves, TablesInv, OperationsInv
  <2>4. db'.connectors = db.connectors
    BY <1>2 DEF Kinds
  <2> QED BY <2>1, <2>2, <2>3, <2>4 DEF OperationsInv, Connected
<1>4. AgentsInv' /\ SkillsInv' /\ ConnectorsInv' /\ ToolsInv' /\ WorkflowsInv' /\ FlowsInv'
  BY <1>2, <1>3, AgentsKept, SkillsKept, ConnectorsKept, ToolsKept, WorkflowsKept, FlowsKept
     DEF TablesInv, Kinds
<1> QED BY <1>1, <1>2, <1>3, <1>4, KindsAre DEF TablesInv, Saves, Kinds

LEMMA ToolFits ==
    ASSUME TablesInv, NEW id \in ToolIds, NEW row \in Tool, ValidateTool(row), Runnable(row),
           SaveTool(id, row), UNCHANGED everEnabled
    PROVE  TablesInv' /\ Grows /\ db'.operations = db.operations
<1>1. Saves("tools", id, row)
  BY KindsAre, OneTable DEF TablesInv, SaveTool, Kinds
<1>2. \A other \in Kinds \ {"tools"} : db'[other] = db[other]
  BY <1>1 DEF Saves
<1>3. Grows /\ ToolsInv'
  <2>1. Grows
    BY <1>1, <1>2, AreRows DEF Saves, Grows, TablesInv, ToolsInv, Kinds
  <2>2. db'.tools \in [ToolIds -> Row(Tool)]
    BY <1>1 DEF Saves, TablesInv, ToolsInv, Row
  <2>3. ASSUME NEW t \in ToolIds, db'.tools[t] # NoRecord
        PROVE  ValidateTool(db'.tools[t]) /\ Runnable(db'.tools[t])
    BY <1>1, <2>3 DEF Saves, TablesInv, ToolsInv
  <2> QED BY <2>1, <2>2, <2>3 DEF ToolsInv, Runnable
<1>4. AgentsInv' /\ SkillsInv' /\ ConnectorsInv' /\ OperationsInv' /\ WorkflowsInv' /\ FlowsInv'
  BY <1>2, <1>3, AgentsKept, SkillsKept, ConnectorsKept, OperationsKept, WorkflowsKept, FlowsKept
     DEF TablesInv, Kinds
<1> QED BY <1>1, <1>2, <1>3, <1>4, KindsAre DEF TablesInv, Saves, Kinds

LEMMA WorkflowFits ==
    ASSUME TablesInv, NEW id \in WorkflowIds, NEW row, WorkflowRow(row), SaveWorkflow(id, row)
    PROVE  TablesInv' /\ Grows /\ db'.tools = db.tools /\ db'.operations = db.operations
<1>1. Saves("workflows", id, row)
  BY KindsAre, OneTable DEF TablesInv, SaveWorkflow, Kinds
<1>2. \A other \in Kinds \ {"workflows"} : db'[other] = db[other]
  BY <1>1 DEF Saves
<1>3. Grows /\ WorkflowsInv'
  <2>1. Grows
    BY <1>2 DEF Grows, SaveWorkflow, Kinds
  <2>2. row \in Workflow /\ row # NoRecord
    BY AreRows DEF WorkflowRow
  <2>3. db'.workflows \in [WorkflowIds -> Row(Workflow)] /\ everEnabled' \subseteq WorkflowIds
    BY <1>1, <2>2 DEF Saves, TablesInv, WorkflowsInv, Row, SaveWorkflow
  <2>4. ASSUME NEW w \in WorkflowIds
        PROVE  /\ db'.workflows[w] # NoRecord =>
                     /\ WorkflowRow(db'.workflows[w])
                     /\ db'.workflows[w].status = "enabled" => w \in everEnabled'
               /\ w \in everEnabled' => db'.workflows[w] # NoRecord
    BY <1>1, <2>2 DEF Saves, TablesInv, WorkflowsInv, SaveWorkflow
  <2> QED BY <2>1, <2>3, <2>4 DEF WorkflowsInv
<1>4. AgentsInv' /\ SkillsInv' /\ ConnectorsInv' /\ OperationsInv' /\ ToolsInv' /\ FlowsInv'
  BY <1>2, <1>3, AgentsKept, SkillsKept, ConnectorsKept, OperationsKept, ToolsKept, FlowsKept
     DEF TablesInv, Kinds
<1> QED BY <1>1, <1>2, <1>3, <1>4, KindsAre DEF TablesInv, Saves, Kinds

LEMMA FlowFits ==
    ASSUME TablesInv, NEW id \in FlowIds, NEW row, IsAgentFlow(row), FlowValid(row), Bounded(row),
           AgentsSaved(id, row, {}), SaveAgentFlow(id, row), UNCHANGED everEnabled
    PROVE  TablesInv' /\ Grows /\ db'.tools = db.tools /\ db'.operations = db.operations
<1>1. Saves("flows", id, row)
  BY KindsAre, OneTable DEF TablesInv, SaveAgentFlow, Kinds
<1>2. \A other \in Kinds \ {"flows"} : db'[other] = db[other]
  BY <1>1 DEF Saves
<1>3. Grows /\ FlowsInv'
  <2>1. Grows
    BY <1>2 DEF Grows, Kinds
  <2>2. DOMAIN db'.flows = FlowIds
    BY <1>1 DEF Saves, TablesInv, FlowsInv
  <2>3. ASSUME NEW f \in FlowIds, db'.flows[f] # NoRecord
        PROVE  /\ IsAgentFlow(db'.flows[f]) /\ FlowValid(db'.flows[f]) /\ Bounded(db'.flows[f])
               /\ AgentsSaved(f, db'.flows[f], {})
    BY <1>1, <2>3 DEF Saves, TablesInv, FlowsInv
  <2>4. db'.agents = db.agents
    BY <1>2 DEF Kinds
  <2> QED BY <2>1, <2>2, <2>3, <2>4 DEF FlowsInv, AgentsSaved
<1>4. AgentsInv' /\ SkillsInv' /\ ConnectorsInv' /\ OperationsInv' /\ ToolsInv' /\ WorkflowsInv'
  BY <1>2, <1>3, AgentsKept, SkillsKept, ConnectorsKept, OperationsKept, ToolsKept, WorkflowsKept
     DEF TablesInv, Kinds
<1> QED BY <1>1, <1>2, <1>3, <1>4, KindsAre DEF TablesInv, Saves, Kinds

LEMMA NothingSaved ==
    ASSUME TablesInv, UNCHANGED <<db, everEnabled>>
    PROVE  TablesInv' /\ Grows
<1>1. Grows
  BY DEF Grows
<1> QED BY <1>1, AgentsKept, SkillsKept, ConnectorsKept, OperationsKept, ToolsKept, WorkflowsKept,
           FlowsKept DEF TablesInv

-----------------------------------------------------------------------------
(* What a call holds.                                                      *)

\* A call that does not move holds what it held: nothing it relies on is taken back.
LEMMA HeldStays ==
    ASSUME Grows, NEW c \in Clients, Held(c), call'[c] = call[c]
    PROVE  Held(c)'
<1>1. HoldsRow(c)'
  <2>1. \A spec \in Operation : Connected(spec) => Connected(spec)'
    BY ConnectedStays DEF Operation
  <2> QED BY <2>1 DEF Held, HoldsRow
<1>2. HoldsTool(c)'
  BY DEF Held, HoldsTool, Grows, Runnable
<1>3. HoldsFlow(c)'
  BY AgentsStay DEF Held, HoldsFlow
<1>4. HoldsImport(c)'
  BY DEF Held, HoldsImport, Importable, Grows
<1> QED BY <1>1, <1>2, <1>3, <1>4 DEF Held

\* A call that is over, or reads and goes on, holds what it is given.
LEMMA Moved ==
    ASSUME NEW c \in Clients, DOMAIN call = Clients, NEW at, NEW id, NEW rec, NEW todo,
           Then(c, at, id, rec, todo)
    PROVE  /\ call'[c] = [at |-> at, id |-> id, rec |-> rec, todo |-> todo]
           /\ DOMAIN call' = Clients /\ \A d \in Clients \ {c} : call'[d] = call[d]
BY DEF Then

LEMMA Returned ==
    ASSUME NEW c \in Clients, DOMAIN call = Clients, Return(c)
    PROVE  /\ call'[c] = Idle /\ Held(c)'
           /\ DOMAIN call' = Clients /\ \A d \in Clients \ {c} : call'[d] = call[d]
<1>1. /\ call'[c] = Idle /\ DOMAIN call' = Clients
      /\ \A d \in Clients \ {c} : call'[d] = call[d]
  BY DEF Return
<1> QED BY <1>1 DEF Idle, Held, HoldsRow, HoldsTool, HoldsFlow, HoldsImport

LEMMA MadeKept ==
    ASSUME MadeInv, UNCHANGED made, db'.tools = db.tools, Grows
    PROVE  MadeInv'
BY DEF MadeInv, Grows

\* A step of one call that keeps the tables, and lets the call hold what it must, keeps
\* the invariant.
LEMMA OneCall ==
    ASSUME RegistryInv, NEW c \in Clients, TablesInv', MadeInv', CountersInv', Grows, Held(c)',
           DOMAIN call' = Clients, \A d \in Clients \ {c} : call'[d] = call[d]
    PROVE  RegistryInv'
<1>1. \A d \in Clients \ {c} : Held(d)'
  BY HeldStays DEF RegistryInv
<1> QED BY <1>1 DEF RegistryInv

\* A call that begins reads, decides and holds.
LEMMA BeginKept ==
    ASSUME RegistryInv, NEW c \in Clients, NEW at, NEW id, NEW rec, NEW todo,
           Begin(c, at, id, rec, todo),
           call'[c] = [at |-> at, id |-> id, rec |-> rec, todo |-> todo] => Held(c)'
    PROVE  RegistryInv'
<1>1. TablesInv' /\ Grows
  BY NothingSaved DEF Begin, history, RegistryInv
<1>2. /\ Held(c)' /\ DOMAIN call' = Clients
      /\ \A d \in Clients \ {c} : call'[d] = call[d]
  BY Moved DEF Begin, RegistryInv
<1>3. MadeInv'
  BY <1>1, MadeKept DEF Begin, history, RegistryInv
<1>4. CountersInv'
  BY RegistryAssumption DEF RegistryInv, CountersInv, Begin, Called, history
<1> QED BY <1>1, <1>2, <1>3, <1>4, OneCall

\* So does one that goes on after reading, or returns,
LEMMA ReadKept ==
    ASSUME RegistryInv, NEW c \in Clients, UNCHANGED <<db, history, calls, aborts>>,
           \/ Return(c)
           \/ \E at, id, rec, todo :
                 /\ Then(c, at, id, rec, todo)
                 /\ call'[c] = [at |-> at, id |-> id, rec |-> rec, todo |-> todo] => Held(c)'
    PROVE  RegistryInv'
<1>1. TablesInv' /\ Grows
  BY NothingSaved DEF history, RegistryInv
<1>2. /\ Held(c)' /\ DOMAIN call' = Clients
      /\ \A d \in Clients \ {c} : call'[d] = call[d]
  <2>1. CASE Return(c)
    BY <2>1, Returned DEF RegistryInv
  <2>2. ASSUME NEW at, NEW id, NEW rec, NEW todo, Then(c, at, id, rec, todo),
               call'[c] = [at |-> at, id |-> id, rec |-> rec, todo |-> todo] => Held(c)'
        PROVE  /\ Held(c)' /\ DOMAIN call' = Clients
               /\ \A d \in Clients \ {c} : call'[d] = call[d]
    BY <2>2, Moved DEF RegistryInv
  <2> QED BY <2>1, <2>2
<1>3. MadeInv'
  BY <1>1, MadeKept DEF history, RegistryInv
<1>4. CountersInv'
  BY DEF RegistryInv, CountersInv, history
<1> QED BY <1>1, <1>2, <1>3, <1>4, OneCall

\* one that saves a row that fits and returns,
LEMMA SavedKept ==
    ASSUME RegistryInv, NEW c \in Clients, TablesInv', Grows, MadeInv',
           UNCHANGED <<calls, aborts, crowded>>, Return(c)
    PROVE  RegistryInv'
<1>1. CountersInv'
  BY DEF RegistryInv, CountersInv
<1> QED BY <1>1, Returned, OneCall DEF RegistryInv

\* and one that saves it at once.
LEMMA CreatedKept ==
    ASSUME RegistryInv, NEW c \in Clients, TablesInv', Grows, MadeInv', Called(c),
           UNCHANGED <<call, crowded>>
    PROVE  RegistryInv'
<1>1. CountersInv'
  BY RegistryAssumption DEF RegistryInv, CountersInv, Called
<1>2. Held(c)' /\ DOMAIN call' = Clients
  BY HeldStays DEF RegistryInv
<1> QED BY <1>1, <1>2, OneCall

-----------------------------------------------------------------------------
(* Defaults and validation make rows.                                      *)

LEMMA AgentRow ==
    ASSUME NEW body \in AgentBody, NEW fallback \in Row(Agent),
           ValidateAgent(ApplyAgentDefaults(body, fallback))
    PROVE  ApplyAgentDefaults(body, fallback) \in Agent
BY DEF AgentBody, Sent, Row, Agent, ApplyAgentDefaults, ValidateAgent, Inherit

LEMMA SkillRow ==
    ASSUME NEW body \in SkillBody, NEW fallback \in Row(Skill),
           ValidateSkill(ApplySkillDefaults(body, fallback))
    PROVE  ApplySkillDefaults(body, fallback) \in Skill
BY DEF SkillBody, Sent, Row, Skill, ApplySkillDefaults, ValidateSkill, Inherit

LEMMA ConnectorRow ==
    ASSUME NEW body \in ConnectorBody, NEW fallback \in Row(Connector),
           ValidateConnector(ApplyConnectorDefaults(body, fallback))
    PROVE  ApplyConnectorDefaults(body, fallback) \in Connector
BY DEF ConnectorBody, Sent, Row, Connector, ApplyConnectorDefaults, ValidateConnector, Inherit

LEMMA ToolRow ==
    ASSUME NEW body \in ToolBody, NEW fallback \in Row(Tool),
           ValidateTool(ApplyToolDefaults(body, fallback))
    PROVE  ApplyToolDefaults(body, fallback) \in Tool
<1>1. PICK row : row = ApplyToolDefaults(body, fallback)
  OBVIOUS
<1>2. row.status \in Status /\ row.sideEffect \in SideEffect /\ row.risk \in RiskLevel
  BY <1>1 DEF ValidateTool
<1>3. row = [ status |-> row.status, implementation |-> body.implementation,
              operation |-> body.operation, workflow |-> body.workflow,
              sideEffect |-> row.sideEffect, risk |-> row.risk, confirm |-> body.confirm ]
  BY <1>1 DEF ToolBody, ApplyToolDefaults
<1> QED BY <1>1, <1>2, <1>3 DEF ToolBody, Tool

\* An operation is not validated yet when it waits for its connector.
LEMMA OperationDefaults ==
    ASSUME NEW body \in OperationBody, NEW fallback \in Row(Operation)
    PROVE  /\ ApplyConnectorOperationDefaults(body, fallback) \in OperationBody
           /\ ApplyConnectorOperationDefaults(body, fallback).auth # "unset"
<1>1. PICK spec : spec = ApplyConnectorOperationDefaults(body, fallback)
  OBVIOUS
<1>2. /\ DOMAIN spec = DOMAIN body /\ spec = [f \in DOMAIN body |-> spec[f]]
      /\ spec.query = body.query
      /\ spec.status = Inherit(body.status, fallback, "status", "draft")
      /\ spec.base = Inherit(body.base, fallback, "base", "unset")
      /\ spec.method = Inherit(body.method, fallback, "method", "unset")
      /\ spec.connector = IF body.connector = NoId /\ fallback # NoRecord
                          THEN fallback.connector ELSE body.connector
  BY <1>1 DEF OperationBody, Sent, ApplyConnectorOperationDefaults
<1>3. spec.auth = LET auth == Inherit(body.auth, fallback, "auth", "none")
                  IN IF auth = "unset" THEN "none" ELSE auth
  BY <1>1 DEF OperationBody, Sent, ApplyConnectorOperationDefaults
<1>4. spec.status \in Sent(Status) /\ spec.base \in {"unset", "url"}
  BY <1>2 DEF OperationBody, Sent, Row, Operation, Status, Inherit
<1>5. spec.method \in {"unset", "GET", "POST"} /\ spec.query \in BOOLEAN
  BY <1>2 DEF OperationBody, Sent, Row, Operation, Inherit
<1>6. spec.auth \in {"none", "oauth2"} /\ spec.connector \in ConnectorIds \cup {NoId}
  BY <1>2, <1>3 DEF OperationBody, Sent, Row, Operation, Inherit
<1> QED BY <1>1, <1>2, <1>4, <1>5, <1>6 DEF OperationBody

LEMMA OperationRow ==
    ASSUME NEW spec \in OperationBody, ValidateConnectorOperation(spec)
    PROVE  spec \in Operation
BY DEF OperationBody, Sent, Operation, ValidateConnectorOperation

LEMMA OperationNormalized ==
    ASSUME NEW spec \in OperationBody
    PROVE  /\ NormalizeForStorage(spec) \in OperationBody
           /\ NormalizeForStorage(spec).connector = spec.connector
BY DEF OperationBody, Sent, NormalizeForStorage

LEMMA ImportedToolRow ==
    ASSUME NEW spec \in ToolBody, NEW operation \in Operation,
           ValidateTool(ApplyConnectorToolDefaults(spec, operation))
    PROVE  /\ ApplyConnectorToolDefaults(spec, operation) \in Tool
           /\ ApplyConnectorToolDefaults(spec, operation).implementation = spec.implementation
           /\ ApplyConnectorToolDefaults(spec, operation).operation = spec.operation
<1>1. PICK given : given =
        LET sideEffect == IF spec.sideEffect = "unset" THEN ConnectorOperationSideEffect(operation)
                          ELSE spec.sideEffect
        IN [ spec EXCEPT !.sideEffect = sideEffect,
                         !.risk = IF @ = "unset" THEN ConnectorOperationRiskLevel(sideEffect) ELSE @,
                         !.status = IF @ = "unset" THEN "disabled" ELSE @ ]
  OBVIOUS
<1>2. ApplyConnectorToolDefaults(spec, operation) = ApplyToolDefaults(given, NoRecord)
  BY <1>1 DEF ApplyConnectorToolDefaults
<1>3. /\ given \in ToolBody
      /\ given.implementation = spec.implementation /\ given.operation = spec.operation
  <2>1. /\ ConnectorOperationSideEffect(operation) \in SideEffect
        /\ \A e : ConnectorOperationRiskLevel(e) \in RiskLevel
    BY DEF ConnectorOperationSideEffect, ConnectorOperationRiskLevel, SideEffect, RiskLevel
  <2>2. /\ given.status \in Sent(Status) /\ given.sideEffect \in Sent(SideEffect)
        /\ given.risk \in Sent(RiskLevel)
    BY <1>1, <2>1 DEF ToolBody, Sent, Status
  <2>3. given = [ status |-> given.status, implementation |-> spec.implementation,
                  operation |-> spec.operation, workflow |-> spec.workflow,
                  sideEffect |-> given.sideEffect, risk |-> given.risk, confirm |-> spec.confirm ]
    BY <1>1 DEF ToolBody
  <2> QED BY <2>2, <2>3 DEF ToolBody
<1>4. /\ ApplyToolDefaults(given, NoRecord).implementation = given.implementation
      /\ ApplyToolDefaults(given, NoRecord).operation = given.operation
  BY <1>3 DEF ToolBody, Sent, ApplyToolDefaults
<1> QED BY <1>2, <1>3, <1>4, ToolRow DEF Row

\* A graph that has its start keeps its defaults.
LEMMA StartIsGiven ==
    ASSUME NEW graph, NEW node
    PROVE  /\ WithStart(graph, node).entry \in DOMAIN WithStart(graph, node).nodes
           /\ WithStart(WithStart(graph, node), node) = WithStart(graph, node)
<1> DEFINE given == WithStart(graph, node)
<1>1. given.entry # NoId /\ given.entry \in DOMAIN given.nodes
  BY RegistryDataAssumption DEF WithStart
<1>2. given = [entry |-> given.entry, edges |-> given.edges, nodes |-> given.nodes]
  BY DEF WithStart
<1>3. given.nodes = [n \in DOMAIN given.nodes |-> given.nodes[n]]
  BY DEF WithStart
<1> HIDE DEF given
<1>4. [n \in DOMAIN given.nodes \cup {given.entry} |->
          IF n \in DOMAIN given.nodes THEN given.nodes[n] ELSE node] = given.nodes
  BY <1>1, <1>3
<1>5. WithStart(given, node) = given
  BY <1>1, <1>2, <1>4 DEF WithStart
<1> QED BY <1>1, <1>5 DEF given

\* A workflow keeps a graph that was sent, or is stored, with a start.
LEMMA WorkflowDefaults ==
    ASSUME NEW spec, DOMAIN spec = {"status", "profile", "graph"},
           NEW fallback, fallback = NoRecord \/ WorkflowRow(fallback),
           \/ spec \in WorkflowSpecs
           \/ spec.graph \in Graphs /\ WithStart(spec.graph, StartStep) = spec.graph,
           ValidateWorkflow(ApplyWorkflowDefaults(spec, fallback))
    PROVE  WorkflowRow(ApplyWorkflowDefaults(spec, fallback))
<1> DEFINE row == ApplyWorkflowDefaults(spec, fallback)
           sent == InheritGraph(spec.graph, fallback)
<1>1. /\ DOMAIN row = {"status", "profile", "graph"}
      /\ row = [f \in {"status", "profile", "graph"} |-> row[f]]
      /\ row.graph = WithStart(sent, StartStep)
  BY Zenon DEF ApplyWorkflowDefaults
<1>2. row.graph \in Graphs
  <2>1. CASE sent = spec.graph
    BY <2>1, <1>1 DEF Graphs
  <2>2. CASE sent # spec.graph
    BY <2>2, <1>1 DEF InheritGraph, WorkflowRow, Workflow
  <2> QED BY <2>1, <2>2
<1>3. row.graph.entry \in DOMAIN row.graph.nodes /\ WithStart(row.graph, StartStep) = row.graph
  BY <1>1, StartIsGiven
<1>4. row.status \in Status /\ row.profile \in Profile
  BY DEF ValidateWorkflow
<1> QED BY <1>1, <1>2, <1>3, <1>4 DEF WorkflowRow, WorkflowValid, Workflow

-----------------------------------------------------------------------------
(* Each operation keeps the invariant.                                     *)

\* What a call must hold at a place, to be held after the step.

LEMMA HoldingAgent ==
    ASSUME NEW c \in Clients, NEW id, NEW rec, NEW todo,
           id \in AgentIds, rec \in Agent,
           call'[c] = [at |-> "SaveAgent", id |-> id, rec |-> rec, todo |-> todo]
    PROVE  Held(c)'
BY DEF Held, HoldsRow, HoldsTool, HoldsFlow, HoldsImport

LEMMA HoldingSkill ==
    ASSUME NEW c \in Clients, NEW id, NEW rec, NEW todo,
           id \in SkillIds, rec \in Skill,
           call'[c] = [at |-> "SaveSkill", id |-> id, rec |-> rec, todo |-> todo]
    PROVE  Held(c)'
BY DEF Held, HoldsRow, HoldsTool, HoldsFlow, HoldsImport

LEMMA HoldingConnector ==
    ASSUME NEW c \in Clients, NEW id, NEW rec, NEW todo,
           id \in ConnectorIds, rec \in Connector,
           call'[c] = [at |-> "SaveConnector", id |-> id, rec |-> rec, todo |-> todo]
    PROVE  Held(c)'
BY DEF Held, HoldsRow, HoldsTool, HoldsFlow, HoldsImport

LEMMA HoldingOperationUnread ==
    ASSUME NEW c \in Clients, NEW id, NEW rec, NEW todo,
           id \in OperationIds, rec \in OperationBody, rec.connector # NoId,
           call'[c] = [at |-> "GetConnector", id |-> id, rec |-> rec, todo |-> todo]
    PROVE  Held(c)'
BY DEF Held, HoldsRow, HoldsTool, HoldsFlow, HoldsImport

LEMMA HoldingOperation ==
    ASSUME NEW c \in Clients, NEW id, NEW rec, NEW todo,
           id \in OperationIds, rec \in Operation,
           ValidateConnectorOperation(rec), Connected(rec)',
           call'[c] = [at |-> "SaveConnectorOperation", id |-> id, rec |-> rec, todo |-> todo]
    PROVE  Held(c)'
BY DEF Held, HoldsRow, HoldsTool, HoldsFlow, HoldsImport

LEMMA HoldingToolUnread ==
    ASSUME NEW c \in Clients, NEW id, NEW rec, NEW todo,
           id \in ToolIds, rec \in Tool,
           ValidateTool(rec), rec.workflow \in WorkflowIds,
           call'[c] = [at |-> "GetWorkflow", id |-> id, rec |-> rec, todo |-> todo]
    PROVE  Held(c)'
BY DEF Held, HoldsRow, HoldsTool, HoldsFlow, HoldsImport

LEMMA HoldingToolBound ==
    ASSUME NEW c \in Clients, NEW id, NEW rec, NEW todo,
           id \in ToolIds, rec \in Tool,
           ValidateTool(rec), rec.workflow \in WorkflowIds,
           \A on \in todo : WorkflowRow(on) /\ on.status = "enabled",
           call'[c] = [at |-> "SyncWorkflow", id |-> id, rec |-> rec, todo |-> todo]
    PROVE  Held(c)'
BY DEF Held, HoldsRow, HoldsTool, HoldsFlow, HoldsImport

LEMMA HoldingTool ==
    ASSUME NEW c \in Clients, NEW id, NEW rec, NEW todo,
           id \in ToolIds, rec \in Tool, ValidateTool(rec), Runnable(rec)',
           call'[c] = [at |-> "SaveTool", id |-> id, rec |-> rec, todo |-> todo]
    PROVE  Held(c)'
BY DEF Held, HoldsRow, HoldsTool, HoldsFlow, HoldsImport

LEMMA HoldingWorkflow ==
    ASSUME NEW c \in Clients, NEW id, NEW rec, NEW todo,
           id \in WorkflowIds, WorkflowRow(rec),
           call'[c] = [at |-> "SaveWorkflow", id |-> id, rec |-> rec, todo |-> todo]
    PROVE  Held(c)'
BY DEF Held, HoldsRow, HoldsTool, HoldsFlow, HoldsImport

LEMMA HoldingWorkflowUnchecked ==
    ASSUME NEW c \in Clients, NEW id, NEW rec, NEW todo,
           id \in WorkflowIds, WorkflowRow(rec),
           call'[c] = [at |-> "CheckBindings", id |-> id, rec |-> rec, todo |-> todo]
    PROVE  Held(c)'
BY DEF Held, HoldsRow, HoldsTool, HoldsFlow, HoldsImport

LEMMA HoldingFlow ==
    ASSUME NEW c \in Clients, NEW id, NEW rec, NEW todo,
           id \in FlowIds, IsAgentFlow(rec),
           rec.graph.entry \in DOMAIN rec.graph.nodes, todo \subseteq LocalNodes(rec.graph),
           AgentsSaved(id, rec, todo)',
           call'[c] = [at |-> "SaveLocalAgents", id |-> id, rec |-> rec, todo |-> todo]
    PROVE  Held(c)'
BY DEF Held, HoldsRow, HoldsTool, HoldsFlow, HoldsImport

LEMMA HoldingImport ==
    ASSUME NEW c \in Clients, NEW id, NEW rec, NEW todo,
           \A e \in todo : Importable(e)',
           call'[c] = [at |-> "ListTools", id |-> id, rec |-> rec, todo |-> todo]
    PROVE  Held(c)'
BY DEF Held, HoldsRow, HoldsTool, HoldsFlow, HoldsImport

LEMMA HoldingImportListed ==
    ASSUME NEW c \in Clients, NEW id, NEW rec, NEW todo,
           \A e \in todo : Importable(e)',
           rec \in [OperationIds -> ToolIds \cup {NoId}],
           \A o \in OperationIds : rec[o] # NoId => db'.tools[rec[o]] # NoRecord,
           call'[c] = [at |-> "SaveTools", id |-> id, rec |-> rec, todo |-> todo]
    PROVE  Held(c)'
BY DEF Held, HoldsRow, HoldsTool, HoldsFlow, HoldsImport

LEMMA AgentRoutesKept ==
    ASSUME RegistryInv, NEW c \in Clients, AgentRoutes(c)
    PROVE  RegistryInv'
<1>1. CASE CreateAgent(c)
  <2>1. PICK id \in AgentIds, body \in AgentSpecs :
          /\ ValidateAgent(ApplyAgentDefaults(body, NoRecord)) /\ Called(c)
          /\ SaveAgent(id, ApplyAgentDefaults(body, NoRecord)) /\ UNCHANGED <<call, history>>
    BY <1>1 DEF CreateAgent
  <2>2. ApplyAgentDefaults(body, NoRecord) \in Agent
    BY <2>1, AgentRow, RegistryAssumption DEF Row
  <2>3. TablesInv' /\ Grows /\ db'.tools = db.tools
    BY <2>1, <2>2, AgentFits DEF history, RegistryInv
  <2>4. MadeInv'
    BY <2>1, <2>3, MadeKept DEF history, RegistryInv
  <2> QED BY <2>1, <2>3, <2>4, CreatedKept DEF history
<1>2. CASE UpdateAgent(c)
  <2>1. PICK id \in ListAgents(db), body \in AgentSpecs :
          /\ ValidateAgent(ApplyAgentDefaults(body, GetAgent(id)))
          /\ Begin(c, "SaveAgent", id, ApplyAgentDefaults(body, GetAgent(id)), {})
    BY <1>2 DEF UpdateAgent
  <2>2. id \in AgentIds /\ GetAgent(id) \in Row(Agent)
    BY DEF ListAgents, Stored, GetAgent, RegistryInv, TablesInv, AgentsInv
  <2>3. ApplyAgentDefaults(body, GetAgent(id)) \in Agent
    BY <2>1, <2>2, AgentRow, RegistryAssumption
  <2> QED BY <2>1, <2>2, <2>3, BeginKept, HoldingAgent
<1>3. CASE SetAgentStatus(c)
  <2>1. PICK id \in ListAgents(db), status \in Transition :
          Begin(c, "SaveAgent", id, [GetAgent(id) EXCEPT !.status = status], {})
    BY <1>3 DEF SetAgentStatus
  <2>2. id \in AgentIds /\ GetAgent(id) \in Agent
    BY DEF ListAgents, Stored, GetAgent, RegistryInv, TablesInv, AgentsInv, Row
  <2>3. [GetAgent(id) EXCEPT !.status = status] \in Agent
    BY <2>2 DEF Agent, Transition, Status
  <2> QED BY <2>1, <2>2, <2>3, BeginKept, HoldingAgent
<1>4. CASE AgentSaved(c)
  <2>1. /\ call[c].at = "SaveAgent" /\ UNCHANGED <<calls, aborts>>
        /\ SaveAgent(call[c].id, call[c].rec) /\ Return(c) /\ UNCHANGED history
    BY <1>4 DEF AgentSaved, Continue
  <2>2. call[c].id \in AgentIds /\ call[c].rec \in Agent
    BY <2>1 DEF RegistryInv, Held, HoldsRow
  <2>3. TablesInv' /\ Grows /\ db'.tools = db.tools
    BY <2>1, <2>2, AgentFits DEF history, RegistryInv
  <2>4. MadeInv'
    BY <2>1, <2>3, MadeKept DEF history, RegistryInv
  <2> QED BY <2>1, <2>3, <2>4, SavedKept DEF history
<1> QED BY <1>1, <1>2, <1>3, <1>4 DEF AgentRoutes

LEMMA SkillRoutesKept ==
    ASSUME RegistryInv, NEW c \in Clients, SkillRoutes(c)
    PROVE  RegistryInv'
<1>1. CASE CreateSkill(c)
  <2>1. PICK id \in SkillIds, body \in SkillSpecs :
          /\ ValidateSkill(ApplySkillDefaults(body, NoRecord)) /\ Called(c)
          /\ SaveSkill(id, ApplySkillDefaults(body, NoRecord)) /\ UNCHANGED <<call, history>>
    BY <1>1 DEF CreateSkill
  <2>2. ApplySkillDefaults(body, NoRecord) \in Skill
    BY <2>1, SkillRow, RegistryAssumption DEF Row
  <2>3. TablesInv' /\ Grows /\ db'.tools = db.tools
    BY <2>1, <2>2, SkillFits DEF history, RegistryInv
  <2>4. MadeInv'
    BY <2>1, <2>3, MadeKept DEF history, RegistryInv
  <2> QED BY <2>1, <2>3, <2>4, CreatedKept DEF history
<1>2. CASE UpdateSkill(c)
  <2>1. PICK id \in ListSkills(db), body \in SkillSpecs :
          /\ ValidateSkill(ApplySkillDefaults(body, GetSkill(id)))
          /\ Begin(c, "SaveSkill", id, ApplySkillDefaults(body, GetSkill(id)), {})
    BY <1>2 DEF UpdateSkill
  <2>2. id \in SkillIds /\ GetSkill(id) \in Row(Skill)
    BY DEF ListSkills, Stored, GetSkill, RegistryInv, TablesInv, SkillsInv
  <2>3. ApplySkillDefaults(body, GetSkill(id)) \in Skill
    BY <2>1, <2>2, SkillRow, RegistryAssumption
  <2> QED BY <2>1, <2>2, <2>3, BeginKept, HoldingSkill
<1>3. CASE SetSkillStatus(c)
  <2>1. PICK id \in ListSkills(db), status \in Transition :
          Begin(c, "SaveSkill", id, [GetSkill(id) EXCEPT !.status = status], {})
    BY <1>3 DEF SetSkillStatus
  <2>2. id \in SkillIds /\ GetSkill(id) \in Skill
    BY DEF ListSkills, Stored, GetSkill, RegistryInv, TablesInv, SkillsInv, Row
  <2>3. [GetSkill(id) EXCEPT !.status = status] \in Skill
    BY <2>2 DEF Skill, Transition, Status
  <2> QED BY <2>1, <2>2, <2>3, BeginKept, HoldingSkill
<1>4. CASE SkillSaved(c)
  <2>1. /\ call[c].at = "SaveSkill" /\ UNCHANGED <<calls, aborts>>
        /\ SaveSkill(call[c].id, call[c].rec) /\ Return(c) /\ UNCHANGED history
    BY <1>4 DEF SkillSaved, Continue
  <2>2. call[c].id \in SkillIds /\ call[c].rec \in Skill
    BY <2>1 DEF RegistryInv, Held, HoldsRow
  <2>3. TablesInv' /\ Grows /\ db'.tools = db.tools
    BY <2>1, <2>2, SkillFits DEF history, RegistryInv
  <2>4. MadeInv'
    BY <2>1, <2>3, MadeKept DEF history, RegistryInv
  <2> QED BY <2>1, <2>3, <2>4, SavedKept DEF history
<1> QED BY <1>1, <1>2, <1>3, <1>4 DEF SkillRoutes

LEMMA ConnectorRoutesKept ==
    ASSUME RegistryInv, NEW c \in Clients, ConnectorRoutes(c)
    PROVE  RegistryInv'
<1>1. CASE CreateConnector(c)
  <2>1. PICK id \in ConnectorIds, body \in ConnectorSpecs :
          /\ ValidateConnector(ApplyConnectorDefaults(body, NoRecord)) /\ Called(c)
          /\ SaveConnector(id, ApplyConnectorDefaults(body, NoRecord)) /\ UNCHANGED <<call, history>>
    BY <1>1 DEF CreateConnector
  <2>2. ApplyConnectorDefaults(body, NoRecord) \in Connector
    BY <2>1, ConnectorRow, RegistryAssumption DEF Row
  <2>3. TablesInv' /\ Grows /\ db'.tools = db.tools
    BY <2>1, <2>2, ConnectorFits DEF history, RegistryInv
  <2>4. MadeInv'
    BY <2>1, <2>3, MadeKept DEF history, RegistryInv
  <2> QED BY <2>1, <2>3, <2>4, CreatedKept DEF history
<1>2. CASE UpdateConnector(c)
  <2>1. PICK id \in Stored(db.connectors), body \in ConnectorSpecs :
          /\ ValidateConnector(ApplyConnectorDefaults(body, GetConnector(id)))
          /\ Begin(c, "SaveConnector", id, ApplyConnectorDefaults(body, GetConnector(id)), {})
    BY <1>2 DEF UpdateConnector
  <2>2. id \in ConnectorIds /\ GetConnector(id) \in Row(Connector)
    BY DEF Stored, GetConnector, RegistryInv, TablesInv, ConnectorsInv
  <2>3. ApplyConnectorDefaults(body, GetConnector(id)) \in Connector
    BY <2>1, <2>2, ConnectorRow, RegistryAssumption
  <2> QED BY <2>1, <2>2, <2>3, BeginKept, HoldingConnector
<1>3. CASE SetConnectorStatus(c)
  <2>1. PICK id \in Stored(db.connectors), status \in Transition :
          Begin(c, "SaveConnector", id, [GetConnector(id) EXCEPT !.status = status], {})
    BY <1>3 DEF SetConnectorStatus
  <2>2. id \in ConnectorIds /\ GetConnector(id) \in Connector
    BY DEF Stored, GetConnector, RegistryInv, TablesInv, ConnectorsInv, Row
  <2>3. [GetConnector(id) EXCEPT !.status = status] \in Connector
    BY <2>2 DEF Connector, Transition, Status
  <2> QED BY <2>1, <2>2, <2>3, BeginKept, HoldingConnector
<1>4. CASE ConnectorSaved(c)
  <2>1. /\ call[c].at = "SaveConnector" /\ UNCHANGED <<calls, aborts>>
        /\ SaveConnector(call[c].id, call[c].rec) /\ Return(c) /\ UNCHANGED history
    BY <1>4 DEF ConnectorSaved, Continue
  <2>2. call[c].id \in ConnectorIds /\ call[c].rec \in Connector
    BY <2>1 DEF RegistryInv, Held, HoldsRow
  <2>3. TablesInv' /\ Grows /\ db'.tools = db.tools
    BY <2>1, <2>2, ConnectorFits DEF history, RegistryInv
  <2>4. MadeInv'
    BY <2>1, <2>3, MadeKept DEF history, RegistryInv
  <2> QED BY <2>1, <2>3, <2>4, SavedKept DEF history
<1> QED BY <1>1, <1>2, <1>3, <1>4 DEF ConnectorRoutes

\* An operation that belongs to a connector waits for it, another is saved as it is.
LEMMA OperationToSaveKept ==
    ASSUME RegistryInv, NEW c \in Clients, NEW id \in OperationIds, NEW spec \in OperationBody,
           OperationToSave(c, id, spec)
    PROVE  RegistryInv'
<1>1. CASE spec.connector # NoId
  <2>1. Begin(c, "GetConnector", id, spec, {})
    BY <1>1 DEF OperationToSave
  <2> QED BY <1>1, <2>1, BeginKept, HoldingOperationUnread
<1>2. CASE spec.connector = NoId
  <2>1. ValidateConnectorOperation(spec) /\ Begin(c, "SaveConnectorOperation", id, spec, {})
    BY <1>2 DEF OperationToSave
  <2>2. spec \in Operation /\ Connected(spec)'
    BY <1>2, <2>1, OperationRow DEF Connected
  <2> QED BY <2>1, <2>2, BeginKept, HoldingOperation
<1> QED BY <1>1, <1>2

LEMMA OperationRoutesKept ==
    ASSUME RegistryInv, NEW c \in Clients,
           \/ CreateConnectorOperation(c) \/ UpdateConnectorOperation(c)
           \/ SetConnectorOperationStatus(c) \/ NormalizeConnectorOperation(c)
           \/ ConnectorOperationSaved(c)
    PROVE  RegistryInv'
<1>1. CASE CreateConnectorOperation(c)
  <2>1. PICK id \in OperationIds, body \in OperationSpecs :
          OperationToSave(c, id, ApplyConnectorOperationDefaults(body, NoRecord))
    BY <1>1 DEF CreateConnectorOperation
  <2>2. ApplyConnectorOperationDefaults(body, NoRecord) \in OperationBody
    BY OperationDefaults, RegistryAssumption DEF Row
  <2> QED BY <2>1, <2>2, OperationToSaveKept
<1>2. CASE UpdateConnectorOperation(c)
  <2>1. PICK id \in ListConnectorOperations(db), body \in OperationSpecs :
          OperationToSave(c, id, ApplyConnectorOperationDefaults(body, GetConnectorOperation(id)))
    BY <1>2 DEF UpdateConnectorOperation
  <2>2. id \in OperationIds /\ GetConnectorOperation(id) \in Row(Operation)
    BY DEF ListConnectorOperations, Stored, GetConnectorOperation, RegistryInv, TablesInv,
           OperationsInv
  <2>3. ApplyConnectorOperationDefaults(body, GetConnectorOperation(id)) \in OperationBody
    BY <2>2, OperationDefaults, RegistryAssumption
  <2> QED BY <2>1, <2>2, <2>3, OperationToSaveKept
<1>3. CASE SetConnectorOperationStatus(c)
  <2>1. PICK id \in ListConnectorOperations(db), status \in Transition :
          Begin(c, "SaveConnectorOperation", id,
                [GetConnectorOperation(id) EXCEPT !.status = status], {})
    BY <1>3 DEF SetConnectorOperationStatus
  <2>2. PICK row : row = GetConnectorOperation(id)
    OBVIOUS
  <2>3. /\ id \in OperationIds /\ row \in Operation
        /\ ValidateConnectorOperation(row) /\ Connected(row)
    BY <2>2 DEF ListConnectorOperations, Stored, GetConnectorOperation, RegistryInv, TablesInv,
           OperationsInv, Row
  <2>4. PICK spec : spec = [row EXCEPT !.status = status]
    OBVIOUS
  <2>5. spec \in Operation /\ ValidateConnectorOperation(spec) /\ spec.connector = row.connector
    BY <2>3, <2>4 DEF Operation, Transition, Status, ValidateConnectorOperation
  <2>6. db' = db /\ Begin(c, "SaveConnectorOperation", id, spec, {})
    BY <2>1, <2>2, <2>4 DEF Begin
  <2>7. Connected(spec)'
    BY <2>3, <2>5, <2>6 DEF Connected
  <2> QED BY <2>3, <2>5, <2>6, <2>7, BeginKept, HoldingOperation
<1>4. CASE NormalizeConnectorOperation(c)
  <2>1. PICK spec : spec = NormalizeForStorage(call[c].rec)
    OBVIOUS
  <2>2. call[c].at = "GetConnector" /\ UNCHANGED <<db, history, calls, aborts>>
    BY <1>4 DEF NormalizeConnectorOperation, Continue
  <2>3. call[c].id \in OperationIds /\ call[c].rec \in OperationBody /\ call[c].rec.connector # NoId
    BY <2>2 DEF RegistryInv, Held, HoldsRow
  <2>4. spec \in OperationBody /\ spec.connector # NoId
    BY <2>1, <2>3, OperationNormalized
  <2>5. CASE Return(c)
    BY <2>2, <2>5, ReadKept
  <2>6. CASE ~Return(c)
    <3>1. /\ db.connectors[spec.connector] # NoRecord /\ ValidateConnectorOperation(spec)
          /\ Then(c, "SaveConnectorOperation", call[c].id, spec, {})
      BY <1>4, <2>1, <2>6 DEF NormalizeConnectorOperation, GetConnector
    <3>2. spec \in Operation /\ Connected(spec)'
      BY <2>2, <2>4, <3>1, OperationRow DEF Connected
    <3> QED BY <2>2, <2>3, <3>1, <3>2, ReadKept, HoldingOperation
  <2> QED BY <2>5, <2>6
<1>5. CASE ConnectorOperationSaved(c)
  <2>1. /\ call[c].at = "SaveConnectorOperation" /\ UNCHANGED <<calls, aborts>>
        /\ SaveConnectorOperation(call[c].id, call[c].rec) /\ Return(c) /\ UNCHANGED history
    BY <1>5 DEF ConnectorOperationSaved, Continue
  <2>2. /\ call[c].id \in OperationIds /\ call[c].rec \in Operation
        /\ ValidateConnectorOperation(call[c].rec) /\ Connected(call[c].rec)
    BY <2>1 DEF RegistryInv, Held, HoldsRow
  <2>3. TablesInv' /\ Grows /\ db'.tools = db.tools
    BY <2>1, <2>2, OperationFits DEF history, RegistryInv
  <2>4. MadeInv'
    BY <2>1, <2>3, MadeKept DEF history, RegistryInv
  <2> QED BY <2>1, <2>3, <2>4, SavedKept DEF history
<1> QED BY <1>1, <1>2, <1>3, <1>4, <1>5

\* A tool that is to run a workflow has the workflow enabled first.
LEMMA ToolToSaveKept ==
    ASSUME RegistryInv, NEW c \in Clients, NEW id \in ToolIds, NEW spec \in Tool,
           ValidateTool(spec), ToolToSave(c, id, spec)
    PROVE  RegistryInv'
<1>1. CASE spec.status = "enabled" /\ spec.implementation = "workflow"
  <2>1. Begin(c, "GetWorkflow", id, spec, {})
    BY <1>1 DEF ToolToSave
  <2>2. spec.workflow \in WorkflowIds
    BY <1>1 DEF Tool, ValidateTool
  <2> QED BY <2>1, <2>2, BeginKept, HoldingToolUnread
<1>2. CASE ~(spec.status = "enabled" /\ spec.implementation = "workflow")
  <2>1. Begin(c, "SaveTool", id, spec, {}) /\ Runnable(spec)'
    BY <1>2 DEF ToolToSave, Runnable
  <2> QED BY <2>1, BeginKept, HoldingTool
<1> QED BY <1>1, <1>2

LEMMA ToolRoutesKept ==
    ASSUME RegistryInv, NEW c \in Clients, ToolRoutes(c)
    PROVE  RegistryInv'
<1>0. /\ \A id \in ListTools(db) :
            id \in ToolIds /\ db.tools[id] \in Tool /\ ValidateTool(db.tools[id])
      /\ Generated \subseteq ToolIds
  BY DEF Generated, ListTools, Stored, RegistryInv, TablesInv, ToolsInv, Row
<1>1. CASE CreateTool(c)
  <2>1. PICK id \in ListTools(db) \cup Generated, body \in ToolSpecs :
          /\ ValidateTool(ApplyToolDefaults(body, NoRecord))
          /\ ToolToSave(c, id, ApplyToolDefaults(body, NoRecord))
    BY <1>1 DEF CreateTool
  <2>2. ApplyToolDefaults(body, NoRecord) \in Tool
    BY <2>1, ToolRow, RegistryAssumption DEF Row
  <2> QED BY <1>0, <2>1, <2>2, ToolToSaveKept
<1>2. CASE UpdateTool(c)
  <2>1. PICK id \in ListTools(db), body \in ToolSpecs :
          /\ ValidateTool(ApplyToolDefaults(body, db.tools[id]))
          /\ ToolToSave(c, id, ApplyToolDefaults(body, db.tools[id]))
    BY <1>2 DEF UpdateTool, GetTool
  <2>2. ApplyToolDefaults(body, db.tools[id]) \in Tool
    BY <1>0, <2>1, ToolRow, RegistryAssumption DEF Row
  <2> QED BY <1>0, <2>1, <2>2, ToolToSaveKept
<1>3. CASE SetToolStatus(c)
  <2>1. PICK id \in ListTools(db), status \in Transition :
          ToolToSave(c, id, [db.tools[id] EXCEPT !.status = status])
    BY <1>3 DEF SetToolStatus, GetTool
  <2>2. PICK spec : spec = [db.tools[id] EXCEPT !.status = status]
    OBVIOUS
  <2>3. spec \in Tool /\ ValidateTool(spec)
    BY <1>0, <2>2 DEF Tool, Transition, Status, ValidateTool
  <2> QED BY <1>0, <2>1, <2>2, <2>3, ToolToSaveKept
<1>4. CASE EnsureBoundWorkflowEnabled(c)
  <2>1. PICK tool, flow, on :
          /\ tool = call[c].rec /\ flow = db.workflows[tool.workflow]
          /\ on = ApplyWorkflowDefaults([flow EXCEPT !.status = "enabled"], NoRecord)
    OBVIOUS
  <2>2. call[c].at = "GetWorkflow" /\ UNCHANGED <<db, history, calls, aborts>>
    BY <1>4 DEF EnsureBoundWorkflowEnabled, Continue
  <2>3. /\ call[c].id \in ToolIds /\ tool \in Tool /\ ValidateTool(tool)
        /\ tool.workflow \in WorkflowIds
    BY <2>1, <2>2 DEF RegistryInv, Held, HoldsTool
  <2>4. \/ Return(c)
        \/ flow # NoRecord /\ flow.status = "enabled" /\ Then(c, "SaveTool", call[c].id, tool, {})
        \/ flow # NoRecord /\ ValidateWorkflow(on) /\ Then(c, "SyncWorkflow", call[c].id, tool, {on})
    BY <1>4, <2>1 DEF EnsureBoundWorkflowEnabled, GetWorkflow
  <2>5. CASE Return(c)
    BY <2>2, <2>5, ReadKept
  <2>6. CASE /\ flow # NoRecord /\ flow.status = "enabled"
             /\ Then(c, "SaveTool", call[c].id, tool, {})
    <3>1. Runnable(tool)'
      BY <2>1, <2>2, <2>3, <2>6 DEF Runnable, RegistryInv, TablesInv, WorkflowsInv, history
    <3> QED BY <2>2, <2>3, <2>6, <3>1, ReadKept, HoldingTool
  <2>7. CASE /\ flow # NoRecord /\ ValidateWorkflow(on)
             /\ Then(c, "SyncWorkflow", call[c].id, tool, {on})
    <3>1. PICK spec : spec = [flow EXCEPT !.status = "enabled"]
      OBVIOUS
    <3>2. WorkflowRow(flow)
      BY <2>1, <2>3, <2>7 DEF RegistryInv, TablesInv, WorkflowsInv
    <3>3. /\ DOMAIN spec = {"status", "profile", "graph"} /\ spec.graph = flow.graph
          /\ spec.graph \in Graphs /\ WithStart(spec.graph, StartStep) = spec.graph
          /\ spec.status = "enabled"
      BY <3>1, <3>2 DEF WorkflowRow, Workflow
    <3>4. WorkflowRow(on)
      BY <2>1, <2>7, <3>1, <3>3, WorkflowDefaults
    <3>5. on.status = "enabled"
      BY <2>1, <3>1, <3>3 DEF ApplyWorkflowDefaults, Inherit
    <3> QED BY <2>2, <2>3, <2>7, <3>4, <3>5, ReadKept, HoldingToolBound
  <2> QED BY <2>4, <2>5, <2>6, <2>7
<1>5. CASE SyncWorkflow(c)
  <2>1. PICK tool, id : tool = call[c].rec /\ id = call[c].id
    OBVIOUS
  <2>2. PICK on \in call[c].todo :
          /\ call[c].at = "SyncWorkflow" /\ UNCHANGED <<calls, aborts, made, crowded>>
          /\ SaveWorkflow(tool.workflow, on) /\ Then(c, "SaveTool", id, tool, {})
    BY <1>5, <2>1 DEF SyncWorkflow, Continue
  <2>3. /\ id \in ToolIds /\ tool \in Tool /\ ValidateTool(tool) /\ tool.workflow \in WorkflowIds
        /\ WorkflowRow(on) /\ on.status = "enabled"
    BY <2>1, <2>2 DEF RegistryInv, Held, HoldsTool
  <2>4. TablesInv' /\ Grows /\ db'.tools = db.tools
    BY <2>2, <2>3, WorkflowFits DEF RegistryInv
  <2>5. MadeInv' /\ CountersInv'
    BY <2>2, <2>4, MadeKept DEF RegistryInv, CountersInv
  <2>6. Runnable(tool)'
    BY <2>2, <2>3 DEF SaveWorkflow, Runnable
  <2>7. /\ call'[c] = [at |-> "SaveTool", id |-> id, rec |-> tool, todo |-> {}]
        /\ DOMAIN call' = Clients /\ \A d \in Clients \ {c} : call'[d] = call[d]
    BY <2>2, Moved DEF RegistryInv
  <2>8. Held(c)'
    BY <2>3, <2>6, <2>7, HoldingTool
  <2> QED BY <2>4, <2>5, <2>7, <2>8, OneCall
<1>6. CASE ToolSaved(c)
  <2>1. PICK id, spec : id = call[c].id /\ spec = call[c].rec
    OBVIOUS
  <2>2. /\ call[c].at = "SaveTool" /\ UNCHANGED <<calls, aborts>>
        /\ SaveTool(id, spec) /\ Return(c) /\ UNCHANGED <<everEnabled, crowded>>
        /\ made' = IF /\ db.tools[id] # NoRecord
                      /\ db.tools[id].implementation = spec.implementation
                      /\ db.tools[id].operation = spec.operation
                   THEN made ELSE [made EXCEPT ![id] = NoId]
    BY <1>6, <2>1 DEF ToolSaved, Continue, GetTool
  <2>3. id \in ToolIds /\ spec \in Tool /\ ValidateTool(spec) /\ Runnable(spec)
    BY <2>1, <2>2 DEF RegistryInv, Held, HoldsTool
  <2>4. TablesInv' /\ Grows /\ db'.operations = db.operations
    BY <2>2, <2>3, ToolFits DEF RegistryInv
  <2>5. db'.tools = [db.tools EXCEPT ![id] = spec]
    BY <2>2, OneTable, KindsAre DEF SaveTool, RegistryInv, TablesInv, Saves, Kinds
  <2>6. MadeInv'
    BY <2>2, <2>3, <2>4, <2>5, AreRows DEF MadeInv, RegistryInv, TablesInv, ToolsInv
  <2> QED BY <2>2, <2>4, <2>6, SavedKept
<1> QED BY <1>1, <1>2, <1>3, <1>4, <1>5, <1>6 DEF ToolRoutes

\* The workflow a call goes on with is one that may be stored.
LEMMA WorkflowRoutesKept ==
    ASSUME RegistryInv, NEW c \in Clients, WorkflowRoutes(c)
    PROVE  RegistryInv'
<1>0. \A w \in Stored(db.workflows) : w \in WorkflowIds /\ WorkflowRow(db.workflows[w])
  BY DEF Stored, RegistryInv, TablesInv, WorkflowsInv
<1>1. CASE CreateWorkflow(c)
  <2>1. PICK id \in WorkflowIds, body \in WorkflowSpecs :
          /\ ValidateWorkflow(ApplyWorkflowDefaults(body, NoRecord)) /\ Called(c)
          /\ SaveWorkflow(id, ApplyWorkflowDefaults(body, NoRecord))
          /\ UNCHANGED <<call, made, crowded>>
    BY <1>1 DEF CreateWorkflow
  <2>2. WorkflowRow(ApplyWorkflowDefaults(body, NoRecord))
    BY <2>1, WorkflowDefaults, RegistryAssumption
  <2>3. TablesInv' /\ Grows /\ db'.tools = db.tools
    BY <2>1, <2>2, WorkflowFits DEF RegistryInv
  <2>4. MadeInv'
    BY <2>1, <2>3, MadeKept DEF RegistryInv
  <2> QED BY <2>1, <2>3, <2>4, CreatedKept
<1>2. CASE UpdateWorkflow(c)
  <2>1. PICK id \in Stored(db.workflows), body \in WorkflowSpecs :
          /\ ValidateWorkflow(ApplyWorkflowDefaults(body, db.workflows[id]))
          /\ Begin(c, "SaveWorkflow", id, ApplyWorkflowDefaults(body, db.workflows[id]), {})
    BY <1>2 DEF UpdateWorkflow, GetWorkflow
  <2>2. WorkflowRow(ApplyWorkflowDefaults(body, db.workflows[id]))
    BY <1>0, <2>1, WorkflowDefaults, RegistryAssumption
  <2> QED BY <1>0, <2>1, <2>2, BeginKept, HoldingWorkflow
<1>3. CASE SetWorkflowStatus(c)
  <2>1. PICK id \in Stored(db.workflows), status \in Transition :
          /\ ValidateWorkflow(ApplyWorkflowDefaults([db.workflows[id] EXCEPT !.status = status], NoRecord))
          /\ \E at \in {"SaveWorkflow", "CheckBindings"} : \E todo :
                Begin(c, at, id,
                      ApplyWorkflowDefaults([db.workflows[id] EXCEPT !.status = status], NoRecord), todo)
    BY <1>3 DEF SetWorkflowStatus, GetWorkflow
  <2>2. PICK at \in {"SaveWorkflow", "CheckBindings"} : \E todo :
          Begin(c, at, id,
                ApplyWorkflowDefaults([db.workflows[id] EXCEPT !.status = status], NoRecord), todo)
    BY <2>1
  <2>3. PICK todo :
          Begin(c, at, id,
                ApplyWorkflowDefaults([db.workflows[id] EXCEPT !.status = status], NoRecord), todo)
    BY <2>2
  <2>4. PICK spec : spec = [db.workflows[id] EXCEPT !.status = status]
    OBVIOUS
  <2>5. /\ DOMAIN spec = {"status", "profile", "graph"}
        /\ spec.graph \in Graphs /\ WithStart(spec.graph, StartStep) = spec.graph
    BY <1>0, <2>4 DEF WorkflowRow, Workflow
  <2>6. WorkflowRow(ApplyWorkflowDefaults(spec, NoRecord))
    BY <2>1, <2>4, <2>5, WorkflowDefaults
  <2> QED BY <1>0, <2>4, <2>6, <2>3, BeginKept, HoldingWorkflow, HoldingWorkflowUnchecked
<1>4. CASE CheckBinding(c)
  <2>1. PICK id, spec : id = call[c].id /\ spec = call[c].rec
    OBVIOUS
  <2>2. /\ call[c].at = "CheckBindings" /\ UNCHANGED <<db, history, calls, aborts>>
        /\ \/ Return(c)
           \/ \E todo : Then(c, "SaveWorkflow", id, spec, todo)
           \/ \E todo : Then(c, "CheckBindings", id, spec, todo)
    BY <1>4, <2>1 DEF CheckBinding, Continue
  <2>3. id \in WorkflowIds /\ WorkflowRow(spec)
    BY <2>1, <2>2 DEF RegistryInv, Held, HoldsRow
  <2> QED BY <2>2, <2>3, ReadKept, HoldingWorkflow, HoldingWorkflowUnchecked
<1>5. CASE WorkflowSaved(c)
  <2>1. /\ call[c].at = "SaveWorkflow" /\ UNCHANGED <<calls, aborts>>
        /\ SaveWorkflow(call[c].id, call[c].rec) /\ Return(c) /\ UNCHANGED <<made, crowded>>
    BY <1>5 DEF WorkflowSaved, Continue
  <2>2. call[c].id \in WorkflowIds /\ WorkflowRow(call[c].rec)
    BY <2>1 DEF RegistryInv, Held, HoldsRow
  <2>3. TablesInv' /\ Grows /\ db'.tools = db.tools
    BY <2>1, <2>2, WorkflowFits DEF RegistryInv
  <2>4. MadeInv'
    BY <2>1, <2>3, MadeKept DEF RegistryInv
  <2> QED BY <2>1, <2>3, <2>4, SavedKept
<1> QED BY <1>1, <1>2, <1>3, <1>4, <1>5 DEF WorkflowRoutes

-----------------------------------------------------------------------------
(* Graphs: what lies k edges from a node.                                  *)

EndsOf(edges, S) == {e[2] : e \in {e \in edges : e[1] \in S}}

\* What the loop of After makes of a function of its rounds.
Ends(edges, n, k, f) == [i \in 0..k |-> IF i = 0 THEN {n} ELSE EndsOf(edges, f[i - 1])]

LEMMA EndsExist ==
    ASSUME NEW edges, NEW n, NEW k \in Nat
    PROVE  \E f : f = Ends(edges, n, k, f)
<1> DEFINE T == SUBSET ({n} \cup {e[2] : e \in edges})
           step == [i \in 1..k |-> [t \in T |-> EndsOf(edges, t)]]
<1>1. \A t \in T : EndsOf(edges, t) \in T
  BY DEF EndsOf
<1>2. {n} \in T
  OBVIOUS
<1> HIDE DEF T
<1>3. step \in Rounds(k, T) /\ \A i \in 1..k, t \in T : step[i][t] = EndsOf(edges, t)
  BY <1>1 DEF Rounds
<1> HIDE DEF step
<1>4. PICK f : Iterates(f, k, T, {n}, step)
  BY <1>2, <1>3, IterationExists
<1>5. \A i \in 1..k : f[i] = EndsOf(edges, f[i - 1])
  <2>1. \A i \in 1..k : i - 1 \in 0..k
    OBVIOUS
  <2> QED BY <1>3, <1>4, <2>1 DEF Iterates
<1>6. f = Ends(edges, n, k, f)
  BY <1>4, <1>5 DEF Iterates, Ends
<1> QED BY <1>6

LEMMA AfterIs ==
    ASSUME NEW edges, NEW n, NEW k \in Nat
    PROVE  \E f : f = Ends(edges, n, k, f) /\ After(edges, n, k) = f[k]
<1>1. PICK f : f = CHOOSE g : g = Ends(edges, n, k, g)
  OBVIOUS
<1>2. f = Ends(edges, n, k, f)
  BY <1>1, EndsExist
<1>3. After(edges, n, k) = f[k]
  BY <1>1, Zenon DEF After, Ends, EndsOf
<1> QED BY <1>2, <1>3

\* One edge more leads to the ends of the edges from there.
LEMMA AfterOneMore ==
    ASSUME NEW edges, NEW n, NEW k \in Nat
    PROVE  After(edges, n, k + 1) = EndsOf(edges, After(edges, n, k))
<1>1. PICK f : f = Ends(edges, n, k, f) /\ After(edges, n, k) = f[k]
  BY AfterIs
<1>2. k + 1 \in Nat
  OBVIOUS
<1>3. PICK g : g = Ends(edges, n, k + 1, g) /\ After(edges, n, k + 1) = g[k + 1]
  BY <1>2, AfterIs
<1> DEFINE S == {i \in 0..k : f[i] = g[i]}
<1>4. 0 \in S
  <2>1. 0 \in 0..k /\ 0 \in 0..(k + 1)
    OBVIOUS
  <2> QED BY <1>1, <1>3, <2>1 DEF Ends
<1>5. ASSUME NEW i \in 1..k, i - 1 \in S
      PROVE  i \in S
  <2>1. i \in 0..k /\ i \in 0..(k + 1) /\ i # 0 /\ f[i - 1] = g[i - 1]
    BY <1>5
  <2>2. f[i] = EndsOf(edges, f[i - 1]) /\ g[i] = EndsOf(edges, g[i - 1])
    BY <1>1, <1>3, <2>1 DEF Ends
  <2> QED BY <2>1, <2>2
<1> HIDE DEF S
<1>6. k \in S
  BY <1>4, <1>5, Reaches
<1>7. g[k + 1] = EndsOf(edges, g[k])
  <2>1. k + 1 \in 0..(k + 1) /\ k + 1 # 0 /\ (k + 1) - 1 = k
    OBVIOUS
  <2> QED BY <1>3, <2>1 DEF Ends
<1> QED BY <1>1, <1>3, <1>6, <1>7 DEF S

LEMMA AfterNone ==
    ASSUME NEW edges, NEW n
    PROVE  After(edges, n, 0) = {n}
<1>1. PICK f : f = Ends(edges, n, 0, f) /\ After(edges, n, 0) = f[0]
  BY AfterIs
<1>2. 0 \in 0..0
  OBVIOUS
<1> QED BY <1>1, <1>2 DEF Ends

\* What lies k + 1 edges away lies k edges from the end of the first.
LEMMA AfterFirst ==
    ASSUME NEW edges, NEW n, NEW k \in Nat, NEW m \in After(edges, n, k + 1)
    PROVE  \E c \in EndsOf(edges, {n}) : m \in After(edges, c, k)
<1> DEFINE Near(i) == \A x \in After(edges, n, i + 1) :
                         \E c \in EndsOf(edges, {n}) : x \in After(edges, c, i)
           S == {i \in 0..k : Near(i)}
<1>1. 0 \in S
  <2>1. After(edges, n, 0 + 1) = EndsOf(edges, {n})
    <3>1. 0 \in Nat
      OBVIOUS
    <3>2. After(edges, n, 0 + 1) = EndsOf(edges, After(edges, n, 0))
      BY <3>1, AfterOneMore
    <3> QED BY <3>2, AfterNone
  <2>2. \A c : c \in After(edges, c, 0)
    BY AfterNone
  <2> QED BY <2>1, <2>2
<1>2. ASSUME NEW i \in 1..k, i - 1 \in S
      PROVE  i \in S
  <2>1. PICK j : j = i - 1
    OBVIOUS
  <2>2. j \in Nat /\ i = j + 1 /\ i \in Nat /\ Near(j)
    BY <1>2, <2>1
  <2>3. ASSUME NEW x \in After(edges, n, i + 1)
        PROVE  \E c \in EndsOf(edges, {n}) : x \in After(edges, c, i)
    <3>1. After(edges, n, i + 1) = EndsOf(edges, After(edges, n, i))
      BY <2>2, AfterOneMore
    <3>2. PICK e \in edges : e[1] \in After(edges, n, i) /\ x = e[2]
      BY <2>3, <3>1 DEF EndsOf
    <3>3. PICK c \in EndsOf(edges, {n}) : e[1] \in After(edges, c, j)
      BY <2>2, <3>2
    <3>4. After(edges, c, i) = EndsOf(edges, After(edges, c, j))
      BY <2>2, AfterOneMore
    <3>5. x \in After(edges, c, i)
      BY <3>2, <3>3, <3>4 DEF EndsOf
    <3> QED BY <3>3, <3>5
  <2> QED BY <2>3
<1>3. k \in S
  <2> HIDE DEF S
  <2> QED BY <1>1, <1>2, Reaches
<1> QED BY <1>3

-----------------------------------------------------------------------------
(* The depth of a graph.                                                   *)

LEMMA MaxIsGreatest ==
    ASSUME NEW S, NEW n \in Nat, S \in SUBSET (0..n), S # {}
    PROVE  Max(S) \in S /\ \A k \in S : k <= Max(S)
<1>1. PICK m \in S : \A k \in S : k <= m
  BY GreatestNumber
<1>2. m \in S /\ \A k \in S : m >= k
  BY <1>1
<1>3. PICK x : x = CHOOSE z \in S : \A k \in S : z >= k
  OBVIOUS
<1>4. x \in S /\ \A k \in S : x >= k
  BY <1>2, <1>3, Zenon
<1>5. Max(S) = x
  BY <1>3, Zenon DEF Max
<1>6. x \in Int /\ \A k \in S : k \in Int
  BY <1>4
<1>7. \A k \in S : k <= x
  BY <1>4, <1>6
<1> QED BY <1>4, <1>5, <1>7

\* What a node is worth when its children are worth what t says.
Worth(graph, v, n, t) ==
    IF n \in v THEN MaxGraphDepth + 1
    ELSE Max({0} \cup {1 + t[v \cup {n}][c] : c \in Children(graph, n)})

\* What AgentGraphDepth makes of a table of depths.
Depths(graph, nodes, t) == [v \in SUBSET nodes |-> [n \in nodes |-> Worth(graph, v, n, t)]]

\* The depths the recursion arrives at.
Settled(graph, nodes, t) == t = Depths(graph, nodes, t)

\* A depth is no more than one too long, and the nodes that are not being visited.
DepthTables(nodes) ==
    {t \in [SUBSET nodes -> [nodes -> Nat]] :
       \A v \in SUBSET nodes : \A n \in nodes :
         t[v][n] <= MaxGraphDepth + 1 + Cardinality(nodes \ v)}

GraphOver(graph, nodes) ==
    IsFiniteSet(nodes) /\ \A n \in nodes : Children(graph, n) \subseteq nodes

LEMMA Visiting ==
    ASSUME NEW nodes, IsFiniteSet(nodes), NEW v \in SUBSET nodes, NEW n \in nodes \ v
    PROVE  /\ v \cup {n} \in SUBSET nodes
           /\ Cardinality(nodes \ v) \in Nat
           /\ Cardinality(nodes \ (v \cup {n})) \in Nat
           /\ Cardinality(nodes \ (v \cup {n})) = Cardinality(nodes \ v) - 1
<1>1. nodes \ (v \cup {n}) = (nodes \ v) \ {n} /\ nodes \ v \in SUBSET nodes
  OBVIOUS
<1>2. IsFiniteSet(nodes \ v)
  BY <1>1, FS_Subset
<1>3. IsFiniteSet((nodes \ v) \ {n}) /\ Cardinality((nodes \ v) \ {n}) = Cardinality(nodes \ v) - 1
  BY <1>2, FS_RemoveElement
<1> QED BY <1>1, <1>2, <1>3, FS_CardinalityType

\* The depths of the children of a node that is not being visited.
LEMMA ChildDepths ==
    ASSUME NEW graph, NEW nodes, GraphOver(graph, nodes), NEW t \in DepthTables(nodes),
           NEW v \in SUBSET nodes, NEW n \in nodes \ v
    PROVE  /\ Worth(graph, v, n, t) \in 0..(MaxGraphDepth + 1 + Cardinality(nodes \ v))
           /\ \A c \in Children(graph, n) : 1 + t[v \cup {n}][c] <= Worth(graph, v, n, t)
<1>1. PICK k, j, w : /\ k = Cardinality(nodes \ v) /\ w = v \cup {n}
                    /\ j = Cardinality(nodes \ w)
  OBVIOUS
<1>2. w \in SUBSET nodes /\ k \in Nat /\ j \in Nat /\ j = k - 1
  BY <1>1, Visiting DEF GraphOver
<1>3. \A c \in Children(graph, n) : t[w][c] \in Nat /\ t[w][c] <= MaxGraphDepth + 1 + j
  BY <1>1, <1>2 DEF GraphOver, DepthTables
<1>4. PICK S : S = {0} \cup {1 + t[w][c] : c \in Children(graph, n)}
  OBVIOUS
<1>5. PICK b : b = MaxGraphDepth + 1 + k
  OBVIOUS
<1>6. b \in Nat /\ b = MaxGraphDepth + 1 + j + 1
  BY <1>2, <1>5, RegistryDataAssumption
<1>7. \A c \in Children(graph, n) : 1 + t[w][c] \in 0..b
  BY <1>2, <1>3, <1>6, RegistryDataAssumption
<1>8. S \in SUBSET (0..b) /\ S # {}
  BY <1>4, <1>6, <1>7
<1>9. Max(S) \in S /\ \A d \in S : d <= Max(S)
  BY <1>6, <1>8, MaxIsGreatest
<1>10. Worth(graph, v, n, t) = Max(S)
  BY <1>1, <1>4 DEF Worth
<1> QED BY <1>1, <1>4, <1>5, <1>8, <1>9, <1>10

LEMMA DepthsTyped ==
    ASSUME NEW graph, NEW nodes, GraphOver(graph, nodes), NEW t \in DepthTables(nodes)
    PROVE  Depths(graph, nodes, t) \in DepthTables(nodes)
<1>1. ASSUME NEW v \in SUBSET nodes, NEW n \in nodes
      PROVE  Worth(graph, v, n, t) \in 0..(MaxGraphDepth + 1 + Cardinality(nodes \ v))
  <2>1. CASE n \in v
    <3>1. IsFiniteSet(nodes \ v)
      BY FS_Subset DEF GraphOver
    <3>2. Cardinality(nodes \ v) \in Nat
      BY <3>1, FS_CardinalityType
    <3> QED BY <2>1, <3>2, RegistryDataAssumption DEF Worth
  <2>2. CASE n \notin v
    BY <2>2, ChildDepths
  <2> QED BY <2>1, <2>2
<1>2. ASSUME NEW v \in SUBSET nodes, NEW n \in nodes
      PROVE  /\ Worth(graph, v, n, t) \in Nat
             /\ Worth(graph, v, n, t) <= MaxGraphDepth + 1 + Cardinality(nodes \ v)
  BY <1>1
<1> QED BY <1>2 DEF Depths, DepthTables

\* A node's depth is settled by the depths of its children.
LEMMA WorthSame ==
    ASSUME NEW graph, NEW v, NEW n, NEW t, NEW u, n \notin v => t[v \cup {n}] = u[v \cup {n}]
    PROVE  Worth(graph, v, n, t) = Worth(graph, v, n, u)
<1>1. CASE n \in v
  BY <1>1 DEF Worth
<1>2. CASE n \notin v
  <2>1. PICK w : w = v \cup {n}
    OBVIOUS
  <2>2. {1 + t[w][c] : c \in Children(graph, n)} = {1 + u[w][c] : c \in Children(graph, n)}
    BY <1>2, <2>1
  <2> QED BY <1>2, <2>1, <2>2 DEF Worth
<1> QED BY <1>1, <1>2

\* The fewer nodes are left to visit, the earlier the depths are settled: the recursion ends.
LEMMA DepthsExist ==
    ASSUME NEW graph, NEW nodes, GraphOver(graph, nodes)
    PROVE  \E t \in DepthTables(nodes) : Settled(graph, nodes, t)
<1>1. PICK N : N = Cardinality(nodes) + 1
  OBVIOUS
<1>2. N \in Nat /\ Cardinality(nodes) \in Nat
  BY <1>1, FS_CardinalityType DEF GraphOver
<1> DEFINE T == DepthTables(nodes)
           base == [v \in SUBSET nodes |-> [n \in nodes |-> 0]]
           step == [i \in 1..N |-> [t \in T |-> Depths(graph, nodes, t)]]
<1>3. \A v \in SUBSET nodes : Cardinality(nodes \ v) \in Nat /\ Cardinality(nodes \ v) < N
  <2> TAKE v \in SUBSET nodes
  <2>1. IsFiniteSet(nodes \ v) /\ Cardinality(nodes \ v) <= Cardinality(nodes)
    BY FS_Subset DEF GraphOver
  <2>2. Cardinality(nodes \ v) \in Nat
    BY <2>1, FS_CardinalityType
  <2> QED BY <1>1, <1>2, <2>1, <2>2
<1>4. base \in T
  <2>1. base \in [SUBSET nodes -> [nodes -> Nat]]
    OBVIOUS
  <2>2. \A v \in SUBSET nodes : \A n \in nodes : base[v][n] = 0
    OBVIOUS
  <2>3. \A v \in SUBSET nodes : 0 <= MaxGraphDepth + 1 + Cardinality(nodes \ v)
    BY <1>3, RegistryDataAssumption
  <2> HIDE DEF base
  <2> QED BY <2>1, <2>2, <2>3 DEF DepthTables
<1>5. \A t \in T : Depths(graph, nodes, t) \in T
  BY DepthsTyped
<1> HIDE DEF T, base
<1>6. step \in Rounds(N, T) /\ \A i \in 1..N, t \in T : step[i][t] = Depths(graph, nodes, t)
  BY <1>5 DEF Rounds
<1> HIDE DEF step
<1>7. PICK f : Iterates(f, N, T, base, step)
  BY <1>2, <1>4, <1>6, IterationExists
<1>8. \A i \in 0..N : f[i] \in T
  BY <1>7 DEF Iterates
<1> DEFINE Stable(i) == \A v \in SUBSET nodes :
                           Cardinality(nodes \ v) < i => f[i][v] = Depths(graph, nodes, f[i])[v]
           S == {i \in 0..N : Stable(i)}
<1>9. 0 \in S
  BY <1>2, <1>3
<1>10. ASSUME NEW i \in 1..N, i - 1 \in S
       PROVE  i \in S
  <2>1. PICK t, u : t = f[i - 1] /\ u = f[i]
    OBVIOUS
  <2>2. i - 1 \in 0..N /\ i \in 0..N /\ t \in T /\ u \in T
    BY <1>2, <1>8, <1>10, <2>1
  <2>3. u = Depths(graph, nodes, t)
    BY <1>6, <1>7, <2>1, <2>2 DEF Iterates
  <2>4. ASSUME NEW v \in SUBSET nodes, Cardinality(nodes \ v) < i
        PROVE  u[v] = Depths(graph, nodes, u)[v]
    <3>1. ASSUME NEW n \in nodes
          PROVE  Worth(graph, v, n, t) = Worth(graph, v, n, u)
      <4>1. CASE n \in v
        BY <4>1, WorthSame
      <4>2. CASE n \notin v
        <5>1. PICK w : w = v \cup {n}
          OBVIOUS
        <5>2. w \in SUBSET nodes /\ Cardinality(nodes \ w) = Cardinality(nodes \ v) - 1
          BY <4>2, <5>1, Visiting DEF GraphOver
        <5>3. Cardinality(nodes \ w) < i - 1
          BY <1>3, <2>4, <5>2
        <5>4. t[w] = Depths(graph, nodes, t)[w]
          BY <1>10, <2>1, <5>2, <5>3
        <5> QED BY <2>3, <5>1, <5>4, WorthSame
      <4> QED BY <4>1, <4>2
    <3> QED BY <2>3, <3>1 DEF Depths
  <2>5. Stable(i)
    BY <2>1, <2>4
  <2> QED BY <2>2, <2>5
<1>11. N \in S
  <2> HIDE DEF S
  <2> QED BY <1>2, <1>9, <1>10, Reaches
<1>12. PICK t : t = f[N]
  OBVIOUS
<1>13. t \in T /\ \A v \in SUBSET nodes : t[v] = Depths(graph, nodes, t)[v]
  BY <1>2, <1>3, <1>8, <1>11, <1>12
<1>14. t = Depths(graph, nodes, t)
  BY <1>13 DEF T, DepthTables, Depths
<1> QED BY <1>13, <1>14 DEF T, Settled

\* No path of k edges leads on from a node that is worth less.
LEMMA WorthItsPaths ==
    ASSUME NEW graph, NEW nodes, GraphOver(graph, nodes),
           NEW t \in DepthTables(nodes), Settled(graph, nodes, t),
           NEW below, below = {e \in graph.edges : e[1] # graph.entry},
           NEW k \in 0..(MaxGraphDepth + 1), NEW n \in nodes, After(below, n, k) # {}
    PROVE  \A v \in SUBSET nodes : k <= t[v][n]
<1> DEFINE Deep(i) == \A m \in nodes : After(below, m, i) # {} =>
                        \A v \in SUBSET nodes : i <= t[v][m]
           S == {i \in 0..k : Deep(i)}
<1>1. \A v \in SUBSET nodes, m \in nodes : t[v][m] \in Nat /\ t[v][m] = Worth(graph, v, m, t)
  BY DEF DepthTables, Depths, Settled
<1>2. 0 \in S
  BY <1>1
<1>3. ASSUME NEW i \in 1..k, i - 1 \in S
      PROVE  i \in S
  <2>1. PICK j : j = i - 1
    OBVIOUS
  <2>2. j \in Nat /\ i = j + 1 /\ i <= MaxGraphDepth + 1 /\ Deep(j)
    BY <1>3, <2>1, RegistryDataAssumption
  <2>3. ASSUME NEW m \in nodes, After(below, m, i) # {}, NEW v \in SUBSET nodes
        PROVE  i <= t[v][m]
    <3>1. CASE m \in v
      BY <1>1, <2>2, <3>1 DEF Worth
    <3>2. CASE m \notin v
      <4>1. PICK c \in EndsOf(below, {m}) : After(below, c, j) # {}
        BY <2>2, <2>3, AfterFirst
      <4>2. c \in Children(graph, m) /\ c \in nodes
        BY <4>1 DEF EndsOf, Children, GraphOver
      <4>3. PICK w : w = v \cup {m}
        OBVIOUS
      <4>4. w \in SUBSET nodes
        BY <4>3
      <4>5. j <= t[w][c]
        BY <2>2, <4>1, <4>2, <4>4
      <4>6. 1 + t[w][c] <= Worth(graph, v, m, t)
        BY <3>2, <4>2, <4>3, ChildDepths
      <4>7. t[w][c] \in Nat /\ t[v][m] \in Nat /\ t[v][m] = Worth(graph, v, m, t)
        BY <1>1, <4>2, <4>4
      <4> QED BY <2>2, <4>5, <4>6, <4>7
    <3> QED BY <3>1, <3>2
  <2>4. Deep(i)
    BY <2>3
  <2> QED BY <2>4
<1>4. k \in S
  <2>1. k \in Nat
    BY RegistryDataAssumption
  <2> HIDE DEF S
  <2> QED BY <1>2, <1>3, <2>1, Reaches
<1> QED BY <1>4

\* The recursion has one result.
LEMMA DepthsUnique ==
    ASSUME NEW graph, NEW nodes, GraphOver(graph, nodes), NEW t, Settled(graph, nodes, t),
           NEW u, Settled(graph, nodes, u)
    PROVE  t = u
<1>1. PICK N : N = Cardinality(nodes)
  OBVIOUS
<1>2. N \in Nat
  BY <1>1, FS_CardinalityType DEF GraphOver
<1> DEFINE Same(i) == \A v \in SUBSET nodes : Cardinality(nodes \ v) <= i => t[v] = u[v]
           S == {i \in 0..N : Same(i)}
<1>3. ASSUME NEW v \in SUBSET nodes, \A n \in nodes \ v : t[v \cup {n}] = u[v \cup {n}]
      PROVE  t[v] = u[v]
  <2>1. \A n \in nodes : Worth(graph, v, n, t) = Worth(graph, v, n, u)
    BY <1>3, WorthSame
  <2>2. t[v] = [n \in nodes |-> Worth(graph, v, n, t)]
    BY DEF Depths, Settled
  <2>3. u[v] = [n \in nodes |-> Worth(graph, v, n, u)]
    BY DEF Depths, Settled
  <2> QED BY <2>1, <2>2, <2>3
<1>4. \A v \in SUBSET nodes : IsFiniteSet(nodes \ v) /\ Cardinality(nodes \ v) \in 0..N
  <2> TAKE v \in SUBSET nodes
  <2>1. IsFiniteSet(nodes \ v) /\ Cardinality(nodes \ v) <= N
    BY <1>1, FS_Subset DEF GraphOver
  <2> QED BY <1>2, <2>1, FS_CardinalityType
<1>5. 0 \in S
  <2>1. ASSUME NEW v \in SUBSET nodes, Cardinality(nodes \ v) <= 0
        PROVE  t[v] = u[v]
    <3>1. nodes \ v = {}
      BY <1>4, <2>1, FS_EmptySet
    <3> QED BY <1>3, <3>1
  <2> QED BY <1>2, <2>1
<1>6. ASSUME NEW i \in 1..N, i - 1 \in S
      PROVE  i \in S
  <2>1. ASSUME NEW v \in SUBSET nodes, Cardinality(nodes \ v) <= i
        PROVE  t[v] = u[v]
    <3>1. ASSUME NEW n \in nodes \ v
          PROVE  t[v \cup {n}] = u[v \cup {n}]
      <4>1. PICK w : w = v \cup {n}
        OBVIOUS
      <4>2. w \in SUBSET nodes /\ Cardinality(nodes \ w) = Cardinality(nodes \ v) - 1
        BY <4>1, Visiting DEF GraphOver
      <4>3. Cardinality(nodes \ w) <= i - 1
        BY <1>4, <2>1, <4>2
      <4> QED BY <1>6, <4>1, <4>2, <4>3
    <3> QED BY <1>3, <3>1
  <2> QED BY <2>1
<1>7. N \in S
  <2> HIDE DEF S
  <2> QED BY <1>2, <1>5, <1>6, Reaches
<1>8. \A v \in SUBSET nodes : t[v] = u[v]
  <2> TAKE v \in SUBSET nodes
  <2>1. Cardinality(nodes \ v) <= N
    BY <1>2, <1>4
  <2> QED BY <1>7, <2>1
<1> QED BY <1>8 DEF Depths, Settled

\* What AgentGraphDepth returns: the depth of the supervisor's node.
LEMMA DepthIs ==
    ASSUME NEW graph, IsFiniteSet(graph.edges), NEW node, node = SupervisorNode(graph), node # NoId
    PROVE  \E nodes : \E t \in DepthTables(nodes) :
             /\ GraphOver(graph, nodes) /\ node \in nodes /\ Settled(graph, nodes, t)
             /\ AgentGraphDepth(graph) = t[{}][node]
<1>1. PICK nodes : nodes = {node} \cup {e[2] : e \in graph.edges}
  OBVIOUS
<1>2. GraphOver(graph, nodes)
  <2> DEFINE tips == {e[2] : e \in graph.edges}
             tip == [e \in graph.edges |-> e[2]]
  <2>1. tip \in Surjection(graph.edges, tips)
    BY DEF Surjection
  <2>2. IsFiniteSet(tips)
    <3> HIDE DEF tip, tips
    <3> QED BY <2>1, FS_Surjection
  <2>3. IsFiniteSet({node})
    BY FS_Singleton
  <2>4. IsFiniteSet({node} \cup tips)
    <3> HIDE DEF tips
    <3> QED BY <2>2, <2>3, FS_Union
  <2>5. \A n \in nodes : Children(graph, n) \subseteq nodes
    BY <1>1 DEF Children
  <2> QED BY <1>1, <2>4, <2>5 DEF GraphOver
<1>3. PICK u \in DepthTables(nodes) : Settled(graph, nodes, u)
  BY <1>2, DepthsExist
<1>4. PICK t : t = CHOOSE z : Settled(graph, nodes, z)
  OBVIOUS
<1>5. Settled(graph, nodes, t)
  BY <1>3, <1>4
<1>6. AgentGraphDepth(graph) = t[{}][node]
  <2>1. AgentGraphDepth(graph) = (CHOOSE z : Settled(graph, nodes, z))[{}][node]
    BY <1>1, Zenon DEF AgentGraphDepth, Settled, Depths, Worth
  <2> QED BY <1>4, <2>1
<1>7. t = u
  BY <1>2, <1>3, <1>5, DepthsUnique
<1> QED BY <1>1, <1>2, <1>3, <1>5, <1>6, <1>7

\* No path below the supervisor is longer than the depth, up to one too long.
LEMMA PathsWithinDepth ==
    ASSUME NEW graph, IsFiniteSet(graph.edges), NEW node, node = SupervisorNode(graph), node # NoId
    PROVE  /\ AgentGraphDepth(graph) \in Nat
           /\ AgentGraphDepth(graph) <= MaxGraphDepth =>
                After({e \in graph.edges : e[1] # graph.entry}, node, MaxGraphDepth + 1) = {}
<1>1. PICK nodes : \E t \in DepthTables(nodes) :
             /\ GraphOver(graph, nodes) /\ node \in nodes /\ Settled(graph, nodes, t)
             /\ AgentGraphDepth(graph) = t[{}][node]
  BY DepthIs
<1>2. PICK t \in DepthTables(nodes) :
             /\ GraphOver(graph, nodes) /\ node \in nodes /\ Settled(graph, nodes, t)
             /\ AgentGraphDepth(graph) = t[{}][node]
  BY <1>1
<1>3. {} \in SUBSET nodes
  OBVIOUS
<1>4. PICK d : d = t[{}][node]
  OBVIOUS
<1>5. d \in Nat
  BY <1>2, <1>3, <1>4 DEF DepthTables
<1>6. PICK below, k : below = {e \in graph.edges : e[1] # graph.entry} /\ k = MaxGraphDepth + 1
  OBVIOUS
<1>7. k \in 0..(MaxGraphDepth + 1)
  BY <1>6, RegistryDataAssumption
<1>8. After(below, node, k) # {} => k <= d
  BY <1>2, <1>3, <1>4, <1>6, <1>7, WorthItsPaths
<1>9. d <= MaxGraphDepth => ~(k <= d)
  BY <1>5, <1>6, RegistryDataAssumption
<1> QED BY <1>2, <1>4, <1>5, <1>6, <1>8, <1>9

LEMMA MaxOfTwo ==
    ASSUME NEW a \in Int, NEW b \in Int
    PROVE  Max({a, b}) \in {a, b} /\ a <= Max({a, b}) /\ b <= Max({a, b})
<1>1. PICK x : x = CHOOSE z \in {a, b} : \A k \in {a, b} : z >= k
  OBVIOUS
<1>2. \E z \in {a, b} : \A k \in {a, b} : z >= k
  OBVIOUS
<1>3. x \in {a, b} /\ \A k \in {a, b} : x >= k
  BY <1>1, <1>2, Zenon
<1>4. Max({a, b}) = x
  BY <1>1, Zenon DEF Max
<1> QED BY <1>3, <1>4

-----------------------------------------------------------------------------
(* Agent flows.                                                            *)

\* A flow gets its defaults and a graph with a start, and stays a flow.
LEMMA FlowDefaults ==
    ASSUME NEW spec, IsAgentFlow(spec), NEW fallback, fallback = NoRecord \/ IsAgentFlow(fallback)
    PROVE  LET flow == ApplyAgentFlowDefaults(spec, fallback)
           IN  IsAgentFlow(flow) /\ flow.graph.entry \in DOMAIN flow.graph.nodes
<1>1. PICK flow, graph :
        /\ flow = ApplyAgentFlowDefaults(spec, fallback)
        /\ graph = InheritGraph(spec.graph, fallback)
  OBVIOUS
<1>2. DOMAIN flow = DOMAIN spec /\ flow.graph = WithStart(graph, StartNode)
  BY <1>1 DEF ApplyAgentFlowDefaults, IsAgentFlow
<1>3. /\ graph.entry \in NodeIds \cup {NoId} /\ DOMAIN graph.nodes \subseteq NodeIds
      /\ \A n \in DOMAIN graph.nodes : graph.nodes[n] \in FlowNode
      /\ IsFiniteSet(graph.edges)
  BY <1>1 DEF InheritGraph, IsAgentFlow
<1>4. PICK entry : entry = IF graph.entry = NoId THEN Start ELSE graph.entry
  OBVIOUS
<1>5. /\ flow.graph.entry = entry /\ DOMAIN flow.graph = {"entry", "nodes", "edges"}
      /\ flow.graph.edges = graph.edges
      /\ flow.graph.nodes = [n \in DOMAIN graph.nodes \cup {entry} |->
                               IF n \in DOMAIN graph.nodes THEN graph.nodes[n] ELSE StartNode]
  BY <1>2, <1>4 DEF WithStart
<1>6. entry \in NodeIds /\ StartNode \in FlowNode
  BY <1>3, <1>4, RegistryDataAssumption DEF StartNode, FlowNode, Row
<1>7. DOMAIN flow.graph.nodes \subseteq NodeIds /\ entry \in DOMAIN flow.graph.nodes
  BY <1>3, <1>5, <1>6
<1>8. \A n \in DOMAIN flow.graph.nodes : flow.graph.nodes[n] \in FlowNode
  BY <1>3, <1>5, <1>6
<1>9. flow.depth \in Int
  BY <1>1, RegistryDataAssumption
     DEF ApplyAgentFlowDefaults, ApplySupervisorDefaults, IsAgentFlow
<1>10. IsAgentFlow(flow) /\ flow.graph.entry \in DOMAIN flow.graph.nodes
  BY <1>2, <1>3, <1>5, <1>6, <1>7, <1>8, <1>9 DEF IsAgentFlow
<1> QED BY <1>1, <1>10

\* The agents of the flow are to be saved, all of them.
LEMMA MaterializeKept ==
    ASSUME RegistryInv, NEW c \in Clients, NEW id \in FlowIds, NEW spec, IsAgentFlow(spec),
           spec.graph.entry \in DOMAIN spec.graph.nodes, MaterializeLocalAgents(c, id, spec)
    PROVE  RegistryInv'
<1>1. Begin(c, "SaveLocalAgents", id, spec, LocalNodes(spec.graph))
  BY DEF MaterializeLocalAgents
<1>2. AgentsSaved(id, spec, LocalNodes(spec.graph))'
  BY DEF AgentsSaved
<1> QED BY <1>1, <1>2, BeginKept, HoldingFlow

\* A node that names its agent is the node it was.
WithAgent(spec, n, agent) == [spec EXCEPT !.graph.nodes[n].agent = agent]

LEMMA NodeNamed ==
    ASSUME NEW spec, IsAgentFlow(spec), NEW n \in LocalNodes(spec.graph), NEW agent \in AgentIds,
           NEW named, named = WithAgent(spec, n, agent)
    PROVE  /\ IsAgentFlow(named) /\ LocalNodes(named.graph) = LocalNodes(spec.graph)
           /\ named.graph.entry = spec.graph.entry
           /\ DOMAIN named.graph.nodes = DOMAIN spec.graph.nodes
           /\ named.graph.nodes[n].agent = agent
           /\ \A m \in DOMAIN spec.graph.nodes \ {n} : named.graph.nodes[m] = spec.graph.nodes[m]
<1>1. n \in DOMAIN spec.graph.nodes
  BY DEF LocalNodes
<1>2. PICK node : node = [spec.graph.nodes[n] EXCEPT !.agent = agent]
  OBVIOUS
<1>3. /\ DOMAIN named = DOMAIN spec /\ DOMAIN named.graph = DOMAIN spec.graph
      /\ named.depth = spec.depth /\ named.graph.edges = spec.graph.edges
      /\ named.graph.entry = spec.graph.entry
      /\ named.graph.nodes = [spec.graph.nodes EXCEPT ![n] = node]
  BY <1>1, <1>2 DEF IsAgentFlow, WithAgent
<1>4. /\ node \in FlowNode /\ node.agent = agent
      /\ HasLocalAgent(node) <=> HasLocalAgent(spec.graph.nodes[n])
  BY <1>1, <1>2 DEF IsAgentFlow, FlowNode, HasLocalAgent, IsAgentLike
<1>5. /\ DOMAIN named.graph.nodes = DOMAIN spec.graph.nodes /\ named.graph.nodes[n] = node
      /\ \A m \in DOMAIN spec.graph.nodes \ {n} : named.graph.nodes[m] = spec.graph.nodes[m]
  BY <1>1, <1>3
<1>6. LocalNodes(named.graph) = LocalNodes(spec.graph)
  BY <1>4, <1>5 DEF LocalNodes
<1>7. IsAgentFlow(named)
  BY <1>3, <1>4, <1>5 DEF IsAgentFlow
<1> QED BY <1>3, <1>4, <1>5, <1>6, <1>7

\* The supervisor's fields are computed from the graph, which stays.
LEMMA SupervisorNormalized ==
    ASSUME NEW spec, IsAgentFlow(spec)
    PROVE  LET flow == NormalizeSupervisor(spec) IN
           /\ IsAgentFlow(flow) /\ flow.graph = spec.graph
           /\ ValidateAgentFlow(flow) => Bounded(flow)
<1>1. PICK flow, graph, depth : /\ flow = NormalizeSupervisor(spec) /\ graph = spec.graph
                               /\ depth = AgentGraphDepth(graph)
  OBVIOUS
<1>2. IsFiniteSet(graph.edges) /\ DOMAIN graph.nodes \subseteq NodeIds
  BY <1>1 DEF IsAgentFlow
<1>3. depth \in Int
  <2>1. CASE SupervisorNode(graph) = NoId
    BY <1>1, <2>1 DEF AgentGraphDepth
  <2>2. CASE SupervisorNode(graph) # NoId
    BY <1>1, <1>2, <2>2, PathsWithinDepth
  <2> QED BY <2>1, <2>2
<1>4. DOMAIN flow = DOMAIN spec /\ flow.graph = graph /\ flow.mode = spec.mode
  BY <1>1 DEF NormalizeSupervisor, IsAgentFlow
<1>5. PICK max : max = Max({spec.depth, depth})
  OBVIOUS
<1>6. max \in Int /\ depth <= max
  BY <1>3, <1>5, MaxOfTwo DEF IsAgentFlow
<1>7. flow.depth = IF spec.mode = "supervisor" THEN max ELSE spec.depth
  BY <1>1, <1>5 DEF NormalizeSupervisor, IsAgentFlow
<1>8. IsAgentFlow(flow)
  BY <1>1, <1>4, <1>6, <1>7 DEF IsAgentFlow
<1>9. ASSUME ValidateAgentFlow(flow), flow.status = "enabled", flow.mode = "supervisor"
      PROVE  Bounded(flow)
  <2>1. ValidateSupervisor(flow)
    BY <1>9 DEF ValidateAgentFlow
  <2>2. depth <= MaxGraphDepth
    BY <1>3, <1>4, <1>6, <1>7, <1>9, <2>1, RegistryDataAssumption DEF ValidateSupervisor
  <2>3. PICK node : node = SupervisorNode(graph)
    OBVIOUS
  <2>4. flow.supervisor = IF node \in DOMAIN graph.nodes THEN graph.nodes[node].agent ELSE NoId
    BY <1>1, <1>4, <1>9, <2>3 DEF NormalizeSupervisor, IsAgentFlow
  <2>5. node # NoId
    BY <1>2, <2>1, <2>4, RegistryDataAssumption DEF ValidateSupervisor
  <2> QED BY <1>1, <1>2, <1>4, <2>2, <2>3, <2>5, PathsWithinDepth DEF Bounded
<1>10. ValidateAgentFlow(flow) => Bounded(flow)
  BY <1>9 DEF Bounded
<1> QED BY <1>1, <1>4, <1>8, <1>10

LEMMA AgentFlowRoutesKept ==
    ASSUME RegistryInv, NEW c \in Clients, AgentFlowRoutes(c)
    PROVE  RegistryInv'
<1>0. \A f \in Stored(db.flows) : f \in FlowIds /\ IsAgentFlow(db.flows[f])
  BY DEF Stored, RegistryInv, TablesInv, FlowsInv
<1>1. CASE CreateAgentFlow(c)
  <2>1. PICK id \in FlowIds, body \in FlowSpecs :
          MaterializeLocalAgents(c, id, ApplyAgentFlowDefaults(body, NoRecord))
    BY <1>1 DEF CreateAgentFlow
  <2> QED BY <2>1, FlowDefaults, MaterializeKept, RegistryAssumption
<1>2. CASE UpdateAgentFlow(c)
  <2>1. PICK id \in Stored(db.flows), body \in FlowSpecs :
          MaterializeLocalAgents(c, id, ApplyAgentFlowDefaults(body, db.flows[id]))
    BY <1>2 DEF UpdateAgentFlow, GetAgentFlow
  <2> QED BY <1>0, <2>1, FlowDefaults, MaterializeKept, RegistryAssumption
<1>3. CASE SetAgentFlowStatus(c)
  <2>1. PICK id \in Stored(db.flows), status \in Transition :
          MaterializeLocalAgents(c, id,
             ApplyAgentFlowDefaults([db.flows[id] EXCEPT !.status = status], NoRecord))
    BY <1>3 DEF SetAgentFlowStatus, GetAgentFlow
  <2>2. PICK spec : spec = [db.flows[id] EXCEPT !.status = status]
    OBVIOUS
  <2>3. IsAgentFlow(spec)
    BY <1>0, <2>2 DEF IsAgentFlow
  <2> QED BY <1>0, <2>1, <2>2, <2>3, FlowDefaults, MaterializeKept
<1>4. CASE LocalAgentSaved(c)
  <2>1. PICK id, spec, todo : id = call[c].id /\ spec = call[c].rec /\ todo = call[c].todo
    OBVIOUS
  <2>2. PICK n, profile, agent, named :
          /\ n \in todo
          /\ call[c].at = "SaveLocalAgents" /\ UNCHANGED <<history, calls, aborts>>
          /\ profile = LocalAgentProfile(spec.graph.nodes[n]) /\ agent = LocalAgentID(id, n)
          /\ named = [spec EXCEPT !.graph.nodes[n].agent = agent]
          /\ \/ Return(c) /\ UNCHANGED db
             \/ /\ ValidateAgent(profile) /\ SaveAgent(agent, profile)
                /\ Then(c, "SaveLocalAgents", id, named, todo \ {n})
    BY <1>4, <2>1 DEF LocalAgentSaved, Continue
  <2>3. /\ id \in FlowIds /\ IsAgentFlow(spec) /\ spec.graph.entry \in DOMAIN spec.graph.nodes
        /\ todo \subseteq LocalNodes(spec.graph) /\ AgentsSaved(id, spec, todo)
    BY <2>1, <2>2 DEF RegistryInv, Held, HoldsFlow
  <2>4. n \in LocalNodes(spec.graph) /\ n \in NodeIds /\ agent \in AgentIds
    BY <2>2, <2>3, RegistryDataAssumption DEF LocalNodes, IsAgentFlow
  <2>5. CASE Return(c) /\ UNCHANGED db
    BY <2>2, <2>5, ReadKept
  <2>6. CASE /\ ValidateAgent(profile) /\ SaveAgent(agent, profile)
             /\ Then(c, "SaveLocalAgents", id, named, todo \ {n})
    <3>1. profile \in Agent
      BY <2>2, <2>3, <2>4, <2>6
         DEF LocalNodes, IsAgentFlow, FlowNode, HasLocalAgent, Row, LocalAgent, LocalAgentProfile,
             ValidateAgent, Agent
    <3>2. TablesInv' /\ Grows /\ db'.tools = db.tools
      BY <2>2, <2>4, <2>6, <3>1, AgentFits DEF history, RegistryInv
    <3>3. MadeInv' /\ CountersInv'
      BY <2>2, <3>2, MadeKept DEF history, RegistryInv, CountersInv
    <3>4. db'.agents[agent] # NoRecord
      <4>1. Saves("agents", agent, profile)
        BY <2>6, KindsAre, OneTable DEF RegistryInv, TablesInv, SaveAgent, Kinds
      <4> QED BY <2>4, <3>1, <4>1, AreRows DEF Saves, RegistryInv, TablesInv, AgentsInv
    <3>5. /\ IsAgentFlow(named) /\ LocalNodes(named.graph) = LocalNodes(spec.graph)
          /\ named.graph.entry \in DOMAIN named.graph.nodes
          /\ named.graph.nodes[n].agent = agent
          /\ \A m \in DOMAIN spec.graph.nodes \ {n} : named.graph.nodes[m] = spec.graph.nodes[m]
      <4>1. named = WithAgent(spec, n, agent)
        BY <2>2 DEF WithAgent
      <4>2. /\ IsAgentFlow(named) /\ LocalNodes(named.graph) = LocalNodes(spec.graph)
            /\ named.graph.entry = spec.graph.entry
            /\ DOMAIN named.graph.nodes = DOMAIN spec.graph.nodes
            /\ named.graph.nodes[n].agent = agent
            /\ \A m \in DOMAIN spec.graph.nodes \ {n} : named.graph.nodes[m] = spec.graph.nodes[m]
        BY <2>3, <2>4, <4>1, NodeNamed
      <4> QED BY <2>3, <4>2
    <3>6. AgentsSaved(id, spec, todo)'
      BY <2>3, <3>2, AgentsStay
    <3>7. AgentsSaved(id, named, todo \ {n})'
      BY <2>2, <3>4, <3>5, <3>6 DEF AgentsSaved, LocalNodes
    <3>8. /\ call'[c] = [at |-> "SaveLocalAgents", id |-> id, rec |-> named, todo |-> todo \ {n}]
          /\ DOMAIN call' = Clients /\ \A d \in Clients \ {c} : call'[d] = call[d]
      BY <2>6, Moved DEF RegistryInv
    <3>9. Held(c)'
      BY <2>3, <3>5, <3>7, <3>8, HoldingFlow
    <3> QED BY <3>2, <3>3, <3>8, <3>9, OneCall
  <2> QED BY <2>2, <2>5, <2>6
<1>5. CASE AgentFlowSaved(c)
  <2>1. PICK id, spec, flow :
          id = call[c].id /\ spec = call[c].rec /\ flow = NormalizeSupervisor(spec)
    OBVIOUS
  <2>2. /\ call[c].at = "SaveLocalAgents" /\ UNCHANGED <<history, calls, aborts>>
        /\ call[c].todo = {} /\ Return(c)
        /\ UNCHANGED db \/ (ValidateAgentFlow(flow) /\ SaveAgentFlow(id, flow))
    BY <1>5, <2>1 DEF AgentFlowSaved, Continue
  <2>3. /\ id \in FlowIds /\ IsAgentFlow(spec) /\ spec.graph.entry \in DOMAIN spec.graph.nodes
        /\ AgentsSaved(id, spec, {})
    BY <2>1, <2>2 DEF RegistryInv, Held, HoldsFlow
  <2>4. IsAgentFlow(flow) /\ flow.graph = spec.graph /\ (ValidateAgentFlow(flow) => Bounded(flow))
    BY <2>1, <2>3, SupervisorNormalized
  <2>5. CASE UNCHANGED db
    BY <2>2, <2>5, ReadKept
  <2>6. CASE ValidateAgentFlow(flow) /\ SaveAgentFlow(id, flow)
    <3>1. FlowValid(flow) /\ Bounded(flow) /\ AgentsSaved(id, flow, {})
      BY <2>3, <2>4, <2>6 DEF FlowValid, AgentsSaved
    <3>2. TablesInv' /\ Grows /\ db'.tools = db.tools
      BY <2>2, <2>3, <2>4, <2>6, <3>1, FlowFits DEF history, RegistryInv
    <3>3. MadeInv'
      BY <2>2, <3>2, MadeKept DEF history, RegistryInv
    <3> QED BY <2>2, <3>2, <3>3, SavedKept DEF history
  <2> QED BY <2>2, <2>5, <2>6
<1> QED BY <1>1, <1>2, <1>3, <1>4, <1>5 DEF AgentFlowRoutes

\* The tool made of an operation the client named no tool for is one a client may send.
LEMMA ToolOfOperation ==
    ASSUME NEW o \in OperationIds, NEW operation
    PROVE  /\ NewToolSpecFromConnectorOperation(o, operation) \in ToolBody
           /\ NewToolSpecFromConnectorOperation(o, operation).operation = o
<1>1. PICK sideEffect, risk, confirm :
        /\ sideEffect = ConnectorOperationSideEffect(operation)
        /\ risk = ConnectorOperationRiskLevel(sideEffect) /\ confirm = (sideEffect = "write")
  OBVIOUS
<1>2. sideEffect \in SideEffect /\ risk \in RiskLevel /\ confirm \in BOOLEAN
  BY <1>1 DEF ConnectorOperationSideEffect, ConnectorOperationRiskLevel, SideEffect, RiskLevel
<1>3. NewToolSpecFromConnectorOperation(o, operation) =
        [ status |-> "disabled", implementation |-> "connector", operation |-> o, workflow |-> NoId,
          sideEffect |-> sideEffect, risk |-> risk, confirm |-> confirm ]
  BY <1>1 DEF NewToolSpecFromConnectorOperation
<1> QED BY <1>2, <1>3 DEF ToolBody, Sent, Status

\* What an import has read: the entries it will go through.
OperationsOf(connector) == {o \in ListConnectorOperations(db) : db.operations[o].connector = connector}

EntryFor(connector, place, id, spec) ==
    [ place |-> place, id |-> id,
      spec  |-> [spec EXCEPT !.implementation = "connector"],
      operation |-> IF spec.operation \in OperationsOf(connector)
                    THEN db.operations[spec.operation] ELSE NoRecord ]

EntriesOf(connector, list) ==
    IF list # <<>> THEN {EntryFor(connector, i, list[i].id, list[i].spec) : i \in DOMAIN list}
    ELSE {EntryFor(connector, 0, NoId, NewToolSpecFromConnectorOperation(o, db.operations[o])) :
            o \in OperationsOf(connector)}

LEMMA ImportBegins ==
    ASSUME NEW c \in Clients, ImportConnectorTools(c)
    PROVE  \E connector \in Stored(db.connectors), list \in ImportLists \cup {<<>>} :
              Begin(c, "ListTools", connector, NoRecord, EntriesOf(connector, list))
BY Zenon DEF ImportConnectorTools, EntryFor, EntriesOf, OperationsOf

LEMMA EntriesAreImportable ==
    ASSUME RegistryInv, NEW connector, NEW list \in ImportLists \cup {<<>>},
           NEW e \in EntriesOf(connector, list)
    PROVE  Importable(e)
<1>1. \A o \in OperationsOf(connector) :
         /\ o \in OperationIds /\ db.operations[o] \in Operation /\ db.operations[o] # NoRecord
  BY DEF OperationsOf, ListConnectorOperations, Stored, RegistryInv, TablesInv, OperationsInv, Row
<1>2. PICK id \in ToolIds \cup {NoId}, body \in ToolBody :
        \E place : e = EntryFor(connector, place, id, body)
  <2>1. CASE list # <<>>
    <3>1. PICK i \in DOMAIN list : e = EntryFor(connector, i, list[i].id, list[i].spec)
      BY <2>1 DEF EntriesOf
    <3>2. PICK S : S = [id : ToolIds \cup {NoId}, spec : ToolBody]
      OBVIOUS
    <3>3. list \in Seq(S)
      BY <2>1, <3>2, RegistryAssumption
    <3>4. list[i] \in S
      BY <3>1, <3>3
    <3>5. list[i].id \in ToolIds \cup {NoId} /\ list[i].spec \in ToolBody
      BY <3>2, <3>4
    <3> QED BY <3>1, <3>5
  <2>2. CASE list = <<>>
    <3>1. PICK o \in OperationsOf(connector) :
            e = EntryFor(connector, 0, NoId, NewToolSpecFromConnectorOperation(o, db.operations[o]))
      BY <2>2 DEF EntriesOf
    <3>2. NewToolSpecFromConnectorOperation(o, db.operations[o]) \in ToolBody
      BY <1>1, ToolOfOperation
    <3> QED BY <3>1, <3>2
  <2> QED BY <2>1, <2>2
<1>3. PICK spec : spec = [body EXCEPT !.implementation = "connector"]
  OBVIOUS
<1>4. /\ spec \in ToolBody /\ spec.implementation = "connector"
      /\ spec.operation = body.operation
  BY <1>2, <1>3 DEF ToolBody
<1>5. /\ e.id = id /\ e.spec = spec
      /\ e.operation # NoRecord =>
            body.operation \in OperationsOf(connector) /\ e.operation = db.operations[body.operation]
  BY <1>2, <1>3 DEF EntryFor
<1> QED BY <1>1, <1>2, <1>4, <1>5 DEF Importable

\* Which tool an import saves for an entry, and what the history notes of it.
MakesTool(c, entry, id) ==
    LET existing == call[c].rec[entry.spec.operation] IN
    /\ entry.id # NoId => id = entry.id
    /\ entry.id = NoId /\ existing # NoId => id = existing
    /\ made' = IF id = existing THEN made ELSE [made EXCEPT ![id] = entry.spec.operation]

\* An entry is saved as a tool that runs the operation, when the operation is there: the
\* tool the entry names, or else the one that was found.
LEMMA ImportSaves ==
    ASSUME RegistryInv, NEW c \in Clients, ImportSavesTool(c)
    PROVE  /\ call[c].at = "SaveTools" /\ UNCHANGED <<calls, aborts, everEnabled, crowded>>
           /\ \/ Return(c) /\ UNCHANGED <<db, made>>
              \/ \E entry \in call[c].todo, id \in ToolIds, row \in Tool :
                    /\ ValidateTool(row) /\ row.implementation = "connector"
                    /\ row.operation = entry.spec.operation
                    /\ entry.operation # NoRecord
                    /\ SaveTool(id, row)
                    /\ MakesTool(c, entry, id)
                    /\ \/ Return(c)
                       \/ Then(c, "SaveTools", call[c].id, call[c].rec, call[c].todo \ {entry})
<1> DEFINE Existing(entry) == call[c].rec[entry.spec.operation]
           Target(entry) == IF entry.id # NoId THEN {entry.id}
                            ELSE IF Existing(entry) # NoId THEN {Existing(entry)} ELSE Generated
           ToolFor(entry) == ApplyConnectorToolDefaults(entry.spec, entry.operation)
<1>0. PICK entry \in call[c].todo :
        /\ call[c].at = "SaveTools" /\ UNCHANGED <<calls, aborts, everEnabled, crowded>>
        /\ IF entry.operation = NoRecord \/ ~ValidateTool(ToolFor(entry))
           THEN Return(c) /\ UNCHANGED <<db, made>>
           ELSE \E id \in Target(entry) :
                /\ SaveTool(id, ToolFor(entry))
                /\ made' = IF id = Existing(entry) THEN made
                           ELSE [made EXCEPT ![id] = entry.spec.operation]
                /\ IF call[c].todo \ {entry} = {} THEN Return(c)
                   ELSE Then(c, "SaveTools", call[c].id, call[c].rec, call[c].todo \ {entry})
  BY Zenon DEF ImportSavesTool, Continue
<1>1. PICK existing, spec : existing = Existing(entry) /\ spec = ToolFor(entry)
  OBVIOUS
<1>2. CASE entry.operation = NoRecord \/ ~ValidateTool(spec)
  BY <1>0, <1>1, <1>2
<1>3. CASE entry.operation # NoRecord /\ ValidateTool(spec)
  <2>0. PICK id \in Target(entry) :
          /\ SaveTool(id, spec)
          /\ made' = IF id = existing THEN made ELSE [made EXCEPT ![id] = entry.spec.operation]
          /\ \/ Return(c)
             \/ Then(c, "SaveTools", call[c].id, call[c].rec, call[c].todo \ {entry})
    BY <1>0, <1>1, <1>3
  <2>1. Importable(entry) /\ call[c].rec \in [OperationIds -> ToolIds \cup {NoId}]
    BY <1>0 DEF RegistryInv, Held, HoldsImport
  <2>2. /\ spec \in Tool /\ spec.implementation = "connector"
        /\ spec.operation = entry.spec.operation
    BY <1>1, <1>3, <2>1, ImportedToolRow DEF Importable
  <2>3. entry.spec.operation \in OperationIds /\ existing \in ToolIds \cup {NoId}
    BY <1>1, <1>3, <2>1 DEF Importable
  <2>4. Generated \subseteq ToolIds
    BY DEF Generated
  <2>5. /\ id \in ToolIds /\ (entry.id # NoId => id = entry.id)
        /\ entry.id = NoId /\ existing # NoId => id = existing
    BY <1>1, <2>0, <2>1, <2>3, <2>4 DEF Importable
  <2>6. MakesTool(c, entry, id)
    BY <1>1, <2>0, <2>5 DEF MakesTool
  <2> QED BY <1>0, <1>3, <2>0, <2>2, <2>5, <2>6
<1> QED BY <1>2, <1>3

LEMMA ImportRoutesKept ==
    ASSUME RegistryInv, NEW c \in Clients,
           ImportConnectorTools(c) \/ ImportListsTools(c) \/ ImportSavesTool(c)
    PROVE  RegistryInv'
<1>1. CASE ImportConnectorTools(c)
  <2>1. PICK connector, list, todo :
          /\ connector \in Stored(db.connectors) /\ list \in ImportLists \cup {<<>>}
          /\ todo = EntriesOf(connector, list)
          /\ Begin(c, "ListTools", connector, NoRecord, todo)
    BY <1>1, ImportBegins
  <2>2. db' = db
    BY <2>1 DEF Begin
  <2>3. \A e \in todo : Importable(e)
    BY <2>1, EntriesAreImportable
  <2>4. \A e \in todo : Importable(e)'
    BY <2>2, <2>3 DEF Importable
  <2> QED BY <2>1, <2>4, BeginKept, HoldingImport
<1>2. CASE ImportListsTools(c)
  <2>1. PICK id, todo : id = call[c].id /\ todo = call[c].todo
    OBVIOUS
  <2>2. PICK existing \in [OperationIds -> ToolIds \cup {NoId}] :
          /\ call[c].at = "ListTools" /\ UNCHANGED <<calls, aborts, db, everEnabled, made>>
          /\ ConnectorToolsByOperationID(existing)
          /\ Then(c, "SaveTools", id, existing, todo)
          /\ crowded' = crowded \cup {o \in OperationIds : MakesSecond(todo, existing, o)} \cup
               UNION {{e.spec.operation : e \in call[d].todo} :
                        d \in {d \in Clients \ {c} : call[d].at = "SaveTools"}}
    BY <1>2, <2>1 DEF ImportListsTools, Continue
  <2>3. \A e \in todo : Importable(e)'
    BY <2>1, <2>2 DEF RegistryInv, Held, HoldsImport, Importable
  <2>4. ASSUME NEW o \in OperationIds, existing[o] # NoId
        PROVE  db'.tools[existing[o]] # NoRecord
    BY <2>2, <2>4 DEF ConnectorToolsByOperationID, ListTools, Stored
  <2>5. /\ call'[c] = [at |-> "SaveTools", id |-> id, rec |-> existing, todo |-> todo]
        /\ DOMAIN call' = Clients /\ \A d \in Clients \ {c} : call'[d] = call[d]
    BY <2>2, Moved DEF RegistryInv
  <2>6. Held(c)'
    BY <2>3, <2>4, <2>5, HoldingImportListed
  <2>7. TablesInv' /\ Grows
    BY <2>2, NothingSaved DEF RegistryInv
  <2>8. MadeInv'
    BY <2>2, <2>7, MadeKept DEF RegistryInv
  <2>9. CountersInv'
    <3>1. \A d \in Clients : call[d].at = "SaveTools" =>
             \A e \in call[d].todo : e.spec.operation \in OperationIds \cup {NoId}
      BY DEF RegistryInv, Held, HoldsImport, Importable, ToolBody
    <3> QED BY <2>2, <3>1 DEF RegistryInv, CountersInv
  <2> QED BY <2>5, <2>6, <2>7, <2>8, <2>9, OneCall
<1>3. CASE ImportSavesTool(c)
  <2>1. call[c].at = "SaveTools" /\ UNCHANGED <<calls, aborts, everEnabled, crowded>>
    BY <1>3, ImportSaves
  <2>2. CASE Return(c) /\ UNCHANGED <<db, made>>
    BY <2>1, <2>2, ReadKept DEF history
  <2>3. ASSUME NEW entry \in call[c].todo, NEW id \in ToolIds, NEW row \in Tool,
               ValidateTool(row), row.implementation = "connector",
               row.operation = entry.spec.operation, entry.operation # NoRecord,
               SaveTool(id, row), MakesTool(c, entry, id),
               \/ Return(c)
               \/ Then(c, "SaveTools", call[c].id, call[c].rec, call[c].todo \ {entry})
        PROVE  RegistryInv'
    <3>1. TablesInv' /\ Grows /\ db'.operations = db.operations
      BY <2>1, <2>3, ToolFits DEF RegistryInv, Runnable
    <3>2. db'.tools = [db.tools EXCEPT ![id] = row]
      BY <2>3, OneTable, KindsAre DEF SaveTool, RegistryInv, TablesInv, Saves, Kinds
    <3>3. /\ row.operation \in OperationIds /\ db.operations[row.operation] # NoRecord
          /\ call[c].rec \in [OperationIds -> ToolIds \cup {NoId}]
          /\ \A o \in OperationIds : call[c].rec[o] # NoId => db.tools[call[c].rec[o]] # NoRecord
      BY <2>1, <2>3 DEF RegistryInv, Held, HoldsImport, Importable
    <3>4. MadeInv'
      BY <2>3, <3>1, <3>2, <3>3, AreRows DEF MadeInv, MakesTool, RegistryInv, TablesInv, ToolsInv
    <3>5. CASE Return(c)
      BY <2>1, <3>1, <3>4, <3>5, SavedKept
    <3>6. CASE Then(c, "SaveTools", call[c].id, call[c].rec, call[c].todo \ {entry})
      <4>1. PICK i, rec, todo : i = call[c].id /\ rec = call[c].rec /\ todo = call[c].todo \ {entry}
        OBVIOUS
      <4>2. /\ call'[c] = [at |-> "SaveTools", id |-> i, rec |-> rec, todo |-> todo]
            /\ DOMAIN call' = Clients /\ \A d \in Clients \ {c} : call'[d] = call[d]
        BY <3>6, <4>1, Moved DEF RegistryInv
      <4>3. \A e \in todo : Importable(e)'
        BY <2>1, <3>1, <4>1 DEF RegistryInv, Held, HoldsImport, Importable
      <4>4. \A o \in OperationIds : rec[o] # NoId => db'.tools[rec[o]] # NoRecord
        BY <3>1, <3>3, <4>1 DEF Grows
      <4>5. Held(c)'
        BY <3>3, <4>1, <4>2, <4>3, <4>4, HoldingImportListed
      <4>6. CountersInv'
        BY <2>1 DEF RegistryInv, CountersInv
      <4> QED BY <3>1, <3>4, <4>2, <4>5, <4>6, OneCall
    <3> QED BY <2>3, <3>5, <3>6
  <2> QED BY <1>3, <2>2, <2>3, ImportSaves
<1> QED BY <1>1, <1>2, <1>3

LEMMA AbortKept ==
    ASSUME RegistryInv, NEW c \in Clients, Abort(c)
    PROVE  RegistryInv'
<1>1. /\ aborts < MaxAborts /\ aborts' = aborts + 1 /\ Return(c)
      /\ UNCHANGED <<db, calls, history>>
  BY DEF Abort
<1>2. TablesInv' /\ Grows
  BY <1>1, NothingSaved DEF history, RegistryInv
<1>3. MadeInv'
  BY <1>1, <1>2, MadeKept DEF history, RegistryInv
<1>4. CountersInv'
  BY <1>1, RegistryAssumption DEF RegistryInv, CountersInv, history
<1>5. /\ Held(c)' /\ DOMAIN call' = Clients
      /\ \A d \in Clients \ {c} : call'[d] = call[d]
  BY <1>1, Returned DEF RegistryInv
<1> QED BY <1>2, <1>3, <1>4, <1>5, OneCall

-----------------------------------------------------------------------------
(* The invariant holds.                                                    *)

\* What Migrate makes is a registry to begin with, whatever else Seeds holds.
LEMMA FreshIsSound == Sound(Migrated)
<1>1. PICK fresh : fresh = Migrated
  OBVIOUS
<1>2. /\ fresh.agents = [i \in AgentIds |-> NoRecord] /\ fresh.flows = [i \in FlowIds |-> NoRecord]
      /\ fresh.workflows = [i \in WorkflowIds |-> NoRecord]
      /\ fresh.tools = [i \in ToolIds |-> NoRecord] /\ fresh.skills = [i \in SkillIds |-> NoRecord]
      /\ fresh.connectors = [i \in ConnectorIds |-> NoRecord]
      /\ fresh.operations = [i \in OperationIds |-> NoRecord]
  BY <1>1 DEF Migrated
<1>3. /\ Stored(fresh.flows) = {} /\ Stored(fresh.workflows) = {} /\ Stored(fresh.tools) = {}
      /\ Stored(fresh.operations) = {}
  BY <1>2 DEF Stored
<1>4. RowsValid(fresh)
  BY <1>2, <1>3 DEF RowsValid, Row, ListTools, ListConnectorOperations
<1>5. /\ ToolsRunnable(fresh, EnabledWorkflows(fresh)) /\ OperationsConnected(fresh)
      /\ FlowAgentsStored(fresh) /\ SupervisorsBounded(fresh)
  BY <1>3 DEF ToolsRunnable, OperationsConnected, FlowAgentsStored, SupervisorsBounded, ListTools,
     ListConnectorOperations
<1> QED BY <1>1, <1>2, <1>3, <1>4, <1>5 DEF Sound, Row

LEMMA RegistryStart == Init => RegistryInv
<1> SUFFICES ASSUME Init PROVE RegistryInv
  OBVIOUS
<1>1. Sound(db) /\ everEnabled = EnabledWorkflows(db)
  BY RegistryAssumption DEF Init
<1>2. AgentsInv /\ SkillsInv /\ ConnectorsInv
  BY <1>1 DEF Sound, RowsValid, AgentsInv, SkillsInv, ConnectorsInv
<1>3. OperationsInv
  BY <1>1, <1>2 DEF Sound, RowsValid, OperationsInv, OperationsConnected, ListConnectorOperations,
     Stored, Connected
<1>4. ToolsInv
  BY <1>1 DEF Sound, RowsValid, ToolsRunnable, ToolsInv, ListTools, Stored, Runnable
<1>5. WorkflowsInv
  BY <1>1 DEF Sound, RowsValid, WorkflowsInv, WorkflowRow, EnabledWorkflows, Stored, Row
<1>6. FlowsInv
  BY <1>1 DEF Sound, RowsValid, FlowAgentsStored, SupervisorsBounded, Bounded, FlowsInv,
     AgentsSaved, Stored
<1>7. MadeInv /\ CountersInv
  BY RegistryAssumption DEF Init, MadeInv, CountersInv
<1>8. DOMAIN call = Clients /\ \A c \in Clients : Held(c)
  BY DEF Init, Idle, Held, HoldsRow, HoldsTool, HoldsFlow, HoldsImport
<1> QED BY <1>1, <1>2, <1>3, <1>4, <1>5, <1>6, <1>7, <1>8 DEF RegistryInv, TablesInv, Sound

LEMMA RegistryKept == RegistryInv /\ [Next]_vars => RegistryInv'
<1> SUFFICES ASSUME RegistryInv, [Next]_vars PROVE RegistryInv'
  OBVIOUS
<1>1. ASSUME NEW c \in Clients, OperationRoutes(c)
      PROVE  RegistryInv'
  BY <1>1, OperationRoutesKept, ImportRoutesKept DEF OperationRoutes
<1>2. CASE Next
  BY <1>1, <1>2, AgentRoutesKept, AgentFlowRoutesKept, WorkflowRoutesKept, ConnectorRoutesKept,
     ToolRoutesKept, SkillRoutesKept, AbortKept DEF Next
<1>3. CASE UNCHANGED vars
  <2>1. TablesInv' /\ Grows
    BY <1>3, NothingSaved DEF vars, RegistryInv
  <2>2. MadeInv' /\ CountersInv'
    BY <1>3, <2>1, MadeKept DEF vars, RegistryInv, CountersInv
  <2>3. DOMAIN call' = Clients /\ \A c \in Clients : Held(c)'
    BY <1>3, <2>1, HeldStays DEF vars, RegistryInv
  <2> QED BY <2>1, <2>2, <2>3 DEF RegistryInv
<1> QED BY <1>2, <1>3

\* The tables, and what every call holds of them, are in order after every step: a call
\* that is delayed, overtaken or cut short has nothing in hand that it could not save.
THEOREM RegistryInvariant == Spec => []RegistryInv
BY RegistryStart, RegistryKept, PTL DEF Spec

\* Whatever endpoints wrote it, a stored row has its defaults and passed validation.
THEOREM TypeCorrect == Spec => []TypeOK
<1>1. RegistryInv => TypeOK
  <2> SUFFICES ASSUME RegistryInv PROVE TypeOK
    OBVIOUS
  <2>1. RowsValid(db)
    BY DEF RegistryInv, TablesInv, AgentsInv, SkillsInv, ConnectorsInv, OperationsInv, ToolsInv,
           WorkflowsInv, WorkflowRow, FlowsInv, RowsValid, ListTools, ListConnectorOperations, Stored
  <2> QED BY <2>1 DEF TypeOK, RegistryInv, CountersInv, MadeInv, TablesInv, WorkflowsInv
<1> QED BY <1>1, RegistryInvariant, PTL

\* What is stored leads somewhere, wherever the calls that stored it died.
THEOREM BindingsHold == Spec => []BindingsResolve
<1>1. RegistryInv => BindingsResolve
  <2> SUFFICES ASSUME RegistryInv PROVE BindingsResolve
    OBVIOUS
  <2>1. ToolsRunnable(db, everEnabled)
    BY DEF RegistryInv, TablesInv, ToolsInv, Runnable, ToolsRunnable, ListTools, Stored
  <2>2. \A w \in everEnabled : db.workflows[w] # NoRecord
    BY DEF RegistryInv, TablesInv, WorkflowsInv
  <2>3. OperationsConnected(db)
    <3> SUFFICES ASSUME NEW o \in ListConnectorOperations(db), db.operations[o].connector # NoId
                 PROVE  LET parent == db.connectors[db.operations[o].connector]
                        IN /\ parent # NoRecord
                           /\ ApplyConnectorToOperation(db.operations[o], parent).base = "url"
      BY DEF OperationsConnected
    <3>1. PICK spec, parent :
            spec = db.operations[o] /\ parent = db.connectors[db.operations[o].connector]
      OBVIOUS
    <3>2. spec \in Operation /\ spec.connector \in ConnectorIds /\ parent # NoRecord
      BY <3>1 DEF ListConnectorOperations, Stored, RegistryInv, TablesInv, OperationsInv, Connected,
             Row, Operation
    <3>3. parent.base = "url"
      BY <3>1, <3>2 DEF RegistryInv, TablesInv, ConnectorsInv, Row, Connector
    <3>4. ApplyConnectorToOperation(spec, parent).base = "url"
      BY <3>2, <3>3 DEF ApplyConnectorToOperation, Operation
    <3> QED BY <3>1, <3>2, <3>4
  <2>4. \A t \in {t \in ToolIds : made[t] # NoId} : db.tools[t].implementation = "connector"
           => db.operations[db.tools[t].operation] # NoRecord
    BY DEF RegistryInv, MadeInv
  <2> QED BY <2>1, <2>2, <2>3, <2>4 DEF BindingsResolve
<1> QED BY <1>1, RegistryInvariant, PTL

\* A flow that is stored has its agents stored: it is saved last, with all it holds.
THEOREM LocalAgentsAreSaved == Spec => []LocalAgentsSaved
<1>1. RegistryInv => LocalAgentsSaved
  BY DEF RegistryInv, TablesInv, FlowsInv, AgentsSaved, LocalAgentsSaved, FlowAgentsStored, Stored
<1> QED BY <1>1, RegistryInvariant, PTL

\* A supervisor flow in use has no path of more than MaxGraphDepth agents below its
\* supervisor: a save raises the flow's depth to its graph's, and is refused beyond the limit.
THEOREM SupervisorsAreBounded == Spec => []EnabledSupervisorsBounded
<1>1. RegistryInv => EnabledSupervisorsBounded
  BY DEF RegistryInv, TablesInv, FlowsInv, Bounded, EnabledSupervisorsBounded, SupervisorsBounded,
         Stored
<1> QED BY <1>1, RegistryInvariant, PTL

-----------------------------------------------------------------------------
(* One tool per operation.                                                 *)

\* A step that no import takes, and that makes no tool.
Elsewhere(c) ==
    /\ UNCHANGED <<made, crowded>> /\ db'.tools = db.tools
    /\ \A d \in Clients \ {c} : call'[d] = call[d]
    /\ call'[c] = call[c] \/ call'[c].at \notin {"ListTools", "SaveTools"}

LEMMA BeginElsewhere ==
    ASSUME NEW c \in Clients, DOMAIN call = Clients, NEW at, at \notin {"ListTools", "SaveTools"},
           NEW id, NEW rec, NEW todo, Begin(c, at, id, rec, todo)
    PROVE  Elsewhere(c)
<1>1. Then(c, at, id, rec, todo) /\ UNCHANGED <<db, made, crowded>>
  BY DEF Begin, history
<1>2. call'[c] = [at |-> at, id |-> id, rec |-> rec, todo |-> todo]
      /\ \A d \in Clients \ {c} : call'[d] = call[d]
  BY <1>1, Moved
<1> QED BY <1>1, <1>2 DEF Elsewhere

LEMMA GoesElsewhere ==
    ASSUME NEW c \in Clients, DOMAIN call = Clients,
           UNCHANGED <<made, crowded>>, db'.tools = db.tools,
           \/ UNCHANGED call
           \/ Return(c)
           \/ \E at, id, rec, todo : at \notin {"ListTools", "SaveTools"} /\ Then(c, at, id, rec, todo)
    PROVE  Elsewhere(c)
<1>1. CASE UNCHANGED call
  BY <1>1 DEF Elsewhere
<1>2. CASE Return(c)
  BY <1>2, Returned DEF Elsewhere, Idle
<1>3. ASSUME NEW at, at \notin {"ListTools", "SaveTools"}, NEW id, NEW rec, NEW todo,
             Then(c, at, id, rec, todo)
      PROVE  Elsewhere(c)
  <2>1. call'[c] = [at |-> at, id |-> id, rec |-> rec, todo |-> todo]
        /\ \A d \in Clients \ {c} : call'[d] = call[d]
    BY <1>3, Moved
  <2> QED BY <1>3, <2>1 DEF Elsewhere
<1> QED BY <1>1, <1>2, <1>3

\* A save to another table leaves the tools.
LEMMA ToolsStay ==
    ASSUME DOMAIN db = Kinds, NEW id, NEW row,
           \/ SaveAgent(id, row) \/ SaveAgentFlow(id, row) \/ SaveWorkflow(id, row)
           \/ SaveSkill(id, row) \/ SaveConnector(id, row) \/ SaveConnectorOperation(id, row)
    PROVE  db'.tools = db.tools
BY DEF SaveAgent, SaveAgentFlow, SaveWorkflow, SaveSkill, SaveConnector, SaveConnectorOperation, Kinds

LEMMA MostStepsElsewhere ==
    ASSUME RegistryInv, NEW c \in Clients,
           \/ AgentRoutes(c) \/ SkillRoutes(c) \/ ConnectorRoutes(c) \/ AgentFlowRoutes(c)
           \/ WorkflowRoutes(c) \/ Abort(c)
           \/ CreateConnectorOperation(c) \/ UpdateConnectorOperation(c)
           \/ SetConnectorOperationStatus(c) \/ NormalizeConnectorOperation(c)
           \/ ConnectorOperationSaved(c)
           \/ CreateTool(c) \/ UpdateTool(c) \/ SetToolStatus(c)
           \/ EnsureBoundWorkflowEnabled(c) \/ SyncWorkflow(c)
    PROVE  Elsewhere(c)
<1>0. DOMAIN db = Kinds /\ DOMAIN call = Clients
  BY KindsAre DEF RegistryInv, TablesInv
<1>1. CASE AgentRoutes(c)
  BY <1>0, <1>1, BeginElsewhere, GoesElsewhere, ToolsStay
     DEF AgentRoutes, CreateAgent, UpdateAgent, SetAgentStatus, AgentSaved, history
<1>2. CASE SkillRoutes(c)
  BY <1>0, <1>2, BeginElsewhere, GoesElsewhere, ToolsStay
     DEF SkillRoutes, CreateSkill, UpdateSkill, SetSkillStatus, SkillSaved, history
<1>3. CASE ConnectorRoutes(c)
  BY <1>0, <1>3, BeginElsewhere, GoesElsewhere, ToolsStay
     DEF ConnectorRoutes, CreateConnector, UpdateConnector, SetConnectorStatus, ConnectorSaved, history
<1>4. CASE AgentFlowRoutes(c)
  <2>1. CASE CreateAgentFlow(c) \/ UpdateAgentFlow(c) \/ SetAgentFlowStatus(c)
    BY <1>0, <2>1, BeginElsewhere
       DEF CreateAgentFlow, UpdateAgentFlow, SetAgentFlowStatus, MaterializeLocalAgents
  <2>2. CASE LocalAgentSaved(c)
    BY <1>0, <2>2, GoesElsewhere, ToolsStay DEF LocalAgentSaved, history
  <2>3. CASE AgentFlowSaved(c)
    BY <1>0, <2>3, GoesElsewhere, ToolsStay DEF AgentFlowSaved, history
  <2> QED BY <1>4, <2>1, <2>2, <2>3 DEF AgentFlowRoutes
<1>5. CASE WorkflowRoutes(c)
  <2>1. CASE CreateWorkflow(c) \/ WorkflowSaved(c)
    BY <1>0, <2>1, GoesElsewhere, ToolsStay DEF CreateWorkflow, WorkflowSaved
  <2>2. CASE UpdateWorkflow(c) \/ SetWorkflowStatus(c)
    BY <1>0, <2>2, BeginElsewhere DEF UpdateWorkflow, SetWorkflowStatus
  <2>3. CASE CheckBinding(c)
    BY <1>0, <2>3, GoesElsewhere DEF CheckBinding, history
  <2> QED BY <1>5, <2>1, <2>2, <2>3 DEF WorkflowRoutes
<1>6. CASE Abort(c)
  BY <1>0, <1>6, GoesElsewhere DEF Abort, history
<1>7. CASE \/ CreateConnectorOperation(c) \/ UpdateConnectorOperation(c)
           \/ SetConnectorOperationStatus(c)
  BY <1>0, <1>7, BeginElsewhere
     DEF CreateConnectorOperation, UpdateConnectorOperation, SetConnectorOperationStatus,
         OperationToSave
<1>8. CASE NormalizeConnectorOperation(c) \/ ConnectorOperationSaved(c)
  BY <1>0, <1>8, GoesElsewhere, ToolsStay
     DEF NormalizeConnectorOperation, ConnectorOperationSaved, history
<1>9. CASE CreateTool(c) \/ UpdateTool(c) \/ SetToolStatus(c)
  BY <1>0, <1>9, BeginElsewhere DEF CreateTool, UpdateTool, SetToolStatus, ToolToSave
<1>10. CASE EnsureBoundWorkflowEnabled(c) \/ SyncWorkflow(c)
  BY <1>0, <1>10, GoesElsewhere, ToolsStay DEF EnsureBoundWorkflowEnabled, SyncWorkflow, history
<1> QED BY <1>1, <1>2, <1>3, <1>4, <1>5, <1>6, <1>7, <1>8, <1>9, <1>10

\* No tool becomes one that an import made of operation o.
NoneMade(o) ==
    /\ ToolsMadeOf(o)' \subseteq ToolsMadeOf(o)
    /\ \A t \in ToolIds : made'[t] = o => made[t] = o

\* Calls other than d's have no more to save of operation o.
OthersLeave(d, o) ==
    \A b \in Clients \ {d} : call'[b].at = "SaveTools" =>
        \/ call[b].at = "SaveTools" /\ call'[b].todo \subseteq call[b].todo
        \/ \A e \in call'[b].todo : e.spec.operation # o

\* What a call knows of an operation stays true when no tool is made of it.
LEMMA KnowsStill ==
    ASSUME RegistryInv, NEW d \in Clients, NEW o \in OperationIds, Knows(d, o),
           call[d].at = "SaveTools", crowded \subseteq crowded',
           call'[d].rec = call[d].rec, call'[d].todo \subseteq call[d].todo,
           (\E e \in call[d].todo : e.spec.operation = o) /\ o \notin crowded'
              => NoneMade(o) /\ OthersLeave(d, o)
    PROVE  Knows(d, o)'
<1> SUFFICES ASSUME NEW e \in call'[d].todo, e.spec.operation = o, o \notin crowded'
             PROVE  Knows(d, o)'
  BY DEF Knows
<1>1. call[d].rec[o] \in ToolIds \cup {NoId}
  BY DEF RegistryInv, Held, HoldsImport
<1>2. NoneMade(o) /\ OthersLeave(d, o) /\ e \in call[d].todo /\ o \notin crowded
  OBVIOUS
<1>3. PICK tool : tool = call[d].rec[o] /\ tool = call'[d].rec[o]
  OBVIOUS
<1>4. /\ tool = NoId => /\ ToolsMadeOf(o) = {}
                        /\ \A f, g \in {f \in call[d].todo : f.spec.operation = o} : f = g
      /\ tool # NoId => /\ made[tool] = o => ToolsMadeOf(o) \subseteq {tool}
                        /\ \A f \in {f \in call[d].todo : f.spec.operation = o} : f.id \in {NoId, tool}
      /\ \A b \in Clients \ {d} : call[b].at = "SaveTools" =>
            \A f \in call[b].todo : f.spec.operation # o
  BY <1>2, <1>3 DEF Knows
<1>5. \A b \in Clients \ {d} : call'[b].at = "SaveTools" =>
         \A f \in call'[b].todo : f.spec.operation # o
  BY <1>2, <1>4 DEF OthersLeave
<1>6. tool = NoId => /\ ToolsMadeOf(o)' = {}
                     /\ \A f, g \in {f \in call'[d].todo : f.spec.operation = o} : f = g
  BY <1>2, <1>4 DEF NoneMade
<1>7. tool # NoId => /\ made'[tool] = o => ToolsMadeOf(o)' \subseteq {tool}
                     /\ \A f \in {f \in call'[d].todo : f.spec.operation = o} : f.id \in {NoId, tool}
  BY <1>1, <1>2, <1>3, <1>4 DEF NoneMade
<1> QED BY <1>3, <1>5, <1>6, <1>7 DEF Knows

\* No tool is made, and no import lists: nothing that is known changes.
LEMMA NothingMade ==
    ASSUME RegistryInv, OneToolInv, NEW c \in Clients,
           \A o \in OperationIds : NoneMade(o),
           UNCHANGED crowded, \A d \in Clients \ {c} : call'[d] = call[d],
           \/ call'[c] = call[c]
           \/ call'[c].at # "SaveTools"
    PROVE  OneToolInv'
<1>1. \A o \in OperationIds \ crowded' : \A s, t \in ToolsMadeOf(o)' : s = t
  BY DEF OneToolInv, NoneMade
<1>2. ASSUME NEW d \in Clients, call'[d] = call[d], call[d].at = "SaveTools", NEW o \in OperationIds
      PROVE  Knows(d, o)'
  <2>1. \A b \in Clients : call'[b].at = "SaveTools" => call'[b] = call[b]
    OBVIOUS
  <2>2. OthersLeave(d, o)
    BY <2>1 DEF OthersLeave
  <2> QED BY <1>2, <2>2, KnowsStill DEF OneToolInv, ImportKnows
<1>3. \A d \in Clients : ImportKnows(d)'
  BY <1>2 DEF ImportKnows
<1> QED BY <1>1, <1>3 DEF OneToolInv

\* A client that binds a tool anew takes it from the import's.
LEMMA ToolSavedKnown ==
    ASSUME RegistryInv, OneToolInv, NEW c \in Clients, ToolSaved(c)
    PROVE  OneToolInv'
<1>1. PICK id, spec : id = call[c].id /\ spec = call[c].rec
  OBVIOUS
<1>2. /\ call[c].at = "SaveTool" /\ SaveTool(id, spec) /\ Return(c) /\ UNCHANGED crowded
      /\ made' = IF /\ db.tools[id] # NoRecord
                    /\ db.tools[id].implementation = spec.implementation
                    /\ db.tools[id].operation = spec.operation
                 THEN made ELSE [made EXCEPT ![id] = NoId]
  BY <1>1 DEF ToolSaved, Continue, GetTool
<1>3. db'.tools = [db.tools EXCEPT ![id] = spec] /\ id \in ToolIds /\ DOMAIN db.tools = ToolIds
  BY <1>1, <1>2, OneTable, KindsAre
     DEF SaveTool, RegistryInv, TablesInv, ToolsInv, Saves, Kinds, Held, HoldsTool
<1>4. \A o \in OperationIds : NoneMade(o)
  BY <1>2, <1>3, RegistryDataAssumption DEF NoneMade, ToolsMadeOf, RegistryInv, MadeInv
<1>5. call'[c] = Idle /\ \A d \in Clients \ {c} : call'[d] = call[d]
  BY <1>2, Returned DEF RegistryInv
<1> QED BY <1>2, <1>4, <1>5, NothingMade DEF Idle

LEMMA ImportBeginsKnown ==
    ASSUME RegistryInv, OneToolInv, NEW c \in Clients, ImportConnectorTools(c)
    PROVE  OneToolInv'
<1>1. PICK connector, todo : Begin(c, "ListTools", connector, NoRecord, todo)
  BY ImportBegins
<1>2. /\ call'[c] = [at |-> "ListTools", id |-> connector, rec |-> NoRecord, todo |-> todo]
      /\ \A d \in Clients \ {c} : call'[d] = call[d]
      /\ UNCHANGED <<db, made, crowded>>
  BY <1>1, Moved DEF Begin, history, RegistryInv
<1>3. \A o \in OperationIds : NoneMade(o)
  BY <1>2 DEF NoneMade, ToolsMadeOf
<1> QED BY <1>2, <1>3, NothingMade

\* Listing the tools, an import learns which operation has one, and crowds those that others
\* are yet to save a tool of and those that its list makes a second tool of.
LEMMA ImportListsKnown ==
    ASSUME RegistryInv, OneToolInv, NEW c \in Clients, ImportListsTools(c)
    PROVE  OneToolInv'
<1>1. PICK id, todo : id = call[c].id /\ todo = call[c].todo
  OBVIOUS
<1>2. PICK existing \in [OperationIds -> ToolIds \cup {NoId}] :
        /\ call[c].at = "ListTools" /\ UNCHANGED <<db, made>>
        /\ ConnectorToolsByOperationID(existing)
        /\ Then(c, "SaveTools", id, existing, todo)
        /\ crowded' = crowded \cup {o \in OperationIds : MakesSecond(todo, existing, o)} \cup
             UNION {{e.spec.operation : e \in call[d].todo} :
                      d \in {d \in Clients \ {c} : call[d].at = "SaveTools"}}
  BY <1>1 DEF ImportListsTools, Continue
<1>3. /\ call'[c] = [at |-> "SaveTools", id |-> id, rec |-> existing, todo |-> todo]
      /\ \A d \in Clients \ {c} : call'[d] = call[d]
  BY <1>2, Moved DEF RegistryInv
<1>4. \A o \in OperationIds : NoneMade(o) /\ ToolsMadeOf(o)' = ToolsMadeOf(o)
  BY <1>2 DEF ToolsMadeOf, NoneMade
<1>5. /\ crowded \subseteq crowded'
      /\ \A o \in OperationIds : MakesSecond(todo, existing, o) => o \in crowded'
      /\ \A d \in Clients \ {c} : call[d].at = "SaveTools" =>
            \A e \in call[d].todo : e.spec.operation \in crowded'
  BY <1>2
<1>6. ASSUME NEW d \in Clients \ {c}, call[d].at = "SaveTools", NEW o \in OperationIds
      PROVE  Knows(d, o)'
  BY <1>3, <1>5, <1>6 DEF Knows
<1>7. ASSUME NEW o \in OperationIds, o \notin crowded'
      PROVE  Knows(c, o)'
  <2>1. PICK bound :
          bound = {t \in ListTools(db) : /\ db.tools[t].implementation = "connector"
                                         /\ db.tools[t].operation = o}
    OBVIOUS
  <2>2. existing[o] \in (IF bound = {} THEN {NoId} ELSE bound)
    BY <1>2, <2>1 DEF ConnectorToolsByOperationID
  <2>3. NoId \notin bound
    BY <2>1, RegistryDataAssumption DEF ListTools, Stored, RegistryInv, TablesInv, ToolsInv
  <2>4. ToolsMadeOf(o) \subseteq bound /\ NoId # o
    BY <2>1, RegistryDataAssumption
       DEF ToolsMadeOf, RegistryInv, MadeInv, TablesInv, ToolsInv, ListTools, Stored
  <2>5. existing[o] = NoId => ToolsMadeOf(o)' = {}
    BY <1>4, <2>2, <2>3, <2>4
  <2>6. ASSUME existing[o] # NoId, made'[existing[o]] = o
        PROVE  ToolsMadeOf(o)' \subseteq {existing[o]}
    <3>1. existing[o] \in ToolsMadeOf(o)
      BY <1>2, <2>1, <2>2, <2>6 DEF ToolsMadeOf
    <3> QED BY <1>4, <1>5, <1>7, <3>1 DEF OneToolInv
  <2>7. ~MakesSecond(todo, existing, o)
    BY <1>5, <1>7
  <2>8. /\ existing[o] = NoId => \A d, e \in {e \in todo : e.spec.operation = o} : d = e
        /\ existing[o] # NoId => \A e \in {e \in todo : e.spec.operation = o} : e.id \in {NoId, existing[o]}
    BY <2>7 DEF MakesSecond
  <2>9. \A d \in Clients \ {c} : call'[d].at = "SaveTools" =>
           \A e \in call'[d].todo : e.spec.operation # o
    BY <1>3, <1>5, <1>7
  <2> QED BY <1>3, <2>5, <2>6, <2>8, <2>9 DEF Knows
<1>8. \A d \in Clients : ImportKnows(d)'
  BY <1>3, <1>6, <1>7 DEF ImportKnows, Knows
<1> QED BY <1>4, <1>5, <1>8 DEF OneToolInv

\* What the save of an entry for operation o does to the tools made of the operations.
LEMMA ImportSavesMade ==
    ASSUME RegistryInv, NEW c \in Clients, call[c].at = "SaveTools", NEW entry \in call[c].todo,
           NEW id \in ToolIds, NEW row, NEW o \in OperationIds, entry.spec.operation = o,
           row.implementation = "connector", row.operation = o,
           SaveTool(id, row), MakesTool(c, entry, id)
    PROVE  /\ \A p \in OperationIds \ {o} : NoneMade(p)
           /\ ToolsMadeOf(o)' \subseteq ToolsMadeOf(o) \cup {id}
           /\ id = call[c].rec[o] =>
                 made' = made /\ (made[id] # o => ToolsMadeOf(o)' \subseteq ToolsMadeOf(o))
<1>1. DOMAIN db.tools = ToolIds /\ db'.tools = [db.tools EXCEPT ![id] = row]
  BY OneTable, KindsAre DEF SaveTool, RegistryInv, TablesInv, ToolsInv, Saves, Kinds
<1>2. made \in [ToolIds -> OperationIds \cup {NoId}]
  BY DEF RegistryInv, MadeInv
<1>3. \/ made' = made /\ id = call[c].rec[o]
      \/ made' = [made EXCEPT ![id] = o] /\ id # call[c].rec[o]
  BY DEF MakesTool
<1>4. \A t \in ToolIds \ {id} : made'[t] = made[t] /\ db'.tools[t] = db.tools[t]
  BY <1>1, <1>2, <1>3
<1>5. db'.tools[id].operation = o
  BY <1>1
<1>6. ASSUME NEW p \in OperationIds \ {o} PROVE NoneMade(p)
  <2>1. \A t \in ToolIds : made'[t] = p => made[t] = p
    BY <1>2, <1>3
  <2>2. ToolsMadeOf(p)' \subseteq ToolsMadeOf(p)
    BY <1>4, <1>5 DEF ToolsMadeOf
  <2> QED BY <2>1, <2>2 DEF NoneMade
<1>7. ToolsMadeOf(o)' \subseteq ToolsMadeOf(o) \cup {id}
  BY <1>4 DEF ToolsMadeOf
<1>8. id = call[c].rec[o] => made' = made /\ (made[id] # o => ToolsMadeOf(o)' \subseteq ToolsMadeOf(o))
  BY <1>3, <1>4 DEF ToolsMadeOf
<1> QED BY <1>6, <1>7, <1>8

\* An import that does not crowd an operation makes a tool of it only when there is none.
LEMMA ImportSavesKnown ==
    ASSUME RegistryInv, OneToolInv, NEW c \in Clients, ImportSavesTool(c)
    PROVE  OneToolInv'
<1>0. call[c].at = "SaveTools" /\ UNCHANGED crowded
  BY ImportSaves
<1>1. CASE Return(c) /\ UNCHANGED <<db, made>>
  <2>1. call'[c] = Idle /\ \A d \in Clients \ {c} : call'[d] = call[d]
    BY <1>1, Returned DEF RegistryInv
  <2>2. \A o \in OperationIds : NoneMade(o)
    BY <1>1 DEF ToolsMadeOf, NoneMade
  <2> QED BY <1>0, <2>1, <2>2, NothingMade DEF Idle
<1>2. ASSUME NEW entry \in call[c].todo, NEW id \in ToolIds, NEW row \in Tool,
             row.implementation = "connector", row.operation = entry.spec.operation,
             entry.operation # NoRecord, SaveTool(id, row), MakesTool(c, entry, id),
             \/ Return(c)
             \/ Then(c, "SaveTools", call[c].id, call[c].rec, call[c].todo \ {entry})
      PROVE  OneToolInv'
  <2>1. PICK o \in OperationIds : o = row.operation
    BY <1>0, <1>2 DEF RegistryInv, Held, HoldsImport, Importable
  <2>2. PICK tool : tool = call[c].rec[o] /\ tool \in ToolIds \cup {NoId}
    BY <1>0 DEF RegistryInv, Held, HoldsImport
  <2>3. /\ \A d \in Clients \ {c} : call'[d] = call[d]
        /\ \/ call'[c].at = "idle"
           \/ /\ call'[c].at = "SaveTools" /\ call'[c].rec = call[c].rec
              /\ call'[c].todo = call[c].todo \ {entry}
    <3>1. CASE Return(c)
      BY <3>1, Returned DEF RegistryInv, Idle
    <3>2. CASE Then(c, "SaveTools", call[c].id, call[c].rec, call[c].todo \ {entry})
      <4>1. PICK i, rec, todo : i = call[c].id /\ rec = call[c].rec /\ todo = call[c].todo \ {entry}
        OBVIOUS
      <4>2. /\ call'[c] = [at |-> "SaveTools", id |-> i, rec |-> rec, todo |-> todo]
            /\ \A d \in Clients \ {c} : call'[d] = call[d]
        BY <3>2, <4>1, Moved DEF RegistryInv
      <4> QED BY <4>1, <4>2
    <3> QED BY <1>2, <3>1, <3>2
  <2>4. /\ \A p \in OperationIds \ {o} : NoneMade(p)
        /\ ToolsMadeOf(o)' \subseteq ToolsMadeOf(o) \cup {id}
        /\ id = tool => made' = made /\ (made[id] # o => ToolsMadeOf(o)' \subseteq ToolsMadeOf(o))
    BY <1>0, <1>2, <2>1, <2>2, ImportSavesMade
  <2>5. ASSUME o \notin crowded
        PROVE  /\ tool = NoId => /\ ToolsMadeOf(o) = {}
                                 /\ \A e \in call[c].todo : e.spec.operation = o => e = entry
               /\ tool # NoId => /\ id = tool /\ (made[tool] = o => ToolsMadeOf(o) \subseteq {tool})
                                 /\ \A e \in call[c].todo : e.spec.operation = o => e.id \in {NoId, tool}
               /\ \A d \in Clients \ {c} : call[d].at = "SaveTools" =>
                     \A e \in call[d].todo : e.spec.operation # o
    <3>1. Knows(c, o) /\ entry.spec.operation = o
      BY <1>0, <1>2, <2>1 DEF OneToolInv, ImportKnows
    <3>2. /\ tool = NoId => /\ ToolsMadeOf(o) = {}
                            /\ \A e \in call[c].todo : e.spec.operation = o => e = entry
          /\ tool # NoId => /\ made[tool] = o => ToolsMadeOf(o) \subseteq {tool}
                            /\ \A e \in call[c].todo : e.spec.operation = o => e.id \in {NoId, tool}
          /\ \A d \in Clients \ {c} : call[d].at = "SaveTools" =>
                \A e \in call[d].todo : e.spec.operation # o
      BY <2>2, <2>5, <3>1 DEF Knows
    <3>3. tool # NoId => id = tool
      BY <1>2, <2>2, <3>1, <3>2 DEF MakesTool
    <3> QED BY <3>2, <3>3
  <2>6. ASSUME NEW p \in OperationIds \ crowded', NEW s \in ToolsMadeOf(p)', NEW t \in ToolsMadeOf(p)'
        PROVE  s = t
    <3>1. CASE p # o
      BY <1>0, <2>4, <2>6, <3>1 DEF OneToolInv, NoneMade
    <3>2. CASE p = o
      BY <1>0, <2>4, <2>5, <2>6, <3>2 DEF OneToolInv
    <3> QED BY <3>1, <3>2
  <2>7. ASSUME NEW d \in Clients, call'[d].at = "SaveTools", NEW p \in OperationIds, p # o \/ d # c
        PROVE  Knows(d, p)'
    <3>1. /\ call[d].at = "SaveTools" /\ call'[d].rec = call[d].rec
          /\ call'[d].todo \subseteq call[d].todo
      BY <1>0, <2>3, <2>7
    <3>2. OthersLeave(d, p)
      BY <1>0, <2>3 DEF OthersLeave
    <3>3. (\E e \in call[d].todo : e.spec.operation = p) /\ p \notin crowded' => NoneMade(p)
      BY <1>0, <2>4, <2>5, <2>7, <3>1
    <3>4. Knows(d, p)
      BY <3>1 DEF OneToolInv, ImportKnows
    <3> QED BY <1>0, <3>1, <3>2, <3>3, <3>4, KnowsStill
  <2>8. ASSUME call'[c].at = "SaveTools"
        PROVE  Knows(c, o)'
    <3> SUFFICES ASSUME NEW e \in call'[c].todo, e.spec.operation = o, o \notin crowded'
                 PROVE  Knows(c, o)'
      BY DEF Knows
    <3>1. call'[c].rec[o] = tool /\ call'[c].todo = call[c].todo \ {entry}
      BY <2>2, <2>3, <2>8
    <3>2. tool # NoId /\ id = tool
      BY <1>0, <2>5, <3>1
    <3>3. /\ made'[tool] = o => ToolsMadeOf(o)' \subseteq {tool}
          /\ \A f \in call'[c].todo : f.spec.operation = o => f.id \in {NoId, tool}
          /\ \A d \in Clients \ {c} : call'[d].at = "SaveTools" =>
                \A f \in call'[d].todo : f.spec.operation # o
      BY <1>0, <2>3, <2>4, <2>5, <3>1, <3>2
    <3> QED BY <3>1, <3>2, <3>3 DEF Knows
  <2>9. \A d \in Clients : ImportKnows(d)'
    BY <2>7, <2>8 DEF ImportKnows
  <2> QED BY <2>6, <2>9 DEF OneToolInv
<1> QED BY <1>1, <1>2, ImportSaves

LEMMA OneToolStart == Init => OneToolInv
BY RegistryDataAssumption DEF Init, OneToolInv, ToolsMadeOf, ImportKnows, Idle

LEMMA OneToolKept ==
    ASSUME RegistryInv, OneToolInv, [Next]_vars
    PROVE  OneToolInv'
<1>1. ASSUME NEW c \in Clients, Elsewhere(c)
      PROVE  OneToolInv'
  <2>1. \A o \in OperationIds : NoneMade(o)
    BY <1>1 DEF Elsewhere, NoneMade, ToolsMadeOf
  <2> QED BY <1>1, <2>1, NothingMade DEF Elsewhere
<1>2. ASSUME NEW c \in Clients, ToolRoutes(c)
      PROVE  OneToolInv'
  BY <1>1, <1>2, MostStepsElsewhere, ToolSavedKnown DEF ToolRoutes
<1>3. ASSUME NEW c \in Clients, OperationRoutes(c)
      PROVE  OneToolInv'
  BY <1>1, <1>3, MostStepsElsewhere, ImportBeginsKnown, ImportListsKnown, ImportSavesKnown
     DEF OperationRoutes
<1>4. CASE Next
  BY <1>1, <1>2, <1>3, <1>4, MostStepsElsewhere DEF Next
<1>5. CASE UNCHANGED vars
  BY <1>5 DEF vars, OneToolInv, ToolsMadeOf, ImportKnows, Knows
<1> QED BY <1>4, <1>5

\* Imports leave an operation with one tool of theirs, but for those in crowded, for any
\* lists, any number of imports, of clients that bind the tools anew in between, and
\* wherever an import dies.
THEOREM OneToolPerOperationHolds == Spec => []OneToolPerOperation
<1>1. RegistryInv /\ OneToolInv => OneToolPerOperation
  <2> SUFFICES ASSUME RegistryInv, OneToolInv, NEW o \in ListConnectorOperations(db), o \notin crowded
               PROVE  Cardinality(ToolsMadeOf(o)) <= 1
    BY DEF OneToolPerOperation
  <2>1. \A s, t \in ToolsMadeOf(o) : s = t
    BY DEF OneToolInv, ListConnectorOperations, Stored, RegistryInv, TablesInv, OperationsInv
  <2>2. CASE ToolsMadeOf(o) = {}
    BY <2>2, FS_EmptySet
  <2>3. CASE ToolsMadeOf(o) # {}
    <3>1. PICK t : ToolsMadeOf(o) = {t}
      BY <2>1, <2>3
    <3>2. Cardinality(ToolsMadeOf(o)) = 1
      BY <3>1, FS_Singleton
    <3> QED BY <3>2
  <2> QED BY <2>2, <2>3
<1>2. OneToolInv /\ RegistryInv /\ [Next]_vars => OneToolInv'
  BY OneToolKept
<1> QED BY <1>1, <1>2, OneToolStart, RegistryInvariant, PTL DEF Spec
=============================================================================
