---------------------------- MODULE RegistryData ----------------------------
(***************************************************************************)
(* The records of the platform API's registry (internal/platformapi) and   *)
(* the functions of application/service.go on them: the defaults a record  *)
(* gets before it is stored, its validation (domain/*.go), what an agent   *)
(* flow's graph says about its supervisor, the checks a workflow must pass *)
(* to be published, and the dependency reports.                            *)
(*                                                                         *)
(* A record keeps the fields the rest of the service decides on. Names,    *)
(* descriptions, owners, schemas and prompts are left out; they get their  *)
(* defaults by the rule of Inherit, and nothing else reads them. One       *)
(* tenant: every key of every table begins with the tenant's id.           *)
(***************************************************************************)
EXTENDS Integers, FiniteSets, FiniteSetsExt

CONSTANTS AgentIds, FlowIds, WorkflowIds, ToolIds, SkillIds, ConnectorIds,
          OperationIds, NodeIds,
          NoId,           \* an empty id
          NoRecord,       \* no row; also a fallback that is nil
          Start,          \* the node id "start"
          LocalAgentID(_, _), \* the id of a flow's local agent at a node
          DefaultDepth,   \* the supervisor's max_depth when none is given: 4
          MaxGraphDepth   \* the platform's limit on it: 16

ASSUME RegistryDataAssumption ==
    /\ NoId \notin AgentIds \cup FlowIds \cup WorkflowIds \cup ToolIds \cup SkillIds
                   \cup ConnectorIds \cup OperationIds \cup NodeIds
    /\ Start \in NodeIds
    /\ \A f \in FlowIds, n \in NodeIds : LocalAgentID(f, n) \in AgentIds
    /\ DefaultDepth \in Nat \ {0} /\ MaxGraphDepth \in Nat
    /\ DefaultDepth <= MaxGraphDepth

Status == {"draft", "enabled", "disabled"}

\* Of each kind, the rows that are stored (Agent, ...) and what a request's body may
\* hold (AgentBody, ...): an empty field is "unset", a string that no validation
\* accepts is "unknown".
Row(T)  == T \cup {NoRecord}
Sent(T) == T \cup {"unset", "unknown"}

(***************************************************************************)
(* Defaults. A field that is empty takes the stored record's value, if an  *)
(* update passed one, and else the default.                                *)
(***************************************************************************)
Inherit(value, fallback, field, default) ==
    IF value # "unset" THEN value
    ELSE IF fallback # NoRecord THEN fallback[field] ELSE default

-----------------------------------------------------------------------------
(***************************************************************************)
(* Agents, skills and tools                                                *)
(***************************************************************************)

Agent == [ status : Status,
           owner  : {"team", "flow"},  \* "flow": owned by "Agent Flow Local"
           skills : SUBSET SkillIds,
           tools  : SUBSET ToolIds,
           policy : {"fine"} ]         \* limits and temperature are in range

AgentBody == [ status : Sent(Status), owner : {"unset", "team", "flow"}, skills : SUBSET SkillIds,
               tools : SUBSET ToolIds, policy : {"unset", "fine", "negative"} ]

ApplyAgentDefaults(profile, fallback) ==
    [ profile EXCEPT !.status = Inherit(@, fallback, "status", "draft"),
                     !.owner  = Inherit(@, fallback, "owner", "team"),
                     !.policy = Inherit(@, fallback, "policy", "fine") ]

ValidateAgent(profile) == profile.status \in Status /\ profile.policy # "negative"

Skill == [ status : Status, tools : SUBSET ToolIds, policy : {"fine"} ]

SkillBody == [status : Sent(Status), tools : SUBSET ToolIds, policy : {"unset", "fine", "negative"}]

ApplySkillDefaults(spec, fallback) ==
    [ spec EXCEPT !.status = Inherit(@, fallback, "status", "draft"),
                  !.policy = Inherit(@, fallback, "policy", "fine") ]

ValidateSkill(spec) == spec.status \in Status /\ spec.policy # "negative"

SideEffect == {"none", "read", "write"}
RiskLevel  == {"low", "medium", "high"}

Tool == [ status         : Status,
          implementation : {"connector", "workflow", "other"},
          operation      : OperationIds \cup {NoId},
          workflow       : WorkflowIds \cup {NoId},
          sideEffect     : SideEffect,
          risk           : RiskLevel,
          confirm        : BOOLEAN ]

ToolBody == [ status : Sent(Status), implementation : {"connector", "workflow", "other"},
              operation : OperationIds \cup {NoId}, workflow : WorkflowIds \cup {NoId},
              sideEffect : Sent(SideEffect), risk : Sent(RiskLevel), confirm : BOOLEAN ]

RequiresExecutionConfirmation(tool) == tool.confirm \/ tool.risk = "high"

ApplyToolDefaults(spec, fallback) ==
    [ spec EXCEPT !.status     = Inherit(@, fallback, "status", "disabled"),
                  !.sideEffect = Inherit(@, fallback, "sideEffect", "none"),
                  !.risk       = Inherit(@, fallback, "risk", "low") ]

\* "other" stands for knowledge bases, Python packages and MCP servers, whose
\* ids no other table holds.
ValidateTool(spec) ==
    /\ spec.status \in Status /\ spec.sideEffect \in SideEffect /\ spec.risk \in RiskLevel
    /\ spec.implementation = "connector" => spec.operation # NoId
    /\ spec.implementation = "workflow"  => spec.workflow # NoId

-----------------------------------------------------------------------------
(***************************************************************************)
(* Connectors and their operations                                         *)
(***************************************************************************)

Connector == [ status : Status, base : {"url"}, auth : {"none", "oauth2"} ]

ConnectorBody == [status : Sent(Status), base : Sent({"url"}), auth : Sent({"none", "oauth2"})]

ApplyConnectorDefaults(spec, fallback) ==
    [ spec EXCEPT !.status = Inherit(@, fallback, "status", "draft"),
                  !.auth   = Inherit(@, fallback, "auth", "none") ]

ValidateConnector(spec) ==
    spec.status \in Status /\ spec.base = "url" /\ spec.auth \in {"none", "oauth2"}

\* query: the name, path or description holds a word like "search" or "list".
Operation == [ status    : Status,
               connector : ConnectorIds \cup {NoId},
               base      : {"unset", "url"},
               auth      : {"unset", "none", "oauth2"},
               method    : {"GET", "POST"},
               query     : BOOLEAN ]

OperationBody == [ status : Sent(Status), connector : ConnectorIds \cup {NoId},
                   base : {"unset", "url"}, auth : {"unset", "none", "oauth2"},
                   method : {"unset", "GET", "POST"}, query : BOOLEAN ]

ApplyConnectorOperationDefaults(spec, fallback) ==
    [ spec EXCEPT !.status    = Inherit(@, fallback, "status", "draft"),
                  !.connector = IF @ = NoId /\ fallback # NoRecord THEN fallback.connector ELSE @,
                  !.base      = Inherit(@, fallback, "base", "unset"),
                  !.auth      = LET auth == Inherit(@, fallback, "auth", "none")
                                IN IF auth = "unset" THEN "none" ELSE auth,
                  !.method    = Inherit(@, fallback, "method", "unset") ]

\* What the connector owns is not stored with an operation of it.
NormalizeForStorage(spec) == [spec EXCEPT !.base = "unset", !.auth = "unset"]

\* An operation as it is returned: its connector's connection fields.
ApplyConnectorToOperation(spec, parent) ==
    [spec EXCEPT !.base = parent.base, !.auth = parent.auth]

ValidateConnectorOperation(spec) ==
    /\ spec.status \in Status
    /\ spec.connector = NoId => spec.base = "url"
    /\ spec.method # "unset"

ConnectorOperationLooksReadOnly(operation) ==
    \/ operation.method = "GET"
    \/ operation.method = "POST" /\ operation.query

ConnectorOperationSideEffect(operation) ==
    IF ConnectorOperationLooksReadOnly(operation) THEN "read" ELSE "write"

ConnectorOperationRiskLevel(sideEffect) == IF sideEffect = "write" THEN "medium" ELSE "low"

\* The tool an import makes of an operation the client named no tool for.
NewToolSpecFromConnectorOperation(id, operation) ==
    LET sideEffect == ConnectorOperationSideEffect(operation)
    IN [ status         |-> "disabled",
         implementation |-> "connector",
         operation      |-> id,
         workflow       |-> NoId,
         sideEffect     |-> sideEffect,
         risk           |-> ConnectorOperationRiskLevel(sideEffect),
         confirm        |-> sideEffect = "write" ]

\* An import never looks at the stored tool's own fields: no fallback.
ApplyConnectorToolDefaults(spec, operation) ==
    LET sideEffect == IF spec.sideEffect = "unset" THEN ConnectorOperationSideEffect(operation)
                      ELSE spec.sideEffect
    IN ApplyToolDefaults(
         [ spec EXCEPT !.sideEffect = sideEffect,
                       !.risk = IF @ = "unset" THEN ConnectorOperationRiskLevel(sideEffect) ELSE @,
                       !.status = IF @ = "unset" THEN "disabled" ELSE @ ], NoRecord)

-----------------------------------------------------------------------------
(***************************************************************************)
(* Graphs                                                                  *)
(***************************************************************************)

\* The nodes at the ends of exactly k edges from n.
After(edges, n, k) ==
    LET step[i \in 0..k] ==
          IF i = 0 THEN {n} ELSE {e[2] : e \in {e \in edges : e[1] \in step[i - 1]}}
    IN step[k]

Reachable(edges, n) == UNION {After(edges, n, k) : k \in 0..Cardinality(edges)}

EmptyGraph == [entry |-> NoId, nodes |-> [n \in {} |-> NoRecord], edges |-> {}]

WithStart(graph, node) ==
    LET entry == IF graph.entry = NoId THEN Start ELSE graph.entry
    IN [ entry |-> entry,
         edges |-> graph.edges,
         nodes |-> [ n \in DOMAIN graph.nodes \cup {entry} |->
                       IF n \in DOMAIN graph.nodes THEN graph.nodes[n] ELSE node ] ]

InheritGraph(graph, fallback) ==
    IF graph = EmptyGraph /\ fallback # NoRecord THEN fallback.graph ELSE graph

EdgesInside(graph) == graph.edges \subseteq (DOMAIN graph.nodes) \X (DOMAIN graph.nodes)

-----------------------------------------------------------------------------
(***************************************************************************)
(* Workflows. ref is the id a node is bound to, targets are the next nodes *)
(* a condition's branches name.                                            *)
(***************************************************************************)

WorkflowNodeType == {"start", "end", "join", "transform", "condition",
                     "connector_operation", "tool", "skill", "agent"}

Profile == {"tool_workflow", "agent_workflow"}

StartStep == [type |-> "start", ref |-> NoId, targets |-> {}]

ApplyWorkflowDefaults(spec, fallback) ==
    [ spec EXCEPT !.status  = Inherit(@, fallback, "status", "draft"),
                  !.profile = Inherit(@, fallback, "profile", "tool_workflow"),
                  !.graph   = WithStart(InheritGraph(@, fallback), StartStep) ]

HasCycle(graph) ==
    \E e \in graph.edges : e[1] \in Reachable(graph.edges, e[2])

AllowedNodeTypes(profile) ==
    {"start", "end", "join", "transform", "condition"} \cup
    (IF profile = "tool_workflow" THEN {"connector_operation"} ELSE {"tool", "skill", "agent"})

ValidateWorkflow(spec) ==
    /\ spec.status \in Status
    /\ spec.profile \in Profile
    /\ EdgesInside(spec.graph) /\ ~HasCycle(spec.graph)
    /\ \A n \in DOMAIN spec.graph.nodes : spec.graph.nodes[n].type \in AllowedNodeTypes(spec.profile)

\* To be published, a workflow's nodes must be reachable, the start node has one
\* way out and conditions lead somewhere.
ValidateWorkflowReachability(graph) ==
    /\ graph.entry = Start => Cardinality({e \in graph.edges : e[1] = Start}) <= 1
    /\ DOMAIN graph.nodes \subseteq Reachable(graph.edges, graph.entry)
    /\ \A n \in DOMAIN graph.nodes :
         graph.nodes[n].type = "condition" => graph.nodes[n].targets \subseteq DOMAIN graph.nodes

Bound(node) == node.type \in {"connector_operation", "tool", "skill", "agent"}

\* ... and each bound node is bound to something that is enabled.
NodeBindingHolds(db, node) ==
    LET Enabled(table) == node.ref \in DOMAIN table /\ table[node.ref] # NoRecord
                          /\ table[node.ref].status = "enabled"
    IN CASE node.type = "connector_operation" -> Enabled(db.operations)
         [] node.type = "tool"                -> Enabled(db.tools)
         [] node.type = "skill"               -> Enabled(db.skills)
         [] node.type = "agent"               -> Enabled(db.agents)
         [] OTHER                             -> node.type = "transform" => node.ref # NoId

-----------------------------------------------------------------------------
(***************************************************************************)
(* Agent flows. A node's local is the configuration of an agent that       *)
(* belongs to the flow, mode says whether the node uses it.                *)
(***************************************************************************)

LocalAgent == [skills : SUBSET SkillIds, tools : SUBSET ToolIds, policy : {"fine", "negative"}]

FlowNode == [ type  : {"start", "agent_node", "supervisor_node", "other"},
              mode  : {"unset", "local", "existing"},
              agent : AgentIds \cup {NoId},
              local : Row(LocalAgent) ]

\* An agent flow, in a request's body or in a row.
IsAgentFlow(spec) ==
    /\ DOMAIN spec = {"status", "mode", "supervisor", "subs", "depth", "graph"}
    /\ spec.depth \in Int
    /\ DOMAIN spec.graph = {"entry", "nodes", "edges"} /\ IsFiniteSet(spec.graph.edges)
    /\ spec.graph.entry \in NodeIds \cup {NoId} /\ DOMAIN spec.graph.nodes \subseteq NodeIds
    /\ \A n \in DOMAIN spec.graph.nodes : spec.graph.nodes[n] \in FlowNode

StartNode == [type |-> "start", mode |-> "unset", agent |-> NoId, local |-> NoRecord]

ApplySupervisorDefaults(depth) == IF depth = 0 THEN DefaultDepth ELSE depth

ApplyAgentFlowDefaults(spec, fallback) ==
    LET Empty == spec.supervisor = NoId /\ spec.subs = {} /\ spec.depth = 0
        From(field) == IF Empty /\ fallback # NoRecord THEN fallback[field] ELSE spec[field]
    IN [ spec EXCEPT !.status     = Inherit(@, fallback, "status", "draft"),
                     !.mode       = Inherit(@, fallback, "mode", "workflow"),
                     !.supervisor = From("supervisor"),
                     !.subs       = From("subs"),
                     !.depth      = ApplySupervisorDefaults(From("depth")),
                     !.graph      = WithStart(InheritGraph(@, fallback), StartNode) ]

IsAgentLike(node) == node.type \in {"agent_node", "supervisor_node"}

HasLocalAgent(node) == IsAgentLike(node) /\ node.mode = "local" /\ node.local # NoRecord

LocalNodes(graph) == {n \in DOMAIN graph.nodes : HasLocalAgent(graph.nodes[n])}

LocalAgentProfile(node) ==
    [ status |-> "enabled", owner |-> "flow", skills |-> node.local.skills,
      tools  |-> node.local.tools, policy |-> node.local.policy ]

IsExistingAgent(node) ==
    /\ IsAgentLike(node)
    /\ \/ node.mode = "existing"
       \/ node.mode = "unset" /\ node.agent # NoId /\ node.local = NoRecord

\* The supervisor is the node the entry leads to.
SupervisorNode(graph) ==
    IF \E e \in graph.edges : e[1] = graph.entry
    THEN (CHOOSE e \in graph.edges : e[1] = graph.entry)[2] ELSE NoId

SubAgents(graph, supervisor) ==
    { graph.nodes[n].agent :
        n \in {n \in DOMAIN graph.nodes \ {SupervisorNode(graph)} : IsAgentLike(graph.nodes[n])} }
    \ {NoId, supervisor}

\* The entry has no children: it leads to the supervisor.
Children(graph, n) == {e[2] : e \in {e \in graph.edges : e[1] = n /\ n # graph.entry}}

\* Mutation of AgentGraphDepth: a node that is being visited counts as a leaf.
AgentGraphDepthOnce(graph) ==
    LET nodes == {SupervisorNode(graph)} \cup {e[2] : e \in graph.edges}
        depth[visiting \in SUBSET nodes] ==
          [n \in nodes |-> IF n \in visiting THEN 0
                           ELSE Max({0} \cup {1 + depth[visiting \cup {n}][c] : c \in Children(graph, n)})]
    IN IF SupervisorNode(graph) = NoId THEN 0 ELSE depth[{}][SupervisorNode(graph)]

\* The longest path below the supervisor; a cycle counts as one too long.
AgentGraphDepth(graph) ==
    LET nodes == {SupervisorNode(graph)} \cup {e[2] : e \in graph.edges}
        depth[visiting \in SUBSET nodes] ==
          [n \in nodes |-> IF n \in visiting THEN MaxGraphDepth + 1
                           ELSE Max({0} \cup {1 + depth[visiting \cup {n}][c] : c \in Children(graph, n)})]
    IN IF SupervisorNode(graph) = NoId THEN 0 ELSE depth[{}][SupervisorNode(graph)]

NormalizeSupervisor(spec) ==
    LET node       == SupervisorNode(spec.graph)
        supervisor == IF node \in DOMAIN spec.graph.nodes THEN spec.graph.nodes[node].agent ELSE NoId
    IN IF spec.mode # "supervisor" THEN spec
       ELSE [ spec EXCEPT
                !.supervisor = supervisor,
                !.subs  = IF node \in DOMAIN spec.graph.nodes THEN SubAgents(spec.graph, supervisor) ELSE {},
                !.depth = Max({@, AgentGraphDepth(spec.graph)}) ]

ExistingAgentsAreLeaves(graph) ==
    \A n \in DOMAIN graph.nodes : IsExistingAgent(graph.nodes[n]) => \A e \in graph.edges : e[1] # n

ValidateSupervisor(spec) ==
    /\ spec.supervisor # NoId /\ spec.supervisor \notin spec.subs /\ NoId \notin spec.subs
    /\ spec.depth \in 0..MaxGraphDepth

ValidateAgentFlow(spec) ==
    /\ spec.status \in Status /\ spec.mode \in {"workflow", "supervisor"}
    /\ spec.mode = "supervisor" =>
         /\ ExistingAgentsAreLeaves(spec.graph)
         /\ spec.status = "enabled" => ValidateSupervisor(spec)
    /\ EdgesInside(spec.graph)
    /\ Cardinality({e \in spec.graph.edges : e[1] = spec.graph.entry}) <= 1

-----------------------------------------------------------------------------
(***************************************************************************)
(* Dependency reports. db is the value of the registry's tables, Stored(t) *)
(* are the ids that have a row in table t.                                 *)
(***************************************************************************)

\* The tables as Migrate makes them; it leaves the rows of those there are.
Migrated ==
    LET Table(ids) == [i \in ids |-> NoRecord]
    IN [ agents     |-> Table(AgentIds),     flows      |-> Table(FlowIds),
         workflows  |-> Table(WorkflowIds),  tools      |-> Table(ToolIds),
         skills     |-> Table(SkillIds),     connectors |-> Table(ConnectorIds),
         operations |-> Table(OperationIds) ]

Stored(table) == {i \in DOMAIN table : table[i] # NoRecord}

ListAgents(db) == Stored(db.agents)
ListSkills(db) == Stored(db.skills)
ListTools(db)  == Stored(db.tools)
ListConnectorOperations(db) == Stored(db.operations)

AgentDependencies(db, a) ==
    LET profile == db.agents[a]
        direct  == profile.tools \cap ListTools(db)
        skills  == profile.skills \cap ListSkills(db)
    IN [ skills    |-> skills,
         direct    |-> direct,
         disabled  |-> {s \in skills : db.skills[s].status # "enabled"},
         reachable |-> direct \cup (UNION {db.skills[s].tools : s \in skills} \cap ListTools(db)) ]

ToolDependencies(db, t) ==
    LET skills == {s \in ListSkills(db) : t \in db.skills[s].tools}
        direct == {a \in ListAgents(db) : t \in db.agents[a].tools}
    IN [ skills   |-> skills,
         direct   |-> direct,
         indirect |-> {a \in ListAgents(db) \ direct : db.agents[a].skills \cap skills # {}} ]

SkillDependencies(db, s) == {a \in ListAgents(db) : s \in db.agents[a].skills}

ConnectorOperationDependencies(db, o) ==
    LET tools  == {t \in ListTools(db) : db.tools[t].implementation = "connector"
                                            /\ db.tools[t].operation = o}
        skills == {s \in ListSkills(db) : db.skills[s].tools \cap tools # {}}
    IN [ tools    |-> tools,
         blocking |-> {t \in tools : RequiresExecutionConfirmation(db.tools[t])},
         skills   |-> skills,
         agents   |-> {a \in ListAgents(db) : db.agents[a].skills \cap skills # {}} ]
=============================================================================
