------------------------------ MODULE Registry ------------------------------
(***************************************************************************)
(* The platform API (internal/platformapi): consoles and scripts that      *)
(* create, update, enable and disable the resources of one tenant, and     *)
(* import a connector's operations as tools, over a registry of tables.    *)
(*                                                                         *)
(* A method of a repository is one SQL statement on a single connection    *)
(* (infrastructure/sqlite_registry.go), hence atomic. Nothing ties two of  *)
(* them together: what a call has read may have changed when it saves, and *)
(* a call that dies or is refused half-way keeps what it has saved.        *)
(* Nothing deletes a row. A call that is refused at once changes nothing   *)
(* and is not a step.                                                      *)
(***************************************************************************)
EXTENDS RegistryData, Sequences

CONSTANTS Clients,
          Seeds,           \* registries to begin with
          AgentSpecs, FlowSpecs, WorkflowSpecs, ToolSpecs, SkillSpecs,
          ConnectorSpecs, OperationSpecs, \* request bodies, by kind
          ImportLists,     \* lists of [id, spec], as a client may send to an import
          MaxCalls,        \* bound: calls in a behaviour
          MaxAborts        \* bound: calls that die

\* A workflow is stored with its defaults: its graph is one that was sent, with a start.
Graphs == {WithStart(spec.graph, StartStep) : spec \in WorkflowSpecs} \cup
          UNION {{tables.workflows[w].graph : w \in Stored(tables.workflows)} : tables \in Seeds}

Workflow == [status : Status, profile : Profile, graph : Graphs]

WorkflowValid(spec) == ValidateWorkflow(spec) /\ spec.graph.entry \in DOMAIN spec.graph.nodes
FlowValid(spec)     == ValidateAgentFlow(spec) /\ spec.graph.entry \in DOMAIN spec.graph.nodes

RowsValid(tables) ==
    /\ tables.agents     \in [AgentIds -> Row(Agent)]
    /\ tables.skills     \in [SkillIds -> Row(Skill)]
    /\ tables.tools      \in [ToolIds -> Row(Tool)]
    /\ tables.connectors \in [ConnectorIds -> Row(Connector)]
    /\ tables.operations \in [OperationIds -> Row(Operation)]
    /\ \A t \in ListTools(tables) : ValidateTool(tables.tools[t])
    /\ \A o \in ListConnectorOperations(tables) : ValidateConnectorOperation(tables.operations[o])
    /\ \A w \in Stored(tables.workflows) : WorkflowValid(tables.workflows[w])
    /\ \A f \in Stored(tables.flows) : FlowValid(tables.flows[f])

EnabledWorkflows(tables) ==
    {w \in Stored(tables.workflows) : tables.workflows[w].status = "enabled"}

ToolsRunnable(tables, workflows) ==
    \A t \in ListTools(tables) :
        tables.tools[t].status = "enabled" /\ tables.tools[t].implementation = "workflow"
            => tables.tools[t].workflow \in workflows

OperationsConnected(tables) ==
    \A o \in ListConnectorOperations(tables) :
        LET parent == tables.connectors[tables.operations[o].connector] IN
        tables.operations[o].connector # NoId =>
           parent # NoRecord /\ ApplyConnectorToOperation(tables.operations[o], parent).base = "url"

FlowAgentsStored(tables) ==
    \A f \in Stored(tables.flows) : \A n \in LocalNodes(tables.flows[f].graph) :
        /\ tables.flows[f].graph.nodes[n].agent = LocalAgentID(f, n)
        /\ tables.agents[LocalAgentID(f, n)] # NoRecord

SupervisorsBounded(tables) ==
    \A f \in Stored(tables.flows) :
        tables.flows[f].status = "enabled" /\ tables.flows[f].mode = "supervisor" =>
            LET graph == tables.flows[f].graph
                below == {e \in graph.edges : e[1] # graph.entry}
            IN /\ SupervisorNode(graph) # NoId
               /\ After(below, SupervisorNode(graph), MaxGraphDepth + 1) = {}

\* A registry as the service leaves one, Migrated at first.
Sound(tables) ==
    /\ DOMAIN tables = DOMAIN Migrated /\ RowsValid(tables)
    /\ tables.workflows \in [WorkflowIds -> Row(Workflow)] /\ DOMAIN tables.flows = FlowIds
    /\ \A w \in Stored(tables.workflows) :
          WithStart(tables.workflows[w].graph, StartStep) = tables.workflows[w].graph
    /\ \A f \in Stored(tables.flows) : IsAgentFlow(tables.flows[f])
    /\ ToolsRunnable(tables, EnabledWorkflows(tables))
    /\ OperationsConnected(tables) /\ FlowAgentsStored(tables) /\ SupervisorsBounded(tables)

ASSUME RegistryAssumption ==
    /\ NoRecord \notin Agent \cup Skill \cup Tool \cup Connector \cup Operation \cup Workflow
    /\ \A tables \in Seeds : Sound(tables)
    /\ AgentSpecs \subseteq AgentBody         /\ SkillSpecs \subseteq SkillBody
    /\ ToolSpecs \subseteq ToolBody           /\ ConnectorSpecs \subseteq ConnectorBody
    /\ OperationSpecs \subseteq OperationBody
    /\ \A spec \in WorkflowSpecs : DOMAIN spec = {"status", "profile", "graph"}
    /\ \A spec \in FlowSpecs : IsAgentFlow(spec)
    /\ ImportLists \subseteq Seq([id : ToolIds \cup {NoId}, spec : ToolBody])
    /\ MaxCalls \in Nat /\ MaxAborts \in Nat

VARIABLES db,      \* the tables: id -> record, or NoRecord
          call,    \* where each client's call is: the next access, and what it holds
          calls, aborts,
          everEnabled, \* history: workflows that have been enabled
          made,        \* history: the operation an import made the tool for, by tool
          crowded      \* history: operations an import may have made a second tool for

vars == <<db, call, calls, aborts, everEnabled, made, crowded>>

Idle == [at |-> "idle", id |-> NoId, rec |-> NoRecord, todo |-> {}]

-----------------------------------------------------------------------------
(***************************************************************************)
(* The repositories                                                        *)
(***************************************************************************)

SaveAgent(id, profile)     == db' = [db EXCEPT !.agents[id] = profile]
SaveAgentFlow(id, spec)    == db' = [db EXCEPT !.flows[id] = spec]
SaveWorkflow(id, spec)     == /\ db' = [db EXCEPT !.workflows[id] = spec]
                              /\ everEnabled' = IF spec.status = "enabled"
                                                THEN everEnabled \cup {id} ELSE everEnabled
SaveTool(id, spec)         == db' = [db EXCEPT !.tools[id] = spec]
SaveSkill(id, spec)        == db' = [db EXCEPT !.skills[id] = spec]
SaveConnector(id, spec)    == db' = [db EXCEPT !.connectors[id] = spec]
SaveConnectorOperation(id, spec) == db' = [db EXCEPT !.operations[id] = spec]

\* A Get answers with the row, or with an error that ends the call.
GetAgent(id)     == db.agents[id]
GetAgentFlow(id) == db.flows[id]
GetWorkflow(id)  == db.workflows[id]
GetTool(id)      == db.tools[id]
GetSkill(id)     == db.skills[id]
GetConnector(id) == db.connectors[id]
GetConnectorOperation(id) == db.operations[id]

-----------------------------------------------------------------------------
(***************************************************************************)
(* Calls                                                                   *)
(***************************************************************************)

history == <<everEnabled, made, crowded>>

Called(c) == call[c] = Idle /\ calls < MaxCalls /\ calls' = calls + 1 /\ UNCHANGED aborts

\* The call's next access to the registry.
Then(c, at, id, rec, todo) ==
    call' = [call EXCEPT ![c] = [at |-> at, id |-> id, rec |-> rec, todo |-> todo]]

Return(c) == call' = [call EXCEPT ![c] = Idle]

\* A call that does nothing but read, decide and go on.
Begin(c, at, id, rec, todo) ==
    Called(c) /\ Then(c, at, id, rec, todo) /\ UNCHANGED <<db, history>>

Continue(c, at) == call[c].at = at /\ UNCHANGED <<calls, aborts>>

Transition == {"enabled", "disabled"} \* the statuses a transition may ask for

-----------------------------------------------------------------------------
(***************************************************************************)
(* Agents, skills and connectors: read, inherit, validate, save            *)
(***************************************************************************)

CreateAgent(c) ==
    \E id \in AgentIds, body \in AgentSpecs :
        LET profile == ApplyAgentDefaults(body, NoRecord) IN
        /\ ValidateAgent(profile)
        /\ Called(c)
        /\ SaveAgent(id, profile)
        /\ UNCHANGED <<call, history>>

\* Mutation of UpdateAgent: what is stored is not validated.
UpdateAgentUnchecked(c) ==
    \E id \in ListAgents(db), body \in AgentSpecs :
        Begin(c, "SaveAgent", id, ApplyAgentDefaults(body, GetAgent(id)), {})

UpdateAgent(c) ==
    \E id \in ListAgents(db), body \in AgentSpecs :
        LET profile == ApplyAgentDefaults(body, GetAgent(id)) IN
        ValidateAgent(profile) /\ Begin(c, "SaveAgent", id, profile, {})

SetAgentStatus(c) ==
    \E id \in ListAgents(db), status \in Transition :
        Begin(c, "SaveAgent", id, [GetAgent(id) EXCEPT !.status = status], {})

AgentSaved(c) ==
    Continue(c, "SaveAgent") /\ SaveAgent(call[c].id, call[c].rec) /\ Return(c) /\ UNCHANGED history

CreateSkill(c) ==
    \E id \in SkillIds, body \in SkillSpecs :
        LET spec == ApplySkillDefaults(body, NoRecord) IN
        /\ ValidateSkill(spec)
        /\ Called(c)
        /\ SaveSkill(id, spec)
        /\ UNCHANGED <<call, history>>

UpdateSkill(c) ==
    \E id \in ListSkills(db), body \in SkillSpecs :
        LET spec == ApplySkillDefaults(body, GetSkill(id)) IN
        ValidateSkill(spec) /\ Begin(c, "SaveSkill", id, spec, {})

SetSkillStatus(c) ==
    \E id \in ListSkills(db), status \in Transition :
        Begin(c, "SaveSkill", id, [GetSkill(id) EXCEPT !.status = status], {})

SkillSaved(c) ==
    Continue(c, "SaveSkill") /\ SaveSkill(call[c].id, call[c].rec) /\ Return(c) /\ UNCHANGED history

CreateConnector(c) ==
    \E id \in ConnectorIds, body \in ConnectorSpecs :
        LET spec == ApplyConnectorDefaults(body, NoRecord) IN
        /\ ValidateConnector(spec)
        /\ Called(c)
        /\ SaveConnector(id, spec)
        /\ UNCHANGED <<call, history>>

UpdateConnector(c) ==
    \E id \in Stored(db.connectors), body \in ConnectorSpecs :
        LET spec == ApplyConnectorDefaults(body, GetConnector(id)) IN
        ValidateConnector(spec) /\ Begin(c, "SaveConnector", id, spec, {})

SetConnectorStatus(c) ==
    \E id \in Stored(db.connectors), status \in Transition :
        Begin(c, "SaveConnector", id, [GetConnector(id) EXCEPT !.status = status], {})

ConnectorSaved(c) ==
    Continue(c, "SaveConnector") /\ SaveConnector(call[c].id, call[c].rec) /\ Return(c)
    /\ UNCHANGED history

-----------------------------------------------------------------------------
(***************************************************************************)
(* Connector operations. One that belongs to a connector needs it to exist *)
(* and is stored without the fields it inherits.                           *)
(***************************************************************************)

OperationToSave(c, id, spec) ==
    IF spec.connector # NoId THEN Begin(c, "GetConnector", id, spec, {})
    ELSE ValidateConnectorOperation(spec) /\ Begin(c, "SaveConnectorOperation", id, spec, {})

CreateConnectorOperation(c) ==
    \E id \in OperationIds, body \in OperationSpecs :
        OperationToSave(c, id, ApplyConnectorOperationDefaults(body, NoRecord))

UpdateConnectorOperation(c) ==
    \E id \in ListConnectorOperations(db), body \in OperationSpecs :
        OperationToSave(c, id, ApplyConnectorOperationDefaults(body, GetConnectorOperation(id)))

SetConnectorOperationStatus(c) ==
    \E id \in ListConnectorOperations(db), status \in Transition :
        Begin(c, "SaveConnectorOperation", id, [GetConnectorOperation(id) EXCEPT !.status = status], {})

NormalizeConnectorOperation(c) ==
    LET spec == NormalizeForStorage(call[c].rec) IN
    /\ Continue(c, "GetConnector")
    /\ IF GetConnector(spec.connector) # NoRecord /\ ValidateConnectorOperation(spec)
       THEN Then(c, "SaveConnectorOperation", call[c].id, spec, {})
       ELSE Return(c)
    /\ UNCHANGED <<db, history>>

ConnectorOperationSaved(c) ==
    Continue(c, "SaveConnectorOperation") /\ SaveConnectorOperation(call[c].id, call[c].rec)
    /\ Return(c) /\ UNCHANGED history

-----------------------------------------------------------------------------
(***************************************************************************)
(* Tools. One that is enabled and runs a workflow enables the workflow     *)
(* first (ensureBoundWorkflowEnabled), as two steps before its own save.   *)
(***************************************************************************)

ToolToSave(c, id, spec) ==
    IF spec.status = "enabled" /\ spec.implementation = "workflow"
    THEN Begin(c, "GetWorkflow", id, spec, {})
    ELSE Begin(c, "SaveTool", id, spec, {})

\* Ids are random, or the client's: an id no row has (bound: while ToolIds has one).
Generated == LET unused == ToolIds \ ListTools(db)
             IN IF unused = {} THEN {} ELSE {CHOOSE t \in unused : TRUE}

CreateTool(c) ==
    \E id \in ListTools(db) \cup Generated, body \in ToolSpecs :
        LET spec == ApplyToolDefaults(body, NoRecord) IN
        ValidateTool(spec) /\ ToolToSave(c, id, spec)

\* Mutation of UpdateTool: the status asked for decides, not the inherited one.
UpdateToolAsAsked(c) ==
    \E id \in ListTools(db), body \in ToolSpecs :
        LET spec == ApplyToolDefaults(body, GetTool(id)) IN
        /\ ValidateTool(spec)
        /\ IF body.status = "enabled" THEN ToolToSave(c, id, spec)
           ELSE Begin(c, "SaveTool", id, spec, {})

UpdateTool(c) ==
    \E id \in ListTools(db), body \in ToolSpecs :
        LET spec == ApplyToolDefaults(body, GetTool(id)) IN
        ValidateTool(spec) /\ ToolToSave(c, id, spec)

SetToolStatus(c) ==
    \E id \in ListTools(db), status \in Transition :
        ToolToSave(c, id, [GetTool(id) EXCEPT !.status = status])

EnsureBoundWorkflowEnabled(c) ==
    LET tool == call[c].rec
        flow == GetWorkflow(tool.workflow)
        on   == ApplyWorkflowDefaults([flow EXCEPT !.status = "enabled"], NoRecord)
    IN
    /\ Continue(c, "GetWorkflow")
    /\ IF flow = NoRecord THEN Return(c)
       ELSE IF flow.status = "enabled" THEN Then(c, "SaveTool", call[c].id, tool, {})
       ELSE IF ValidateWorkflow(on) THEN Then(c, "SyncWorkflow", call[c].id, tool, {on})
       ELSE Return(c)
    /\ UNCHANGED <<db, history>>

SyncWorkflow(c) ==
    /\ Continue(c, "SyncWorkflow")
    /\ \E on \in call[c].todo : SaveWorkflow(call[c].rec.workflow, on)
    /\ Then(c, "SaveTool", call[c].id, call[c].rec, {})
    /\ UNCHANGED <<made, crowded>>

\* A tool that a client binds to another operation is not the import's any more.
ToolSaved(c) ==
    LET old == GetTool(call[c].id) IN
    /\ Continue(c, "SaveTool")
    /\ SaveTool(call[c].id, call[c].rec)
    /\ made' = IF /\ old # NoRecord
                  /\ old.implementation = call[c].rec.implementation
                  /\ old.operation = call[c].rec.operation
               THEN made ELSE [made EXCEPT ![call[c].id] = NoId]
    /\ Return(c)
    /\ UNCHANGED <<everEnabled, crowded>>

-----------------------------------------------------------------------------
(***************************************************************************)
(* ImportConnectorTools: reads the connector's operations, then the tools, *)
(* and saves a tool for each entry of the client's list, in its order, or  *)
(* for each operation in any order (it ranges over a map) when the client  *)
(* sends none. An entry without an id overwrites the tool its operation    *)
(* had when the tools were read; nothing refuses a list that names an      *)
(* operation twice, or names another tool than that one.                   *)
(***************************************************************************)

ImportConnectorTools(c) ==
    \E connector \in Stored(db.connectors), list \in ImportLists \cup {<<>>} :
        LET operations == {o \in ListConnectorOperations(db) : db.operations[o].connector = connector}
            Entry(place, id, spec) ==
                [ place |-> place, id |-> id,
                  spec  |-> [spec EXCEPT !.implementation = "connector"],
                  operation |-> IF spec.operation \in operations
                                THEN db.operations[spec.operation] ELSE NoRecord ]
            New(o) == NewToolSpecFromConnectorOperation(o, db.operations[o])
        IN /\ operations # {}
           /\ Begin(c, "ListTools", connector, NoRecord,
                    IF list # <<>> THEN {Entry(i, list[i].id, list[i].spec) : i \in DOMAIN list}
                    ELSE {Entry(0, NoId, New(o)) : o \in operations})

\* Mutation of ConnectorToolsByOperationID: only the tools that are in use.
EnabledToolsByOperationID(existing) ==
    \A o \in OperationIds :
        LET bound == {t \in ListTools(db) : /\ db.tools[t].implementation = "connector"
                                            /\ db.tools[t].status = "enabled"
                                            /\ db.tools[t].operation = o}
        IN existing[o] \in (IF bound = {} THEN {NoId} ELSE bound)

\* existing gives each operation a tool it has, the one with the smallest id; ids
\* being random, any.
ConnectorToolsByOperationID(existing) ==
    \A o \in OperationIds :
        LET bound == {t \in ListTools(db) : /\ db.tools[t].implementation = "connector"
                                            /\ db.tools[t].operation = o}
        IN existing[o] \in (IF bound = {} THEN {NoId} ELSE bound)

\* The two ways in which one import leaves operation o with a second tool: the list
\* names o twice and o has none, or it names another tool than the one o has.
MakesSecond(todo, existing, o) ==
    \E e \in todo :
        /\ e.spec.operation = o
        /\ IF existing[o] = NoId THEN \E other \in todo \ {e} : other.spec.operation = o
           ELSE e.id \notin {NoId, existing[o]}

ImportListsTools(c) ==
    LET importing == {d \in Clients \ {c} : call[d].at = "SaveTools"} IN
    /\ Continue(c, "ListTools")
    /\ \E existing \in [OperationIds -> ToolIds \cup {NoId}] :
         /\ ConnectorToolsByOperationID(existing)
         /\ Then(c, "SaveTools", call[c].id, existing, call[c].todo)
         /\ crowded' = crowded \cup {o \in OperationIds : MakesSecond(call[c].todo, existing, o)}
                \cup UNION {{e.spec.operation : e \in call[d].todo} : d \in importing}
    /\ UNCHANGED <<db, everEnabled, made>>

ImportSavesTool(c) ==
    \E entry \in call[c].todo :
        LET existing == call[c].rec[entry.spec.operation]
            spec     == ApplyConnectorToolDefaults(entry.spec, entry.operation)
            left     == call[c].todo \ {entry}
        IN
        /\ Continue(c, "SaveTools")
        /\ \A other \in left : entry.place <= other.place
        /\ IF entry.operation = NoRecord \/ ~ValidateTool(spec)
           THEN Return(c) /\ UNCHANGED <<db, made>>
           ELSE \E id \in (IF entry.id # NoId THEN {entry.id}
                           ELSE IF existing # NoId THEN {existing} ELSE Generated) :
                /\ SaveTool(id, spec)
                /\ made' = IF id = existing THEN made
                           ELSE [made EXCEPT ![id] = entry.spec.operation]
                /\ IF left = {} THEN Return(c)
                   ELSE Then(c, "SaveTools", call[c].id, call[c].rec, left)
        /\ UNCHANGED <<everEnabled, crowded>>

-----------------------------------------------------------------------------
(***************************************************************************)
(* Workflows. Enabling one through its own endpoint publishes it: its      *)
(* graph is checked, and each bound node against the registry.             *)
(***************************************************************************)

CreateWorkflow(c) ==
    \E id \in WorkflowIds, body \in WorkflowSpecs :
        LET spec == ApplyWorkflowDefaults(body, NoRecord) IN
        /\ ValidateWorkflow(spec)
        /\ Called(c)
        /\ SaveWorkflow(id, spec)
        /\ UNCHANGED <<call, made, crowded>>

UpdateWorkflow(c) ==
    \E id \in Stored(db.workflows), body \in WorkflowSpecs :
        LET spec == ApplyWorkflowDefaults(body, GetWorkflow(id)) IN
        ValidateWorkflow(spec) /\ Begin(c, "SaveWorkflow", id, spec, {})

SetWorkflowStatus(c) ==
    \E id \in Stored(db.workflows), status \in Transition :
        LET spec  == ApplyWorkflowDefaults([GetWorkflow(id) EXCEPT !.status = status], NoRecord)
            nodes == spec.graph.nodes
            bound == {n \in DOMAIN nodes : Bound(nodes[n])}
        IN
        /\ ValidateWorkflow(spec)
        /\ IF status = "disabled" THEN Begin(c, "SaveWorkflow", id, spec, {})
           ELSE /\ ValidateWorkflowReachability(spec.graph)
                /\ \A n \in DOMAIN nodes \ bound : NodeBindingHolds(db, nodes[n])
                /\ Begin(c, IF bound = {} THEN "SaveWorkflow" ELSE "CheckBindings", id, spec, bound)

\* One node at a time, in the order of a map. All are looked at before the call is
\* refused, which only reads: here the first that fails refuses it.
CheckBinding(c) ==
    \E n \in call[c].todo :
        LET left == call[c].todo \ {n} IN
        /\ Continue(c, "CheckBindings")
        /\ IF ~NodeBindingHolds(db, call[c].rec.graph.nodes[n]) THEN Return(c)
           ELSE Then(c, IF left = {} THEN "SaveWorkflow" ELSE "CheckBindings",
                     call[c].id, call[c].rec, left)
        /\ UNCHANGED <<db, history>>

WorkflowSaved(c) ==
    Continue(c, "SaveWorkflow") /\ SaveWorkflow(call[c].id, call[c].rec) /\ Return(c)
    /\ UNCHANGED <<made, crowded>>

-----------------------------------------------------------------------------
(***************************************************************************)
(* Agent flows. The agents that belong to the flow are saved, one by one   *)
(* and in the order of a map, before the flow is validated and saved.      *)
(***************************************************************************)

MaterializeLocalAgents(c, id, spec) ==
    Begin(c, "SaveLocalAgents", id, spec, LocalNodes(spec.graph))

CreateAgentFlow(c) ==
    \E id \in FlowIds, body \in FlowSpecs :
        MaterializeLocalAgents(c, id, ApplyAgentFlowDefaults(body, NoRecord))

UpdateAgentFlow(c) ==
    \E id \in Stored(db.flows), body \in FlowSpecs :
        MaterializeLocalAgents(c, id, ApplyAgentFlowDefaults(body, GetAgentFlow(id)))

SetAgentFlowStatus(c) ==
    \E id \in Stored(db.flows), status \in Transition :
        MaterializeLocalAgents(c, id,
            ApplyAgentFlowDefaults([GetAgentFlow(id) EXCEPT !.status = status], NoRecord))

LocalAgentSaved(c) ==
    \E n \in call[c].todo :
        LET profile == LocalAgentProfile(call[c].rec.graph.nodes[n])
            agent   == LocalAgentID(call[c].id, n)
        IN
        /\ Continue(c, "SaveLocalAgents")
        /\ IF ~ValidateAgent(profile) THEN Return(c) /\ UNCHANGED db
           ELSE /\ SaveAgent(agent, profile)
                /\ Then(c, "SaveLocalAgents", call[c].id,
                        [call[c].rec EXCEPT !.graph.nodes[n].agent = agent], call[c].todo \ {n})
        /\ UNCHANGED history

\* Mutation of AgentFlowSaved: the flow is saved before its agents are.
AgentFlowSavedFirst(c) ==
    LET spec == NormalizeSupervisor(call[c].rec) IN
    /\ Continue(c, "SaveLocalAgents")
    /\ IF ValidateAgentFlow(spec) THEN SaveAgentFlow(call[c].id, spec) ELSE UNCHANGED db
    /\ IF call[c].todo = {} THEN Return(c) ELSE UNCHANGED call
    /\ UNCHANGED history

AgentFlowSaved(c) ==
    LET spec == NormalizeSupervisor(call[c].rec) IN
    /\ Continue(c, "SaveLocalAgents") /\ call[c].todo = {}
    /\ IF ValidateAgentFlow(spec) THEN SaveAgentFlow(call[c].id, spec) ELSE UNCHANGED db
    /\ Return(c)
    /\ UNCHANGED history

-----------------------------------------------------------------------------
\* The process dies, the client leaves or a statement fails, anywhere in a call.
Abort(c) ==
    /\ call[c] # Idle /\ aborts < MaxAborts
    /\ aborts' = aborts + 1
    /\ Return(c)
    /\ UNCHANGED <<db, calls, history>>

Init ==
    /\ db \in Seeds
    /\ call = [c \in Clients |-> Idle]
    /\ calls = 0 /\ aborts = 0
    /\ everEnabled = EnabledWorkflows(db)
    /\ made = [t \in ToolIds |-> NoId] /\ crowded = {}

AgentRoutes(c)     == CreateAgent(c) \/ UpdateAgent(c) \/ SetAgentStatus(c) \/ AgentSaved(c)
AgentFlowRoutes(c) == \/ CreateAgentFlow(c) \/ UpdateAgentFlow(c) \/ SetAgentFlowStatus(c)
                      \/ LocalAgentSaved(c) \/ AgentFlowSaved(c)
WorkflowRoutes(c)  == \/ CreateWorkflow(c) \/ UpdateWorkflow(c) \/ SetWorkflowStatus(c)
                      \/ CheckBinding(c) \/ WorkflowSaved(c)
ConnectorRoutes(c) == \/ CreateConnector(c) \/ UpdateConnector(c) \/ SetConnectorStatus(c)
                      \/ ConnectorSaved(c)
OperationRoutes(c) == \/ CreateConnectorOperation(c) \/ UpdateConnectorOperation(c)
                      \/ SetConnectorOperationStatus(c) \/ NormalizeConnectorOperation(c)
                      \/ ConnectorOperationSaved(c)
                      \/ ImportConnectorTools(c) \/ ImportListsTools(c) \/ ImportSavesTool(c)
ToolRoutes(c)      == \/ CreateTool(c) \/ UpdateTool(c) \/ SetToolStatus(c)
                      \/ EnsureBoundWorkflowEnabled(c) \/ SyncWorkflow(c) \/ ToolSaved(c)
SkillRoutes(c)     == CreateSkill(c) \/ UpdateSkill(c) \/ SetSkillStatus(c) \/ SkillSaved(c)

Next == \E c \in Clients :
    \/ AgentRoutes(c) \/ AgentFlowRoutes(c) \/ WorkflowRoutes(c) \/ ConnectorRoutes(c)
    \/ OperationRoutes(c) \/ ToolRoutes(c) \/ SkillRoutes(c) \/ Abort(c)

Spec == Init /\ [][Next]_vars
-----------------------------------------------------------------------------
(***************************************************************************)
(* Properties                                                              *)
(***************************************************************************)

\* Every stored row has its defaults and has passed its kind's validation (domain/*.go),
\* whichever of its endpoints wrote it; a call holds a client's place and no more.
TypeOK ==
    /\ RowsValid(db)
    /\ calls \in 0..MaxCalls /\ aborts \in 0..MaxAborts
    /\ everEnabled \subseteq WorkflowIds
    /\ made \in [ToolIds -> OperationIds \cup {NoId}] /\ crowded \subseteq OperationIds \cup {NoId}

\* What is stored leads somewhere: an enabled tool's workflow has been enabled (it was
\* when the tool was, and is not now only if a later call took it out of use), an
\* operation's connector is stored and says where to send it, and so are the operations of imported tools. Each
\* is saved by a call of several steps that may die between any two.
BindingsResolve ==
    /\ ToolsRunnable(db, everEnabled)
    /\ \A w \in everEnabled : db.workflows[w] # NoRecord
    /\ OperationsConnected(db)
    /\ \A t \in {t \in ToolIds : made[t] # NoId} : db.tools[t].implementation = "connector"
            => db.operations[db.tools[t].operation] # NoRecord

\* The agents that belong to a stored flow are stored, under the ids its nodes name:
\* the flow is saved last, and only when all of them have been.
LocalAgentsSaved == FlowAgentsStored(db)

\* A supervisor flow in use has no path of more than MaxGraphDepth agents below its
\* supervisor, hence no cycle there, by whichever endpoint it became enabled: the
\* runtime's recursion over it ends.
EnabledSupervisorsBounded == SupervisorsBounded(db)

\* The tools imports made of an operation and that are still bound to it.
ToolsMadeOf(o) ==
    {t \in ToolIds : /\ made[t] = o
                     /\ db.tools[t].implementation = "connector" /\ db.tools[t].operation = o}

\* An import "updates existing tools instead of creating duplicates"
\* (ImportConnectorTools), also after one that died half-way and whatever happens to the
\* tools in between. The exceptions are the operations in crowded, of which the code
\* does make a second tool, against that sentence (ImportUpdatesExisting): an import reads the
\* tools while another is yet to save one of the operation, a list names an operation
\* without a tool twice, or it names another tool than the operation's.
OneToolPerOperation ==
    \A o \in ListConnectorOperations(db) :
        o \notin crowded => Cardinality(ToolsMadeOf(o)) <= 1

\* The sentence as it stands (service.go:543-545): imports leave an operation with one
\* tool of theirs, whatever lists the clients send.
ImportUpdatesExisting ==
    \A o \in ListConnectorOperations(db) : Cardinality(ToolsMadeOf(o)) <= 1
=============================================================================
