----------------------------- MODULE MCRegistry -----------------------------
(* An instance of Registry for TLC: a registry with a few rows of each     *)
(* kind, and for each kind the bodies that lead somewhere different.       *)
EXTENDS Registry, TLC

MCLocalAgentID(flow, node) == "agent_local_" \o node

Team == [owner |-> "unset", skills |-> {"s1"}, tools |-> {"t1"}]
MCAgentSpecs == { [status |-> "unset", policy |-> "unset"] @@ Team,
                  [status |-> "enabled", policy |-> "negative"] @@ Team }

MCSkillSpecs == {[status |-> "enabled", tools |-> {"t1"}, policy |-> "unset"]}

WorkflowTool(status) ==
    [ status |-> status, implementation |-> "workflow", operation |-> NoId, workflow |-> "w1",
      sideEffect |-> "unset", risk |-> "unset", confirm |-> FALSE ]
ConnectorTool(status) == [WorkflowTool(status) EXCEPT !.implementation = "connector", !.operation = "o1"]
MCToolSpecs == {WorkflowTool("unset"), WorkflowTool("enabled"), ConnectorTool("unset")}

MCConnectorSpecs == {[status |-> "unset", base |-> "url", auth |-> "unset"]}

Op(connector) == [ status |-> "enabled", connector |-> connector, base |-> "url", auth |-> "oauth2",
                   method |-> "POST", query |-> FALSE ]
MCOperationSpecs == {Op("k1"), [Op(NoId) EXCEPT !.method = "unset"], Op(NoId)}

\* An operation twice, then one of another connector; and a tool that is there already.
ImportEntry(id, tool) == [id |-> id, spec |-> tool]
MCImportLists ==
    { << ImportEntry(NoId, ConnectorTool("enabled")), ImportEntry(NoId, ConnectorTool("unset")),
         ImportEntry(NoId, [ConnectorTool("enabled") EXCEPT !.operation = NoId]) >>,
      << ImportEntry("t1", ConnectorTool("unset")) >> }

\* An import alone, of an operation twice.
MCTwice == {<< ImportEntry(NoId, ConnectorTool("enabled")), ImportEntry(NoId, ConnectorTool("unset")) >>}

Step(type, ref, targets) == [type |-> type, ref |-> ref, targets |-> targets]
Publishable == [ entry |-> Start,
                 nodes |-> Start :> StartStep @@ "n1" :> Step("connector_operation", "o1", {})
                           @@ "n2" :> Step("transform", "pick", {}),
                 edges |-> {<<Start, "n1">>, <<"n1", "n2">>} ]
Unreachable == [Publishable EXCEPT !.edges = {<<Start, "n1">>}]
Cyclic      == [Publishable EXCEPT !.edges = @ \cup {<<"n2", "n1">>}]
MCWorkflowSpecs == { [status |-> s, profile |-> "unset", graph |-> g] :
                       s \in {"unset"}, g \in {Publishable, Unreachable, Cyclic, EmptyGraph} }

Local(policy) == [skills |-> {"s1"}, tools |-> {}, policy |-> policy]
AgentNode(local) == [type |-> "agent_node", mode |-> "local", agent |-> NoId, local |-> local]
Existing == [type |-> "agent_node", mode |-> "existing", agent |-> "a1", local |-> NoRecord]
Agents(n1, n2, edges) ==
    [ entry |-> NoId, nodes |-> Start :> StartNode @@ "n1" :> n1 @@ "n2" :> n2,
      edges |-> {<<Start, "n1">>} \cup edges ]
Team2   == Agents(AgentNode(Local("fine")), Existing, {<<"n1", "n2">>})
Loop    == Agents(AgentNode(Local("fine")), AgentNode(Local("fine")), {<<"n1", "n2">>, <<"n2", "n1">>})
NotLeaf == Agents(Existing, AgentNode(Local("fine")), {<<"n1", "n2">>})
HalfBad == Agents(AgentNode(Local("fine")), AgentNode(Local("negative")), {<<"n1", "n2">>})
Flow(status, mode, graph) ==
    [status |-> status, mode |-> mode, supervisor |-> NoId, subs |-> {}, depth |-> 0, graph |-> graph]
MCFlowSpecs == {Flow("enabled", "supervisor", g) : g \in {Team2, NotLeaf, HalfBad}}
               \cup {Flow("unset", "supervisor", Loop), Flow("enabled", "unset", EmptyGraph)}

\* What some calls leave behind: a connector with two operations, and a tool that is
\* not yet enabled over a workflow that could be published.
Some ==
    [ Migrated EXCEPT
        !.agents["a1"]     = ApplyAgentDefaults(CHOOSE s \in MCAgentSpecs : s.policy = "unset", NoRecord),
        !.skills["s1"]     = ApplySkillDefaults(CHOOSE s \in MCSkillSpecs : TRUE, NoRecord),
        !.tools["t1"]      = ApplyToolDefaults(WorkflowTool("unset"), NoRecord),
        !.connectors["k1"] = [status |-> "enabled", base |-> "url", auth |-> "oauth2"],
        !.operations["o1"] = NormalizeForStorage(Op("k1")),
        !.operations["o2"] = NormalizeForStorage([Op("k1") EXCEPT !.method = "GET"]),
        !.workflows["w1"]  = ApplyWorkflowDefaults(
                               [status |-> "unset", profile |-> "unset", graph |-> Publishable], NoRecord) ]

MCSeeds == {Some}

\* Clients are alike.
ClientSymmetry == Permutations(Clients)
=============================================================================
