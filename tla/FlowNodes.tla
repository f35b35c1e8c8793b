----------------------------- MODULE FlowNodes -----------------------------
(***************************************************************************)
(* The flows people draw, as WaveFlow runs them: which engine a flow is    *)
(* given to, whether it is accepted there, which nodes have an executor,   *)
(* and what the executor of each type of node may return: the built-in     *)
(* ones (internal/flowengine/registry.go), those of the workflow runtime   *)
(* (internal/workflowruntime/node_executors.go), and agent nodes, which    *)
(* let a model choose where the run goes (internal/agentflow/application). *)
(*                                                                         *)
(* What a model answers, which rules of a branch match and which calls     *)
(* fail are left open.                                                     *)
(***************************************************************************)
EXTENDS WaveFlow

CONSTANTS Null,           \* a null in a configuration
          NilText,        \* the id "<nil>", which a null becomes when it is printed
          ReturnMessage   \* the context path of an agent's text

ASSUME FlowNodesAssumption == NilText \in NodeIds /\ ReturnMessage \in Keys

(***************************************************************************)
(* An agent's answer. A JSON object may name the next nodes at its top     *)
(* level and in "routing": a list of ids, a text, which is one id, or      *)
(* anything else, null and a blank text included, which is none.           *)
(***************************************************************************)
RoutingKeys == <<"next_node_ids", "next_node_id", "next_nodes">>

Ids(ids)   == [list |-> TRUE, ids |-> ids]
Text(n)    == [list |-> FALSE, ids |-> {n}]
OtherValue == [list |-> FALSE, ids |-> {}]

\* A key that is present decides, even when it says nothing.
FirstPresent(object) ==
    LET present == SelectSeq(RoutingKeys, LAMBDA key : key \in DOMAIN object)
    IN  IF present = <<>> THEN OtherValue ELSE object[Head(present)]

\* nil is {}; a list of ids, were it empty, is the set of that one choice.
IdsFromAny(value) == IF value.list \/ value.ids # {} THEN {value.ids} ELSE {}

\* parseAgentRoutingDecision falls back to the text where the output has no key; an agent's
\* output has only what its text said.
ExtractNextNodeIDs(answer) ==
    LET nested == IdsFromAny(FirstPresent(answer.routing))
    IN  IF UNION nested # {} THEN nested ELSE IdsFromAny(FirstPresent(answer.top))

\* Where the answer writes: explicit context writes replace the ones of the adapter; the
\* older engine keeps the output key alone.
AgentWrites(engine, node, answer) ==
    IF engine = "agentflow" THEN {node.outputKey}
    ELSE IF node.writes # {} THEN node.writes
    ELSE {node.outputKey} \cup (IF answer.blank THEN {} ELSE {ReturnMessage})

AgentResult(engine, node, answer) ==
    LET chosen == IF node.directed THEN ExtractNextNodeIDs(answer) ELSE {}
    IN  [ chooses |-> chosen # {},
          next    |-> UNION chosen,
          stop    |-> FALSE,
          writes  |-> AgentWrites(engine, node, answer) ]

\* An answer that has to be JSON and is not fails the node.
AgentResults(engine, node) ==
    { AgentResult(engine, node, answer) :
        answer \in { x \in node.answers : node.parsesJSON => x.json } }
-----------------------------------------------------------------------------
(* Condition nodes. next is {} when the configuration has no next_node_id. *)

Follows(writes) == [chooses |-> FALSE, next |-> {}, stop |-> FALSE, writes |-> writes]
Stops(writes)   == [Follows(writes) EXCEPT !.stop = TRUE]

NextNodeID(next) == { IF n = Null THEN NilText ELSE n : n \in next }

BranchResult(node, branch) ==
    IF branch.next = {} THEN Stops(node.writes \cup branch.writes)
    ELSE [ Follows(node.writes \cup branch.writes) EXCEPT
             !.chooses = TRUE, !.next = NextNodeID(branch.next) ]

\* The first branch that matches is taken: one with no rules always does.
ConditionResults(node) ==
    LET reached(i) == \A j \in 1..(i - 1) : node.branches[j].rules
        taken   == { BranchResult(node, node.branches[i]) :
                       i \in { x \in DOMAIN node.branches : reached(x) } }
        default == IF node.default = {} THEN {Stops(node.writes)}
                   ELSE { BranchResult(node, branch) : branch \in node.default }
    IN  IF node.branches = <<>>
        THEN { [Follows(node.writes) EXCEPT !.chooses = node.next # {},
                                            !.next    = NextNodeID(node.next)] }
        ELSE taken \cup IF reached(Len(node.branches) + 1) THEN default ELSE {}
-----------------------------------------------------------------------------
AgentTypes == {"agent_node", "supervisor_node", "agent"}

\* Which results the executor of a node may return; one without what its type requires
\* (a tool_id, an agent_id, a task) returns none. The older engine maps no output.
NodeResults(engine, node) ==
    IF ~node.configured THEN {}
    ELSE CASE node.type \in AgentTypes  -> AgentResults(engine, node)
           [] node.type = "condition"   -> ConditionResults(node)
           [] node.type = "end"         -> {Stops(node.writes)}
           [] OTHER -> {Follows(IF engine = "agentflow" THEN {} ELSE node.writes)}

\* A call of a node can fail; an operation that answers that it was unsuccessful has not.
NodeMayFail(node) ==
    \/ ~node.configured
    \/ node.type \in AgentTypes \cup {"tool", "connector_operation"}
    \/ node.type = "transform" /\ node.function
-----------------------------------------------------------------------------
(* Which engine runs a flow, and which flows it accepts.                   *)

Type(flow, n) == flow.nodes[n].type
Types(flow)   == { Type(flow, n) : n \in DOMAIN flow.nodes }

CanExecuteWithFlowEngine(flow) ==
    Types(flow) \subseteq AgentTypes \cup {"start", "join_node", "join", "end",
                                           "connector_operation", "tool", "transform", "condition"}

Engine(flow) ==
    IF flow.kind = "agentflow" /\ ~CanExecuteWithFlowEngine(flow) THEN "agentflow" ELSE "workflow"

ConvertNodeType(type) ==
    IF type \in AgentTypes THEN "agent" ELSE IF type = "join_node" THEN "join" ELSE type

\* Which types the profile of a workflow allows; an agent flow is an agent workflow.
AllowedTypes(flow) ==
    {"start", "end", "join", "transform", "condition"}
      \cup IF flow.kind = "tool_workflow" THEN {"connector_operation"}
           ELSE {"tool", "skill", "agent"}

\* Types that have an executor. The adapter of agent nodes is registered by the first
\* agent flow of the process that runs in this engine, its own run included.
Registered(flow) ==
    IF Engine(flow) = "agentflow" THEN {"start", "join_node", "agent_node"}
    ELSE {"start", "join", "end", "connector_operation", "tool", "transform", "condition"}
           \cup IF flow.kind = "agentflow" \/ flow.adapter THEN {"agent"} ELSE {}

EngineType(flow, n) ==
    IF flow.kind = "agentflow" /\ Engine(flow) = "workflow"
    THEN ConvertNodeType(Type(flow, n)) ELSE Type(flow, n)

AsGraph(flow) ==
    LET ns == DOMAIN flow.nodes
    IN  [ nodes   |-> ns,
          entry   |-> flow.entry,
          edges   |-> flow.edges,
          engine  |-> Engine(flow),
          missing |-> { n \in ns : EngineType(flow, n) \notin Registered(flow) },
          returns |-> [n \in ns |-> NodeResults(Engine(flow), flow.nodes[n])],
          fails   |-> { n \in ns : NodeMayFail(flow.nodes[n]) },
          maxSteps       |-> IF flow.maxSteps <= 0 THEN 64 ELSE flow.maxSteps,
          maxParallelism |-> IF flow.maxParallelism <= 0 THEN 4 ELSE flow.maxParallelism ]

\* The checks of an agent flow, and those of the engine that runs it.
Accepted(flow) ==
    /\ flow.entry \in DOMAIN flow.nodes
    /\ \A e \in flow.edges : e.from \in DOMAIN flow.nodes /\ e.to \in DOMAIN flow.nodes
    /\ flow.kind = "agentflow" => Cardinality({ e \in flow.edges : e.from = flow.entry }) <= 1
    /\ Engine(flow) = "workflow" =>
          /\ Acyclic(AsGraph(flow))
          /\ { EngineType(flow, n) : n \in DOMAIN flow.nodes } \subseteq AllowedTypes(flow)
=============================================================================
