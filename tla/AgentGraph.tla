----------------------------- MODULE AgentGraph -----------------------------
(***************************************************************************)
(* What the agent flow runtime computes before and between the steps of a  *)
(* supervisor run: the agent graph of a flow                               *)
(* (agentflow/application/supervisor_runner.go) and the plan of actions a  *)
(* model answers with (agentorchestration/action.go).                      *)
(*                                                                         *)
(* Prompts, tasks and inputs are text: an action only says whether it has  *)
(* a task. Names of agents, tools and skills are their own values, so that *)
(* two may be called the same.                                             *)
(***************************************************************************)
EXTENDS Integers, Sequences

CONSTANTS NodeIds,     \* every node id a graph may name
          Entry,       \* the entry node, by default "start"
          Agents, Tools, Skills,   \* their ids
          Nothing,     \* an empty id, name or reference
          NameOf,      \* the name of each agent, tool and skill
          DefaultDepth, HardDepth, DefaultCalls  \* defaultAgentGraphMaxDepth and so on

ASSUME GraphAssumption ==
    /\ Entry \in NodeIds /\ Nothing \notin NodeIds \cup Agents \cup Tools \cup Skills
    /\ DefaultDepth \in 1..HardDepth /\ HardDepth \in Nat /\ DefaultCalls \in Nat \ {0}

MaxOf(S) == CHOOSE m \in S : \A k \in S : k <= m

-----------------------------------------------------------------------------
(***************************************************************************)
(* The graph: nodes by id, and its edges in the order they are stored.     *)
(*   agent   Config["agent_id"]     mode   Config["agent_mode"]            *)
(*   local   Config holds a "local_agent"                                  *)
(* The registry stores no flow with an edge that leaves its nodes          *)
(* (RegistryData!EdgesInside); the runtime skips such edges.               *)
(***************************************************************************)
Node == [ type : {"agent_node", "supervisor_node", "other"}, agent : Agents \cup {Nothing},
          mode : {"existing", "local", "unset"}, local : BOOLEAN ]

IsGraph(graph) ==
    /\ DOMAIN graph.nodes \subseteq NodeIds
    /\ \A n \in DOMAIN graph.nodes : graph.nodes[n] \in Node
    /\ graph.edges \in Seq((DOMAIN graph.nodes) \X (DOMAIN graph.nodes))

IsRuntimeAgentNode(node) == node.type \in {"agent_node", "supervisor_node"}

IsExistingRuntimeAgentNode(node) ==
    /\ IsRuntimeAgentNode(node)
    /\ node.mode = "existing" \/ (node.mode = "unset" /\ node.agent # Nothing /\ ~node.local)

\* The target of the first edge out of the entry.
RuntimeSupervisorNodeID(graph) ==
    LET out == {i \in DOMAIN graph.edges : graph.edges[i][1] = Entry}
    IN IF out = {} THEN Nothing
       ELSE graph.edges[CHOOSE i \in out : \A j \in out : i <= j][2]

\* ChildrenByNodeID: the targets of a node's edges, in the order of the edges.
ChildrenOf(graph, n) ==
    LET kept[i \in 0..Len(graph.edges)] ==
            IF i = 0 THEN <<>>
            ELSE IF graph.edges[i][1] = n /\ n # Entry THEN Append(kept[i - 1], graph.edges[i][2])
            ELSE kept[i - 1]
    IN kept[Len(graph.edges)]

(***************************************************************************)
(* The ways down from the root along child edges, as far as one edge past  *)
(* the platform's limit. visit and depth, two recursive functions of the   *)
(* code, ask whether one comes back to a node it passed, and how long the  *)
(* longest is; a cycle counts as one too long.                             *)
(***************************************************************************)
IsWay(graph, w) ==
    /\ Len(w) > 0 /\ w[1] = RuntimeSupervisorNodeID(graph)
    /\ \A i \in 1..(Len(w) - 1) : \E k \in DOMAIN ChildrenOf(graph, w[i]) :
          w[i + 1] = ChildrenOf(graph, w[i])[k]

Ways(graph) ==
    {w \in UNION {[1..k -> DOMAIN graph.nodes] : k \in 1..(HardDepth + 2)} : IsWay(graph, w)}

ValidateAcyclicAgentGraph(graph) ==
    \A w \in Ways(graph) : \A i, j \in DOMAIN w : w[i] = w[j] => i = j

RuntimeAgentGraphDepth(graph) ==
    IF RuntimeSupervisorNodeID(graph) = Nothing THEN 0
    ELSE MaxOf({0} \cup {Len(w) - 1 : w \in Ways(graph)})

BuildRuntimeAgentGraph(graph) ==
    LET root == RuntimeSupervisorNodeID(graph)
    IN /\ root \in DOMAIN graph.nodes /\ IsRuntimeAgentNode(graph.nodes[root])
       /\ \A i \in DOMAIN graph.edges :
             LET e == graph.edges[i]
             IN e[1] # Entry
                => IsRuntimeAgentNode(graph.nodes[e[1]]) /\ IsRuntimeAgentNode(graph.nodes[e[2]])
       /\ ValidateAcyclicAgentGraph(graph)
       /\ RuntimeAgentGraphDepth(graph) <= HardDepth

ValidateRuntimeAgentGraph(graph) ==
    /\ \A n \in DOMAIN graph.nodes : IsExistingRuntimeAgentNode(graph.nodes[n])
                                       => \A i \in DOMAIN graph.edges : graph.edges[i][1] # n
    /\ BuildRuntimeAgentGraph(graph)

-----------------------------------------------------------------------------
(***************************************************************************)
(* The configuration of a run                                              *)
(***************************************************************************)
\* Mutation of NormalizedSupervisorConfig: a configured depth is kept as it is.
ConfigAsWritten(spec) ==
    [ supervisor |-> spec.graph.nodes[RuntimeSupervisorNodeID(spec.graph)].agent,
      maxDepth   |-> IF spec.maxDepth = 0 THEN DefaultDepth ELSE spec.maxDepth,
      maxCalls   |-> IF spec.maxCalls = 0 THEN DefaultCalls ELSE spec.maxCalls ]

\* Called only for a graph that passed: its root is one of its nodes.
NormalizedSupervisorConfig(spec) ==
    LET depth == IF spec.maxDepth = 0 THEN DefaultDepth ELSE spec.maxDepth
    IN [ supervisor |-> spec.graph.nodes[RuntimeSupervisorNodeID(spec.graph)].agent,
         maxDepth   |-> MaxOf({depth, RuntimeAgentGraphDepth(spec.graph)}),
         maxCalls   |-> IF spec.maxCalls = 0 THEN DefaultCalls ELSE spec.maxCalls ]

ValidateRuntimeSupervisorConfig(config) ==
    config.supervisor # Nothing /\ config.maxDepth \in 0..HardDepth

-----------------------------------------------------------------------------
(***************************************************************************)
(* Plans. A reference a model leaves out is Nothing.                       *)
(***************************************************************************)
Kinds == {"agent", "tool", "skill"}
Name(ref) == IF ref = Nothing THEN Nothing ELSE NameOf[ref]

IsAction(a) ==
    /\ a.type \in Kinds \cup {"unset", "other"}
    /\ a.node \in NodeIds \cup {Nothing} /\ a.agent \in Agents \cup {Nothing}
    /\ a.tool \in Tools \cup {Nothing} /\ a.skill \in Skills \cup {Nothing}
    /\ a.id \in Agents \cup Tools \cup Skills \cup {Nothing}
    /\ a.task \in BOOLEAN

NormalizeAction(a) ==
    LET type == CASE a.type # "unset" -> a.type
                  [] a.node # Nothing \/ a.agent # Nothing -> "agent"
                  [] a.tool # Nothing -> "tool"
                  [] a.skill # Nothing -> "skill"
                  [] OTHER -> "unset"
        ref  == CASE type = "agent" -> a.agent [] type = "tool" -> a.tool
                  [] type = "skill" -> a.skill [] OTHER -> Nothing
    IN [a EXCEPT !.type = type, !.id = IF @ = Nothing THEN ref ELSE @]

\* The first element of s with the property, or Nothing.
First(s, Test(_)) ==
    LET found == SelectSeq(s, Test) IN IF found = <<>> THEN Nothing ELSE found[1]

\* A child of the node: the first that is meant by node, agent, id or name.
FindAgentAction(graph, children, a) ==
    LET Meant(n) == LET agent == graph.nodes[n].agent
                    IN \/ n = a.node
                       \/ agent \in {a.agent, a.id} /\ agent # Nothing
                       \/ a.name # Nothing /\ a.name = Name(agent)
    IN First(children, Meant)

FindToolAction(tools, a) ==
    LET Meant(t) == t \in {a.tool, a.id} \/ (a.name # Nothing /\ a.name = Name(t))
    IN First(tools, Meant)

FindSkillAction(skills, a) ==
    LET Meant(s) == s \in {a.skill, a.id} \/ (a.name # Nothing /\ a.name = Name(s))
    IN First(skills, Meant)

\* An action with what it was found to mean, or Nothing if it is dropped.
Resolve(graph, registry, action) ==
    LET a     == NormalizeAction(action)
        child == FindAgentAction(graph, registry.children, a)
        tool  == FindToolAction(registry.tools, a)
        skill == FindSkillAction(registry.skills, a)
        Named(b, ref) == [b EXCEPT !.id   = IF @ = Nothing THEN ref ELSE @,
                                   !.name = IF @ = Nothing THEN Name(ref) ELSE @]
    IN CASE a.type = "agent" /\ child # Nothing /\ a.task ->
              LET agent == graph.nodes[child].agent
              IN Named([a EXCEPT !.node = child, !.agent = agent], agent)
         [] a.type = "tool" /\ tool # Nothing -> Named([a EXCEPT !.tool = tool], tool)
         [] a.type = "skill" /\ skill # Nothing /\ a.task -> Named([a EXCEPT !.skill = skill], skill)
         [] OTHER -> Nothing

\* What is left of a plan's actions: those that mean something, up to the cap.
FilterActionPlan(graph, actions, registry, maxActions) ==
    LET resolved == [i \in DOMAIN actions |-> Resolve(graph, registry, actions[i])]
        kept[i \in 0..Len(actions)] ==
            IF i = 0 THEN <<>>
            ELSE IF resolved[i] = Nothing \/ (maxActions > 0 /\ Len(kept[i - 1]) >= maxActions)
            THEN kept[i - 1]
            ELSE Append(kept[i - 1], resolved[i])
    IN kept[Len(actions)]
=============================================================================
