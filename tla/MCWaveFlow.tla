----------------------------- MODULE MCWaveFlow -----------------------------
(* Instances of WaveFlow for TLC: flows and the graphs they become.        *)
EXTENDS FlowNodes, TLC

MCNodeIds == {"s", "a", "b", "c", "d", "j", "<nil>"}
MCKeys    == {"k", "message"}
MCNilText == "<nil>"
MCReturnMessage == "message"

Arrow(from, to)         == [from |-> from, to |-> to, key |-> "k", accepts |-> Writer]
WhenText(from, to, accepts) == [Arrow(from, to) EXCEPT !.key = "message", !.accepts = accepts]

NodeOf(type) ==
    [ type |-> type, configured |-> TRUE, writes |-> {}, outputKey |-> "k",
      directed |-> FALSE, parsesJSON |-> FALSE, answers |-> {},
      branches |-> <<>>, default |-> {}, next |-> {}, function |-> FALSE ]

Answer == [json |-> FALSE, blank |-> FALSE, top |-> <<>>, routing |-> <<>>]
Names(value) == [Answer EXCEPT !.json = TRUE, !.top = "next_node_ids" :> value]

Agent(type, answers) == [NodeOf(type) EXCEPT !.answers = answers]
Router(type, values) == [Agent(type, { Names(v) : v \in values }) EXCEPT !.directed = TRUE]

Branch(rules, next) == [rules |-> rules, next |-> next, writes |-> {}]

FlowOf(kind, nodes, edges) ==
    LET ns == UNION { {e.from, e.to} : e \in edges }
    IN  [ kind |-> kind, entry |-> "s", edges |-> edges, adapter |-> FALSE,
          nodes |-> nodes @@ "s" :> NodeOf("start") @@ [n \in ns |-> NodeOf("transform")],
          maxSteps |-> 0, maxParallelism |-> 3 ]

\* Four branches, more than a wave holds, meet at j.
Fan == FlowOf("tool_workflow",
              "a" :> NodeOf("connector_operation") @@ "j" :> NodeOf("join"),
              { Arrow("s", x) : x \in {"a", "b", "c", "d"} }
                \cup { Arrow(x, "j") : x \in {"a", "b", "c", "d"} })

\* The same with a policy of few steps: the last wave overruns it.
ShortFan == [Fan EXCEPT !.maxSteps = 4, !.maxParallelism = 2]

\* An agent flow whose supervisor names branches, none, one that is no edge of its own, or
\* answers in prose; j is a condition that goes on or stops.
Directed ==
    FlowOf("agentflow",
           "d" :> [Router("supervisor_node", {Ids({}), Ids({"a"}), Ids({"a", "b"}), Text("j")})
                     EXCEPT !.answers = @ \cup {Answer}]
             @@ "b" :> NodeOf("tool")
             @@ "j" :> [NodeOf("condition") EXCEPT !.branches = <<Branch(TRUE, {"c"})>>],
           {Arrow("s", "d"), Arrow("d", "a"), Arrow("d", "b"), Arrow("a", "j"),
            Arrow("b", "j"), Arrow("j", "c")})

\* An edge of b reads what its sibling, the agent a, may have written.
Race ==
    [FlowOf("agent_workflow",
            "a" :> Agent("agent", {Answer, [Answer EXCEPT !.blank = TRUE]}),
            {Arrow("s", "a"), Arrow("s", "b"), WhenText("b", "c", {"a"}),
             WhenText("b", "d", {Nobody}), Arrow("c", "j"), Arrow("a", "j")})
       EXCEPT !.adapter = TRUE]

\* Two branches of different lengths meet at j.
Uneven == FlowOf("tool_workflow", <<>>,
                 {Arrow("s", "a"), Arrow("s", "b"), Arrow("a", "c"), Arrow("c", "d"),
                  Arrow("d", "j"), Arrow("b", "j")})

\* A planner keeps this flow in the older engine, which accepts its cycle: an agent may send
\* the run into it at two places, to the planner, or to a node that does not exist.
Older ==
    FlowOf("agentflow",
           "a" :> Router("agent_node", {Ids({"b", "c"}), Ids({"b", "d"}), Ids({"c", "j"})})
             @@ "b" :> [Agent("agent_node", {Answer, [Answer EXCEPT !.json = TRUE]})
                          EXCEPT !.parsesJSON = TRUE]
             @@ "c" :> Agent("agent_node", {Answer})
             @@ "d" :> NodeOf("planner_node"),
           {Arrow("s", "a"), Arrow("a", "b"), Arrow("b", "c"), Arrow("c", "b"), Arrow("a", "d")})

\* A branch of a condition names null; its default leads to a skill, which has no executor.
NullBranch ==
    FlowOf("agent_workflow",
           "a" :> [NodeOf("condition") EXCEPT !.branches = <<Branch(TRUE, {Null})>>,
                                              !.default = {Branch(FALSE, {"b"})}]
             @@ "b" :> NodeOf("skill"),
           {Arrow("s", "a"), Arrow("a", "b")})

\* Flows that are refused: a cycle in the newer engine, and an operation in an agent flow.
Cyclic    == FlowOf("agentflow", <<>>, {Arrow("s", "a"), Arrow("a", "b"), Arrow("b", "a")})
Operation == FlowOf("agentflow", "a" :> NodeOf("connector_operation"), {Arrow("s", "a")})

\* Every flow over four nodes in which the entry leads on, of which an agent sends the run
\* to any of them or where the edges lead; c keeps an agent flow in the older engine.
SmallEdges == { edges \in SUBSET { Arrow(from, to) : from, to \in {"s", "a", "b", "j"} } :
                  \A e \in edges : e.to \notin {"s", e.from} }

SmallFlow(kind, agent, other, edges) ==
    [ FlowOf(kind, <<>>, edges) EXCEPT
        !.adapter = TRUE,
        !.nodes = "s" :> NodeOf("start")
                    @@ "a" :> [Router(agent, { Ids(x) : x \in SUBSET {"a", "b", "j"} })
                                 EXCEPT !.answers = @ \cup {Answer}]
                    @@ [n \in {"b", "j"} |-> NodeOf(other)]
                    @@ IF kind = "agentflow" THEN "c" :> NodeOf("planner_node") ELSE <<>> ]

SmallFlows == { SmallFlow("agent_workflow", "agent", "join", edges) : edges \in SmallEdges }
                \cup { SmallFlow("agentflow", "agent_node", "join_node", edges) : edges \in SmallEdges }

Flows == {Fan, ShortFan, Directed, Race, Uneven, Older, NullBranch, Cyclic, Operation}
           \cup SmallFlows

AllGraphs  == { AsGraph(flow) : flow \in { f \in Flows : Accepted(f) } }
JustUneven == {AsGraph(Uneven)}
=============================================================================
