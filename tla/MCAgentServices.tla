-------------------------- MODULE MCAgentServices --------------------------
(* An instance of AgentServices for TLC: supervisor flows over three agent *)
(* nodes, and calls that share a credential, a provider or a call id.      *)
EXTENDS AgentServices, TLC

CONSTANTS c1, c2, c3

Agent(agent, mode) ==
    [type |-> "agent_node", agent |-> agent, mode |-> mode, local |-> mode = "local"]
Nodes(middle) ==
    Entry :> [type |-> "other", agent |-> Nothing, mode |-> "unset", local |-> FALSE]
    @@ "n1" :> Agent("a1", "local") @@ "n2" :> Agent("a2", middle) @@ "n3" :> Agent("a3", "existing")
Graphs(middle, edges) == [nodes |-> Nodes(middle), edges |-> <<<<Entry, "n1">>>> \o edges]
Team    == Graphs("existing", <<<<"n1", "n2">>, <<"n1", "n3">>>>)
Chain   == Graphs("local", <<<<"n1", "n2">>, <<"n2", "n3">>>>)
Loop    == Graphs("local", <<<<"n1", "n2">>, <<"n2", "n1">>>>)
NotLeaf == Graphs("existing", <<<<"n1", "n2">>, <<"n2", "n3">>>>)
Flow(graph, depth, calls) == [graph |-> graph, maxDepth |-> depth, maxCalls |-> calls]

MCNameOf == "a1" :> "lead" @@ "a2" :> "helper" @@ "a3" :> "clerk" @@ "t1" :> "search" @@ "s1" :> "write" @@ "s2" :> "file"
MCProfiles == "a1" :> [tools |-> <<>>, skills |-> <<>>] @@ "a2" :> [tools |-> <<>>, skills |-> <<"s1">>]
           @@ "a3" :> [tools |-> <<"t1">>, skills |-> <<"s2">>]
MCSkillSpecs == [s \in Skills |-> [enabled |-> s = "s1", tools |-> <<"t1">>]]

Blank == [ type |-> "unset", node |-> Nothing, agent |-> Nothing, tool |-> Nothing, skill |-> Nothing,
         id |-> Nothing, name |-> Nothing, task |-> TRUE ]
ToNode(n) == [Blank EXCEPT !.node = n]
ToClerk   == [Blank EXCEPT !.type = "agent", !.name = "clerk"]
UseTool   == [Blank EXCEPT !.tool = "t1"]
UseSkill  == [Blank EXCEPT !.type = "skill", !.id = "s1"]
MCPlans   == {<<>>, <<UseTool, ToNode("n2"), ToClerk>>, <<ToClerk, UseSkill>>}

Op(credential) == [ enabled |-> TRUE, mode |-> "simple_http", url |-> TRUE, auth |-> "oauth2",
                    credential |-> credential ]
MCOperations == c1 :> {Op("other")}
             @@ c2 :> {Op("user"), Op("other")}
             @@ c3 :> {[Op("user") EXCEPT !.mode = m] : m \in {"mock", "other"}}
                      \cup {[Op("user") EXCEPT !.enabled = FALSE], [Op("user") EXCEPT !.url = FALSE],
                            [Op("user") EXCEPT !.auth = "none"], [Op("user") EXCEPT !.auth = "other"]}
                      \cup {Op("app"), Op("fixed"), Op("unset"), Op("plain"), [Op("plain") EXCEPT !.auth = "bearer"]}
Held(provider, what) ==
    [ provider |-> provider, app |-> what \in {"refresh", "code", "tenant"}, refresh |-> what = "refresh",
      code |-> what = "code", secret |-> what = "secret" ]
MCSecrets == "user" :> Held("user", "refresh") @@ "other" :> Held("user", "code")
          @@ "app" :> Held("tenant", "tenant") @@ "fixed" :> Held("user", "secret")
          @@ "plain" :> Held("none", "secret") @@ "unset" :> Held("user", "nothing")

Text(t) == [kind |-> "string", text |-> t]
MCArgs == [c \in Calls |-> "query" :> Text("x") @@ "size" :> [kind |-> "whole", text |-> "2"]]
NoSchema == [required |-> {}, properties |-> <<>>]
Schema(required, type, enum) ==
    [required |-> required, properties |-> "size" :> [type |-> type, enum |-> enum]]
Tool(implementation) ==
    [ status |-> "enabled", implementation |-> implementation, bound |-> TRUE, timed |-> TRUE,
      schema |-> NoSchema ]
MCSpecs == c1 :> {Tool("connector")} @@ c2 :> {[Tool("connector") EXCEPT !.timed = FALSE]}
        @@ c3 :> {Tool(i) : i \in {"connector", "workflow", "python", "mcp", "knowledge", "unset", "other"}}
                 \cup {[Tool("workflow") EXCEPT !.bound = FALSE], [Tool("python") EXCEPT !.status = "disabled"],
                       [Tool("workflow") EXCEPT !.schema = Schema({"query"}, "integer", {"2", "3"})],
                       [Tool("python") EXCEPT !.schema = Schema({"id"}, "string", {})]}

MCIdOf == c1 :> "x" @@ c2 :> "x" @@ c3 :> NoRecord
MCLoads == {[flow |-> NoFlow, calls |-> {c1, c2}]}
           \cup {[flow |-> Flow(g, 1, 2), calls |-> {}] : g \in {Loop, NotLeaf, Team}}
           \cup {[flow |-> Flow(Chain, d, 0), calls |-> {}] : d \in {-1, 3}}
           \cup {[flow |-> Flow(Chain, 1, 1), calls |-> {c3}]}
=============================================================================
