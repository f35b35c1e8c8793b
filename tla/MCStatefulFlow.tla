--------------------------- MODULE MCStatefulFlow ---------------------------
(* Instances of StatefulFlow and of its refinement of TokenNet for TLC.    *)
EXTENDS FlowNet, TLC

MCNodeIds == {"s", "a", "v", "w", "m", "j", "e", "ghost"}

\* A flow from its edges; a node routes along its edges unless routes says else.
MakeFlow(ns, kind, outgoing, routes, accepts, fails) ==
    [ nodes    |-> ns,
      kind     |-> kind @@ [n \in ns |-> "task"],
      outgoing |-> outgoing @@ [n \in ns |-> <<>>],
      starts   |-> <<"s">>,
      routes   |-> routes @@ [n \in ns |-> {(outgoing @@ [x \in ns |-> <<>>])[n]}],
      accepts  |-> accepts @@ [n \in ns |-> {}],
      fails    |-> fails ]

\* A task that can fail and a wait in parallel, joined.
ForkJoin == MakeFlow({"s", "a", "w", "j", "e"},
                     "w" :> "wait" @@ "j" :> "join",
                     "s" :> <<"a", "w">> @@ "a" :> <<"j">> @@ "w" :> <<"j">> @@ "j" :> <<"e">>,
                     <<>>, "w" :> {"ev1"}, {"a"})

\* Two waits one event matches, one of which can fail to apply it.
TwoWaits == MakeFlow({"s", "v", "w", "j", "e"},
                     "v" :> "wait" @@ "w" :> "wait" @@ "j" :> "join",
                     "s" :> <<"v", "w">> @@ "v" :> <<"j">> @@ "w" :> <<"j">> @@ "j" :> <<"e">>,
                     <<>>, "v" :> {"ev1"} @@ "w" :> {"ev1", "ev2"}, {"w"})

\* A condition that waits again, ends, or names a node that does not exist.
WaitLoop == MakeFlow({"s", "w", "m", "e"},
                     "w" :> "wait",
                     "s" :> <<"w">> @@ "w" :> <<"m">> @@ "m" :> <<"w", "e">>,
                     "m" :> {<<"w">>, <<"e">>, <<"ghost">>}, "w" :> {"ev1"}, {})

\* The branches meet at a plain node, which passes two tokens on to the join.
Merge == MakeFlow({"s", "a", "v", "m", "j", "e"},
                  "j" :> "join",
                  "s" :> <<"a", "v", "j">> @@ "a" :> <<"m">> @@ "v" :> <<"m">>
                    @@ "m" :> <<"j">> @@ "j" :> <<"e">>,
                  <<>>, <<>>, {})

\* A join with one incoming edge and a node with two edges to one join.
DoubleEdge == MakeFlow({"s", "v", "j", "e"},
                       "v" :> "join" @@ "j" :> "join",
                       "s" :> <<"v">> @@ "v" :> <<"j", "j">> @@ "j" :> <<"e">>,
                       <<>>, <<>>, {"j"})

AllFlows  == {ForkJoin, TwoWaits, WaitLoop, Merge, DoubleEdge}
WaitFlows == {ForkJoin, TwoWaits}
ParallelFlows == {ForkJoin, Merge}
=============================================================================
