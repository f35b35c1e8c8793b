---------------------------- MODULE FlowInstance ----------------------------
(***************************************************************************)
(* The durable state of one stateful flow execution (FlowInstance in       *)
(* core/flowengine/instance.go) and the functions of StatefulExecutor that *)
(* transform a copy of it in memory (core/flowengine/stateful_executor.go).*)
(*                                                                         *)
(* A flow is data: the module is about every flow the engine validates.    *)
(* The payloads (node inputs and outputs, the data context) are left out;  *)
(* what they decide is a choice: which of its possible next-node lists a   *)
(* node returns (routes) and whether it can fail (fails).                  *)
(***************************************************************************)
EXTENDS Naturals, Sequences

CONSTANTS NodeIds,   \* every id a flow or a condition branch may name
          Events,    \* the external events clients deliver
          NoSource,  \* the empty SourceNodeID of the tokens Start creates
          NoEvent    \* no external event is being delivered

ASSUME NoSourceAssumption == NoSource \notin NodeIds
ASSUME NoEventAssumption == NoEvent \notin Events

NodeKind       == {"task", "wait", "join"}
TokenStatus    == {"ready", "running", "consumed", "waiting"}
NodeStatus     == {"absent", "running", "waiting", "completed", "failed"}
InstanceStatus == {"created", "running", "waiting", "completed", "failed"}

Token == [ node   : NodeIds,
           source : NodeIds \cup {NoSource},
           status : TokenStatus ]

\* A token that has yet to move, or to be woken.
LiveToken == [ node   : NodeIds,
               source : NodeIds \cup {NoSource},
               status : {"ready", "waiting"} ]

JoinState == [ arrived : SUBSET NodeIds, completed : BOOLEAN ]

Instance == [ status    : InstanceStatus,
              tokens    : Seq(Token),
              nodeState : [NodeIds -> NodeStatus],
              joins     : [NodeIds -> JoinState] ]
-----------------------------------------------------------------------------
(* The flow.                                                               *)

Sources(f, n) ==
    { m \in f.nodes : \E k \in DOMAIN f.outgoing[m] : f.outgoing[m][k] = n }

(***************************************************************************)
(* A validated FlowSpec:                                                   *)
(*   nodes    the ids of spec.Nodes                                        *)
(*   kind     "task" is every node run by executor.Execute                 *)
(*   outgoing the targets of a node's static edges, in the order declared  *)
(*   starts   the nodes without an incoming edge, in the order declared    *)
(*   routes   the next-node lists an execution of the node may select:     *)
(*            its edges for a plain node, <<>> for an end node, one list   *)
(*            per branch for a condition (nothing checks a branch's ids)   *)
(*   accepts  the events a wait node's condition matches                   *)
(*   fails    nodes whose mappings, executor or writes can fail            *)
(***************************************************************************)
IsFlow(f) ==
    /\ f.nodes \subseteq NodeIds
    /\ f.kind \in [f.nodes -> NodeKind]
    /\ f.outgoing \in [f.nodes -> Seq(f.nodes)]
    /\ f.starts \in Seq(f.nodes)
    /\ { f.starts[k] : k \in DOMAIN f.starts } = { n \in f.nodes : Sources(f, n) = {} }
    /\ f.routes \in [f.nodes -> SUBSET Seq(NodeIds)]
    /\ f.accepts \in [f.nodes -> SUBSET Events]
    /\ f.fails \subseteq f.nodes

\* A join with at most one incoming edge behaves as a plain node.
Aggregates(f, n) ==
    /\ f.kind[n] = "join"
    /\ \E m1, m2 \in f.nodes :
          \E k1 \in DOMAIN f.outgoing[m1], k2 \in DOMAIN f.outgoing[m2] :
             /\ <<m1, k1>> # <<m2, k2>>
             /\ f.outgoing[m1][k1] = n
             /\ f.outgoing[m2][k2] = n
-----------------------------------------------------------------------------
(* Queries on an instance.                                                 *)

Terminal(inst) == inst.status \in {"completed", "failed"}

WithStatus(inst, st) == { i \in DOMAIN inst.tokens : inst.tokens[i].status = st }

\* The first of a set of tokens: the one with the lowest index, if there is one.
First(S) == { i \in S : \A j \in S : i <= j }

FirstReady(inst) == First(WithStatus(inst, "ready"))

Matching(f, inst, ev) ==
    { i \in WithStatus(inst, "waiting") : ev \in f.accepts[inst.tokens[i].node] }

NextMatch(f, inst, ev) == First(Matching(f, inst, ev))
-----------------------------------------------------------------------------
(* Updates of an instance.                                                 *)

NewTokens(source, next) ==
    [ k \in DOMAIN next |-> [node |-> next[k], source |-> source, status |-> "ready"] ]

NewInstance(f) ==
    [ status    |-> "created",
      tokens    |-> NewTokens(NoSource, f.starts),
      nodeState |-> [n \in NodeIds |-> "absent"],
      joins     |-> [n \in NodeIds |-> [arrived |-> {}, completed |-> FALSE]] ]

Mark(inst, i, tokenStatus, nodeStatus) ==
    [ inst EXCEPT !.tokens[i].status = tokenStatus,
                  !.nodeState[inst.tokens[i].node] = nodeStatus ]

AppendNextTokens(inst, n, next) ==
    [ inst EXCEPT !.tokens = @ \o NewTokens(n, next) ]

CompleteNode(inst, i, next) ==
    AppendNextTokens(Mark(inst, i, "consumed", "completed"), inst.tokens[i].node, next)

FailNode(inst, i) == Mark(inst, i, "consumed", "failed")

\* Mutation of BlockOnWaitNode: the token is left ready, and is picked again.
BlockOnWaitNodeReady(inst, i) == Mark(inst, i, "ready", "waiting")

BlockOnWaitNode(inst, i) == Mark(inst, i, "waiting", "waiting")

(***************************************************************************)
(* A token reaches an aggregating join. The first token after the join has *)
(* fired is swallowed: it is consumed, and the node keeps the status       *)
(* "running" that executeReadyToken gave it.                               *)
(***************************************************************************)
Arrive(inst, i) ==
    LET n == inst.tokens[i].node
        s == inst.tokens[i].source
    IN  IF s = NoSource THEN inst
        ELSE [ inst EXCEPT !.joins[n].arrived = @ \cup {s} ]

\* Mutation of JoinArrivedAll: one source is enough.
JoinArrivedAny(f, inst, n) == Sources(f, n) \cap inst.joins[n].arrived # {}

JoinArrivedAll(f, inst, n) == Sources(f, n) \subseteq inst.joins[n].arrived

\* Mutation of ExecuteJoinNode: a join that has fired is not told apart.
ExecuteJoinNodeAgain(f, inst, i) ==
    LET n       == inst.tokens[i].node
        arrived == Arrive(inst, i)
    IN  IF JoinArrivedAll(f, arrived, n)
        THEN CompleteNode([arrived EXCEPT !.joins[n].completed = TRUE], i, f.outgoing[n])
        ELSE Mark(arrived, i, "consumed", "waiting")

ExecuteJoinNode(f, inst, i) ==
    LET n       == inst.tokens[i].node
        arrived == Arrive(inst, i)
    IN  IF inst.joins[n].completed
        THEN Mark(inst, i, "consumed", "running")
        ELSE IF JoinArrivedAll(f, arrived, n)
        THEN CompleteNode([arrived EXCEPT !.joins[n].completed = TRUE], i, f.outgoing[n])
        ELSE Mark(arrived, i, "consumed", "waiting")

(***************************************************************************)
(* executeReadyToken on the token with index i: the set of its outcomes.   *)
(*   inst   the copy afterwards                                            *)
(*   err    an error was returned, and RunUntilBlocked fails the instance  *)
(*   ran    executor.Execute was called: the node had its outside effect   *)
(*   done   node.completed was emitted                                     *)
(***************************************************************************)
Outcome(inst, err, ran, done) ==
    [ inst |-> IF err THEN [inst EXCEPT !.status = "failed"] ELSE inst,
      err  |-> err,
      ran  |-> ran,
      done |-> done ]

IfFails(f, n, outcome) == IF n \in f.fails THEN {outcome} ELSE {}

\* BuildNodeInput fails after the token was marked running: it stays running.
InputErrors(f, inst, i) ==
    IfFails(f, inst.tokens[i].node,
            Outcome([inst EXCEPT !.tokens[i].status = "running"], TRUE, FALSE, FALSE))

\* Mutation of TaskOutcomes: node.completed is only emitted with next nodes.
TaskOutcomesUnaudited(f, inst, i) ==
    LET n == inst.tokens[i].node
    IN  { Outcome(CompleteNode(inst, i, next), FALSE, TRUE, next # <<>>)
            : next \in f.routes[n] }
        \cup IfFails(f, n, Outcome(FailNode(inst, i), TRUE, TRUE, FALSE))

\* The second set: the executor, its timeout or its context writes failed.
TaskOutcomes(f, inst, i) ==
    LET n == inst.tokens[i].node
    IN  { Outcome(CompleteNode(inst, i, next), FALSE, TRUE, TRUE) : next \in f.routes[n] }
        \cup IfFails(f, n, Outcome(FailNode(inst, i), TRUE, TRUE, FALSE))

WaitOutcomes(f, inst, i) ==
    { Outcome(BlockOnWaitNode(inst, i), FALSE, FALSE, FALSE) }
    \cup IfFails(f, inst.tokens[i].node, Outcome(FailNode(inst, i), TRUE, FALSE, FALSE))

JoinOutcomes(f, inst, i) ==
    LET n == inst.tokens[i].node
    IN  IF Aggregates(f, n)
        THEN LET after == ExecuteJoinNode(f, inst, i)
             IN  { Outcome(after, FALSE, FALSE, after.nodeState[n] = "completed") }
        ELSE { Outcome(CompleteNode(inst, i, f.outgoing[n]), FALSE, FALSE, TRUE) }

ExecuteReadyToken(f, inst, i) ==
    LET n == inst.tokens[i].node
    IN  IF n \notin f.nodes
        THEN { Outcome(inst, TRUE, FALSE, FALSE) }
        ELSE InputErrors(f, inst, i) \cup
             CASE f.kind[n] = "task" -> TaskOutcomes(f, inst, i)
               [] f.kind[n] = "wait" -> WaitOutcomes(f, inst, i)
               [] f.kind[n] = "join" -> JoinOutcomes(f, inst, i)

\* Nothing is ready: the instance waits if a token does, else it is complete.
FinalizeBlockedInstance(inst) ==
    [ inst EXCEPT !.status = IF WithStatus(inst, "waiting") # {}
                             THEN "waiting" ELSE "completed" ]

\* One iteration of Resume's loop that matched token i and could apply it.
ApplyEvent(f, inst, i) == CompleteNode(inst, i, f.outgoing[inst.tokens[i].node])
=============================================================================
