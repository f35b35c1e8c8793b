------------------------------ MODULE TokenNet ------------------------------
(***************************************************************************)
(* What a stateful flow promises its clients, with no copies, no saves and *)
(* no order of execution: how many tokens are alive at each place of a     *)
(* flow, each step of which moves one token, delivers one event, or        *)
(* changes the status. StatefulFlow implements it when one caller at a     *)
(* time calls the executor, calls that are cut short included.             *)
(***************************************************************************)
EXTENDS FlowInstance, FiniteSets

CONSTANTS Flows

VARIABLES flow,    \* the flow
          status,  \* "absent" before Start, then the instance's status
          live,    \* the number of tokens, ready or waiting, at each place
          arrived, \* the sources each join has had a token from
          fired    \* the joins that have fired

vars == <<flow, status, live, arrived, fired>>

\* How often f has each place as its value.
Tally(f) == [ q \in LiveToken |-> Cardinality({ x \in DOMAIN f : f[x] = q }) ]

NoTokens == [ q \in LiveToken |-> 0 ]
One(p)   == [ q \in LiveToken |-> IF q = p THEN 1 ELSE 0 ]

\* The tokens source sends to the nodes of a list.
Sent(source, next) == Tally(NewTokens(source, next))

InPhase(phase) == { p \in LiveToken : p.status = phase /\ live[p] > 0 }
Live           == status \in {"created", "running", "waiting"}

Init ==
    /\ flow \in Flows
    /\ status = "absent"
    /\ live = NoTokens
    /\ arrived = [n \in NodeIds |-> {}]
    /\ fired = {}

Create ==
    /\ status = "absent"
    /\ status' = "created"
    /\ live' = Sent(NoSource, flow.starts)
    /\ UNCHANGED <<flow, arrived, fired>>

\* A ready token becomes the tokens of b.
Move(p, b) ==
    /\ Live
    /\ p \in InPhase("ready")
    /\ status' = "running"
    /\ live' = [ q \in LiveToken |-> live[q] - One(p)[q] + b[q] ]
    /\ UNCHANGED flow

PassThrough(p) ==
    /\ p.node \in flow.nodes
    /\ \/ /\ flow.kind[p.node] = "task"
          /\ \E next \in flow.routes[p.node] : Move(p, Sent(p.node, next))
       \/ /\ flow.kind[p.node] = "join"
          /\ ~Aggregates(flow, p.node)
          /\ Move(p, Sent(p.node, flow.outgoing[p.node]))
       \/ /\ flow.kind[p.node] = "wait"
          /\ Move(p, One([p EXCEPT !.status = "waiting"]))
    /\ UNCHANGED <<arrived, fired>>

\* The join fires when its last source has arrived, and never again.
ReachJoin(p) ==
    LET n    == p.node
        have == arrived[n] \cup ({p.source} \ {NoSource})
        full == Sources(flow, n) \subseteq have
    IN  /\ n \in flow.nodes
        /\ Aggregates(flow, n)
        /\ IF n \in fired
           THEN Move(p, NoTokens) /\ UNCHANGED <<arrived, fired>>
           ELSE /\ Move(p, IF full THEN Sent(n, flow.outgoing[n]) ELSE NoTokens)
                /\ arrived' = [arrived EXCEPT ![n] = have]
                /\ fired' = IF full THEN fired \cup {n} ELSE fired

\* One event moves every waiting token whose condition it matches: each sends a
\* token along every edge of its node.
Deliver(ev) ==
    LET woken == { p \in InPhase("waiting") : ev \in flow.accepts[p.node] }
        sends == UNION { {p} \X (1..live[p]) \X DOMAIN flow.outgoing[p.node] : p \in woken }
        sent  == Tally([ s \in sends |->
                   NewTokens(s[1].node, flow.outgoing[s[1].node])[s[3]] ])
    IN  /\ Live
        /\ woken # {}
        /\ status' = "running"
        /\ live' = [ q \in LiveToken |-> IF q \in woken THEN 0 ELSE live[q] + sent[q] ]
        /\ UNCHANGED <<flow, arrived, fired>>

Settle ==
    /\ Live
    /\ InPhase("ready") = {}
    /\ status' = IF InPhase("waiting") # {} THEN "waiting" ELSE "completed"
    /\ UNCHANGED <<flow, live, arrived, fired>>

\* A token fails the instance: it is gone, or it is still there when its node
\* is not in the flow. The other tokens stay where they are, and never move.
Fail(p) ==
    /\ Live
    /\ p \in InPhase("ready")
    /\ p.node \in flow.fails \/ p.node \notin flow.nodes
    /\ status' = "failed"
    /\ live' = IF p.node \in flow.nodes
               THEN [ q \in LiveToken |-> live[q] - One(p)[q] ] ELSE live
    /\ UNCHANGED <<flow, arrived, fired>>

Next ==
    \/ Create
    \/ \E p \in InPhase("ready") : PassThrough(p) \/ ReachJoin(p) \/ Fail(p)
    \/ \E ev \in Events : Deliver(ev)
    \/ Settle

Spec == Init /\ [][Next]_vars
=============================================================================
