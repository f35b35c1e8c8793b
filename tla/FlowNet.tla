------------------------------ MODULE FlowNet -------------------------------
(***************************************************************************)
(* The stored instance of StatefulFlow as a TokenNet: the tokens that live *)
(* in it, whatever their order, its status and its joins.                  *)
(***************************************************************************)
EXTENDS StatefulFlow

StoredStatus == IF store = NoInstance THEN "absent" ELSE store.status

LiveTokens ==
    [ q \in LiveToken |->
        IF store = NoInstance THEN 0
        ELSE Cardinality({ i \in DOMAIN store.tokens : store.tokens[i] = q }) ]

Arrivals ==
    [ n \in NodeIds |->
        IF store # NoInstance /\ n \in flow.nodes /\ Aggregates(flow, n)
        THEN store.joins[n].arrived ELSE {} ]

FiredJoins ==
    IF store = NoInstance THEN {} ELSE { n \in NodeIds : store.joins[n].completed }

Net == INSTANCE TokenNet WITH
    status <- StoredStatus, live <- LiveTokens, arrived <- Arrivals, fired <- FiredJoins

\* With one caller at a time, every save is one step of the token net and
\* nothing else is one: no token moves twice, and no event is half delivered.
ImplementsTokenNet == Net!Spec
=============================================================================
