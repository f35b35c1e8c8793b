---------------------------- MODULE RuntimeEvents ----------------------------
(***************************************************************************)
(* The live-event broker (internal/platform/kernel/runtimeevents/broker.go)*)
(* for one trace, with the goroutines around it: publishers, which are the *)
(* orchestrator's requests (a sub-agent publishes under its parent's live  *)
(* trace id, so there may be several), and subscribers, which are SSE      *)
(* requests (internal/aiorchestrator/interfaces/http/routes.go), each with *)
(* a goroutine that replays the history to it.                             *)
(*                                                                         *)
(* The lock covers a subscription with its snapshot of the history, and an *)
(* append to the history with its copy of the subscribers. The sends come  *)
(* after the unlock: those of several publishers and of the replay meet in *)
(* a subscriber's channel in any order.                                    *)
(***************************************************************************)
EXTENDS Naturals, Sequences, FiniteSets

CONSTANTS Publishers,
          Subscribers,
          HistoryLimit,  \* Broker.historyLimit
          Capacity,      \* of a subscriber's channel
          MaxEvents      \* bound: events published

ASSUME LimitAssumption == HistoryLimit \in Nat \ {0} /\ Capacity \in Nat \ {0}

VARIABLES history,     \* Broker.history[key]
          subscribers, \* Broker.subscribers[key]
          sending,     \* the event each publisher is sending
          targets,     \* the channels it has not tried yet
          cancelled,   \* publishers whose request context is done
          conn,        \* each subscriber's request
          buffer,      \* each subscriber's channel
          replay,      \* what each replay goroutine has not sent yet
          replaying,   \* the replay goroutines that run
          published,   \* history: the number of events appended
          received,    \* history: what each SSE response has been sent
          snapshot,    \* history: what each subscription found
          lost         \* history: the events that were not sent to a subscriber

broker == <<history, subscribers, published>>
sends  == <<sending, targets>>
vars   == <<history, subscribers, sending, targets, cancelled, conn, buffer, replay,
            replaying, published, received, snapshot, lost>>

Event == [n : 1..MaxEvents, by : Publishers]

NoEvent == [n |-> 0]

Init ==
    /\ history = <<>>
    /\ subscribers = {}
    /\ sending = [p \in Publishers |-> NoEvent]
    /\ targets = [p \in Publishers |-> {}]
    /\ cancelled = {}
    /\ conn = [s \in Subscribers |-> "off"]
    /\ buffer = [s \in Subscribers |-> <<>>]
    /\ replay = [s \in Subscribers |-> <<>>]
    /\ replaying = {}
    /\ published = 0
    /\ received = [s \in Subscribers |-> <<>>]
    /\ snapshot = [s \in Subscribers |-> <<>>]
    /\ lost = [s \in Subscribers |-> {}]
-----------------------------------------------------------------------------
(* Publish.                                                                *)

\* Mutation of Trim: the oldest events are kept.
TrimNewest(h) == SubSeq(h, 1, IF Len(h) > HistoryLimit THEN HistoryLimit ELSE Len(h))

Trim(h) ==
    IF Len(h) > HistoryLimit THEN SubSeq(h, Len(h) - HistoryLimit + 1, Len(h)) ELSE h

Publish(p) ==
    /\ targets[p] = {}
    /\ published < MaxEvents
    /\ LET e == [n |-> published + 1, by |-> p]
       IN  /\ history' = Trim(Append(history, e))
           /\ sending' = [sending EXCEPT ![p] = e]
    /\ targets' = [targets EXCEPT ![p] = subscribers]
    /\ published' = published + 1
    /\ UNCHANGED <<subscribers, cancelled, conn, buffer, replay, replaying, received,
                   snapshot, lost>>

HasRoom(s) == Len(buffer[s]) < Capacity

Deliver(p, s) ==
    /\ s \in targets[p]
    /\ HasRoom(s)
    /\ targets' = [targets EXCEPT ![p] = @ \ {s}]
    /\ buffer' = [buffer EXCEPT ![s] = Append(@, sending[p])]
    /\ UNCHANGED <<broker, sending, cancelled, conn, replay, replaying, received,
                   snapshot, lost>>

\* Mutation of Drop: without a default case the send waits for the context.
DropWhenCancelled(p, s) ==
    /\ s \in targets[p]
    /\ ~HasRoom(s)
    /\ p \in cancelled
    /\ targets' = [targets EXCEPT ![p] = @ \ {s}]
    /\ lost' = [lost EXCEPT ![s] = @ \cup {sending[p].n}]
    /\ UNCHANGED <<broker, sending, cancelled, conn, buffer, replay, replaying, received,
                   snapshot>>

\* The default case: neither the channel nor the context is ready.
Drop(p, s) ==
    /\ s \in targets[p]
    /\ ~HasRoom(s)
    /\ p \notin cancelled
    /\ targets' = [targets EXCEPT ![p] = @ \ {s}]
    /\ lost' = [lost EXCEPT ![s] = @ \cup {sending[p].n}]
    /\ UNCHANGED <<broker, sending, cancelled, conn, buffer, replay, replaying, received,
                   snapshot>>

\* ctx.Done: Publish returns, and the subscribers it had not reached get nothing.
Abandon(p) ==
    /\ p \in cancelled
    /\ targets[p] # {}
    /\ targets' = [targets EXCEPT ![p] = {}]
    /\ lost' = [s \in Subscribers |->
                  IF s \in targets[p] THEN lost[s] \cup {sending[p].n} ELSE lost[s]]
    /\ UNCHANGED <<broker, sending, cancelled, conn, buffer, replay, replaying, received,
                   snapshot>>

Cancel(p) ==
    /\ p \notin cancelled
    /\ cancelled' = cancelled \cup {p}
    /\ UNCHANGED <<broker, sends, conn, buffer, replay, replaying, received, snapshot, lost>>
-----------------------------------------------------------------------------
(* Subscribe, its replay goroutine, and the SSE handler that reads.        *)

\* Mutation of Subscribe: the channel only gets the history.
SubscribeUnregistered(s) ==
    /\ conn[s] = "off"
    /\ conn' = [conn EXCEPT ![s] = "open"]
    /\ replay' = [replay EXCEPT ![s] = history]
    /\ snapshot' = [snapshot EXCEPT ![s] = history]
    /\ replaying' = replaying \cup {s}
    /\ UNCHANGED <<broker, sends, cancelled, buffer, received, lost>>

Subscribe(s) ==
    /\ conn[s] = "off"
    /\ conn' = [conn EXCEPT ![s] = "open"]
    /\ subscribers' = subscribers \cup {s}
    /\ replay' = [replay EXCEPT ![s] = history]
    /\ snapshot' = [snapshot EXCEPT ![s] = history]
    /\ replaying' = replaying \cup {s}
    /\ UNCHANGED <<history, published, sends, cancelled, buffer, received, lost>>

\* Mutation of Replay: the newest event first.
ReplayNewestFirst(s) ==
    /\ s \in replaying
    /\ replay[s] # <<>>
    /\ HasRoom(s)
    /\ buffer' = [buffer EXCEPT ![s] = Append(@, replay[s][Len(replay[s])])]
    /\ replay' = [replay EXCEPT ![s] = SubSeq(@, 1, Len(@) - 1)]
    /\ UNCHANGED <<broker, sends, cancelled, conn, replaying, received, snapshot, lost>>

Replay(s) ==
    /\ s \in replaying
    /\ replay[s] # <<>>
    /\ HasRoom(s)
    /\ buffer' = [buffer EXCEPT ![s] = Append(@, Head(replay[s]))]
    /\ replay' = [replay EXCEPT ![s] = Tail(@)]
    /\ UNCHANGED <<broker, sends, cancelled, conn, replaying, received, snapshot, lost>>

\* Mutation of EndReplay: a send that does not watch the context.
EndReplayWhenSent(s) ==
    /\ s \in replaying
    /\ conn[s] \in {"gone", "closed"}
    /\ replay[s] = <<>>
    /\ replaying' = replaying \ {s}
    /\ UNCHANGED <<broker, sends, cancelled, conn, buffer, replay, received, snapshot, lost>>

\* ctx.Done, in the middle of the replay or after it.
EndReplay(s) ==
    /\ s \in replaying
    /\ conn[s] \in {"gone", "closed"}
    /\ replaying' = replaying \ {s}
    /\ UNCHANGED <<broker, sends, cancelled, conn, buffer, replay, received, snapshot, lost>>

\* The handler's select may still pick an event after the client has left.
Receive(s) ==
    /\ conn[s] \in {"open", "gone"}
    /\ buffer[s] # <<>>
    /\ received' = [received EXCEPT ![s] = Append(@, Head(buffer[s]))]
    /\ buffer' = [buffer EXCEPT ![s] = Tail(@)]
    /\ UNCHANGED <<broker, sends, cancelled, conn, replay, replaying, snapshot, lost>>

Disconnect(s) ==
    /\ conn[s] = "open"
    /\ conn' = [conn EXCEPT ![s] = "gone"]
    /\ UNCHANGED <<broker, sends, cancelled, buffer, replay, replaying, received, snapshot,
                   lost>>

\* The deferred cancel of the handler.
Unsubscribe(s) ==
    /\ conn[s] = "gone"
    /\ conn' = [conn EXCEPT ![s] = "closed"]
    /\ subscribers' = subscribers \ {s}
    /\ UNCHANGED <<history, published, sends, cancelled, buffer, replay, replaying,
                   received, snapshot, lost>>
-----------------------------------------------------------------------------
Send(p) == Abandon(p) \/ \E s \in Subscribers : Deliver(p, s) \/ Drop(p, s)

ReplayGoroutine(s) == Replay(s) \/ EndReplay(s)

Next ==
    \/ \E p \in Publishers : Publish(p) \/ Send(p) \/ Cancel(p)
    \/ \E s \in Subscribers :
          Subscribe(s) \/ ReplayGoroutine(s) \/ Receive(s) \/ Disconnect(s) \/ Unsubscribe(s)

Spec == Init /\ [][Next]_vars

\* Goroutines run. Nothing makes an SSE response be written: a client that does
\* not read blocks its handler for as long as it stays connected.
FairSpec ==
    /\ Spec
    /\ \A p \in Publishers : WF_vars(Send(p))
    /\ \A s \in Subscribers : WF_vars(ReplayGoroutine(s)) /\ WF_vars(Unsubscribe(s))
-----------------------------------------------------------------------------

\* The history a late subscriber finds is the latest events, none missing.
HistoryIsLatest ==
    /\ Len(history) = IF published < HistoryLimit THEN published ELSE HistoryLimit
    /\ \A k \in DOMAIN history : history[k].n = published - Len(history) + k

Times(q, n) == Cardinality({ k \in DOMAIN q : q[k].n = n })

Since(s) == IF snapshot[s] = <<>> THEN 1 ELSE snapshot[s][1].n

\* A subscriber gets each event from the oldest in its snapshot on at most once,
\* through the replay or live but not both, and an event it does not get was
\* dropped by a full channel or a cancelled publisher: each is in one place.
EveryEventAccounted ==
    \A s \in Subscribers : conn[s] = "open" =>
       \A n \in Since(s)..published :
          Times(received[s] \o buffer[s] \o replay[s], n)
            + Cardinality({ p \in Publishers : s \in targets[p] /\ sending[p].n = n })
            + Cardinality(lost[s] \cap {n}) = 1

Delivered(s) == received[s] \o buffer[s]

Ascending(q, S) ==
    \A i, j \in DOMAIN q : i < j /\ q[i] \in S /\ q[j] \in S => q[i].n < q[j].n

\* What a subscriber gets is in order source by source: the replay in the order
\* of the history, and the live events of one publisher in the order it
\* published them. Nothing orders the sources among each other.
InOrderPerSource ==
    \A s \in Subscribers :
       LET replayed == { snapshot[s][k] : k \in DOMAIN snapshot[s] }
       IN  /\ Ascending(Delivered(s), replayed)
           /\ \A p \in Publishers :
                 Ascending(Delivered(s), { e \in Event : e.by = p } \ replayed)

\* A publisher is never held up by subscribers, not even by one that never reads:
\* each Publish that began returns.
PublishReturns == \A p \in Publishers : targets[p] # {} ~> targets[p] = {}

\* A client that leaves leaves nothing behind: its channel is removed and its
\* replay goroutine ends, though the channel be full.
NothingLeaks ==
    \A s \in Subscribers : conn[s] = "gone" ~> s \notin subscribers \cup replaying
=============================================================================
