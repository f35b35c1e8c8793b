---------------------------- MODULE StatefulFlow ----------------------------
(***************************************************************************)
(* StatefulExecutor and its instance store, driven by concurrent callers.  *)
(*                                                                         *)
(* Each caller is a goroutine inside Start, RunUntilBlocked or Resume. A   *)
(* call works on its own copy of the instance: Get clones the stored one,  *)
(* one token is executed on the copy, Save clones the copy back. Between a *)
(* Get and a Save other callers run, and Save compares nothing (Version is *)
(* counted by the code and read by none of it, so the model leaves it      *)
(* out). The store's own mutex makes Create, Get and Save atomic.          *)
(***************************************************************************)
EXTENDS FlowInstance, FiniteSets

CONSTANTS Flows,           \* the flows a client may start
          Callers,         \* the goroutines that call the executor
          NoInstance,      \* the store has no such instance, or no copy is held
          MaxCalls,        \* bound: calls the clients make
          MaxAborts,       \* bound: calls cut short by the store or by a crash
          MaxLost          \* bound: completions the log may lose, all of one node

ASSUME FlowsAssumption == \A f \in Flows : IsFlow(f) /\ f.starts # <<>>
ASSUME NoInstanceAssumption == NoInstance \notin Instance

VARIABLES flow,     \* the flow spec every call of this instance passes
          store,    \* MemoryInstanceStore.instances[instanceID]
          pc,       \* where each caller is
          local,    \* the copy each caller works on
          event,    \* the event a caller in Resume is delivering
          calls,    \* calls made so far
          aborts,   \* calls cut short so far
          effects,  \* history: executor.Execute calls, per node
          audited,  \* history: node.completed events appended, per node
          lost      \* history: those whose append failed, per node

caller   == <<pc, local, event>>
eventLog == <<audited, lost>>
vars     == <<flow, store, pc, local, event, calls, aborts, effects, eventLog>>

PC == { "idle",         \* in no call
        "load",         \* RunUntilBlocked is about to Get
        "loop",         \* RunUntilBlocked is about to pick a ready token
        "match",        \* Resume is about to apply the event to a token
        "saveStep",     \* about to save after a token
        "saveFailed",   \* about to save the failed instance
        "saveBlocked",  \* about to save the waiting or completed instance
        "saveResumed" } \* about to save the resumed instance

Saving == {"saveStep", "saveFailed", "saveBlocked", "saveResumed"}

Goto(c, l, copy) ==
    /\ pc' = [pc EXCEPT ![c] = l]
    /\ local' = [local EXCEPT ![c] = copy]

Return(c) ==
    /\ Goto(c, "idle", NoInstance)
    /\ event' = [event EXCEPT ![c] = NoEvent]

Count(h, n, b) == IF b THEN [h EXCEPT ![n] = @ + 1] ELSE h

\* emit appends node.completed, when there is one, and drops the error of an
\* append that fails: the call goes on, the log is without the event.
EmitCompleted(n, done) ==
    \/ /\ audited' = Count(audited, n, done)
       /\ UNCHANGED lost
    \/ /\ done
       /\ lost[n] < MaxLost /\ \A m \in NodeIds \ {n} : lost[m] = 0
       /\ lost' = [lost EXCEPT ![n] = @ + 1]
       /\ UNCHANGED audited

Init ==
    /\ flow \in Flows
    /\ store = NoInstance
    /\ pc = [c \in Callers |-> "idle"]
    /\ local = [c \in Callers |-> NoInstance]
    /\ event = [c \in Callers |-> NoEvent]
    /\ calls = 0
    /\ aborts = 0
    /\ effects = [n \in NodeIds |-> 0]
    /\ audited = [n \in NodeIds |-> 0]
    /\ lost = [n \in NodeIds |-> 0]
-----------------------------------------------------------------------------
(* The calls clients make. A client that gets an error returned without a  *)
(* state change (Start of an existing instance, Resume of a terminal one   *)
(* or with an event no token waits for) is not a step.                     *)

Call(c) ==
    /\ pc[c] = "idle"
    /\ calls < MaxCalls
    /\ calls' = calls + 1
    /\ UNCHANGED <<flow, aborts, effects, eventLog>>

\* Mutations of Start: the new instance is not stored; or one that exists is
\* stored anew.
StartUnsaved(c) ==
    /\ Call(c)
    /\ store = NoInstance
    /\ Goto(c, "load", NoInstance)
    /\ UNCHANGED <<store, event>>

StartAgain(c) ==
    /\ Call(c)
    /\ store' = NewInstance(flow)
    /\ Goto(c, "load", NoInstance)
    /\ UNCHANGED event

Start(c) ==
    /\ Call(c)
    /\ store = NoInstance
    /\ store' = NewInstance(flow)
    /\ Goto(c, "load", NoInstance)
    /\ UNCHANGED event

RunUntilBlocked(c) ==
    /\ Call(c)
    /\ store # NoInstance
    /\ Goto(c, "load", NoInstance)
    /\ UNCHANGED <<store, event>>

Resume(c, ev) ==
    /\ Call(c)
    /\ store # NoInstance
    /\ ~Terminal(store)
    /\ Matching(flow, store, ev) # {}
    /\ Goto(c, "match", [store EXCEPT !.status = "running"])
    /\ event' = [event EXCEPT ![c] = ev]
    /\ UNCHANGED store
-----------------------------------------------------------------------------
(* Resume's loop over the waiting tokens. A token it has applied is        *)
(* consumed and the tokens it appended are ready, so the next iteration is *)
(* the lowest token that still waits for the event.                        *)

\* Mutation of MatchNext: Resume stops at the first token the event matches.
MatchFirst(c) ==
    /\ pc[c] = "match"
    /\ \E i \in NextMatch(flow, local[c], event[c]) :
          /\ Goto(c, "saveResumed", ApplyEvent(flow, local[c], i))
          /\ EmitCompleted(local[c].tokens[i].node, TRUE)
    /\ UNCHANGED <<flow, store, event, calls, aborts, effects>>

MatchNext(c) ==
    /\ pc[c] = "match"
    /\ \E i \in NextMatch(flow, local[c], event[c]) :
          LET applied == ApplyEvent(flow, local[c], i)
          IN  /\ Goto(c, IF Matching(flow, applied, event[c]) # {}
                         THEN "match" ELSE "saveResumed", applied)
              /\ EmitCompleted(local[c].tokens[i].node, TRUE)
    /\ UNCHANGED <<flow, store, event, calls, aborts, effects>>

\* ApplyContextWrites fails: Resume returns, and its copy with it.
MatchError(c) ==
    /\ pc[c] = "match"
    /\ \E i \in NextMatch(flow, local[c], event[c]) :
          local[c].tokens[i].node \in flow.fails
    /\ Return(c)
    /\ UNCHANGED <<flow, store, calls, aborts, effects, eventLog>>
-----------------------------------------------------------------------------
(* RunUntilBlocked.                                                        *)

Load(c) ==
    /\ pc[c] = "load"
    /\ IF Terminal(store)
       THEN Return(c)
       ELSE /\ Goto(c, "loop", [store EXCEPT !.status = "running"])
            /\ UNCHANGED event
    /\ UNCHANGED <<flow, store, calls, aborts, effects, eventLog>>

ExecuteToken(c) ==
    /\ pc[c] = "loop"
    /\ \E i \in FirstReady(local[c]) :
          \E o \in ExecuteReadyToken(flow, local[c], i) :
             LET n == local[c].tokens[i].node
             IN  /\ Goto(c, IF o.err THEN "saveFailed" ELSE "saveStep", o.inst)
                 /\ effects' = Count(effects, n, o.ran)
                 /\ EmitCompleted(n, o.done)
    /\ UNCHANGED <<flow, store, event, calls, aborts>>

Block(c) ==
    /\ pc[c] = "loop"
    /\ WithStatus(local[c], "ready") = {}
    /\ Goto(c, "saveBlocked", FinalizeBlockedInstance(local[c]))
    /\ UNCHANGED <<flow, store, event, calls, aborts, effects, eventLog>>
-----------------------------------------------------------------------------
(* Save, and what the caller does next: go on with the copy it holds, run  *)
(* the instance it has just resumed, or return.                            *)

\* Mutations of Save: a step is not written back; Resume does not go on to run
\* the instance it has saved.
SaveNoStep(c) ==
    /\ pc[c] \in Saving
    /\ store' = IF pc[c] = "saveStep" THEN store ELSE local[c]
    /\ CASE pc[c] = "saveStep"    -> Goto(c, "loop", local[c]) /\ UNCHANGED event
         [] pc[c] = "saveResumed" -> /\ Goto(c, "load", NoInstance)
                                     /\ event' = [event EXCEPT ![c] = NoEvent]
         [] OTHER                 -> Return(c)
    /\ UNCHANGED <<flow, calls, aborts, effects, eventLog>>

SaveAndReturn(c) ==
    /\ pc[c] \in Saving
    /\ store' = local[c]
    /\ IF pc[c] = "saveStep" THEN Goto(c, "loop", local[c]) /\ UNCHANGED event
                             ELSE Return(c)
    /\ UNCHANGED <<flow, calls, aborts, effects, eventLog>>

Save(c) ==
    /\ pc[c] \in Saving
    /\ store' = local[c]
    /\ CASE pc[c] = "saveStep"    -> Goto(c, "loop", local[c]) /\ UNCHANGED event
         [] pc[c] = "saveResumed" -> /\ Goto(c, "load", NoInstance)
                                     /\ event' = [event EXCEPT ![c] = NoEvent]
         [] OTHER                 -> Return(c)
    /\ UNCHANGED <<flow, calls, aborts, effects, eventLog>>

\* The store's Get or Save fails, or the process dies: the call ends, its copy
\* is gone and the stored instance stays as it was.
Abort(c) ==
    /\ pc[c] # "idle"
    /\ aborts < MaxAborts
    /\ aborts' = aborts + 1
    /\ Return(c)
    /\ UNCHANGED <<flow, store, calls, effects, eventLog>>
-----------------------------------------------------------------------------
Advance(c) ==
    \/ MatchNext(c)
    \/ MatchError(c)
    \/ Load(c)
    \/ ExecuteToken(c)
    \/ Block(c)
    \/ Save(c)

Next ==
    \E c \in Callers :
       \/ Start(c)
       \/ RunUntilBlocked(c)
       \/ \E ev \in Events : Resume(c, ev)
       \/ Advance(c)
       \/ Abort(c)

Spec == Init /\ [][Next]_vars

\* A call runs on a goroutine: it goes on. Clients need not call.
FairSpec == Spec /\ \A c \in Callers : WF_vars(Advance(c))
-----------------------------------------------------------------------------
TypeOK ==
    /\ flow \in Flows
    /\ store \in Instance \cup {NoInstance}
    /\ pc \in [Callers -> PC]
    /\ local \in [Callers -> Instance \cup {NoInstance}]
    /\ event \in [Callers -> Events \cup {NoEvent}]
    /\ calls \in Nat
    /\ aborts \in Nat
    /\ effects \in [NodeIds -> Nat]
    /\ audited \in [NodeIds -> Nat]
    /\ lost \in [NodeIds -> Nat]
    /\ \A c \in Callers :
          /\ pc[c] \in {"loop", "match"} \cup Saving <=> local[c] # NoInstance
          /\ pc[c] # "idle" => store # NoInstance

(***************************************************************************)
(* The invariants of an instance. Each is about one copy of it and must    *)
(* hold of the stored copy and of every caller's.                          *)
(***************************************************************************)

\* The engine only ever picks ready tokens, so a token left running would
\* never move again and the instance would complete without it: a token is
\* left running in an instance that failed and in no other.
NothingStuck(inst) ==
    inst.status # "failed" => WithStatus(inst, "running") = {}

\* The status a caller and a client decide by is the truth about the tokens:
\* a completed instance has consumed them all, a waiting one has a token that
\* waits and none that is ready (RunUntilBlocked, finalizeBlockedInstance).
StatusTellsTokens(inst) ==
    /\ inst.status = "completed" =>
          \A i \in DOMAIN inst.tokens : inst.tokens[i].status = "consumed"
    /\ inst.status = "waiting" =>
          /\ WithStatus(inst, "ready") = {}
          /\ WithStatus(inst, "waiting") # {}

\* A token waits only at a wait node: nothing but an event its condition
\* matches moves it (blockOnWaitNode, Resume).
WaitsAtWaitNodes(f, inst) ==
    \A i \in WithStatus(inst, "waiting") :
       inst.tokens[i].node \in f.nodes /\ f.kind[inst.tokens[i].node] = "wait"

\* A join that fired had a token from every one of its incoming edges'
\* sources, and it has consumed them (executeJoinNode).
JoinWaitsForAll(f, inst) ==
    \A n \in f.nodes :
       Aggregates(f, n) /\ inst.joins[n].completed =>
          \A m \in Sources(f, n) :
             \E i \in WithStatus(inst, "consumed") :
                inst.tokens[i].node = n /\ inst.tokens[i].source = m

\* A join fires once however many tokens reach it: the tokens it sent on are
\* none before it completed and one batch, its outgoing edges, after.
JoinFiresOnce(f, inst) ==
    \A n \in f.nodes :
       Aggregates(f, n) =>
          LET sent == { i \in DOMAIN inst.tokens : inst.tokens[i].source = n }
          IN  IF inst.joins[n].completed
              THEN \E k \in 0..Len(inst.tokens) : sent = (k + 1)..(k + Len(f.outgoing[n]))
              ELSE sent = {}

InstanceOK(f, inst) ==
    /\ NothingStuck(inst)
    /\ StatusTellsTokens(inst)
    /\ WaitsAtWaitNodes(f, inst)
    /\ JoinWaitsForAll(f, inst)
    /\ JoinFiresOnce(f, inst)

Copies == {store} \cup { local[c] : c \in Callers }

\* Every copy of the instance satisfies its invariants, however many callers
\* work on it: a save replaces one consistent state by another.
CopiesOK == \A inst \in Copies \ {NoInstance} : InstanceOK(flow, inst)

(***************************************************************************)
(* The inductive invariant behind CopiesOK. A join's record of arrivals is *)
(* backed by the tokens it consumed, and a caller that goes on working on  *)
(* its copy marked it running.                                             *)
(***************************************************************************)
ArrivalsBacked(f, inst) ==
    \A n \in f.nodes :
       Aggregates(f, n) =>
          /\ \A m \in inst.joins[n].arrived :
                \E i \in WithStatus(inst, "consumed") :
                   inst.tokens[i].node = n /\ inst.tokens[i].source = m
          /\ inst.joins[n].completed => Sources(f, n) \subseteq inst.joins[n].arrived

CopyOK(f, inst) ==
    /\ inst \in Instance
    /\ InstanceOK(f, inst)
    /\ ArrivalsBacked(f, inst)

InductiveInvariant ==
    /\ TypeOK
    /\ \A inst \in Copies \ {NoInstance} : CopyOK(flow, inst)
    /\ \A c \in Callers :
          pc[c] \in {"loop", "match", "saveStep"} => local[c].status = "running"

(***************************************************************************)
(* The instance the executor last worked on, when one caller at a time     *)
(* calls it.                                                               *)
(***************************************************************************)
View(c) == IF local[c] = NoInstance THEN store ELSE local[c]

ConsumedAt(inst, n) ==
    Cardinality({ i \in WithStatus(inst, "consumed") : inst.tokens[i].node = n })

TaskNodes == { n \in flow.nodes : flow.kind[n] = "task" }

\* A node's outside effect happens once for each token it consumes, and once
\* more for each call cut short before its save: never without an abort, and
\* a token is never consumed without the effect (executeReadyToken, Save).
EffectsAccounted ==
    \A c \in Callers : View(c) # NoInstance =>
       \A n \in TaskNodes :
          /\ ConsumedAt(View(c), n) <= effects[n]
          /\ effects[n] <= ConsumedAt(View(c), n) + aborts

\* The event log is written before the instance is saved, so it may tell of
\* more than was saved, and of less only by the appends that failed: of the
\* tokens the stored instance has consumed at a node that cannot fail, no more
\* are without their node.completed event than there were appends of that
\* node's event whose error emit dropped.
AuditMissesNothing ==
    store # NoInstance =>
       \A n \in flow.nodes \ flow.fails :
          flow.kind[n] # "join" => ConsumedAt(store, n) <= audited[n] + lost[n]

\* When no call is in progress and none was cut short, the stored instance is
\* blocked or terminal: RunUntilBlocked returns in no other state, and the last
\* save of concurrent calls is the last save of one of them.
SettledWhenIdle ==
    (\A c \in Callers : pc[c] = "idle") /\ aborts = 0 /\ store # NoInstance =>
       store.status \in {"waiting", "completed", "failed"}

\* A token the stored instance has consumed stays consumed, at the node it was:
\* an event Resume applied and a node that ran are not taken back.
ConsumedIsFinal ==
    [][store # NoInstance =>
         \A i \in WithStatus(store, "consumed") :
            /\ i \in DOMAIN store'.tokens
            /\ store'.tokens[i] = store.tokens[i]]_store

\* Every call returns, whatever the other callers do to the stored instance.
CallsReturn == \A c \in Callers : pc[c] # "idle" ~> pc[c] = "idle"

\* Resume applies an external event: a wait token it has consumed in the store
\* does not wait again.
EventStaysApplied ==
    [][store # NoInstance =>
         \A i \in WithStatus(store, "consumed") :
            flow.kind[store.tokens[i].node] = "wait" =>
               store'.tokens[i].status = "consumed"]_store

\* The events are a log for audit and replay: with every call returned and none
\* cut short, a wait node has not completed more often than it was resumed.
AuditMatchesStore ==
    (\A c \in Callers : pc[c] = "idle") /\ aborts = 0 /\ store # NoInstance =>
       \A n \in flow.nodes : flow.kind[n] = "wait" =>
          audited[n] <= ConsumedAt(store, n)
=============================================================================
