------------------------------ MODULE WaveFlow ------------------------------
(***************************************************************************)
(* One run of a workflow graph by internal/flowengine: Executor.Execute    *)
(* (executor.go) over its executionState (state.go).                       *)
(*                                                                         *)
(* The run goes in waves. A wave is a set of ready nodes, each executed by *)
(* a goroutine on the context the last wave left; when all have returned,  *)
(* their results are merged one by one in the order they arrived, and each *)
(* schedules the nodes that follow it. The agent flow runtime has an older *)
(* copy of the engine (internal/agentflow/application/executor.go), which  *)
(* runs what this one cannot and checks less.                              *)
(*                                                                         *)
(* A value in the context is known by the node that wrote it. What a node  *)
(* returns and whether it fails is chosen from what the graph allows.      *)
(***************************************************************************)
EXTENDS Naturals, Sequences, FiniteSets

CONSTANTS NodeIds,        \* every id a graph or a node's result may name
          Keys,           \* the context paths nodes write and conditions read
          Nobody,         \* no node has written the key
          Graphs,         \* the workflow graphs that may be run
          MaxStoreErrors  \* bound: writes to the run store that fail

ASSUME NobodyAssumption == Nobody \notin NodeIds

Writer == NodeIds \cup {Nobody}

\* An edge is followed when the value at its key was written by one of accepts.
Edge == [ from : NodeIds, to : NodeIds, key : Keys, accepts : SUBSET Writer ]

\* chooses: NextNodeIDs is not nil, and the run goes to next, be it empty.
Result == [ chooses : BOOLEAN,
            next    : SUBSET NodeIds,
            stop    : BOOLEAN,
            writes  : SUBSET Keys ]

(***************************************************************************)
(* A flow whose graph passed ValidateGraph: its edges join its nodes, and, *)
(* unless the older engine runs it, no set of nodes leads back into itself *)
(* (hasCycle).                                                             *)
(*   engine          "workflow", or "agentflow": the older one             *)
(*   missing         nodes of a type that has no executor                  *)
(*   returns         the results an execution of the node may return       *)
(*   fails           nodes whose execution can fail                        *)
(*   maxSteps, maxParallelism   its policy, the defaults filled in         *)
(***************************************************************************)
Acyclic(g) ==
    \A S \in SUBSET g.nodes :
       S # {} => \E n \in S : \A e \in g.edges : e.to = n => e.from \notin S

IsGraph(g) ==
    /\ g.nodes \subseteq NodeIds /\ IsFiniteSet(g.nodes)
    /\ g.entry \in g.nodes
    /\ g.edges \subseteq Edge
    /\ \A e \in g.edges : e.from \in g.nodes /\ e.to \in g.nodes
    /\ g.engine \in {"workflow", "agentflow"}
    /\ g.engine = "workflow" => Acyclic(g)
    /\ g.missing \subseteq g.nodes
    /\ g.returns \in [g.nodes -> SUBSET Result]
    /\ g.fails \subseteq g.nodes
    /\ g.maxSteps \in Nat \ {0} /\ g.maxParallelism \in Nat \ {0}

ASSUME GraphsAssumption == \A g \in Graphs : IsGraph(g)

VARIABLES graph,      \* the graph being run
          phase,      \* where Execute is
          outcome,    \* the error executeGraph returned, or "none"
          run,        \* the stored run's status
          nodeRuns,   \* the stored node runs' statuses
          scheduled, started, completed,  \* executionState
          ctx,        \* executionState.context: the last writer of each key
          work,       \* where the goroutine of each node of the wave is
          results,    \* the channel of results, in the order they arrived
          storeErrors, \* writes that failed so far
          executions  \* history: ExecuteNode calls, per node

sched == <<scheduled, started, completed>>
vars  == <<graph, phase, outcome, run, nodeRuns, scheduled, started, completed,
           ctx, work, results, storeErrors, executions>>

Phase   == {"idle", "loop", "wave", "merge", "finish", "done"}
Outcome == {"none", "nodeFailed", "badNext", "maxSteps", "stuck"}
Record  == {"absent", "running", "succeeded", "failed"}
Work    == {"off", "begin", "executing", "returned", "failed"}

Init ==
    /\ graph \in Graphs
    /\ phase = "idle"
    /\ outcome = "none"
    /\ run = "absent"
    /\ nodeRuns = [n \in NodeIds |-> "absent"]
    /\ scheduled = {}
    /\ started = {}
    /\ completed = {}
    /\ ctx = [k \in Keys |-> Nobody]
    /\ work = [n \in NodeIds |-> "off"]
    /\ results = <<>>
    /\ storeErrors = 0
    /\ executions = [n \in NodeIds |-> 0]

StoreFails ==
    /\ storeErrors < MaxStoreErrors
    /\ storeErrors' = storeErrors + 1
-----------------------------------------------------------------------------
(* Execute and executeGraph.                                               *)

CreateRun ==
    /\ phase = "idle"
    /\ phase' = "loop"
    /\ run' = "running"
    /\ scheduled' = {graph.entry}
    /\ UNCHANGED <<graph, outcome, nodeRuns, started, completed, ctx, work, results,
                   storeErrors, executions>>

\* Mutation of HasPendingScheduledUpstream: a completed upstream still counts.
HasScheduledUpstream(n) == \E e \in graph.edges : e.to = n /\ e.from \in scheduled

HasPendingScheduledUpstream(n) ==
    \E e \in graph.edges :
       e.to = n /\ e.from \in scheduled /\ e.from \notin completed

\* Mutation of ReadyNodes: nodes that started are not left out.
ReadyAgain == { n \in scheduled : ~HasPendingScheduledUpstream(n) }

ReadyNodes ==
    { n \in scheduled \ (started \cup completed) : ~HasPendingScheduledUpstream(n) }

\* Mutation of More: the run is over when all that started has completed.
MoreStarted == Cardinality(completed) < Cardinality(started \cup {graph.entry})

More == Cardinality(completed) < Cardinality(scheduled)

End(o) ==
    /\ phase' = "finish"
    /\ outcome' = o
    /\ UNCHANGED <<graph, run, nodeRuns, scheduled, started, completed, ctx, work,
                   results, storeErrors, executions>>

\* Mutation of CanGoOn: the steps are not counted.
CanAlwaysGoOn == More /\ ReadyNodes # {}

CanGoOn == More /\ Cardinality(completed) < graph.maxSteps /\ ReadyNodes # {}

Stop ==
    /\ phase = "loop"
    /\ ~CanGoOn
    /\ End(CASE ~More -> "none"
             [] More /\ Cardinality(completed) >= graph.maxSteps -> "maxSteps"
             [] OTHER -> "stuck")

MinOf(a, b) == IF a <= b THEN a ELSE b

\* Mutation of StartWave: the nodes of the wave are not marked started.
StartWaveUnmarked(wave) ==
    /\ phase = "loop"
    /\ CanGoOn
    /\ Cardinality(wave) = MinOf(Cardinality(ReadyNodes), graph.maxParallelism)
    /\ phase' = "wave"
    /\ work' = [n \in NodeIds |-> IF n \in wave THEN "begin" ELSE "off"]
    /\ UNCHANGED <<graph, outcome, run, nodeRuns, scheduled, started, completed, ctx,
                   results, storeErrors, executions>>

\* readyNodes ranges over a map: which nodes a full wave leaves out is open.
StartWave(wave) ==
    /\ phase = "loop"
    /\ CanGoOn
    /\ Cardinality(wave) = MinOf(Cardinality(ReadyNodes), graph.maxParallelism)
    /\ phase' = "wave"
    /\ started' = started \cup wave
    /\ work' = [n \in NodeIds |-> IF n \in wave THEN "begin" ELSE "off"]
    /\ UNCHANGED <<graph, outcome, run, nodeRuns, scheduled, completed, ctx, results,
                   storeErrors, executions>>
-----------------------------------------------------------------------------
(* executeNode, on a goroutine of its own.                                 *)

Goroutine(n, from, to) ==
    /\ work[n] = from
    /\ work' = [work EXCEPT ![n] = to]
    /\ UNCHANGED <<graph, phase, outcome, run, scheduled, started, completed, ctx>>

\* Mutation of BeginNode: the node run is only recorded when it has ended.
BeginUnrecorded(n) ==
    /\ Goroutine(n, "begin", "executing") /\ n \notin graph.missing
    /\ UNCHANGED <<nodeRuns, results, storeErrors, executions>>

BeginNode(n) ==
    /\ Goroutine(n, "begin", "executing") /\ n \notin graph.missing
    /\ nodeRuns' = [nodeRuns EXCEPT ![n] = "running"]
    /\ UNCHANGED <<results, storeErrors, executions>>

\* There is no executor, or the first RecordNodeRun fails: none is called.
BeginFails(n) ==
    /\ Goroutine(n, "begin", "failed")
    /\ \/ n \in graph.missing /\ UNCHANGED storeErrors
       \/ n \notin graph.missing /\ StoreFails
    /\ UNCHANGED <<nodeRuns, results, executions>>

NodeSucceeds(n) ==
    /\ Goroutine(n, "executing", "returned")
    /\ \E r \in graph.returns[n] : results' = Append(results, [node |-> n, result |-> r])
    /\ nodeRuns' = [nodeRuns EXCEPT ![n] = "succeeded"]
    /\ executions' = [executions EXCEPT ![n] = @ + 1]
    /\ UNCHANGED storeErrors

\* ExecuteNode, its timeout or its output mapping fails, or the node run that
\* tells how it ended cannot be recorded: then the record says "running" still.
NodeFails(n) ==
    /\ Goroutine(n, "executing", "failed")
    /\ \/ /\ n \in graph.fails
          /\ nodeRuns' = [nodeRuns EXCEPT ![n] = "failed"]
          /\ UNCHANGED storeErrors
       \/ StoreFails /\ UNCHANGED nodeRuns
    /\ executions' = [executions EXCEPT ![n] = @ + 1]
    /\ UNCHANGED results
-----------------------------------------------------------------------------
(* The rest of executeReadyNodes: every goroutine has returned (wg.Wait);  *)
(* one error ends the run, and the results of the others are dropped.      *)

\* Mutations of Wait: the first error ends the wave; or a goroutine that fails
\* does not count as done.
WaitForFirstError ==
    /\ phase = "wave"
    /\ \/ \A n \in NodeIds : work[n] \notin {"begin", "executing"}
       \/ \E n \in NodeIds : work[n] = "failed"
    /\ IF \E n \in NodeIds : work[n] = "failed"
       THEN phase' = "finish" /\ outcome' = "nodeFailed" /\ results' = <<>>
       ELSE phase' = "merge" /\ UNCHANGED <<outcome, results>>
    /\ UNCHANGED <<graph, run, nodeRuns, scheduled, started, completed, ctx, work,
                   storeErrors, executions>>

WaitForResults ==
    /\ phase = "wave"
    /\ \A n \in NodeIds : work[n] \notin {"begin", "executing", "failed"}
    /\ phase' = "merge"
    /\ work' = [n \in NodeIds |-> "off"]
    /\ UNCHANGED <<graph, outcome, run, nodeRuns, scheduled, started, completed, ctx,
                   results, storeErrors, executions>>

Wait ==
    /\ phase = "wave"
    /\ \A n \in NodeIds : work[n] \notin {"begin", "executing"}
    /\ IF \E n \in NodeIds : work[n] = "failed"
       THEN phase' = "finish" /\ outcome' = "nodeFailed" /\ results' = <<>>
       ELSE phase' = "merge" /\ UNCHANGED <<outcome, results>>
    /\ work' = [n \in NodeIds |-> "off"]
    /\ UNCHANGED <<graph, run, nodeRuns, scheduled, started, completed, ctx,
                   storeErrors, executions>>

OutgoingTargets(n) == { e.to : e \in { x \in graph.edges : x.from = n } }

\* nextNodes: context is the one the node's own result was merged into, and
\* not yet the results of its wave that arrived after it.
NextNodes(n, r, context) ==
    IF r.stop THEN {}
    ELSE IF r.chooses THEN r.next
    ELSE { e.to : e \in { x \in graph.edges : x.from = n /\ context[x.key] \in x.accepts } }

\* Mutation of Allowed: a result's choice is followed wherever it leads.
AllowedAnywhere(n) == graph.nodes

\* Where a result may send the run: the older engine asks only that the node exists.
Allowed(n) == IF graph.engine = "agentflow" THEN graph.nodes ELSE OutgoingTargets(n)

\* The nodes are scheduled, or the run ends: at once, or, in the older engine, when it
\* comes to the one that does not exist.
Schedule(n, next) ==
    IF next \subseteq Allowed(n)
    THEN scheduled' = scheduled \cup next /\ UNCHANGED <<phase, outcome>>
    ELSE /\ phase' = "finish" /\ outcome' = "badNext"
         /\ \E before \in SUBSET (next \cap graph.nodes) :
               /\ graph.engine = "workflow" => before = {}
               /\ scheduled' = scheduled \cup before

\* Mutation of Merge: a node that leads nowhere is not marked complete.
MergeDeadEnd ==
    /\ phase = "merge"
    /\ results # <<>>
    /\ results' = Tail(results)
    /\ LET n == Head(results).node
           r == Head(results).result
           next == NextNodes(n, r, ctx')
       IN  /\ ctx' = [k \in Keys |-> IF k \in r.writes THEN n ELSE ctx[k]]
           /\ completed' = IF next = {} THEN completed ELSE completed \cup {n}
           /\ Schedule(n, next)
    /\ UNCHANGED <<graph, run, nodeRuns, started, work, storeErrors, executions>>

Merge ==
    /\ phase = "merge"
    /\ results # <<>>
    /\ results' = Tail(results)
    /\ LET n == Head(results).node
           r == Head(results).result
           next == NextNodes(n, r, ctx')
       IN  /\ completed' = completed \cup {n}
           /\ ctx' = [k \in Keys |-> IF k \in r.writes THEN n ELSE ctx[k]]
           /\ Schedule(n, next)
    /\ UNCHANGED <<graph, run, nodeRuns, started, work, storeErrors, executions>>

NextWave ==
    /\ phase = "merge"
    /\ results = <<>>
    /\ phase' = "loop"
    /\ UNCHANGED <<graph, outcome, run, nodeRuns, scheduled, started, completed, ctx,
                   work, results, storeErrors, executions>>

\* UpdateRun; when it fails the stored run stays "running".
UpdateRun ==
    /\ phase = "finish"
    /\ phase' = "done"
    /\ \/ /\ run' = IF outcome = "none" THEN "succeeded" ELSE "failed"
          /\ UNCHANGED storeErrors
       \/ StoreFails /\ UNCHANGED run
    /\ UNCHANGED <<graph, outcome, nodeRuns, scheduled, started, completed, ctx,
                   work, results, executions>>
-----------------------------------------------------------------------------
Main ==
    \/ CreateRun
    \/ Stop
    \/ \E wave \in SUBSET ReadyNodes : StartWave(wave)
    \/ Wait
    \/ Merge
    \/ NextWave
    \/ UpdateRun

ExecuteNode(n) == BeginNode(n) \/ BeginFails(n) \/ NodeSucceeds(n) \/ NodeFails(n)

Next == Main \/ \E n \in NodeIds : ExecuteNode(n)

Spec == Init /\ [][Next]_vars

\* Execute runs on its caller's goroutine, and a node executor returns: when the
\* node has no timeout its HTTP calls have deadlines of their own, or, from a
\* workflow's connector and tool nodes, are answered by the service they ask.
FairSpec == Spec /\ WF_vars(Main) /\ \A n \in NodeIds : WF_vars(ExecuteNode(n))
-----------------------------------------------------------------------------
TypeOK ==
    /\ IsGraph(graph)
    /\ phase \in Phase
    /\ outcome \in Outcome
    /\ run \in Record
    /\ nodeRuns \in [NodeIds -> Record]
    /\ scheduled \subseteq graph.nodes
    /\ started \subseteq scheduled
    /\ completed \subseteq started
    /\ ctx \in [Keys -> Writer]
    /\ work \in [NodeIds -> Work]
    /\ results \in Seq([node : NodeIds, result : Result])
    /\ storeErrors \in Nat
    /\ executions \in [NodeIds -> Nat]

\* An acyclic graph always lets the run go on: of the nodes that are scheduled
\* and not complete, one has no scheduled upstream among them, so executeGraph
\* never returns "no scheduled node is ready". The older engine may, which accepts cycles.
NeverStuck == outcome = "stuck" => graph.engine = "agentflow"

\* A node reached by several branches, in one wave or in many, executes once:
\* the maps scheduled, started and completed deduplicate it.
ExecutesOnce == \A n \in NodeIds : executions[n] <= 1

\* A succeeded run has gone everywhere its results lead: each scheduled node
\* completed and was recorded as succeeded, and an unconditional edge that a
\* completed node did not choose against was followed.
SucceededIsComplete ==
    run = "succeeded" =>
       /\ completed = scheduled
       /\ \A n \in completed : nodeRuns[n] = "succeeded" /\ executions[n] = 1
       /\ \A n \in NodeIds \ completed : nodeRuns[n] = "absent" /\ executions[n] = 0
       /\ \A e \in graph.edges :
             /\ e.from \in completed
             /\ e.accepts = Writer
             /\ \A r \in graph.returns[e.from] : ~r.stop /\ ~r.chooses
             => e.to \in completed

\* When Execute has decided the outcome no goroutine of the run is left: a node
\* cannot act, or change its record, after the run was reported finished.
QuietWhenFinished ==
    phase \in {"finish", "done"} =>
       \A n \in NodeIds : work[n] \notin {"begin", "executing"}

\* Whatever a model answers and a condition names, a run does not leave its flow: each
\* node but the entry was scheduled along an edge from one that had completed.
StaysOnEdges ==
    graph.engine = "workflow" =>
       \A n \in scheduled \ {graph.entry} : \E e \in graph.edges : e.to = n /\ e.from \in completed

\* MaxSteps is only compared between waves, so a wave may overrun it, but by
\* less than a wave.
StepsBounded == Cardinality(completed) < graph.maxSteps + graph.maxParallelism

\* The run store never says less than was done: a node that was executed has a
\* record, and a record of how it ended is there only if it was executed.
RecordsFollowEffects ==
    \A n \in NodeIds :
       /\ executions[n] > 0 => nodeRuns[n] # "absent"
       /\ nodeRuns[n] \in {"succeeded", "failed"} => executions[n] > 0

(***************************************************************************)
(* The inductive invariant behind the safety properties above. Accounted   *)
(* is why a run never sticks: between waves nothing that started is        *)
(* incomplete. Settling are the nodes that are complete or will be without *)
(* another wave.                                                           *)
(***************************************************************************)
Active  == { n \in NodeIds : work[n] \in {"begin", "executing"} }
Failed  == { n \in NodeIds : work[n] = "failed" }
Arrived == { results[k].node : k \in DOMAIN results }

Settling == completed \cup Arrived \cup Active

NodeOK(n) ==
    /\ work[n] # "off" => n \in started
    /\ n \notin started \/ work[n] = "begin" => nodeRuns[n] = "absent"
    /\ work[n] = "executing" => nodeRuns[n] = "running"
    /\ n \notin started \/ n \in Active => executions[n] = 0
    /\ executions[n] <= 1
    /\ executions[n] > 0 => nodeRuns[n] # "absent"
    /\ nodeRuns[n] \in {"succeeded", "failed"} => executions[n] > 0

PhaseOK ==
    /\ phase # "wave" => \A n \in NodeIds : work[n] = "off"
    /\ phase = "idle" => started = {}
    /\ phase \in {"idle", "loop"} => results = <<>>

Accounted ==
    /\ Arrived \subseteq started
    /\ phase \in {"loop", "wave", "merge"} => started \subseteq Settling \cup Failed

InductiveInvariant ==
    /\ TypeOK
    /\ NeverStuck
    /\ \A n \in NodeIds : NodeOK(n)
    /\ PhaseOK
    /\ Accounted
    /\ Cardinality(Settling) < graph.maxSteps + graph.maxParallelism

\* Every run that was created ends, whatever fails.
RunEnds == phase # "idle" ~> phase = "done"

\* The nodes from which a node can be reached.
Ancestors(n) ==
    { m \in graph.nodes \ {n} :
         \A S \in SUBSET graph.nodes :
            n \in S /\ (\A e \in graph.edges : e.to \in S => e.from \in S) => m \in S }

\* A node where branches meet starts after all the branches that were taken: no
\* node that leads to it is still scheduled or executing.
JoinsWaitForBranches ==
    [][\A n \in started' \ started : Ancestors(n) \cap scheduled \subseteq completed]_vars
=============================================================================
