-------------------------- MODULE WaveFlow_proofs --------------------------
(***************************************************************************)
(* What a run of a flow keeps true, for every set of graphs that           *)
(* ValidateGraph accepts: InductiveInvariant is preserved by every step,   *)
(* and the safety properties of WaveFlow follow from it.                   *)
(***************************************************************************)
EXTENDS WaveFlow, FiniteSetTheorems, SequenceTheorems, TLAPS

Entry == [node : NodeIds, result : Result]

NodesOf(s) == { s[k].node : k \in DOMAIN s }
-----------------------------------------------------------------------------
(* Results that arrive and are taken.                                      *)

LEMMA AppendNodes ==
    ASSUME NEW s \in Seq(Entry), NEW x \in Entry
    PROVE  /\ Append(s, x) \in Seq(Entry)
           /\ NodesOf(Append(s, x)) = NodesOf(s) \cup {x.node}
<1> DEFINE t == Append(s, x)
<1>1. /\ t \in Seq(Entry)
      /\ Len(t) = Len(s) + 1
      /\ \A i \in 1..Len(s) : t[i] = s[i]
      /\ t[Len(s) + 1] = x
  BY AppendProperties
<1>2. /\ Len(s) \in Nat
      /\ DOMAIN s = 1..Len(s)
      /\ DOMAIN t = 1..(Len(s) + 1)
  BY <1>1, LenProperties
<1> HIDE DEF t
<1>3. DOMAIN t = DOMAIN s \cup {Len(s) + 1}
  BY <1>2
<1>4. NodesOf(t) = NodesOf(s) \cup {x.node}
  BY <1>1, <1>2, <1>3 DEF NodesOf
<1> QED BY <1>1, <1>4 DEF t

LEMMA TailNodes ==
    ASSUME NEW s \in Seq(Entry), s # <<>>
    PROVE  /\ Head(s) \in Entry
           /\ Tail(s) \in Seq(Entry)
           /\ NodesOf(s) = NodesOf(Tail(s)) \cup {Head(s).node}
<1> DEFINE t == Tail(s)
<1>1. /\ Head(s) \in Entry
      /\ t \in Seq(Entry)
      /\ Len(t) = Len(s) - 1
      /\ \A i \in 1..Len(t) : t[i] = s[i + 1]
      /\ Head(s) = s[1]
  BY HeadTailProperties
<1>2. /\ Len(s) \in Nat \ {0}
      /\ DOMAIN s = 1..Len(s)
      /\ DOMAIN t = 1..Len(t)
  BY <1>1, LenProperties, EmptySeq
<1> HIDE DEF t
<1>3. NodesOf(t) \cup {s[1].node} \subseteq NodesOf(s)
  <2>1. \A i \in DOMAIN t : i + 1 \in DOMAIN s /\ t[i] = s[i + 1]
    BY <1>1, <1>2
  <2>2. 1 \in DOMAIN s
    BY <1>2
  <2> QED BY <2>1, <2>2 DEF NodesOf
<1>4. NodesOf(s) \subseteq NodesOf(t) \cup {s[1].node}
  <2>1. \A i \in DOMAIN s : i = 1 \/ (i - 1 \in DOMAIN t /\ t[i - 1] = s[i])
    BY <1>1, <1>2
  <2> QED BY <2>1 DEF NodesOf
<1> QED BY <1>1, <1>3, <1>4 DEF t

LEMMA NoNodes == NodesOf(<<>>) = {}
BY DEF NodesOf

\* A set inside a finite set has no more elements than it.
LEMMA StaysBelow ==
    ASSUME NEW V, IsFiniteSet(V), NEW W \in SUBSET V, NEW b \in Nat, Cardinality(V) < b
    PROVE  Cardinality(W) < b
<1>1. /\ Cardinality(V) \in Nat
      /\ Cardinality(W) \in Nat
      /\ Cardinality(W) <= Cardinality(V)
  BY FS_Subset, FS_CardinalityType
<1> QED BY <1>1

LEMMA GraphFacts ==
    ASSUME TypeOK
    PROVE  /\ IsGraph(graph)
           /\ graph.maxSteps \in Nat \ {0}
           /\ graph.maxParallelism \in Nat \ {0}
           /\ graph.nodes \subseteq NodeIds
           /\ IsFiniteSet(graph.nodes)
BY DEF TypeOK, IsGraph

LEMMA SettlingFinite ==
    ASSUME InductiveInvariant
    PROVE  /\ Settling \subseteq started
           /\ started \subseteq graph.nodes
           /\ IsFiniteSet(Settling)
<1>1. Active \subseteq started
  BY DEF InductiveInvariant, NodeOK, Active
<1>2. Settling \subseteq started /\ started \subseteq graph.nodes
  BY <1>1 DEF InductiveInvariant, TypeOK, Accounted, Settling
<1> QED BY <1>2, GraphFacts, FS_Subset DEF InductiveInvariant

\* The bound stays where no node starts settling.
LEMMA BoundKept ==
    ASSUME InductiveInvariant, Settling' \subseteq Settling, graph' = graph
    PROVE  Cardinality(Settling)' < (graph.maxSteps + graph.maxParallelism)'
BY SettlingFinite, StaysBelow, GraphFacts DEF InductiveInvariant
-----------------------------------------------------------------------------
LEMMA InitInvariant == Init => InductiveInvariant
<1> SUFFICES ASSUME Init PROVE InductiveInvariant
  OBVIOUS
<1>1. TypeOK
  BY GraphsAssumption, EmptySeq
     DEF Init, TypeOK, Phase, Outcome, Record, Work, Writer, Entry
<1>2. /\ Settling = {}
      /\ Arrived = {}
  BY NoNodes DEF Init, Settling, Arrived, Active, NodesOf
<1>3. Cardinality(Settling) < graph.maxSteps + graph.maxParallelism
  BY <1>1, <1>2, GraphFacts, FS_EmptySet
<1> QED
  BY <1>1, <1>2, <1>3
     DEF Init, InductiveInvariant, NeverStuck, NodeOK, PhaseOK, Accounted
-----------------------------------------------------------------------------
(* The steps of Execute and executeGraph.                                  *)

LEMMA CreateRunStep ==
    ASSUME InductiveInvariant, CreateRun
    PROVE  InductiveInvariant'
<1>1. graph.entry \in graph.nodes
  BY GraphFacts DEF InductiveInvariant, IsGraph
<1>2. started = {} /\ completed = {} /\ results = <<>>
  BY DEF InductiveInvariant, TypeOK, PhaseOK, CreateRun
<1>3. Settling' = Settling /\ Arrived' = Arrived
  BY DEF CreateRun, Settling, Arrived, Active
<1> QED
  BY <1>1, <1>2, <1>3
     DEF CreateRun, InductiveInvariant, TypeOK, Phase, Record, NeverStuck, NodeOK,
         Active, Failed, PhaseOK, Accounted

\* Of the nodes that are scheduled and not complete, one is ready: between
\* waves nothing else has started, and a workflow's graph has no cycle.
LEMMA SomeNodeReady ==
    ASSUME InductiveInvariant, phase = "loop", More, graph.engine = "workflow"
    PROVE  ReadyNodes # {}
<1> DEFINE S == scheduled \ completed
<1>1. /\ started \subseteq completed
      /\ completed \subseteq scheduled
      /\ scheduled \subseteq graph.nodes
  BY NoNodes DEF InductiveInvariant, TypeOK, PhaseOK, Accounted, Settling,
                 Arrived, Active, Failed, NodesOf
<1>2. S # {}
  <2>1. CASE scheduled = completed
    <3>1. Cardinality(completed) \in Nat
      BY <1>1, GraphFacts, FS_Subset, FS_CardinalityType DEF InductiveInvariant
    <3> QED BY <2>1, <3>1 DEF More
  <2> QED BY <1>1, <2>1
<1>3. Acyclic(graph)
  BY GraphFacts DEF InductiveInvariant, IsGraph
<1>4. PICK n \in S : \A e \in graph.edges : e.to = n => e.from \notin S
  <2>1. S \in SUBSET graph.nodes
    BY <1>1
  <2> QED BY <1>2, <1>3, <2>1 DEF Acyclic
<1>5. n \in ReadyNodes
  BY <1>1, <1>4 DEF ReadyNodes, HasPendingScheduledUpstream
<1> QED BY <1>5

LEMMA StopStep ==
    ASSUME InductiveInvariant, Stop
    PROVE  InductiveInvariant'
<1>1. PICK o \in Outcome : End(o) /\ (o = "stuck" => graph.engine = "agentflow")
  <2>1. CASE ~More
    BY <2>1 DEF Stop, Outcome
  <2>2. CASE More /\ Cardinality(completed) >= graph.maxSteps
    BY <2>2 DEF Stop, Outcome
  <2>3. CASE More /\ ~(Cardinality(completed) >= graph.maxSteps)
    <3>1. /\ Cardinality(completed) \in Nat
          /\ graph.maxSteps \in Nat
      BY GraphFacts, FS_Subset, FS_CardinalityType DEF InductiveInvariant, TypeOK
    <3>2. graph.engine \in {"workflow", "agentflow"}
      BY DEF InductiveInvariant, TypeOK, IsGraph
    <3>3. End("stuck") /\ ~CanGoOn
      BY <2>3 DEF Stop
    <3>4. ReadyNodes = {}
      BY <2>3, <3>1, <3>3 DEF CanGoOn
    <3> QED BY <2>3, <3>2, <3>3, <3>4, SomeNodeReady DEF Stop, Outcome
  <2> QED BY <2>1, <2>2, <2>3
<1>2. Settling' = Settling /\ Arrived' = Arrived
  BY <1>1 DEF End, Settling, Arrived, Active
<1> QED
  BY <1>1, <1>2
     DEF End, Stop, InductiveInvariant, TypeOK, Phase, Outcome, NeverStuck, NodeOK,
         Active, PhaseOK, Accounted

LEMMA StartWaveStep ==
    ASSUME InductiveInvariant, NEW wave \in SUBSET ReadyNodes, StartWave(wave)
    PROVE  InductiveInvariant'
<1>1. /\ wave \subseteq scheduled \ (started \cup completed)
      /\ wave \subseteq graph.nodes
      /\ wave \subseteq NodeIds
      /\ completed \subseteq started
      /\ started' \subseteq scheduled
  BY GraphFacts DEF InductiveInvariant, TypeOK, ReadyNodes, StartWave
<1>2. /\ Arrived = {}
      /\ Arrived' = {}
      /\ Active = {}
      /\ Failed = {}
      /\ Active' = wave
  BY <1>1, NoNodes
     DEF InductiveInvariant, PhaseOK, StartWave, Arrived, Active, Failed, NodesOf
<1>3. TypeOK'
  BY <1>1 DEF InductiveInvariant, TypeOK, StartWave, Phase, Work
<1>4. \A n \in NodeIds : NodeOK(n)'
  BY <1>1 DEF InductiveInvariant, TypeOK, NodeOK, StartWave, Active, Work
<1>5. Accounted'
  BY <1>2 DEF InductiveInvariant, Accounted, StartWave, Settling
<1>6. Cardinality(Settling)' < (graph.maxSteps + graph.maxParallelism)'
  <2>1. Settling' = completed \cup wave
    BY <1>2 DEF Settling, StartWave
  <2>2. /\ IsFiniteSet(completed) /\ IsFiniteSet(wave) /\ IsFiniteSet(ReadyNodes)
        /\ IsFiniteSet(completed \cap wave)
    <3>1. ReadyNodes \subseteq graph.nodes /\ completed \subseteq graph.nodes
      BY DEF InductiveInvariant, TypeOK, ReadyNodes
    <3> QED BY <1>1, <3>1, GraphFacts, FS_Subset DEF InductiveInvariant
  <2>3. /\ Cardinality(completed) \in Nat
        /\ Cardinality(wave) \in Nat
        /\ Cardinality(ReadyNodes) \in Nat
        /\ Cardinality(completed \cap wave) \in Nat
        /\ Cardinality(completed \cup wave)
              = Cardinality(completed) + Cardinality(wave) - Cardinality(completed \cap wave)
    BY <2>2, FS_CardinalityType, FS_Union
  <2>4. /\ graph.maxSteps \in Nat
        /\ graph.maxParallelism \in Nat
        /\ graph' = graph
    BY GraphFacts DEF InductiveInvariant, StartWave
  <2>5. /\ Cardinality(completed) < graph.maxSteps
        /\ Cardinality(wave) <= graph.maxParallelism
    BY <2>3, <2>4 DEF StartWave, CanGoOn, MinOf
  <2> QED BY <2>1, <2>3, <2>4, <2>5
<1> QED
  BY <1>3, <1>4, <1>5, <1>6
     DEF InductiveInvariant, NeverStuck, PhaseOK, StartWave

LEMMA WaitStep ==
    ASSUME InductiveInvariant, Wait
    PROVE  InductiveInvariant'
<1>1. /\ Active = {}
      /\ Active' = {}
      /\ \A n \in NodeIds : work'[n] = "off"
  BY DEF Wait, Active
<1>2. CASE \E n \in NodeIds : work[n] = "failed"
  <2>1. /\ phase' = "finish" /\ outcome' = "nodeFailed"
        /\ results' = <<>> /\ Arrived' = {}
    BY <1>2, NoNodes DEF Wait, Arrived, NodesOf
  <2>2. TypeOK'
    BY <2>1, EmptySeq DEF InductiveInvariant, TypeOK, Wait, Phase, Outcome, Work
  <2>3. Cardinality(Settling)' < (graph.maxSteps + graph.maxParallelism)'
    BY <1>1, <2>1, BoundKept DEF Settling, Wait
  <2> QED
    BY <1>1, <2>1, <2>2, <2>3
       DEF InductiveInvariant, NeverStuck, NodeOK, PhaseOK, Accounted, Wait, Active
<1>3. CASE ~(\E n \in NodeIds : work[n] = "failed")
  <2>1. /\ phase' = "merge" /\ outcome' = outcome
        /\ results' = results /\ Arrived' = Arrived
        /\ Failed = {}
    BY <1>3 DEF Wait, Arrived, Failed
  <2>2. TypeOK'
    BY <2>1 DEF InductiveInvariant, TypeOK, Wait, Phase, Work
  <2>3. Settling' = Settling
    BY <1>1, <2>1 DEF Settling, Wait
  <2>4. Cardinality(Settling)' < (graph.maxSteps + graph.maxParallelism)'
    BY <2>3, BoundKept DEF Wait
  <2> QED
    BY <1>1, <2>1, <2>2, <2>3, <2>4
       DEF InductiveInvariant, NeverStuck, NodeOK, PhaseOK, Accounted, Wait, Active
<1> QED BY <1>2, <1>3

LEMMA MergeStep ==
    ASSUME InductiveInvariant, Merge
    PROVE  InductiveInvariant'
<1> DEFINE n == Head(results).node
           r == Head(results).result
           next == NextNodes(n, r, ctx')
<1>1. /\ results \in Seq(Entry) /\ results # <<>>
      /\ results' = Tail(results)
      /\ completed' = completed \cup {n}
      /\ ctx' = [k \in Keys |-> IF k \in r.writes THEN n ELSE ctx[k]]
      /\ UNCHANGED <<graph, run, nodeRuns, started, work, storeErrors, executions>>
  BY DEF Merge, InductiveInvariant, TypeOK, Entry
<1>2. /\ n \in NodeIds
      /\ results' \in Seq(Entry)
      /\ Arrived = Arrived' \cup {n}
  BY <1>1, TailNodes DEF Entry, Arrived, NodesOf
<1>3. n \in started
  BY <1>2 DEF InductiveInvariant, Accounted
<1>4. /\ scheduled \subseteq scheduled'
      /\ scheduled' \subseteq graph.nodes
      /\ \/ UNCHANGED <<phase, outcome>>
         \/ phase' = "finish" /\ outcome' = "badNext"
  <2>1. Allowed(n) \subseteq graph.nodes
    BY GraphFacts DEF Allowed, OutgoingTargets, InductiveInvariant, IsGraph
  <2>2. scheduled \subseteq graph.nodes
    BY DEF InductiveInvariant, TypeOK
  <2>3. Schedule(n, next)
    BY DEF Merge
  <2>4. CASE next \subseteq Allowed(n)
    BY <2>1, <2>2, <2>3, <2>4 DEF Schedule
  <2>5. CASE ~(next \subseteq Allowed(n))
    BY <2>2, <2>3, <2>5 DEF Schedule
  <2> QED BY <2>4, <2>5
<1> HIDE DEF n, r, next
<1>5. TypeOK'
  <2>1. ctx' \in [Keys -> Writer]
    BY <1>1, <1>2 DEF InductiveInvariant, TypeOK, Writer
  <2> QED
    BY <1>1, <1>2, <1>3, <1>4, <2>1
       DEF InductiveInvariant, TypeOK, Phase, Outcome, Entry
<1>6. /\ Settling' = Settling
      /\ Active' = Active
      /\ Failed' = Failed
  BY <1>1, <1>2 DEF Settling, Active, Failed
<1>7. Cardinality(Settling)' < (graph.maxSteps + graph.maxParallelism)'
  BY <1>1, <1>6, BoundKept
<1>8. phase = "merge"
  BY DEF Merge
<1> QED
  BY <1>1, <1>2, <1>3, <1>4, <1>5, <1>6, <1>7, <1>8
     DEF InductiveInvariant, NeverStuck, NodeOK, PhaseOK, Accounted, Active

LEMMA NextWaveStep ==
    ASSUME InductiveInvariant, NextWave
    PROVE  InductiveInvariant'
<1>1. /\ Settling' = Settling
      /\ Arrived' = Arrived
      /\ Active' = Active
      /\ Failed' = Failed
  BY DEF NextWave, Settling, Arrived, Active, Failed
<1> QED
  BY <1>1
     DEF NextWave, InductiveInvariant, TypeOK, Phase, NeverStuck, NodeOK, PhaseOK,
         Accounted

LEMMA UpdateRunStep ==
    ASSUME InductiveInvariant, UpdateRun
    PROVE  InductiveInvariant'
<1>1. /\ Settling' = Settling
      /\ Arrived' = Arrived
      /\ Active' = Active
      /\ Failed' = Failed
  BY DEF UpdateRun, Settling, Arrived, Active, Failed
<1>2. TypeOK'
  BY DEF UpdateRun, StoreFails, InductiveInvariant, TypeOK, Phase, Record
<1> QED
  BY <1>1, <1>2
     DEF UpdateRun, InductiveInvariant, NeverStuck, NodeOK, PhaseOK, Accounted
-----------------------------------------------------------------------------
(* The steps of the goroutine of one node. A node with a goroutine has     *)
(* started, so the phase is "wave", and the other nodes keep their state.  *)

LEMMA GoroutineFacts ==
    ASSUME InductiveInvariant, NEW n \in NodeIds, NEW from \in Work \ {"off"},
           NEW to \in Work \ {"off"}, Goroutine(n, from, to)
    PROVE  /\ n \in started
           /\ n \in graph.nodes
           /\ phase = "wave"
           /\ phase' = "wave"
           /\ work[n] = from
           /\ work' \in [NodeIds -> Work]
           /\ work'[n] = to
           /\ \A m \in NodeIds \ {n} : work'[m] = work[m]
           /\ UNCHANGED <<graph, outcome, run, scheduled, started, completed, ctx>>
           /\ PhaseOK'
<1>1. /\ n \in started
      /\ phase = "wave"
  BY DEF InductiveInvariant, NodeOK, PhaseOK, Goroutine
<1>2. n \in graph.nodes
  BY <1>1 DEF InductiveInvariant, TypeOK
<1> QED BY <1>1, <1>2 DEF Goroutine, InductiveInvariant, TypeOK, PhaseOK, Work

LEMMA BeginNodeStep ==
    ASSUME InductiveInvariant, NEW n \in NodeIds, BeginNode(n)
    PROVE  InductiveInvariant'
<1>1. Goroutine(n, "begin", "executing")
  BY DEF BeginNode
<1>2. "begin" \in Work \ {"off"} /\ "executing" \in Work \ {"off"}
  BY DEF Work
<1>3. /\ Active' = Active
      /\ Failed' = Failed
      /\ Arrived' = Arrived
      /\ Settling' = Settling
  BY <1>1, <1>2, GoroutineFacts DEF BeginNode, Active, Failed, Arrived, Settling
<1>4. TypeOK'
  <2>1. nodeRuns' \in [NodeIds -> Record]
    BY DEF BeginNode, InductiveInvariant, TypeOK, Record
  <2>2. UNCHANGED <<results, storeErrors, executions>>
    BY DEF BeginNode
  <2> QED BY <1>1, <1>2, <2>1, <2>2, GoroutineFacts DEF InductiveInvariant, TypeOK, Phase
<1>5. \A m \in NodeIds : NodeOK(m)'
  BY <1>1, <1>2, GoroutineFacts
     DEF BeginNode, InductiveInvariant, TypeOK, NodeOK, Active
<1> QED
  BY <1>1, <1>2, <1>3, <1>4, <1>5, GoroutineFacts
     DEF InductiveInvariant, NeverStuck, Accounted

LEMMA BeginFailsStep ==
    ASSUME InductiveInvariant, NEW n \in NodeIds, BeginFails(n)
    PROVE  InductiveInvariant'
<1>1. /\ Goroutine(n, "begin", "failed")
      /\ UNCHANGED <<nodeRuns, results, executions>>
  BY DEF BeginFails
<1>2. "begin" \in Work \ {"off"} /\ "failed" \in Work \ {"off"}
  BY DEF Work
<1>3. /\ Active' = Active \ {n}
      /\ Failed' = Failed \cup {n}
      /\ Arrived' = Arrived
  BY <1>1, <1>2, GoroutineFacts DEF Active, Failed, Arrived
<1>4. TypeOK'
  <2>1. storeErrors' \in Nat
    BY DEF BeginFails, StoreFails, InductiveInvariant, TypeOK
  <2> QED BY <1>1, <1>2, <2>1, GoroutineFacts DEF InductiveInvariant, TypeOK, Phase
<1>5. \A m \in NodeIds : NodeOK(m)'
  BY <1>1, <1>2, GoroutineFacts DEF InductiveInvariant, TypeOK, NodeOK, Active
<1>6. Accounted'
  BY <1>1, <1>2, <1>3, GoroutineFacts DEF InductiveInvariant, Accounted, Settling
<1>7. Cardinality(Settling)' < (graph.maxSteps + graph.maxParallelism)'
  BY <1>1, <1>2, <1>3, GoroutineFacts, BoundKept DEF Settling
<1> QED
  BY <1>1, <1>2, <1>4, <1>5, <1>6, <1>7, GoroutineFacts
     DEF InductiveInvariant, NeverStuck

LEMMA NodeSucceedsStep ==
    ASSUME InductiveInvariant, NEW n \in NodeIds, NodeSucceeds(n)
    PROVE  InductiveInvariant'
<1>1. Goroutine(n, "executing", "returned")
  BY DEF NodeSucceeds
<1>2. "executing" \in Work \ {"off"} /\ "returned" \in Work \ {"off"}
  BY DEF Work
<1>3. PICK r \in graph.returns[n] : results' = Append(results, [node |-> n, result |-> r])
  BY DEF NodeSucceeds
<1>4. [node |-> n, result |-> r] \in Entry
  <2>1. n \in graph.nodes
    BY <1>1, <1>2, GoroutineFacts
  <2> QED BY <1>3, <2>1, GraphFacts DEF InductiveInvariant, IsGraph, Entry
<1>5. /\ results' \in Seq(Entry)
      /\ Arrived' = Arrived \cup {n}
  <2>1. results \in Seq(Entry)
    BY DEF InductiveInvariant, TypeOK, Entry
  <2> QED BY <1>3, <1>4, <2>1, AppendNodes DEF Arrived, NodesOf
<1>6. /\ Active' = Active \ {n}
      /\ n \in Active
      /\ Failed' = Failed
  BY <1>1, <1>2, GoroutineFacts DEF Active, Failed
<1>7. executions[n] = 0 /\ executions'[n] = 1
  BY <1>6 DEF InductiveInvariant, TypeOK, NodeOK, NodeSucceeds
<1>8. TypeOK'
  <2>1. /\ nodeRuns' \in [NodeIds -> Record]
        /\ executions' \in [NodeIds -> Nat]
        /\ storeErrors' \in Nat
    BY DEF NodeSucceeds, InductiveInvariant, TypeOK, Record
  <2>2. /\ UNCHANGED <<graph, phase, outcome, run, scheduled, started, completed, ctx>>
        /\ work' \in [NodeIds -> Work]
    BY <1>1, <1>2, GoroutineFacts
  <2> QED BY <1>5, <2>1, <2>2 DEF InductiveInvariant, TypeOK, Entry
<1>9. \A m \in NodeIds : NodeOK(m)'
  BY <1>1, <1>2, <1>7, GoroutineFacts
     DEF NodeSucceeds, InductiveInvariant, TypeOK, NodeOK, Active
<1>10. Accounted'
  BY <1>1, <1>2, <1>5, <1>6, GoroutineFacts DEF InductiveInvariant, Accounted, Settling
<1>11. Cardinality(Settling)' < (graph.maxSteps + graph.maxParallelism)'
  BY <1>1, <1>2, <1>5, <1>6, GoroutineFacts, BoundKept DEF Settling
<1> QED
  BY <1>1, <1>2, <1>8, <1>9, <1>10, <1>11, GoroutineFacts
     DEF InductiveInvariant, NeverStuck

LEMMA NodeFailsStep ==
    ASSUME InductiveInvariant, NEW n \in NodeIds, NodeFails(n)
    PROVE  InductiveInvariant'
<1>1. /\ Goroutine(n, "executing", "failed")
      /\ results' = results
  BY DEF NodeFails
<1>2. "executing" \in Work \ {"off"} /\ "failed" \in Work \ {"off"}
  BY DEF Work
<1>3. /\ Active' = Active \ {n}
      /\ n \in Active
      /\ Failed' = Failed \cup {n}
      /\ Arrived' = Arrived
  BY <1>1, <1>2, GoroutineFacts DEF Active, Failed, Arrived
<1>4. executions[n] = 0 /\ executions'[n] = 1 /\ nodeRuns[n] = "running"
  BY <1>1, <1>3 DEF InductiveInvariant, TypeOK, NodeOK, NodeFails, Goroutine
<1>5. TypeOK'
  <2>1. /\ nodeRuns' \in [NodeIds -> Record]
        /\ executions' \in [NodeIds -> Nat]
        /\ storeErrors' \in Nat
    BY DEF NodeFails, StoreFails, InductiveInvariant, TypeOK, Record
  <2> QED
    BY <1>1, <1>2, <2>1, GoroutineFacts DEF InductiveInvariant, TypeOK
<1>6. \A m \in NodeIds : NodeOK(m)'
  <2>1. /\ nodeRuns'[n] \in {"running", "failed"}
        /\ \A m \in NodeIds \ {n} :
              nodeRuns'[m] = nodeRuns[m] /\ executions'[m] = executions[m]
    BY <1>4 DEF NodeFails, InductiveInvariant, TypeOK
  <2>2. NodeOK(n)'
    BY <1>1, <1>2, <1>4, <2>1, GoroutineFacts DEF NodeOK, Active
  <2>3. ASSUME NEW m \in NodeIds \ {n} PROVE NodeOK(m)'
    BY <1>1, <1>2, <2>1, GoroutineFacts DEF InductiveInvariant, NodeOK, Active
  <2> QED BY <2>2, <2>3
<1>7. Accounted'
  BY <1>1, <1>2, <1>3, GoroutineFacts DEF InductiveInvariant, Accounted, Settling
<1>8. Cardinality(Settling)' < (graph.maxSteps + graph.maxParallelism)'
  BY <1>1, <1>2, <1>3, GoroutineFacts, BoundKept DEF Settling
<1> QED
  BY <1>1, <1>2, <1>5, <1>6, <1>7, <1>8, GoroutineFacts
     DEF InductiveInvariant, NeverStuck
-----------------------------------------------------------------------------
LEMMA InvariantKept == InductiveInvariant /\ [Next]_vars => InductiveInvariant'
<1> SUFFICES ASSUME InductiveInvariant, [Next]_vars
             PROVE  InductiveInvariant'
  OBVIOUS
<1>1. CASE CreateRun
  BY <1>1, CreateRunStep
<1>2. CASE Stop
  BY <1>2, StopStep
<1>3. ASSUME NEW wave \in SUBSET ReadyNodes, StartWave(wave)
      PROVE  InductiveInvariant'
  BY <1>3, StartWaveStep
<1>4. CASE Wait
  BY <1>4, WaitStep
<1>5. CASE Merge
  BY <1>5, MergeStep
<1>6. CASE NextWave
  BY <1>6, NextWaveStep
<1>7. CASE UpdateRun
  BY <1>7, UpdateRunStep
<1>8. ASSUME NEW n \in NodeIds, ExecuteNode(n)
      PROVE  InductiveInvariant'
  BY <1>8, BeginNodeStep, BeginFailsStep, NodeSucceedsStep, NodeFailsStep
     DEF ExecuteNode
<1>9. CASE UNCHANGED vars
  <2>1. /\ Settling' = Settling
        /\ Arrived' = Arrived
        /\ Active' = Active
        /\ Failed' = Failed
    BY <1>9 DEF vars, Settling, Arrived, Active, Failed
  <2> QED
    BY <1>9, <2>1
       DEF vars, InductiveInvariant, TypeOK, NeverStuck, NodeOK, PhaseOK, Accounted
<1> QED
  BY <1>1, <1>2, <1>3, <1>4, <1>5, <1>6, <1>7, <1>8, <1>9 DEF Next, Main

\* Every reachable state of a run satisfies the inductive invariant.
THEOREM RunInvariant == Spec => []InductiveInvariant
BY InitInvariant, InvariantKept, PTL DEF Spec

\* executionState and the stored records have their types in every state: what
\* is scheduled are nodes of the graph, what started was scheduled, and what
\* completed had started.
THEOREM RunTypeCorrect == Spec => []TypeOK
<1>1. InductiveInvariant => TypeOK
  BY DEF InductiveInvariant
<1> QED BY <1>1, RunInvariant, PTL

\* The executeGraph of workflows never returns "no scheduled node is ready", whatever
\* graph passed ValidateGraph and whichever branches its nodes choose.
THEOREM RunsNeverStick == Spec => []NeverStuck
<1>1. InductiveInvariant => NeverStuck
  BY DEF InductiveInvariant
<1> QED BY <1>1, RunInvariant, PTL

\* Of any graph, and any number of branches that meet, ExecuteNode is called at
\* most once for a node.
THEOREM NodesExecuteOnce == Spec => []ExecutesOnce
<1>1. InductiveInvariant => ExecutesOnce
  BY DEF InductiveInvariant, ExecutesOnce, NodeOK
<1> QED BY <1>1, RunInvariant, PTL

\* No goroutine of a run is left when executeGraph has returned.
THEOREM FinishedIsQuiet == Spec => []QuietWhenFinished
<1>1. InductiveInvariant => QuietWhenFinished
  BY DEF InductiveInvariant, PhaseOK, QuietWhenFinished
<1> QED BY <1>1, RunInvariant, PTL

\* A run executes less than a wave more than its MaxSteps.
THEOREM StepsAreBounded == Spec => []StepsBounded
<1>1. InductiveInvariant => StepsBounded
  <2> SUFFICES ASSUME InductiveInvariant PROVE StepsBounded
    OBVIOUS
  <2>1. completed \in SUBSET Settling
    BY DEF Settling
  <2> QED
    BY <2>1, SettlingFinite, StaysBelow, GraphFacts
       DEF InductiveInvariant, StepsBounded
<1> QED BY <1>1, RunInvariant, PTL

\* The stored node runs never say less than was done, nor claim an end that did
\* not happen.
THEOREM RecordsAreTrue == Spec => []RecordsFollowEffects
<1>1. InductiveInvariant => RecordsFollowEffects
  BY DEF InductiveInvariant, NodeOK, RecordsFollowEffects
<1> QED BY <1>1, RunInvariant, PTL
-----------------------------------------------------------------------------
(* What success means: where the results of a run led, it went.            *)

Done(n) == nodeRuns[n] = "succeeded" /\ executions[n] = 1

\* An edge that a completed node cannot but follow.
MustFollow(e) ==
    /\ e.accepts = Writer
    /\ \A r \in graph.returns[e.from] : ~r.stop /\ ~r.chooses

WentEverywhere ==
    /\ \A k \in DOMAIN results :
          /\ results[k].node \in graph.nodes /\ Done(results[k].node)
          /\ results[k].result \in graph.returns[results[k].node]
    /\ \A n \in completed : Done(n)
    /\ phase \notin {"finish", "done"} => outcome = "none"
    /\ phase \in {"finish", "done"} /\ outcome = "none" => completed = scheduled
    /\ run = "succeeded" => phase = "done" /\ outcome = "none"
    /\ outcome # "badNext" =>
          \A e \in graph.edges : e.from \in completed /\ MustFollow(e) => e.to \in scheduled

LEMMA InitWentEverywhere == Init => WentEverywhere
<1>1. DOMAIN <<>> = {}
  BY EmptySeq, LenProperties
<1> QED BY <1>1 DEF Init, WentEverywhere

LEMMA NothingLeft ==
    ASSUME InductiveInvariant, ~More
    PROVE  completed = scheduled
<1>1. completed \in SUBSET scheduled /\ scheduled \in SUBSET graph.nodes /\ IsFiniteSet(scheduled)
  BY GraphFacts, FS_Subset DEF InductiveInvariant, TypeOK
<1>2. /\ Cardinality(completed) <= Cardinality(scheduled)
      /\ Cardinality(scheduled) = Cardinality(completed) => scheduled = completed
      /\ Cardinality(scheduled) \in Nat /\ Cardinality(completed) \in Nat
  BY <1>1, FS_Subset, FS_CardinalityType
<1> QED BY <1>2 DEF More

\* A node that is executing has not arrived and is not complete.
LEMMA ActiveNotDone ==
    ASSUME InductiveInvariant, WentEverywhere, NEW n \in NodeIds, work[n] \in {"begin", "executing"}
    PROVE  /\ n \notin completed /\ (\A k \in DOMAIN results : results[k].node # n)
           /\ n \in graph.nodes /\ executions[n] = 0
BY DEF InductiveInvariant, NodeOK, WentEverywhere, Done, Active, TypeOK

LEMMA MergeWentEverywhere ==
    ASSUME InductiveInvariant, WentEverywhere, Merge
    PROVE  WentEverywhere'
<1> DEFINE n == Head(results).node   r == Head(results).result   next == NextNodes(n, r, ctx')
<1>1. /\ results \in Seq(Entry) /\ results # <<>> /\ results' = Tail(results)
      /\ phase = "merge" /\ outcome = "none" /\ completed' = completed \cup {n}
      /\ UNCHANGED <<graph, run, nodeRuns, executions>>
      /\ run # "succeeded"
  BY DEF Merge, InductiveInvariant, TypeOK, Entry, WentEverywhere
<1>2. 1 \in DOMAIN results /\ Head(results) = results[1]
      /\ DOMAIN Tail(results) = 1..(Len(results) - 1) /\ DOMAIN results = 1..Len(results)
      /\ Len(results) \in Nat
      /\ \A k \in DOMAIN Tail(results) : Tail(results)[k] = results[k + 1]
  BY <1>1, HeadTailProperties, LenProperties, EmptySeq
<1>3. \A k \in DOMAIN results' : k + 1 \in DOMAIN results /\ results'[k] = results[k + 1]
  BY <1>1, <1>2
<1>4. n \in graph.nodes /\ Done(n) /\ r \in graph.returns[n]
  BY <1>2 DEF WentEverywhere
<1>5. \A m : Done(m)' = Done(m)
  BY <1>1 DEF Done
<1>6. \A e : MustFollow(e)' = MustFollow(e)
  BY <1>1 DEF MustFollow
<1>7. \A k \in Keys : ctx'[k] \in Writer
  <2>1. n \in NodeIds
    BY <1>4, GraphFacts DEF InductiveInvariant
  <2> QED BY <2>1 DEF Merge, InductiveInvariant, TypeOK, Writer
<1>8. ASSUME NEW e \in graph.edges, e.from = n, MustFollow(e)
      PROVE  e.to \in next
  <2>1. e.key \in Keys
    BY GraphFacts DEF InductiveInvariant, IsGraph, Edge
  <2>2. ~r.stop /\ ~r.chooses /\ ctx'[e.key] \in e.accepts
    BY <1>4, <1>7, <1>8, <2>1 DEF MustFollow
  <2> QED BY <1>8, <2>2 DEF NextNodes
<1>9. CASE next \subseteq Allowed(n)
  <2>1. scheduled' = scheduled \cup next /\ UNCHANGED <<phase, outcome>>
    BY <1>9 DEF Merge, Schedule
  <2>2. \A e \in graph.edges : e.from \in completed' /\ MustFollow(e) => e.to \in scheduled'
    BY <1>1, <1>8, <2>1 DEF WentEverywhere
  <2> QED BY <1>1, <1>3, <1>4, <1>5, <1>6, <2>1, <2>2 DEF WentEverywhere
<1>10. CASE ~(next \subseteq Allowed(n))
  <2>1. phase' = "finish" /\ outcome' = "badNext"
    BY <1>10 DEF Merge, Schedule
  <2> QED BY <1>1, <1>3, <1>4, <1>5, <2>1 DEF WentEverywhere
<1> QED BY <1>9, <1>10

LEMMA SucceedsWentEverywhere ==
    ASSUME InductiveInvariant, WentEverywhere, NEW n \in NodeIds, NodeSucceeds(n)
    PROVE  WentEverywhere'
<1>1. work[n] = "executing" /\ UNCHANGED <<graph, phase, outcome, run, scheduled, completed>>
  BY DEF NodeSucceeds, Goroutine
<1>2. PICK r \in graph.returns[n] : results' = Append(results, [node |-> n, result |-> r])
  BY DEF NodeSucceeds
<1>3. /\ n \notin completed /\ (\A k \in DOMAIN results : results[k].node # n)
      /\ n \in graph.nodes /\ executions[n] = 0
  BY <1>1, ActiveNotDone
<1>4. results \in Seq(Entry) /\ [node |-> n, result |-> r] \in Entry
  BY <1>2, <1>3, GraphFacts DEF InductiveInvariant, TypeOK, Entry, IsGraph
<1>5. Done(n)' /\ \A m \in NodeIds : m # n => Done(m)' = Done(m)
  BY <1>3 DEF NodeSucceeds, InductiveInvariant, TypeOK, Done
<1>6. \A k \in DOMAIN results' :
         \/ k \in DOMAIN results /\ results'[k] = results[k]
         \/ results'[k] = [node |-> n, result |-> r]
  BY <1>2, <1>4, AppendProperties, LenProperties
<1>7. completed \subseteq NodeIds /\ graph.nodes \subseteq NodeIds
  BY GraphFacts DEF InductiveInvariant, TypeOK
<1>8. \A e : MustFollow(e)' = MustFollow(e)
  BY <1>1 DEF MustFollow
<1> QED BY <1>1, <1>2, <1>3, <1>5, <1>6, <1>7, <1>8 DEF WentEverywhere

LEMMA WentEverywhereKept == InductiveInvariant /\ WentEverywhere /\ [Next]_vars => WentEverywhere'
<1> SUFFICES ASSUME InductiveInvariant, WentEverywhere, [Next]_vars
             PROVE  WentEverywhere'
  OBVIOUS
<1> USE DEF WentEverywhere, Done, MustFollow
<1>1. CASE UNCHANGED vars
  BY <1>1 DEF vars
<1>2. CASE CreateRun
  BY <1>2 DEF CreateRun, InductiveInvariant, PhaseOK, TypeOK
<1>3. CASE Stop
  BY <1>3, NothingLeft DEF Stop, End
<1>4. CASE \E wave \in SUBSET ReadyNodes : StartWave(wave)
  BY <1>4 DEF StartWave
<1>5. CASE Wait
  <2>1. DOMAIN <<>> = {}
    BY EmptySeq, LenProperties
  <2> QED BY <1>5, <2>1 DEF Wait
<1>6. CASE NextWave
  BY <1>6 DEF NextWave
<1>7. CASE UpdateRun
  BY <1>7 DEF UpdateRun
<1>8. ASSUME NEW n \in NodeIds, BeginNode(n) \/ BeginFails(n) \/ NodeFails(n)
      PROVE  WentEverywhere'
  <2>1. /\ work[n] \in {"begin", "executing"}
        /\ UNCHANGED <<graph, phase, outcome, run, scheduled, completed, results>>
    BY <1>8 DEF BeginNode, BeginFails, NodeFails, Goroutine
  <2>2. n \notin completed /\ \A k \in DOMAIN results : results[k].node # n
    BY <2>1, ActiveNotDone
  <2>3. \A m \in NodeIds : m # n => nodeRuns'[m] = nodeRuns[m] /\ executions'[m] = executions[m]
    BY <1>8 DEF BeginNode, BeginFails, NodeFails, InductiveInvariant, TypeOK
  <2>4. completed \subseteq NodeIds /\ graph.nodes \subseteq NodeIds
    BY GraphFacts DEF InductiveInvariant, TypeOK
  <2> QED BY <2>1, <2>2, <2>3, <2>4
<1>9. CASE Merge
  BY <1>9, MergeWentEverywhere
<1>10. ASSUME NEW n \in NodeIds, NodeSucceeds(n)
       PROVE  WentEverywhere'
  BY <1>10, SucceedsWentEverywhere
<1> QED BY <1>1, <1>2, <1>3, <1>4, <1>5, <1>6, <1>7, <1>8, <1>9, <1>10
        DEF Next, Main, ExecuteNode

\* A run that is stored as succeeded has gone everywhere its results lead, in any graph:
\* what was scheduled completed and was recorded so, nothing else was touched, and no
\* unconditional edge out of a completed node was left out.
THEOREM SuccessIsComplete == Spec => []SucceededIsComplete
<1>1. InductiveInvariant /\ WentEverywhere => SucceededIsComplete
  <2> SUFFICES ASSUME InductiveInvariant, WentEverywhere, run = "succeeded"
               PROVE  SucceededIsComplete
    BY DEF SucceededIsComplete
  <2>1. completed = scheduled /\ outcome = "none" /\ phase = "done"
    BY DEF WentEverywhere
  <2>2. ASSUME NEW n \in NodeIds \ completed
        PROVE  nodeRuns[n] = "absent" /\ executions[n] = 0
    BY <2>1 DEF InductiveInvariant, TypeOK, NodeOK
  <2> QED BY <2>1, <2>2 DEF WentEverywhere, Done, MustFollow, SucceededIsComplete
<1>2. InductiveInvariant /\ [Next]_vars => InductiveInvariant'
  BY InvariantKept
<1> QED BY InitInvariant, InitWentEverywhere, <1>2, WentEverywhereKept, <1>1, PTL DEF Spec
-----------------------------------------------------------------------------
(* Where a run goes: only merging schedules a node other than the entry.   *)

LEMMA MergeStaysOnEdges ==
    ASSUME StaysOnEdges, Merge
    PROVE  StaysOnEdges'
<1> SUFFICES ASSUME graph.engine = "workflow", NEW m \in scheduled' \ {graph.entry}
             PROVE  \E e \in graph.edges : e.to = m /\ e.from \in completed'
  BY DEF Merge, StaysOnEdges
<1> DEFINE n == Head(results).node   next == NextNodes(n, Head(results).result, ctx')
<1>1. completed' = completed \cup {n} /\ Schedule(n, next)
  BY DEF Merge
<1>2. m \in scheduled \/ (next \subseteq OutgoingTargets(n) /\ m \in next)
  BY <1>1 DEF Schedule, Allowed
<1>3. CASE m \in scheduled
  BY <1>1, <1>3 DEF StaysOnEdges
<1>4. CASE m \in OutgoingTargets(n)
  BY <1>1, <1>4 DEF OutgoingTargets
<1> QED BY <1>2, <1>3, <1>4

LEMMA StaysOnEdgesKept == StaysOnEdges /\ [Next]_vars => StaysOnEdges'
<1> SUFFICES ASSUME StaysOnEdges, [Next]_vars
             PROVE  StaysOnEdges'
  OBVIOUS
<1>1. CASE CreateRun
  BY <1>1 DEF CreateRun, StaysOnEdges
<1>2. CASE Merge
  BY <1>2, MergeStaysOnEdges
<1>3. CASE UNCHANGED <<graph, scheduled, completed>>
  BY <1>3 DEF StaysOnEdges
<1>4. Next => CreateRun \/ Merge \/ UNCHANGED <<graph, scheduled, completed>>
  <2>1. Main => CreateRun \/ Merge \/ UNCHANGED <<graph, scheduled, completed>>
    BY DEF Main, Stop, End, StartWave, Wait, NextWave, UpdateRun
  <2>2. ASSUME NEW n \in NodeIds, ExecuteNode(n)
        PROVE  UNCHANGED <<graph, scheduled, completed>>
    BY <2>2 DEF ExecuteNode, BeginNode, BeginFails, NodeSucceeds, NodeFails, Goroutine
  <2> QED BY <2>1, <2>2 DEF Next
<1> QED BY <1>1, <1>2, <1>3, <1>4 DEF vars

\* Whatever next nodes the executors of a workflow return, a model's included, the run goes
\* along the edges of its graph, from nodes that have completed.
THEOREM RunsStayOnEdges == Spec => []StaysOnEdges
<1>1. Init => StaysOnEdges
  BY DEF Init, StaysOnEdges
<1> QED BY <1>1, StaysOnEdgesKept, PTL DEF Spec
=============================================================================
