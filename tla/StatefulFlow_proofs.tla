------------------------ MODULE StatefulFlow_proofs ------------------------
(***************************************************************************)
(* For every set of flows, callers and events: every copy of an instance   *)
(* stays consistent (TypeOK, CopiesOK, InductiveInvariant), the log never  *)
(* misses a completion (AuditMissesNothing), and calls that have all       *)
(* returned leave the instance settled (SettledWhenIdle). With one caller  *)
(* at a time, effects are accounted for (EffectsAccounted), no save takes  *)
(* back what was consumed (ConsumedIsFinal), and every save is one step of *)
(* the token net (ImplementsTokenNet).                                     *)
(***************************************************************************)
EXTENDS FlowNet, SequenceTheorems, FiniteSetTheorems, TLAPS

(***************************************************************************)
(* Token i got status st and count ready tokens from source were appended. *)
(* Every update of an instance is such a step; the lemmas below are about  *)
(* it, so that no proof about the engine looks into an EXCEPT.             *)
(***************************************************************************)
Moved(inst, next, i, st, source, count) ==
    /\ inst \in Instance
    /\ next \in Instance
    /\ Len(next.tokens) = Len(inst.tokens) + count
    /\ \A j \in 1..Len(inst.tokens) :
          /\ next.tokens[j].node = inst.tokens[j].node
          /\ next.tokens[j].source = inst.tokens[j].source
          /\ next.tokens[j].status = IF j = i THEN st ELSE inst.tokens[j].status
    /\ \A j \in (Len(inst.tokens) + 1)..(Len(inst.tokens) + count) :
          /\ next.tokens[j].source = source
          /\ next.tokens[j].status = "ready"
-----------------------------------------------------------------------------
LEMMA TokensSeq ==
    ASSUME NEW inst \in Instance
    PROVE  /\ inst.tokens \in Seq(Token)
           /\ Len(inst.tokens) \in Nat
           /\ DOMAIN inst.tokens = 1..Len(inst.tokens)
           /\ \A i \in 1..Len(inst.tokens) : inst.tokens[i] \in Token
BY LenProperties, ElementOfSeq DEF Instance

LEMMA NewTokensSeq ==
    ASSUME NEW source \in NodeIds \cup {NoSource},
           NEW list \in Seq(NodeIds)
    PROVE  /\ NewTokens(source, list) \in Seq(Token)
           /\ Len(NewTokens(source, list)) = Len(list)
           /\ Len(list) \in Nat
           /\ \A k \in 1..Len(list) :
                 /\ NewTokens(source, list)[k].source = source
                 /\ NewTokens(source, list)[k].status = "ready"
<1>1. /\ Len(list) \in Nat
      /\ DOMAIN list = 1..Len(list)
      /\ \A k \in 1..Len(list) : list[k] \in NodeIds
  BY LenProperties, ElementOfSeq
<1>2. NewTokens(source, list) \in [1..Len(list) -> Token]
  BY <1>1 DEF NewTokens, Token, TokenStatus
<1>3. NewTokens(source, list) \in Seq(Token)
  BY <1>1, <1>2, SeqDef
<1>4. Len(NewTokens(source, list)) = Len(list)
  BY <1>1, <1>2, <1>3, LenProperties
<1> QED
  BY <1>1, <1>3, <1>4 DEF NewTokens

LEMMA MarkMoves ==
    ASSUME NEW inst \in Instance,
           NEW i \in DOMAIN inst.tokens,
           NEW st \in TokenStatus,
           NEW ns \in NodeStatus,
           NEW source
    PROVE  /\ Moved(inst, Mark(inst, i, st, ns), i, st, source, 0)
           /\ Mark(inst, i, st, ns).joins = inst.joins
           /\ Mark(inst, i, st, ns).status = inst.status
           /\ Mark(inst, i, st, ns).nodeState[inst.tokens[i].node] = ns
<1> DEFINE token == [inst.tokens[i] EXCEPT !.status = st]
           tokens == [inst.tokens EXCEPT ![i] = token]
           states == [inst.nodeState EXCEPT ![inst.tokens[i].node] = ns]
<1>1. /\ inst.tokens \in Seq(Token)
      /\ Len(inst.tokens) \in Nat
      /\ i \in 1..Len(inst.tokens)
      /\ \A j \in 1..Len(inst.tokens) : inst.tokens[j] \in Token
  BY TokensSeq
<1>2. /\ token \in Token
      /\ token.node = inst.tokens[i].node
      /\ token.source = inst.tokens[i].source
      /\ token.status = st
  BY <1>1 DEF Token
<1>3. /\ tokens \in Seq(Token)
      /\ Len(tokens) = Len(inst.tokens)
      /\ \A j \in 1..Len(inst.tokens) :
            tokens[j] = IF j = i THEN token ELSE inst.tokens[j]
  <2> HIDE DEF token
  <2> QED BY <1>1, <1>2, ExceptSeq
<1>4. /\ states \in [NodeIds -> NodeStatus]
      /\ states[inst.tokens[i].node] = ns
  BY <1>1 DEF Instance, Token
<1>5. Mark(inst, i, st, ns) = [inst EXCEPT !.tokens = tokens, !.nodeState = states]
  BY DEF Mark, Instance
<1>6. /\ Mark(inst, i, st, ns).tokens = tokens
      /\ Mark(inst, i, st, ns).nodeState = states
      /\ Mark(inst, i, st, ns).joins = inst.joins
      /\ Mark(inst, i, st, ns).status = inst.status
  BY <1>5 DEF Instance
<1>7. Mark(inst, i, st, ns) \in Instance
  <2> HIDE DEF tokens, states
  <2> QED BY <1>3, <1>4, <1>5 DEF Instance
<1> HIDE DEF tokens, token, states
<1> QED
  BY <1>1, <1>2, <1>3, <1>4, <1>6, <1>7 DEF Moved

LEMMA AppendMoves ==
    ASSUME NEW inst0 \in Instance,
           NEW inst \in Instance,
           NEW i \in DOMAIN inst0.tokens,
           NEW st \in TokenStatus,
           NEW n \in NodeIds,
           NEW list \in Seq(NodeIds),
           Moved(inst0, inst, i, st, n, 0)
    PROVE  /\ Moved(inst0, AppendNextTokens(inst, n, list), i, st, n, Len(list))
           /\ AppendNextTokens(inst, n, list).joins = inst.joins
           /\ AppendNextTokens(inst, n, list).status = inst.status
           /\ AppendNextTokens(inst, n, list).nodeState = inst.nodeState
<1> DEFINE new == NewTokens(n, list)
           tokens == inst.tokens \o new
           next == AppendNextTokens(inst, n, list)
<1>1. /\ inst.tokens \in Seq(Token)
      /\ Len(inst.tokens) = Len(inst0.tokens)
      /\ Len(inst0.tokens) \in Nat
  BY TokensSeq DEF Moved
<1>2. /\ new \in Seq(Token)
      /\ Len(new) = Len(list)
      /\ Len(list) \in Nat
      /\ \A k \in 1..Len(list) : new[k].source = n /\ new[k].status = "ready"
  BY NewTokensSeq
<1> HIDE DEF new
<1>3. /\ tokens \in Seq(Token)
      /\ Len(tokens) = Len(inst0.tokens) + Len(list)
      /\ \A j \in 1..(Len(inst0.tokens) + Len(list)) :
            tokens[j] = IF j <= Len(inst0.tokens) THEN inst.tokens[j]
                        ELSE new[j - Len(inst0.tokens)]
  <2>1. /\ tokens \in Seq(Token)
        /\ Len(tokens) = Len(inst.tokens) + Len(new)
        /\ \A j \in 1..(Len(inst.tokens) + Len(new)) :
              tokens[j] = IF j <= Len(inst.tokens) THEN inst.tokens[j]
                          ELSE new[j - Len(inst.tokens)]
    <3>1. \A s1, s2 \in Seq(Token) :
             /\ s1 \o s2 \in Seq(Token)
             /\ Len(s1 \o s2) = Len(s1) + Len(s2)
             /\ \A j \in 1..(Len(s1) + Len(s2)) :
                   (s1 \o s2)[j] = IF j <= Len(s1) THEN s1[j] ELSE s2[j - Len(s1)]
      BY ConcatProperties, Zenon
    <3> QED BY <1>1, <1>2, <3>1, Zenon
  <2> HIDE DEF tokens
  <2> QED BY <1>1, <1>2, <2>1
<1>4. next = [inst EXCEPT !.tokens = tokens]
  BY ZenonT(30) DEF AppendNextTokens, new
<1> HIDE DEF tokens, next
<1>5. /\ next \in Instance
      /\ next.tokens = tokens
      /\ next.joins = inst.joins
      /\ next.status = inst.status
      /\ next.nodeState = inst.nodeState
  BY <1>3, <1>4 DEF Instance
<1>6. \A j \in 1..Len(inst0.tokens) : next.tokens[j] = inst.tokens[j]
  BY <1>1, <1>2, <1>3, <1>5
<1>7. \A j \in (Len(inst0.tokens) + 1)..(Len(inst0.tokens) + Len(list)) :
         next.tokens[j].source = n /\ next.tokens[j].status = "ready"
  <2>1. ASSUME NEW j \in (Len(inst0.tokens) + 1)..(Len(inst0.tokens) + Len(list))
        PROVE  /\ next.tokens[j] = new[j - Len(inst0.tokens)]
               /\ j - Len(inst0.tokens) \in 1..Len(list)
    <3>1. j \in 1..(Len(inst0.tokens) + Len(list)) /\ ~(j <= Len(inst0.tokens))
      BY <1>1, <1>2
    <3>2. j - Len(inst0.tokens) \in 1..Len(list)
      BY <1>1, <1>2
    <3> QED BY <1>3, <1>5, <3>1, <3>2
  <2> QED BY <1>2, <2>1
<1> QED
  BY <1>3, <1>5, <1>6, <1>7 DEF Moved, next

LEMMA CompleteMoves ==
    ASSUME NEW inst \in Instance,
           NEW i \in DOMAIN inst.tokens,
           NEW list \in Seq(NodeIds)
    PROVE  /\ Moved(inst, CompleteNode(inst, i, list), i, "consumed",
                    inst.tokens[i].node, Len(list))
           /\ CompleteNode(inst, i, list).joins = inst.joins
           /\ CompleteNode(inst, i, list).status = inst.status
<1> DEFINE n == inst.tokens[i].node
           marked == Mark(inst, i, "consumed", "completed")
<1>1. n \in NodeIds
  BY TokensSeq DEF Token
<1>2. /\ Moved(inst, marked, i, "consumed", n, 0)
      /\ marked.joins = inst.joins
      /\ marked.status = inst.status
  <2>1. "consumed" \in TokenStatus /\ "completed" \in NodeStatus
    BY DEF TokenStatus, NodeStatus
  <2> QED BY <2>1, MarkMoves
<1>3. marked \in Instance
  BY <1>2 DEF Moved
<1> QED
  BY <1>1, <1>2, <1>3, AppendMoves DEF CompleteNode, TokenStatus
-----------------------------------------------------------------------------
(* What a move preserves.                                                  *)

\* A token that was consumed still is, at the node and from the source it was.
LEMMA MovedKeepsConsumed ==
    ASSUME NEW inst, NEW next, NEW i, NEW st \in TokenStatus, NEW source, NEW count \in Nat,
           Moved(inst, next, i, st, source, count),
           i \notin WithStatus(inst, "consumed") \/ st = "consumed"
    PROVE  \A j \in WithStatus(inst, "consumed") :
              /\ j \in WithStatus(next, "consumed")
              /\ next.tokens[j].node = inst.tokens[j].node
              /\ next.tokens[j].source = inst.tokens[j].source
<1>1. /\ DOMAIN inst.tokens = 1..Len(inst.tokens)
      /\ DOMAIN next.tokens = 1..Len(next.tokens)
      /\ Len(inst.tokens) \in Nat
      /\ Len(next.tokens) = Len(inst.tokens) + count
  BY TokensSeq DEF Moved
<1> QED
  BY <1>1 DEF Moved, WithStatus

\* Only a wait node's token becomes waiting.
LEMMA MovedKeepsWaits ==
    ASSUME NEW f, NEW inst, NEW next, NEW i, NEW st \in TokenStatus, NEW source, NEW count \in Nat,
           Moved(inst, next, i, st, source, count),
           WaitsAtWaitNodes(f, inst),
           st = "waiting" => /\ inst.tokens[i].node \in f.nodes
                             /\ f.kind[inst.tokens[i].node] = "wait"
    PROVE  WaitsAtWaitNodes(f, next)
<1>1. /\ DOMAIN inst.tokens = 1..Len(inst.tokens)
      /\ DOMAIN next.tokens = 1..Len(next.tokens)
      /\ Len(inst.tokens) \in Nat
      /\ Len(next.tokens) = Len(inst.tokens) + count
  BY TokensSeq DEF Moved
<1> SUFFICES ASSUME NEW j \in WithStatus(next, "waiting")
             PROVE  next.tokens[j].node \in f.nodes /\ f.kind[next.tokens[j].node] = "wait"
  BY DEF WaitsAtWaitNodes
<1>2. j \in 1..Len(inst.tokens)
  BY <1>1 DEF Moved, WithStatus
<1>3. CASE j = i
  BY <1>2, <1>3 DEF Moved, WithStatus
<1>4. CASE j # i
  BY <1>1, <1>2, <1>4 DEF Moved, WithStatus, WaitsAtWaitNodes
<1> QED
  BY <1>3, <1>4

\* A move that runs no token leaves none running.
LEMMA MovedLeavesNoneRunning ==
    ASSUME NEW inst, NEW next, NEW i, NEW st \in TokenStatus \ {"running"}, NEW source,
           NEW count \in Nat,
           Moved(inst, next, i, st, source, count),
           WithStatus(inst, "running") = {}
    PROVE  WithStatus(next, "running") = {}
<1>1. /\ DOMAIN inst.tokens = 1..Len(inst.tokens)
      /\ DOMAIN next.tokens = 1..Len(next.tokens)
      /\ Len(inst.tokens) \in Nat
      /\ Len(next.tokens) = Len(inst.tokens) + count
  BY TokensSeq DEF Moved
<1> SUFFICES ASSUME NEW j \in 1..Len(next.tokens)
             PROVE  next.tokens[j].status # "running"
  BY <1>1 DEF WithStatus
<1>2. CASE j \in 1..Len(inst.tokens)
  BY <1>1, <1>2 DEF Moved, WithStatus
<1>3. CASE j \notin 1..Len(inst.tokens)
  BY <1>1, <1>3 DEF Moved
<1> QED
  BY <1>2, <1>3

SentBy(inst, n) == { j \in DOMAIN inst.tokens : inst.tokens[j].source = n }

\* The tokens a node has sent: none are taken back, and only source sends more.
LEMMA MovedSends ==
    ASSUME NEW inst, NEW next, NEW i, NEW st \in TokenStatus, NEW source, NEW count \in Nat,
           Moved(inst, next, i, st, source, count),
           NEW n
    PROVE  SentBy(next, n) =
              SentBy(inst, n) \cup
              (IF n = source THEN (Len(inst.tokens) + 1)..(Len(inst.tokens) + count) ELSE {})
<1>1. /\ DOMAIN inst.tokens = 1..Len(inst.tokens)
      /\ DOMAIN next.tokens = 1..Len(next.tokens)
      /\ Len(inst.tokens) \in Nat
      /\ Len(next.tokens) = Len(inst.tokens) + count
  BY TokensSeq DEF Moved
<1>2. 1..Len(next.tokens) =
         1..Len(inst.tokens) \cup (Len(inst.tokens) + 1)..(Len(inst.tokens) + count)
  BY <1>1
<1>3. \A j \in 1..Len(inst.tokens) : next.tokens[j].source = inst.tokens[j].source
  BY DEF Moved
<1>4. \A j \in (Len(inst.tokens) + 1)..(Len(inst.tokens) + count) : next.tokens[j].source = source
  BY DEF Moved
<1> QED
  BY <1>1, <1>2, <1>3, <1>4 DEF SentBy

(***************************************************************************)
(* The move preserves the invariants of a copy: the token may run only in  *)
(* a copy that failed and wait only at a wait node, and of the joins only  *)
(* the one at which the token is consumed may record an arrival or fire.   *)
(***************************************************************************)
JoinUntouched(inst, next, n, source, count) ==
    /\ next.joins[n] = inst.joins[n]
    /\ n = source => count = 0

JoinReached(f, inst, next, n, i, source, count) ==
    /\ n = inst.tokens[i].node
    /\ ~inst.joins[n].completed
    /\ next.tokens[i].status = "consumed"
    /\ next.joins[n].arrived \subseteq inst.joins[n].arrived \cup {inst.tokens[i].source}
    /\ IF next.joins[n].completed
       THEN /\ Sources(f, n) \subseteq next.joins[n].arrived
            /\ source = n
            /\ count = Len(f.outgoing[n])
       ELSE n = source => count = 0

LEMMA MoveOK ==
    ASSUME NEW f, NEW inst, NEW next, NEW source, NEW count \in Nat,
           CopyOK(f, inst),
           inst.status # "failed",
           NEW i \in DOMAIN inst.tokens,
           inst.tokens[i].status \in {"ready", "waiting"},
           NEW st \in TokenStatus \ {"ready"},
           Moved(inst, next, i, st, source, count),
           st = "waiting" => /\ inst.tokens[i].node \in f.nodes
                             /\ f.kind[inst.tokens[i].node] = "wait",
           next.status = "failed" \/ (next.status = "running" /\ st # "running"),
           \A n \in f.nodes : Aggregates(f, n) =>
              \/ JoinUntouched(inst, next, n, source, count)
              \/ JoinReached(f, inst, next, n, i, source, count)
    PROVE  CopyOK(f, next)
<1>1. /\ DOMAIN inst.tokens = 1..Len(inst.tokens)
      /\ DOMAIN next.tokens = 1..Len(next.tokens)
      /\ Len(inst.tokens) \in Nat
      /\ Len(next.tokens) = Len(inst.tokens) + count
      /\ next \in Instance
  BY TokensSeq DEF Moved
<1>2. NothingStuck(next)
  <2>1. CASE next.status = "failed"
    BY <2>1 DEF NothingStuck
  <2>2. CASE next.status = "running" /\ st # "running"
    <3>1. WithStatus(inst, "running") = {}
      BY DEF CopyOK, InstanceOK, NothingStuck
    <3> QED BY <2>2, <3>1, MovedLeavesNoneRunning DEF NothingStuck
  <2> QED BY <2>1, <2>2
<1>3. StatusTellsTokens(next)
  BY DEF StatusTellsTokens
<1>4. WaitsAtWaitNodes(f, next)
  BY MovedKeepsWaits DEF CopyOK, InstanceOK
<1>5. \A j \in WithStatus(inst, "consumed") :
         /\ j \in WithStatus(next, "consumed")
         /\ next.tokens[j].node = inst.tokens[j].node
         /\ next.tokens[j].source = inst.tokens[j].source
  <2>1. i \notin WithStatus(inst, "consumed")
    BY DEF WithStatus
  <2> QED BY <2>1, MovedKeepsConsumed
<1>6. ArrivalsBacked(f, next)
  <2> SUFFICES ASSUME NEW n \in f.nodes, Aggregates(f, n)
               PROVE  /\ \A m \in next.joins[n].arrived :
                            \E j \in WithStatus(next, "consumed") :
                               next.tokens[j].node = n /\ next.tokens[j].source = m
                      /\ next.joins[n].completed => Sources(f, n) \subseteq next.joins[n].arrived
    BY DEF ArrivalsBacked
  <2>1. /\ \A m \in inst.joins[n].arrived :
              \E j \in WithStatus(inst, "consumed") :
                 inst.tokens[j].node = n /\ inst.tokens[j].source = m
        /\ inst.joins[n].completed => Sources(f, n) \subseteq inst.joins[n].arrived
    BY DEF CopyOK, ArrivalsBacked
  <2>2. \A m \in inst.joins[n].arrived :
           \E j \in WithStatus(next, "consumed") :
              next.tokens[j].node = n /\ next.tokens[j].source = m
    BY <1>5, <2>1
  <2>3. CASE JoinUntouched(inst, next, n, source, count)
    BY <2>1, <2>2, <2>3 DEF JoinUntouched
  <2>4. CASE JoinReached(f, inst, next, n, i, source, count)
    <3>1. /\ i \in WithStatus(next, "consumed")
          /\ next.tokens[i].node = n
          /\ next.tokens[i].source = inst.tokens[i].source
      BY <1>1, <2>4 DEF JoinReached, Moved, WithStatus
    <3> QED BY <2>2, <2>4, <3>1 DEF JoinReached
  <2> QED BY <2>3, <2>4
<1>7. JoinWaitsForAll(f, next)
  BY <1>6 DEF ArrivalsBacked, JoinWaitsForAll
<1>8. JoinFiresOnce(f, next)
  <2> SUFFICES ASSUME NEW n \in f.nodes, Aggregates(f, n)
               PROVE  IF next.joins[n].completed
                      THEN \E k \in 0..Len(next.tokens) :
                              SentBy(next, n) = (k + 1)..(k + Len(f.outgoing[n]))
                      ELSE SentBy(next, n) = {}
    BY DEF JoinFiresOnce, SentBy
  <2>1. IF inst.joins[n].completed
        THEN \E k \in 0..Len(inst.tokens) :
                SentBy(inst, n) = (k + 1)..(k + Len(f.outgoing[n]))
        ELSE SentBy(inst, n) = {}
    BY DEF CopyOK, InstanceOK, JoinFiresOnce, SentBy
  <2>2. SentBy(next, n) =
           SentBy(inst, n) \cup
           (IF n = source THEN (Len(inst.tokens) + 1)..(Len(inst.tokens) + count) ELSE {})
    BY MovedSends
  <2>3. (n = source => count = 0) => SentBy(next, n) = SentBy(inst, n)
    BY <1>1, <2>2
  <2>4. CASE JoinUntouched(inst, next, n, source, count)
    BY <1>1, <2>1, <2>3, <2>4 DEF JoinUntouched
  <2>5. CASE JoinReached(f, inst, next, n, i, source, count)
    <3>1. CASE next.joins[n].completed
      <4>1. SentBy(next, n) = (Len(inst.tokens) + 1)..(Len(inst.tokens) + Len(f.outgoing[n]))
        BY <2>1, <2>2, <2>5, <3>1 DEF JoinReached
      <4>2. Len(inst.tokens) \in 0..Len(next.tokens)
        BY <1>1
      <4> QED BY <3>1, <4>1, <4>2
    <3>2. CASE ~next.joins[n].completed
      BY <2>1, <2>3, <2>5, <3>2 DEF JoinReached
    <3> QED BY <3>1, <3>2
  <2> QED BY <2>4, <2>5
<1> QED
  BY <1>1, <1>2, <1>3, <1>4, <1>6, <1>7, <1>8 DEF CopyOK, InstanceOK
-----------------------------------------------------------------------------
(* The engine's operations on a copy.                                      *)

LEMMA FlowFacts ==
    ASSUME NEW f, IsFlow(f), NEW n \in f.nodes
    PROVE  /\ f.outgoing[n] \in Seq(NodeIds)
           /\ Len(f.outgoing[n]) \in Nat
           /\ f.routes[n] \subseteq Seq(NodeIds)
           /\ f.kind[n] \in NodeKind
           /\ n \in NodeIds
<1>1. f.outgoing[n] \in Seq(f.nodes) /\ f.nodes \subseteq NodeIds
  BY DEF IsFlow
<1>2. f.outgoing[n] \in Seq(NodeIds)
  BY <1>1, SeqMonotonic
<1> QED
  BY <1>1, <1>2, LenProperties DEF IsFlow

\* A change of status alone: the tokens and the joins are what they were.
LEMMA StatusChangeOK ==
    ASSUME NEW f, NEW inst, CopyOK(f, inst), inst.status # "failed",
           NEW s \in InstanceStatus,
           StatusTellsTokens([inst EXCEPT !.status = s])
    PROVE  CopyOK(f, [inst EXCEPT !.status = s])
<1> DEFINE next == [inst EXCEPT !.status = s]
<1>1. /\ next \in Instance
      /\ next.tokens = inst.tokens
      /\ next.joins = inst.joins
  BY DEF CopyOK, Instance
<1> HIDE DEF next
<1>2. \A st : WithStatus(next, st) = WithStatus(inst, st)
  BY <1>1 DEF WithStatus
<1>3. NothingStuck(next)
  BY <1>2 DEF CopyOK, InstanceOK, NothingStuck
<1>4. WaitsAtWaitNodes(f, next)
  BY <1>1, <1>2 DEF CopyOK, InstanceOK, WaitsAtWaitNodes
<1>5. JoinWaitsForAll(f, next)
  BY <1>1, <1>2 DEF CopyOK, InstanceOK, JoinWaitsForAll
<1>6. JoinFiresOnce(f, next)
  BY <1>1 DEF CopyOK, InstanceOK, JoinFiresOnce
<1>7. ArrivalsBacked(f, next)
  BY <1>1, <1>2 DEF CopyOK, ArrivalsBacked
<1>8. StatusTellsTokens(next)
  BY DEF next
<1> QED
  BY <1>1, <1>3, <1>4, <1>5, <1>6, <1>7, <1>8 DEF CopyOK, InstanceOK, next

LEMMA SetStatusOK ==
    ASSUME NEW f, NEW inst, CopyOK(f, inst), inst.status # "failed",
           NEW s \in {"running", "failed"}
    PROVE  /\ CopyOK(f, [inst EXCEPT !.status = s])
           /\ [inst EXCEPT !.status = s].status = s
<1>1. [inst EXCEPT !.status = s].status = s
  BY DEF CopyOK, Instance
<1>2. StatusTellsTokens([inst EXCEPT !.status = s])
  BY <1>1 DEF StatusTellsTokens
<1> QED
  BY <1>1, <1>2, StatusChangeOK DEF InstanceStatus

LEMMA FinalizeOK ==
    ASSUME NEW f, NEW inst, CopyOK(f, inst), inst.status = "running",
           WithStatus(inst, "ready") = {}
    PROVE  CopyOK(f, FinalizeBlockedInstance(inst))
<1> DEFINE s == IF WithStatus(inst, "waiting") # {} THEN "waiting" ELSE "completed"
           next == [inst EXCEPT !.status = s]
<1>1. s \in InstanceStatus
  BY DEF InstanceStatus
<1>2. next.status = s /\ next.tokens = inst.tokens
  BY DEF CopyOK, Instance
<1>3. WithStatus(inst, "running") = {}
  BY DEF CopyOK, InstanceOK, NothingStuck
<1>4. \A j \in DOMAIN inst.tokens : inst.tokens[j].status \in TokenStatus
  BY TokensSeq DEF CopyOK, Token
<1>5. StatusTellsTokens(next)
  <2> HIDE DEF next
  <2>1. \A st : WithStatus(next, st) = WithStatus(inst, st)
    BY <1>2 DEF WithStatus
  <2>2. CASE s = "waiting"
    BY <1>2, <2>1, <2>2 DEF StatusTellsTokens
  <2>3. CASE s = "completed"
    <3>1. WithStatus(inst, "waiting") = {}
      BY <2>3
    <3>2. \A j \in DOMAIN inst.tokens : inst.tokens[j].status = "consumed"
      BY <1>3, <1>4, <3>1 DEF WithStatus, TokenStatus
    <3> QED BY <1>2, <2>3, <3>2 DEF StatusTellsTokens
  <2> QED BY <2>2, <2>3
<1> HIDE DEF s
<1>6. CopyOK(f, next)
  BY <1>1, <1>5, StatusChangeOK
<1> QED
  BY <1>6 DEF FinalizeBlockedInstance, s

LEMMA NewInstanceOK ==
    ASSUME NEW f, IsFlow(f)
    PROVE  CopyOK(f, NewInstance(f))
<1> DEFINE tokens == NewTokens(NoSource, f.starts)
           states == [n \in NodeIds |-> "absent"]
           joins == [n \in NodeIds |-> [arrived |-> {}, completed |-> FALSE]]
           inst == NewInstance(f)
<1>1. f.starts \in Seq(NodeIds) /\ f.nodes \subseteq NodeIds
  BY SeqMonotonic DEF IsFlow
<1>2. /\ inst = [status |-> "created", tokens |-> tokens,
                 nodeState |-> states, joins |-> joins]
      /\ inst.tokens = tokens
      /\ inst.joins = joins
      /\ inst.status = "created"
  BY DEF NewInstance
<1>3. /\ tokens \in Seq(Token)
      /\ DOMAIN tokens = 1..Len(tokens)
      /\ Len(tokens) = Len(f.starts)
      /\ \A j \in 1..Len(tokens) : tokens[j].source = NoSource /\ tokens[j].status = "ready"
  <2>1. NoSource \in NodeIds \cup {NoSource}
    OBVIOUS
  <2> HIDE DEF tokens
  <2>2. /\ tokens \in Seq(Token)
        /\ Len(tokens) = Len(f.starts)
        /\ \A j \in 1..Len(f.starts) : tokens[j].source = NoSource /\ tokens[j].status = "ready"
    BY <1>1, <2>1, NewTokensSeq DEF tokens
  <2> QED BY <2>2, LenProperties
<1>4. inst \in Instance
  <2>1. states \in [NodeIds -> NodeStatus] /\ joins \in [NodeIds -> JoinState]
    BY DEF NodeStatus, JoinState
  <2>2. "created" \in InstanceStatus
    BY DEF InstanceStatus
  <2> HIDE DEF states, joins, tokens, inst
  <2> QED BY <1>2, <1>3, <2>1, <2>2 DEF Instance
<1>5. \A n \in NodeIds : ~joins[n].completed /\ joins[n].arrived = {}
  OBVIOUS
<1> HIDE DEF tokens, states, joins, inst
<1>6. \A n \in f.nodes : ~inst.joins[n].completed /\ inst.joins[n].arrived = {}
  BY <1>1, <1>2, <1>5
<1>7. /\ WithStatus(inst, "running") = {}
      /\ WithStatus(inst, "waiting") = {}
  BY <1>2, <1>3 DEF WithStatus
<1>8. \A n \in f.nodes : { j \in DOMAIN inst.tokens : inst.tokens[j].source = n } = {}
  BY <1>1, <1>2, <1>3, NoSourceAssumption
<1>9. NothingStuck(inst) /\ StatusTellsTokens(inst) /\ WaitsAtWaitNodes(f, inst)
  BY <1>2, <1>7 DEF NothingStuck, StatusTellsTokens, WaitsAtWaitNodes
<1>10. JoinWaitsForAll(f, inst) /\ JoinFiresOnce(f, inst) /\ ArrivalsBacked(f, inst)
  BY <1>6, <1>8 DEF JoinWaitsForAll, JoinFiresOnce, ArrivalsBacked
<1> QED
  BY <1>4, <1>9, <1>10 DEF CopyOK, InstanceOK, inst

\* A caller works on a copy it marked running.
Working(f, inst) == CopyOK(f, inst) /\ inst.status = "running"

\* A token, ready or waiting, at a node that does not aggregate is consumed.
LEMMA CompleteOK ==
    ASSUME NEW f, NEW inst, Working(f, inst),
           NEW i \in DOMAIN inst.tokens,
           inst.tokens[i].status \in {"ready", "waiting"},
           ~Aggregates(f, inst.tokens[i].node),
           NEW list \in Seq(NodeIds)
    PROVE  Working(f, CompleteNode(inst, i, list))
<1> DEFINE n == inst.tokens[i].node
           next == CompleteNode(inst, i, list)
<1>1. inst \in Instance /\ inst.status = "running" /\ CopyOK(f, inst)
  BY DEF Working, CopyOK
<1>2. /\ Moved(inst, next, i, "consumed", n, Len(list))
      /\ next.joins = inst.joins
      /\ next.status = "running"
  BY <1>1, CompleteMoves
<1>3. Len(list) \in Nat /\ "consumed" \in TokenStatus \ {"ready"}
  BY LenProperties DEF TokenStatus
<1>4. \A m \in f.nodes : Aggregates(f, m) => JoinUntouched(inst, next, m, n, Len(list))
  BY <1>2 DEF JoinUntouched
<1> HIDE DEF next, n
<1>5. CopyOK(f, next)
  BY <1>1, <1>2, <1>3, <1>4, MoveOK
<1> QED
  BY <1>2, <1>5 DEF Working, next

\* A ready token is marked, and nothing is sent.
LEMMA MarkOK ==
    ASSUME NEW f, NEW inst, Working(f, inst),
           NEW i \in WithStatus(inst, "ready"),
           NEW st \in {"consumed", "waiting"},
           NEW ns \in NodeStatus,
           st = "waiting" => /\ inst.tokens[i].node \in f.nodes
                             /\ f.kind[inst.tokens[i].node] = "wait"
    PROVE  Working(f, Mark(inst, i, st, ns))
<1> DEFINE next == Mark(inst, i, st, ns)
<1>1. inst \in Instance /\ inst.status = "running" /\ CopyOK(f, inst)
  BY DEF Working, CopyOK
<1>2. i \in DOMAIN inst.tokens /\ inst.tokens[i].status \in {"ready", "waiting"}
  BY DEF WithStatus
<1>3. st \in TokenStatus /\ st \in TokenStatus \ {"ready"} /\ st # "running"
  BY DEF TokenStatus
<1>4. /\ Moved(inst, next, i, st, NoSource, 0)
      /\ next.joins = inst.joins
      /\ next.status = "running"
  BY <1>1, <1>2, <1>3, MarkMoves
<1>5. \A m \in f.nodes : Aggregates(f, m) => JoinUntouched(inst, next, m, NoSource, 0)
  BY <1>4 DEF JoinUntouched
<1> HIDE DEF next
<1>6. CopyOK(f, next)
  BY <1>1, <1>2, <1>3, <1>4, <1>5, MoveOK
<1> QED
  BY <1>4, <1>6 DEF Working, next

LEMMA InputErrorMoves ==
    ASSUME NEW f, NEW inst \in Instance,
           NEW i \in WithStatus(inst, "ready"),
           NEW o \in InputErrors(f, inst, i)
    PROVE  /\ Moved(inst, o.inst, i, "running", NoSource, 0)
           /\ o.inst.joins = inst.joins
           /\ o.inst.status = "failed"
           /\ o.err /\ ~o.ran /\ ~o.done
<1> DEFINE token == [inst.tokens[i] EXCEPT !.status = "running"]
           tokens == [inst.tokens EXCEPT ![i] = token]
           next == [[inst EXCEPT !.tokens = tokens] EXCEPT !.status = "failed"]
<1>3. o.inst = next /\ o.err /\ ~o.ran /\ ~o.done
  BY DEF InputErrors, IfFails, Outcome, Instance
<1>4. /\ inst.tokens \in Seq(Token)
      /\ Len(inst.tokens) \in Nat
      /\ i \in 1..Len(inst.tokens)
      /\ inst.tokens[i] \in Token
  BY TokensSeq DEF WithStatus
<1>5. /\ token \in Token
      /\ token.node = inst.tokens[i].node
      /\ token.source = inst.tokens[i].source
      /\ token.status = "running"
  BY <1>4 DEF Token, TokenStatus
<1>6. /\ tokens \in Seq(Token)
      /\ Len(tokens) = Len(inst.tokens)
      /\ \A j \in 1..Len(inst.tokens) :
            tokens[j] = IF j = i THEN token ELSE inst.tokens[j]
  <2> HIDE DEF token
  <2> QED BY <1>4, <1>5, ExceptSeq
<1> HIDE DEF token, tokens
<1>7. /\ next \in Instance
      /\ next.tokens = tokens
      /\ next.joins = inst.joins
      /\ next.status = "failed"
  BY <1>6 DEF Instance, InstanceStatus
<1> HIDE DEF next
<1>8. Moved(inst, next, i, "running", NoSource, 0)
  BY <1>4, <1>5, <1>6, <1>7 DEF Moved
<1> QED
  BY <1>3, <1>7, <1>8

LEMMA InputErrorOK ==
    ASSUME NEW f, NEW inst, Working(f, inst),
           NEW i \in WithStatus(inst, "ready"),
           NEW o \in InputErrors(f, inst, i)
    PROVE  CopyOK(f, o.inst) /\ o.err
<1>1. inst \in Instance /\ inst.status # "failed" /\ CopyOK(f, inst)
  BY DEF Working, CopyOK
<1>2. /\ i \in DOMAIN inst.tokens
      /\ inst.tokens[i].status \in {"ready", "waiting"}
  BY DEF WithStatus
<1>3. /\ Moved(inst, o.inst, i, "running", NoSource, 0)
      /\ o.inst.joins = inst.joins
      /\ o.inst.status = "failed"
      /\ o.err
  BY <1>1, InputErrorMoves
<1>4. \A m \in f.nodes : Aggregates(f, m) => JoinUntouched(inst, o.inst, m, NoSource, 0)
  BY <1>3 DEF JoinUntouched
<1>5. "running" \in TokenStatus \ {"ready"}
  BY DEF TokenStatus
<1> QED
  BY <1>1, <1>2, <1>3, <1>4, <1>5, MoveOK

\* An arrival changes nothing but the arrivals at the token's own join.
LEMMA ArriveFacts ==
    ASSUME NEW inst \in Instance,
           NEW i \in DOMAIN inst.tokens
    PROVE  /\ Arrive(inst, i) \in Instance
           /\ Arrive(inst, i).tokens = inst.tokens
           /\ Arrive(inst, i).status = inst.status
           /\ \A m \in NodeIds :
                 /\ Arrive(inst, i).joins[m].completed = inst.joins[m].completed
                 /\ m # inst.tokens[i].node => Arrive(inst, i).joins[m] = inst.joins[m]
                 /\ Arrive(inst, i).joins[m].arrived \subseteq
                       inst.joins[m].arrived \cup {inst.tokens[i].source}
<1> DEFINE n == inst.tokens[i].node
           s == inst.tokens[i].source
           js == [inst.joins[n] EXCEPT !.arrived = @ \cup {s}]
           joins == [inst.joins EXCEPT ![n] = js]
<1>1. n \in NodeIds /\ s \in NodeIds \cup {NoSource}
  BY TokensSeq DEF Token
<1>2. CASE s = NoSource
  BY <1>2 DEF Arrive
<1>3. CASE s # NoSource
  <2>1. inst.joins \in [NodeIds -> JoinState]
    BY DEF Instance
  <2>2. /\ js \in JoinState
        /\ js.completed = inst.joins[n].completed
        /\ js.arrived = inst.joins[n].arrived \cup {s}
    BY <1>1, <1>3, <2>1 DEF JoinState
  <2>3. Arrive(inst, i) = [inst EXCEPT !.joins = joins]
    BY <1>3 DEF Arrive, Instance
  <2> HIDE DEF js
  <2>4. /\ joins \in [NodeIds -> JoinState]
        /\ \A m \in NodeIds : joins[m] = IF m = n THEN js ELSE inst.joins[m]
    BY <1>1, <2>1, <2>2
  <2> HIDE DEF joins
  <2>5. /\ Arrive(inst, i) \in Instance
        /\ Arrive(inst, i).tokens = inst.tokens
        /\ Arrive(inst, i).status = inst.status
        /\ Arrive(inst, i).joins = joins
    BY <2>3, <2>4 DEF Instance
  <2> QED BY <2>2, <2>4, <2>5
<1> QED
  BY <1>2, <1>3

LEMMA JoinOK ==
    ASSUME NEW f, IsFlow(f), NEW inst, Working(f, inst),
           NEW i \in WithStatus(inst, "ready"),
           inst.tokens[i].node \in f.nodes,
           f.kind[inst.tokens[i].node] = "join",
           Aggregates(f, inst.tokens[i].node)
    PROVE  /\ Working(f, ExecuteJoinNode(f, inst, i))
           /\ \E source, count : /\ count \in Nat
                                 /\ Moved(inst, ExecuteJoinNode(f, inst, i), i, "consumed",
                                          source, count)
<1> DEFINE n == inst.tokens[i].node
           arrived == Arrive(inst, i)
           js == [arrived.joins[n] EXCEPT !.completed = TRUE]
           joins == [arrived.joins EXCEPT ![n] = js]
           full == [arrived EXCEPT !.joins = joins]
<1>1. inst \in Instance /\ inst.status = "running" /\ CopyOK(f, inst)
  BY DEF Working, CopyOK
<1>2. /\ i \in DOMAIN inst.tokens
      /\ inst.tokens[i].status \in {"ready", "waiting"}
      /\ n \in NodeIds
  BY <1>1, TokensSeq DEF WithStatus, Token
<1>3. /\ "consumed" \in TokenStatus
      /\ "consumed" \in TokenStatus \ {"ready"}
      /\ {"running", "waiting", "completed"} \subseteq NodeStatus
      /\ f.nodes \subseteq NodeIds
  BY DEF TokenStatus, NodeStatus, IsFlow
<1>4. /\ arrived \in Instance
      /\ arrived.tokens = inst.tokens
      /\ arrived.status = "running"
      /\ \A m \in NodeIds :
            /\ arrived.joins[m].completed = inst.joins[m].completed
            /\ m # n => arrived.joins[m] = inst.joins[m]
            /\ arrived.joins[m].arrived \subseteq inst.joins[m].arrived \cup {inst.tokens[i].source}
  BY <1>1, <1>2, ArriveFacts
<1> HIDE DEF arrived, n
<1>5. CASE inst.joins[n].completed
  <2>1. ExecuteJoinNode(f, inst, i) = Mark(inst, i, "consumed", "running")
    BY <1>5 DEF ExecuteJoinNode, n
  <2>2. Moved(inst, Mark(inst, i, "consumed", "running"), i, "consumed", NoSource, 0)
    BY <1>1, <1>2, <1>3, MarkMoves
  <2>3. 0 \in Nat
    OBVIOUS
  <2> QED BY <1>3, <2>1, <2>2, <2>3, MarkOK
<1>6. CASE ~inst.joins[n].completed /\ ~JoinArrivedAll(f, arrived, n)
  <2> DEFINE next == Mark(arrived, i, "consumed", "waiting")
  <2>1. ExecuteJoinNode(f, inst, i) = next
    BY <1>6 DEF ExecuteJoinNode, n, arrived
  <2>2. /\ Moved(arrived, next, i, "consumed", NoSource, 0)
        /\ next.joins = arrived.joins
        /\ next.status = "running"
    BY <1>2, <1>3, <1>4, MarkMoves
  <2> HIDE DEF next
  <2>3. Moved(inst, next, i, "consumed", NoSource, 0)
    BY <1>1, <1>4, <2>2 DEF Moved
  <2>4. next.tokens[i].status = "consumed"
    BY <1>1, <1>2, <2>3, TokensSeq DEF Moved
  <2>5. \A m \in f.nodes : Aggregates(f, m) =>
           \/ JoinUntouched(inst, next, m, NoSource, 0)
           \/ JoinReached(f, inst, next, m, i, NoSource, 0)
    BY <1>3, <1>4, <1>6, <2>2, <2>4 DEF JoinUntouched, JoinReached, n
  <2>6. CopyOK(f, next)
    BY <1>1, <1>2, <1>3, <2>2, <2>3, <2>5, MoveOK
  <2>7. 0 \in Nat
    OBVIOUS
  <2> QED BY <2>1, <2>2, <2>3, <2>6, <2>7 DEF Working
<1>7. CASE ~inst.joins[n].completed /\ JoinArrivedAll(f, arrived, n)
  <2> DEFINE next == CompleteNode(full, i, f.outgoing[n])
             count == Len(f.outgoing[n])
  <2>1. ExecuteJoinNode(f, inst, i) = next
    BY <1>4, <1>7 DEF ExecuteJoinNode, n, arrived, Instance
  <2>2. arrived.joins \in [NodeIds -> JoinState]
    BY <1>4 DEF Instance
  <2>3. /\ js \in JoinState
        /\ js.completed
        /\ js.arrived = arrived.joins[n].arrived
    BY <1>2, <2>2 DEF JoinState
  <2> HIDE DEF js
  <2>4. /\ joins \in [NodeIds -> JoinState]
        /\ \A m \in NodeIds : joins[m] = IF m = n THEN js ELSE arrived.joins[m]
    BY <1>2, <2>2, <2>3
  <2> HIDE DEF joins
  <2>5. /\ full \in Instance
        /\ full.tokens = inst.tokens
        /\ full.status = "running"
        /\ full.joins = joins
    BY <1>4, <2>4 DEF Instance
  <2> HIDE DEF full
  <2>6. f.outgoing[n] \in Seq(NodeIds) /\ count \in Nat
    BY FlowFacts DEF n
  <2>7. /\ Moved(full, next, i, "consumed", n, count)
        /\ next.joins = joins
        /\ next.status = "running"
    BY <1>2, <2>5, <2>6, CompleteMoves DEF n
  <2> HIDE DEF next, count
  <2>8. Moved(inst, next, i, "consumed", n, count)
    BY <1>1, <2>5, <2>7 DEF Moved
  <2>9. next.tokens[i].status = "consumed"
    BY <1>1, <1>2, <2>8, TokensSeq DEF Moved
  <2>10. JoinReached(f, inst, next, n, i, n, count)
    <3>1. Sources(f, n) \subseteq next.joins[n].arrived
      BY <1>2, <1>7, <2>3, <2>4, <2>7 DEF JoinArrivedAll
    <3> QED BY <1>2, <1>4, <1>7, <2>3, <2>4, <2>7, <2>9, <3>1 DEF JoinReached, n, count
  <2>11. \A m \in f.nodes \ {n} : JoinUntouched(inst, next, m, n, count)
    BY <1>3, <1>4, <2>4, <2>7 DEF JoinUntouched
  <2>12. CopyOK(f, next)
    BY <1>1, <1>2, <1>3, <2>6, <2>7, <2>8, <2>10, <2>11, MoveOK DEF count
  <2> QED BY <2>1, <2>6, <2>7, <2>8, <2>12 DEF Working
<1> QED
  BY <1>5, <1>6, <1>7

LEMMA OutcomeOK ==
    ASSUME NEW f, NEW inst, Working(f, inst), NEW err \in BOOLEAN, NEW ran, NEW done
    PROVE  /\ CopyOK(f, Outcome(inst, err, ran, done).inst)
           /\ ~Outcome(inst, err, ran, done).err =>
                 Outcome(inst, err, ran, done).inst.status = "running"
<1>1. CASE err
  BY <1>1, SetStatusOK DEF Outcome, Working
<1>2. CASE ~err
  BY <1>2 DEF Outcome, Working
<1> QED
  BY <1>1, <1>2

LEMMA ExecuteOK ==
    ASSUME NEW f, IsFlow(f), NEW inst, Working(f, inst),
           NEW i \in WithStatus(inst, "ready"),
           NEW o \in ExecuteReadyToken(f, inst, i)
    PROVE  CopyOK(f, o.inst) /\ (~o.err => o.inst.status = "running")
<1> DEFINE n == inst.tokens[i].node
<1>1. /\ inst \in Instance
      /\ i \in DOMAIN inst.tokens
      /\ inst.tokens[i].status = "ready"
      /\ n \in NodeIds
  BY TokensSeq DEF Working, CopyOK, WithStatus, Token
<1>2. CASE n \notin f.nodes
  BY <1>2, OutcomeOK DEF ExecuteReadyToken
<1>3. CASE n \in f.nodes /\ o \in InputErrors(f, inst, i)
  BY <1>3, InputErrorOK
<1>4. CASE n \in f.nodes /\ o \notin InputErrors(f, inst, i)
  <2>1. /\ f.kind[n] \in {"task", "wait", "join"}
        /\ f.outgoing[n] \in Seq(NodeIds)
        /\ f.routes[n] \subseteq Seq(NodeIds)
    BY <1>4, FlowFacts DEF NodeKind
  <2>2. Working(f, FailNode(inst, i))
    <3>1. "failed" \in NodeStatus
      BY DEF NodeStatus
    <3> QED BY <3>1, MarkOK DEF FailNode
  <2>3. CASE f.kind[n] = "task"
    <3>1. o \in TaskOutcomes(f, inst, i)
      BY <1>4, <2>3 DEF ExecuteReadyToken
    <3>2. ~Aggregates(f, n)
      BY <2>3 DEF Aggregates
    <3>3. CASE \E next \in f.routes[n] :
                  o = Outcome(CompleteNode(inst, i, next), FALSE, TRUE, TRUE)
      <4>1. PICK next \in f.routes[n] :
                   o = Outcome(CompleteNode(inst, i, next), FALSE, TRUE, TRUE)
        BY <3>3
      <4>2. Working(f, CompleteNode(inst, i, next))
        BY <1>1, <2>1, <3>2, CompleteOK
      <4> QED BY <4>1, <4>2, OutcomeOK
    <3>4. CASE o = Outcome(FailNode(inst, i), TRUE, TRUE, FALSE)
      BY <2>2, <3>4, OutcomeOK
    <3> QED BY <3>1, <3>3, <3>4 DEF TaskOutcomes, IfFails
  <2>4. CASE f.kind[n] = "wait"
    <3>1. o \in WaitOutcomes(f, inst, i)
      BY <1>4, <2>4 DEF ExecuteReadyToken
    <3>2. Working(f, BlockOnWaitNode(inst, i))
      <4>1. "waiting" \in NodeStatus
        BY DEF NodeStatus
      <4> QED BY <1>4, <2>4, <4>1, MarkOK DEF BlockOnWaitNode
    <3>3. CASE o = Outcome(BlockOnWaitNode(inst, i), FALSE, FALSE, FALSE)
      BY <3>2, <3>3, OutcomeOK
    <3>4. CASE o = Outcome(FailNode(inst, i), TRUE, FALSE, FALSE)
      BY <2>2, <3>4, OutcomeOK
    <3> QED BY <3>1, <3>3, <3>4 DEF WaitOutcomes, IfFails
  <2>5. CASE f.kind[n] = "join"
    <3>1. o \in JoinOutcomes(f, inst, i)
      BY <1>4, <2>5 DEF ExecuteReadyToken
    <3>2. CASE Aggregates(f, n)
      <4>1. Working(f, ExecuteJoinNode(f, inst, i))
        BY <1>4, <2>5, <3>2, JoinOK
      <4>2. PICK done : o = Outcome(ExecuteJoinNode(f, inst, i), FALSE, FALSE, done)
        BY <3>1, <3>2 DEF JoinOutcomes
      <4> QED BY <4>1, <4>2, OutcomeOK
    <3>3. CASE ~Aggregates(f, n)
      <4>1. Working(f, CompleteNode(inst, i, f.outgoing[n]))
        BY <1>1, <2>1, <3>3, CompleteOK
      <4>2. o = Outcome(CompleteNode(inst, i, f.outgoing[n]), FALSE, FALSE, TRUE)
        BY <3>1, <3>3 DEF JoinOutcomes
      <4> QED BY <4>1, <4>2, OutcomeOK
    <3> QED BY <3>2, <3>3
  <2> QED BY <2>1, <2>3, <2>4, <2>5
<1> QED
  BY <1>2, <1>3, <1>4

LEMMA ApplyEventOK ==
    ASSUME NEW f, IsFlow(f), NEW inst, Working(f, inst), NEW ev,
           NEW i \in NextMatch(f, inst, ev)
    PROVE  Working(f, ApplyEvent(f, inst, i))
<1>1. i \in WithStatus(inst, "waiting")
  BY DEF NextMatch, First, Matching
<1>2. /\ inst.tokens[i].node \in f.nodes
      /\ f.kind[inst.tokens[i].node] = "wait"
  BY <1>1 DEF Working, CopyOK, InstanceOK, WaitsAtWaitNodes
<1>3. /\ i \in DOMAIN inst.tokens
      /\ inst.tokens[i].status \in {"ready", "waiting"}
  BY <1>1 DEF WithStatus
<1>4. ~Aggregates(f, inst.tokens[i].node)
  BY <1>2 DEF Aggregates
<1>5. f.outgoing[inst.tokens[i].node] \in Seq(NodeIds)
  BY <1>2, FlowFacts
<1> QED
  BY <1>3, <1>4, <1>5, CompleteOK DEF ApplyEvent
-----------------------------------------------------------------------------
(* The inductive invariant.                                                *)

LEMMA InitInvariant == Init => InductiveInvariant
<1> SUFFICES ASSUME Init PROVE InductiveInvariant
  OBVIOUS
<1>1. TypeOK
  BY DEF Init, TypeOK, PC, Saving
<1>2. Copies \ {NoInstance} = {}
  BY DEF Init, Copies
<1> QED
  BY <1>1, <1>2 DEF Init, InductiveInvariant

Histories ==
    /\ calls \in Nat
    /\ aborts \in Nat
    /\ effects \in [NodeIds -> Nat]
    /\ audited \in [NodeIds -> Nat]
    /\ lost \in [NodeIds -> Nat]

(***************************************************************************)
(* One caller goes to a label with a copy, and may have replaced the       *)
(* stored instance: what it must show for the invariant to hold again.     *)
(***************************************************************************)
LEMMA CallerMoves ==
    ASSUME InductiveInvariant,
           NEW c \in Callers, NEW l \in PC, NEW copy,
           Goto(c, l, copy),
           flow' = flow,
           event' \in [Callers -> Events \cup {NoEvent}],
           Histories',
           copy = NoInstance \/ CopyOK(flow, copy),
           store' = store \/ CopyOK(flow, store'),
           l \in {"loop", "match"} \cup Saving <=> copy # NoInstance,
           l \in {"loop", "match", "saveStep"} => copy.status = "running",
           l # "idle" => store' # NoInstance
    PROVE  InductiveInvariant'
<1>1. /\ pc' \in [Callers -> PC]
      /\ pc'[c] = l
      /\ \A d \in Callers \ {c} : pc'[d] = pc[d]
  BY DEF InductiveInvariant, TypeOK, Goto
<1>2. copy \in Instance \cup {NoInstance}
  BY DEF CopyOK
<1>3. /\ local' \in [Callers -> Instance \cup {NoInstance}]
      /\ local'[c] = copy
      /\ \A d \in Callers \ {c} : local'[d] = local[d]
  BY <1>2 DEF InductiveInvariant, TypeOK, Goto
<1>4. store' \in Instance \cup {NoInstance}
  BY DEF InductiveInvariant, TypeOK, CopyOK
<1>5. store # NoInstance => store' # NoInstance
  BY NoInstanceAssumption DEF CopyOK
<1>6. TypeOK'
  <2>1. \A d \in Callers :
           /\ pc'[d] \in {"loop", "match"} \cup Saving <=> local'[d] # NoInstance
           /\ pc'[d] # "idle" => store' # NoInstance
    BY <1>1, <1>3, <1>5 DEF InductiveInvariant, TypeOK
  <2>2. flow' \in Flows
    BY DEF InductiveInvariant, TypeOK
  <2> QED BY <1>1, <1>3, <1>4, <2>1, <2>2 DEF TypeOK, Histories
<1>7. \A inst \in Copies' \ {NoInstance} : CopyOK(flow, inst)
  <2>1. \A inst \in Copies \ {NoInstance} : CopyOK(flow, inst)
    BY DEF InductiveInvariant
  <2>2. Copies' \subseteq Copies \cup {store', copy}
    BY <1>1, <1>3 DEF Copies
  <2>3. store \in Copies
    BY DEF Copies
  <2> QED BY <2>1, <2>2, <2>3
<1>8. \A d \in Callers :
         pc'[d] \in {"loop", "match", "saveStep"} => local'[d].status = "running"
  BY <1>1, <1>3 DEF InductiveInvariant
<1> QED
  BY <1>6, <1>7, <1>8 DEF InductiveInvariant

\* What the invariant says of the copy one caller is working on.
LEMMA CallerCopy ==
    ASSUME InductiveInvariant, NEW c \in Callers
    PROVE  /\ flow \in Flows /\ IsFlow(flow)
           /\ store # NoInstance => CopyOK(flow, store)
           /\ pc[c] \in {"loop", "match"} \cup Saving =>
                 local[c] # NoInstance /\ CopyOK(flow, local[c])
           /\ pc[c] \in {"loop", "match", "saveStep"} => Working(flow, local[c])
           /\ pc[c] # "idle" => store # NoInstance
           /\ event \in [Callers -> Events \cup {NoEvent}]
           /\ Histories
<1>1. /\ store \in Copies
      /\ local[c] \in Copies
  BY DEF Copies
<1> QED
  BY <1>1, FlowsAssumption DEF InductiveInvariant, TypeOK, Working, Saving, Histories

LEMMA CountNat ==
    ASSUME NEW h \in [NodeIds -> Nat], NEW n, NEW b
    PROVE  Count(h, n, b) \in [NodeIds -> Nat]
<1>1. CASE n \in NodeIds
  BY <1>1 DEF Count
<1>2. CASE n \notin NodeIds
  <2>1. [h EXCEPT ![n] = @ + 1] = h
    BY <1>2
  <2> QED BY <2>1 DEF Count
<1> QED
  BY <1>1, <1>2

LEMMA EmitNat ==
    ASSUME audited \in [NodeIds -> Nat], lost \in [NodeIds -> Nat],
           NEW n, NEW b, EmitCompleted(n, b)
    PROVE  audited' \in [NodeIds -> Nat] /\ lost' \in [NodeIds -> Nat]
<1>1. CASE audited' = Count(audited, n, b) /\ lost' = lost
  BY <1>1, CountNat
<1>2. CASE b /\ lost' = [lost EXCEPT ![n] = @ + 1] /\ audited' = audited
  <2>1. lost' = Count(lost, n, b) /\ audited' = audited
    BY <1>2 DEF Count
  <2>2. Count(lost, n, b) \in [NodeIds -> Nat]
    BY CountNat
  <2> QED BY <2>1, <2>2
<1> QED
  BY <1>1, <1>2 DEF EmitCompleted

\* A caller returns: it holds no copy, and its event is forgotten.
LEMMA ReturnKeeps ==
    ASSUME InductiveInvariant, NEW c \in Callers,
           Return(c), flow' = flow, Histories',
           store' = store \/ CopyOK(flow, store')
    PROVE  InductiveInvariant'
<1>1. event' \in [Callers -> Events \cup {NoEvent}]
  BY DEF Return, InductiveInvariant, TypeOK
<1>2. /\ "idle" \in PC
      /\ "idle" \notin {"loop", "match"} \cup Saving
      /\ "idle" \notin {"loop", "match", "saveStep"}
  BY DEF PC, Saving
<1>3. Goto(c, "idle", NoInstance)
  BY DEF Return
<1> QED
  BY <1>1, <1>2, <1>3, CallerMoves

LEMMA CallsKeep ==
    ASSUME InductiveInvariant, NEW c \in Callers,
           \/ Start(c)
           \/ RunUntilBlocked(c)
           \/ \E ev \in Events : Resume(c, ev)
    PROVE  InductiveInvariant'
<1>1. /\ flow' = flow
      /\ Histories'
      /\ IsFlow(flow)
  BY CallerCopy DEF Start, RunUntilBlocked, Resume, Call, Histories, eventLog
<1>2. /\ {"load", "match"} \subseteq PC
      /\ "load" \notin {"loop", "match"} \cup Saving
      /\ "load" \notin {"loop", "match", "saveStep"}
  BY DEF PC, Saving
<1>3. event \in [Callers -> Events \cup {NoEvent}]
  BY CallerCopy
<1>4. CASE Start(c)
  <2>1. /\ store' = NewInstance(flow)
        /\ Goto(c, "load", NoInstance)
        /\ event' = event
    BY <1>4 DEF Start
  <2>2. CopyOK(flow, store')
    BY <1>1, <2>1, NewInstanceOK
  <2>3. store' # NoInstance
    BY <2>2, NoInstanceAssumption DEF CopyOK
  <2> QED BY <1>1, <1>2, <1>3, <2>1, <2>2, <2>3, CallerMoves
<1>5. CASE RunUntilBlocked(c)
  <2>1. /\ store' = store /\ store # NoInstance
        /\ Goto(c, "load", NoInstance)
        /\ event' = event
    BY <1>5 DEF RunUntilBlocked
  <2> QED BY <1>1, <1>2, <1>3, <2>1, CallerMoves
<1>6. ASSUME NEW ev \in Events, Resume(c, ev)
      PROVE  InductiveInvariant'
  <2> DEFINE copy == [store EXCEPT !.status = "running"]
  <2>1. /\ store' = store /\ store # NoInstance /\ ~Terminal(store)
        /\ Goto(c, "match", copy)
        /\ event' = [event EXCEPT ![c] = ev]
    BY <1>6 DEF Resume
  <2>2. event' \in [Callers -> Events \cup {NoEvent}]
    BY <1>3, <2>1
  <2>3. store.status # "failed" /\ CopyOK(flow, store)
    BY <2>1, CallerCopy DEF Terminal
  <2>4. CopyOK(flow, copy) /\ copy.status = "running"
    BY <2>3, SetStatusOK
  <2>5. copy # NoInstance
    BY <2>4, NoInstanceAssumption DEF CopyOK
  <2> HIDE DEF copy
  <2> QED BY <1>1, <1>2, <2>1, <2>2, <2>4, <2>5, CallerMoves
<1> QED
  BY <1>4, <1>5, <1>6

LEMMA MatchKeeps ==
    ASSUME InductiveInvariant, NEW c \in Callers, MatchNext(c)
    PROVE  InductiveInvariant'
<1>1. PICK i \in NextMatch(flow, local[c], event[c]) :
             LET applied == ApplyEvent(flow, local[c], i)
             IN  /\ Goto(c, IF Matching(flow, applied, event[c]) # {}
                            THEN "match" ELSE "saveResumed", applied)
                 /\ EmitCompleted(local[c].tokens[i].node, TRUE)
  BY DEF MatchNext
<1> DEFINE copy == ApplyEvent(flow, local[c], i)
           l == IF Matching(flow, copy, event[c]) # {} THEN "match" ELSE "saveResumed"
<1>2. /\ pc[c] = "match" /\ flow' = flow /\ store' = store /\ event' = event
      /\ calls' = calls /\ aborts' = aborts /\ effects' = effects
  BY DEF MatchNext
<1>3. Histories'
  BY <1>1, <1>2, CallerCopy, CountNat, EmitNat DEF Histories
<1>4. Working(flow, copy)
  BY <1>2, CallerCopy, ApplyEventOK
<1>5. CopyOK(flow, copy) /\ copy.status = "running" /\ copy # NoInstance
  BY <1>4, NoInstanceAssumption DEF Working, CopyOK
<1>6. Goto(c, l, copy) /\ l \in PC /\ l \in {"loop", "match"} \cup Saving
  BY <1>1 DEF PC, Saving
<1> HIDE DEF copy, l
<1> QED
  BY <1>2, <1>3, <1>5, <1>6, CallerCopy, CallerMoves

LEMMA LoadKeeps ==
    ASSUME InductiveInvariant, NEW c \in Callers, Load(c)
    PROVE  InductiveInvariant'
<1>1. /\ pc[c] = "load" /\ flow' = flow /\ store' = store
      /\ calls' = calls /\ aborts' = aborts /\ effects' = effects /\ eventLog' = eventLog
  BY DEF Load
<1>2. /\ Histories'
      /\ event \in [Callers -> Events \cup {NoEvent}]
      /\ store # NoInstance /\ CopyOK(flow, store)
  BY <1>1, CallerCopy DEF Histories, eventLog
<1>3. CASE Terminal(store)
  BY <1>1, <1>2, <1>3, ReturnKeeps DEF Load
<1>4. CASE ~Terminal(store)
  <2> DEFINE copy == [store EXCEPT !.status = "running"]
  <2>1. Goto(c, "loop", copy) /\ event' = event
    BY <1>4 DEF Load
  <2>2. store.status # "failed"
    BY <1>4 DEF Terminal
  <2>3. CopyOK(flow, copy) /\ copy.status = "running"
    BY <1>2, <2>2, SetStatusOK
  <2>4. copy # NoInstance
    BY <2>3, NoInstanceAssumption DEF CopyOK
  <2>5. "loop" \in PC
    BY DEF PC
  <2> HIDE DEF copy
  <2> QED BY <1>1, <1>2, <2>1, <2>3, <2>4, <2>5, CallerMoves
<1> QED
  BY <1>3, <1>4

LEMMA ExecuteKeeps ==
    ASSUME InductiveInvariant, NEW c \in Callers, ExecuteToken(c)
    PROVE  InductiveInvariant'
<1> DEFINE Did(i, o) ==
              /\ Goto(c, IF o.err THEN "saveFailed" ELSE "saveStep", o.inst)
              /\ effects' = Count(effects, local[c].tokens[i].node, o.ran)
              /\ EmitCompleted(local[c].tokens[i].node, o.done)
<1>0. PICK i \in FirstReady(local[c]) :
             \E o \in ExecuteReadyToken(flow, local[c], i) : Did(i, o)
  BY DEF ExecuteToken
<1>1. PICK o \in ExecuteReadyToken(flow, local[c], i) : Did(i, o)
  BY <1>0
<1> DEFINE l == IF o.err THEN "saveFailed" ELSE "saveStep"
<1>2. /\ pc[c] = "loop" /\ flow' = flow /\ store' = store /\ event' = event
      /\ calls' = calls /\ aborts' = aborts
  BY DEF ExecuteToken
<1>3. Histories'
  BY <1>1, <1>2, CallerCopy, CountNat, EmitNat DEF Histories
<1>4. i \in WithStatus(local[c], "ready")
  BY DEF FirstReady, First
<1>5. CopyOK(flow, o.inst) /\ (~o.err => o.inst.status = "running")
  BY <1>2, <1>4, CallerCopy, ExecuteOK
<1>6. o.inst # NoInstance
  BY <1>5, NoInstanceAssumption DEF CopyOK
<1>7. /\ Goto(c, l, o.inst) /\ l \in PC /\ l \in {"loop", "match"} \cup Saving
      /\ l \in {"loop", "match", "saveStep"} => o.inst.status = "running"
  BY <1>1, <1>5 DEF PC, Saving
<1> HIDE DEF l
<1> QED
  BY <1>2, <1>3, <1>5, <1>6, <1>7, CallerCopy, CallerMoves

LEMMA BlockKeeps ==
    ASSUME InductiveInvariant, NEW c \in Callers, Block(c)
    PROVE  InductiveInvariant'
<1> DEFINE copy == FinalizeBlockedInstance(local[c])
<1>1. /\ pc[c] = "loop" /\ flow' = flow /\ store' = store /\ event' = event
      /\ calls' = calls /\ aborts' = aborts /\ effects' = effects /\ eventLog' = eventLog
      /\ WithStatus(local[c], "ready") = {}
      /\ Goto(c, "saveBlocked", copy)
  BY DEF Block
<1>2. Histories'
  BY <1>1, CallerCopy DEF Histories, eventLog
<1>3. CopyOK(flow, copy)
  BY <1>1, CallerCopy, FinalizeOK DEF Working
<1>4. copy # NoInstance
  BY <1>3, NoInstanceAssumption DEF CopyOK
<1>5. /\ "saveBlocked" \in PC
      /\ "saveBlocked" \in {"loop", "match"} \cup Saving
      /\ "saveBlocked" \notin {"loop", "match", "saveStep"}
  BY DEF PC, Saving
<1> HIDE DEF copy
<1> QED
  BY <1>1, <1>2, <1>3, <1>4, <1>5, CallerCopy, CallerMoves

LEMMA SaveKeeps ==
    ASSUME InductiveInvariant, NEW c \in Callers, Save(c)
    PROVE  InductiveInvariant'
<1>1. /\ pc[c] \in Saving /\ flow' = flow /\ store' = local[c]
      /\ calls' = calls /\ aborts' = aborts /\ effects' = effects /\ eventLog' = eventLog
  BY DEF Save
<1>2. /\ Histories'
      /\ event \in [Callers -> Events \cup {NoEvent}]
      /\ CopyOK(flow, store') /\ store' # NoInstance
  BY <1>1, CallerCopy DEF Histories, eventLog
<1>3. /\ {"loop", "load"} \subseteq PC
      /\ "load" \notin {"loop", "match"} \cup Saving
      /\ "load" \notin {"loop", "match", "saveStep"}
  BY DEF PC, Saving
<1>4. CASE pc[c] = "saveStep"
  <2>1. Goto(c, "loop", local[c]) /\ event' = event
    BY <1>4 DEF Save
  <2>2. Working(flow, local[c])
    BY <1>4, CallerCopy
  <2> QED BY <1>1, <1>2, <1>3, <2>1, <2>2, CallerMoves DEF Working
<1>5. CASE pc[c] = "saveResumed"
  <2>1. Goto(c, "load", NoInstance) /\ event' = [event EXCEPT ![c] = NoEvent]
    BY <1>5 DEF Save
  <2>2. event' \in [Callers -> Events \cup {NoEvent}]
    BY <1>2, <2>1
  <2> QED BY <1>1, <1>2, <1>3, <2>1, <2>2, CallerMoves
<1>6. CASE pc[c] \notin {"saveStep", "saveResumed"}
  <2>1. Return(c)
    BY <1>6 DEF Save
  <2> QED BY <1>1, <1>2, <2>1, ReturnKeeps
<1> QED
  BY <1>4, <1>5, <1>6

LEMMA StepInvariant == InductiveInvariant /\ [Next]_vars => InductiveInvariant'
<1> SUFFICES ASSUME InductiveInvariant, [Next]_vars
             PROVE  InductiveInvariant'
  OBVIOUS
<1>1. CASE UNCHANGED vars
  BY <1>1 DEF vars, eventLog, InductiveInvariant, TypeOK, Copies
<1>2. ASSUME NEW c \in Callers,
             Start(c) \/ RunUntilBlocked(c) \/ \E ev \in Events : Resume(c, ev)
      PROVE  InductiveInvariant'
  BY <1>2, CallsKeep
<1>3. ASSUME NEW c \in Callers, Advance(c)
      PROVE  InductiveInvariant'
  <2>1. CASE MatchError(c)
    <3>1. /\ Return(c) /\ flow' = flow /\ store' = store
          /\ Histories'
      BY <2>1, CallerCopy DEF MatchError, Histories, eventLog
    <3> QED BY <3>1, ReturnKeeps
  <2> QED
    BY <1>3, <2>1, MatchKeeps, LoadKeeps, ExecuteKeeps, BlockKeeps, SaveKeeps DEF Advance
<1>4. ASSUME NEW c \in Callers, Abort(c)
      PROVE  InductiveInvariant'
  <2>1. /\ Return(c) /\ flow' = flow /\ store' = store
        /\ Histories'
    BY <1>4, CallerCopy DEF Abort, Histories, eventLog
  <2> QED BY <2>1, ReturnKeeps
<1> QED
  BY <1>1, <1>2, <1>3, <1>4 DEF Next
-----------------------------------------------------------------------------
\* Whatever the flows, callers and events are, every copy of an instance the
\* engine holds, stored or in a call, is a well-formed instance, and a caller
\* holds one exactly when it is at a step that works on one.
THEOREM TypeCorrect == Spec => []TypeOK
<1>1. InductiveInvariant => TypeOK
  BY DEF InductiveInvariant
<1> QED
  BY InitInvariant, StepInvariant, <1>1, PTL DEF Spec

\* Whatever the flows, callers and events are, every copy of an instance is
\* consistent: no token is stuck, the status tells the truth about the tokens,
\* only wait nodes hold waiting tokens, and a join fires once, when a token from
\* every source has reached it - although callers overwrite each other's saves.
THEOREM CopiesConsistent == Spec => []CopiesOK
<1>1. InductiveInvariant => CopiesOK
  BY DEF InductiveInvariant, CopiesOK, CopyOK
<1> QED
  BY InitInvariant, StepInvariant, <1>1, PTL DEF Spec

\* And so is every copy in a stronger sense: the arrivals a join has recorded are backed
\* by tokens it consumed, and a copy a call goes on with is marked running.
THEOREM InvariantHolds == Spec => []InductiveInvariant
BY InitInvariant, StepInvariant, PTL DEF Spec
-----------------------------------------------------------------------------
(***************************************************************************)
(* What a step consumes. next is inst after a step that consumed the       *)
(* tokens in S, and may have appended others that are not consumed.        *)
(***************************************************************************)
Consumes(inst, next, S) ==
    /\ inst \in Instance /\ next \in Instance
    /\ S \subseteq DOMAIN inst.tokens \ WithStatus(inst, "consumed")
    /\ WithStatus(next, "consumed") = WithStatus(inst, "consumed") \cup S
    /\ \A j \in DOMAIN inst.tokens :
          /\ j \in DOMAIN next.tokens
          /\ next.tokens[j].node = inst.tokens[j].node
          /\ next.tokens[j].source = inst.tokens[j].source

\* A move consumes the token it moves, or none.
LEMMA MovedConsumes ==
    ASSUME NEW inst, NEW next, NEW i \in DOMAIN inst.tokens, NEW st \in TokenStatus,
           NEW source, NEW count \in Nat,
           Moved(inst, next, i, st, source, count),
           inst.tokens[i].status # "consumed"
    PROVE  Consumes(inst, next, IF st = "consumed" THEN {i} ELSE {})
<1>1. /\ inst \in Instance /\ next \in Instance
      /\ DOMAIN inst.tokens = 1..Len(inst.tokens)
      /\ DOMAIN next.tokens = 1..Len(next.tokens)
      /\ Len(inst.tokens) \in Nat
      /\ Len(next.tokens) = Len(inst.tokens) + count
  BY TokensSeq DEF Moved
<1>2. \A j \in DOMAIN next.tokens :
         next.tokens[j].status = "consumed" <=>
            \/ j = i /\ st = "consumed"
            \/ j \in DOMAIN inst.tokens /\ inst.tokens[j].status = "consumed"
  <2> SUFFICES ASSUME NEW j \in 1..Len(next.tokens)
               PROVE  next.tokens[j].status = "consumed" <=>
                         \/ j = i /\ st = "consumed"
                         \/ j \in DOMAIN inst.tokens /\ inst.tokens[j].status = "consumed"
    BY <1>1
  <2>1. CASE j \in 1..Len(inst.tokens)
    BY <1>1, <2>1 DEF Moved
  <2>2. CASE j \notin 1..Len(inst.tokens)
    BY <1>1, <2>2 DEF Moved
  <2> QED BY <2>1, <2>2
<1>3. \A j \in DOMAIN inst.tokens :
         /\ j \in DOMAIN next.tokens
         /\ next.tokens[j].node = inst.tokens[j].node
         /\ next.tokens[j].source = inst.tokens[j].source
  BY <1>1 DEF Moved
<1> QED BY <1>1, <1>2, <1>3 DEF Consumes, WithStatus

\* A change of anything but the tokens consumes none, and adds none to what a step did.
LEMMA SameTokensConsume ==
    ASSUME NEW inst, NEW next, NEW S, Consumes(inst, next, S),
           NEW other \in Instance, other.tokens = next.tokens
    PROVE  Consumes(inst, other, S)
BY DEF Consumes, WithStatus

LEMMA OutcomeIs ==
    ASSUME NEW inst \in Instance, NEW err \in BOOLEAN, NEW ran, NEW done, NEW o,
           o = Outcome(inst, err, ran, done)
    PROVE  /\ o.inst \in Instance /\ o.inst.tokens = inst.tokens
           /\ o.err = err /\ o.ran = ran /\ o.done = done
           /\ o.err => o.inst.status = "failed"
BY DEF Outcome, Instance, InstanceStatus

\* executeReadyToken consumes its token or leaves it; where it runs the node of a task it
\* has consumed a token there, and where it consumes one without an error it says so.
Took(f, inst, i, o, S) ==
    LET n == inst.tokens[i].node
    IN  /\ Consumes(inst, o.inst, S)
        /\ n \in f.nodes /\ f.kind[n] = "task" => (o.ran <=> S = {i})
        /\ n \in f.nodes \ f.fails /\ f.kind[n] # "join" /\ S = {i} => o.done

Takes(f, inst, i, o) ==
    /\ o.err => o.inst.status = "failed"
    /\ \E S \in {{}, {i}} : Took(f, inst, i, o, S)

LEMMA ExecuteConsumes ==
    ASSUME NEW f, IsFlow(f), NEW inst, Working(f, inst),
           NEW i \in WithStatus(inst, "ready"),
           NEW o \in ExecuteReadyToken(f, inst, i)
    PROVE  Takes(f, inst, i, o)
<1> DEFINE n == inst.tokens[i].node
<1>1. /\ inst \in Instance
      /\ i \in DOMAIN inst.tokens
      /\ inst.tokens[i].status = "ready"
      /\ n \in NodeIds
      /\ f.nodes \subseteq NodeIds
  BY TokensSeq DEF Working, CopyOK, WithStatus, Token, IsFlow
<1>2. /\ {"consumed", "waiting", "running"} \subseteq TokenStatus
      /\ {"failed", "waiting"} \subseteq NodeStatus
      /\ 0 \in Nat
  BY DEF TokenStatus, NodeStatus
<1> DEFINE Told(x, err, ran, done, S) ==
              /\ o = Outcome(x, err, ran, done) /\ err \in BOOLEAN
              /\ S \in {{}, {i}} /\ Consumes(inst, x, S)
              /\ n \in f.nodes /\ f.kind[n] = "task" => (ran <=> S = {i})
              /\ n \in f.nodes \ f.fails /\ f.kind[n] # "join" /\ S = {i} => done
<1>3. ASSUME NEW x, NEW err, NEW ran, NEW done, NEW S, Told(x, err, ran, done, S)
      PROVE  /\ o.err => o.inst.status = "failed"
             /\ S \in {{}, {i}}
             /\ Took(f, inst, i, o, S)
  <2>1. x \in Instance
    BY <1>3 DEF Consumes
  <2>2. /\ o.inst \in Instance /\ o.inst.tokens = x.tokens
        /\ o.err = err /\ o.ran = ran /\ o.done = done
        /\ o.err => o.inst.status = "failed"
    BY <1>3, <2>1, OutcomeIs
  <2> QED BY <1>3, <2>2, SameTokensConsume DEF Took
<1>4. CASE n \in f.nodes /\ o \in InputErrors(f, inst, i)
  <2>1. Moved(inst, o.inst, i, "running", NoSource, 0) /\ o.inst.status = "failed" /\ ~o.ran
    BY <1>1, <1>4, InputErrorMoves
  <2>2. Consumes(inst, o.inst, {})
    BY <1>1, <1>2, <2>1, MovedConsumes
  <2>3. Took(f, inst, i, o, {})
    BY <2>1, <2>2 DEF Took
  <2> QED BY <2>1, <2>3 DEF Takes
<1>5. CASE n \notin f.nodes \/ o \notin InputErrors(f, inst, i)
  <2> SUFFICES \E x, err, ran, done, S : Told(x, err, ran, done, S)
    <3> HIDE DEF Told
    <3> QED BY <1>3 DEF Takes
  <2>1. CASE n \notin f.nodes
    <3>1. o = Outcome(inst, TRUE, FALSE, FALSE)
      BY <2>1 DEF ExecuteReadyToken
    <3>2. Consumes(inst, inst, {})
      BY <1>1 DEF Consumes
    <3>3. Told(inst, TRUE, FALSE, FALSE, {})
      BY <2>1, <3>1, <3>2
    <3> HIDE DEF Told
    <3> QED BY <3>3
  <2>2. /\ n \in f.nodes => f.kind[n] \in {"task", "wait", "join"}
        /\ n \in f.nodes => f.outgoing[n] \in Seq(NodeIds) /\ f.routes[n] \subseteq Seq(NodeIds)
    BY FlowFacts DEF NodeKind
  <2>3. ASSUME NEW list \in Seq(NodeIds)
        PROVE  Consumes(inst, CompleteNode(inst, i, list), {i})
    <3>1. /\ Moved(inst, CompleteNode(inst, i, list), i, "consumed", n, Len(list))
          /\ Len(list) \in Nat
      BY <1>1, <2>3, CompleteMoves, LenProperties
    <3> QED BY <1>1, <1>2, <3>1, MovedConsumes
  <2>4. Consumes(inst, FailNode(inst, i), {i})
    <3>1. Moved(inst, FailNode(inst, i), i, "consumed", NoSource, 0)
      BY <1>1, <1>2, MarkMoves DEF FailNode
    <3> QED BY <1>1, <1>2, <3>1, MovedConsumes
  <2>5. CASE n \in f.nodes /\ f.kind[n] = "task"
    <3>1. o \in TaskOutcomes(f, inst, i)
      BY <1>5, <2>5 DEF ExecuteReadyToken
    <3>2. CASE o = Outcome(FailNode(inst, i), TRUE, TRUE, FALSE) /\ n \in f.fails
      <4>1. Told(FailNode(inst, i), TRUE, TRUE, FALSE, {i})
        BY <2>4, <3>2
      <4> HIDE DEF Told
      <4> QED BY <4>1
    <3>3. CASE \E next \in f.routes[n] :
                  o = Outcome(CompleteNode(inst, i, next), FALSE, TRUE, TRUE)
      <4>1. PICK next \in f.routes[n] :
                   o = Outcome(CompleteNode(inst, i, next), FALSE, TRUE, TRUE)
        BY <3>3
      <4>2. Told(CompleteNode(inst, i, next), FALSE, TRUE, TRUE, {i})
        BY <2>2, <2>3, <2>5, <4>1
      <4> HIDE DEF Told
      <4> QED BY <4>2
    <3> QED BY <3>1, <3>2, <3>3 DEF TaskOutcomes, IfFails
  <2>6. CASE n \in f.nodes /\ f.kind[n] = "wait"
    <3>1. o \in WaitOutcomes(f, inst, i)
      BY <1>5, <2>6 DEF ExecuteReadyToken
    <3>2. CASE o = Outcome(FailNode(inst, i), TRUE, FALSE, FALSE) /\ n \in f.fails
      <4>1. Told(FailNode(inst, i), TRUE, FALSE, FALSE, {i})
        BY <2>4, <2>6, <3>2
      <4> HIDE DEF Told
      <4> QED BY <4>1
    <3>3. CASE o = Outcome(BlockOnWaitNode(inst, i), FALSE, FALSE, FALSE)
      <4>1. Moved(inst, BlockOnWaitNode(inst, i), i, "waiting", NoSource, 0)
        BY <1>1, <1>2, MarkMoves DEF BlockOnWaitNode
      <4>2. Consumes(inst, BlockOnWaitNode(inst, i), {})
        BY <1>1, <1>2, <4>1, MovedConsumes
      <4>3. Told(BlockOnWaitNode(inst, i), FALSE, FALSE, FALSE, {})
        BY <2>6, <3>3, <4>2
      <4> HIDE DEF Told
      <4> QED BY <4>3
    <3> QED BY <3>1, <3>2, <3>3 DEF WaitOutcomes, IfFails
  <2>7. CASE n \in f.nodes /\ f.kind[n] = "join"
    <3>1. o \in JoinOutcomes(f, inst, i)
      BY <1>5, <2>7 DEF ExecuteReadyToken
    <3>2. PICK x, done : o = Outcome(x, FALSE, FALSE, done) /\ Consumes(inst, x, {i})
      <4>1. CASE Aggregates(f, n)
        <5>1. PICK done : o = Outcome(ExecuteJoinNode(f, inst, i), FALSE, FALSE, done)
          BY <3>1, <4>1 DEF JoinOutcomes
        <5>2. \E source, count : /\ count \in Nat
                                 /\ Moved(inst, ExecuteJoinNode(f, inst, i), i, "consumed",
                                          source, count)
          BY <2>7, <4>1, JoinOK
        <5>3. Consumes(inst, ExecuteJoinNode(f, inst, i), {i})
          BY <1>1, <1>2, <5>2, MovedConsumes
        <5> QED BY <5>1, <5>3
      <4>2. CASE ~Aggregates(f, n)
        <5>1. o = Outcome(CompleteNode(inst, i, f.outgoing[n]), FALSE, FALSE, TRUE)
          BY <3>1, <4>2 DEF JoinOutcomes
        <5> QED BY <2>2, <2>3, <2>7, <5>1
      <4> QED BY <4>1, <4>2
    <3>3. Told(x, FALSE, FALSE, done, {i})
      BY <2>7, <3>2
    <3> HIDE DEF Told
    <3> QED BY <3>3
  <2> QED BY <2>1, <2>2, <2>5, <2>6, <2>7
<1> QED BY <1>4, <1>5

\* Resume consumes the token it applies the event to, at a wait node.
LEMMA ApplyEventConsumes ==
    ASSUME NEW f, IsFlow(f), NEW inst, Working(f, inst), NEW ev,
           NEW i \in NextMatch(f, inst, ev)
    PROVE  /\ Consumes(inst, ApplyEvent(f, inst, i), {i})
           /\ inst.tokens[i].node \in f.nodes
           /\ f.kind[inst.tokens[i].node] = "wait"
<1>1. i \in WithStatus(inst, "waiting")
  BY DEF NextMatch, First, Matching
<1>2. /\ inst.tokens[i].node \in f.nodes
      /\ f.kind[inst.tokens[i].node] = "wait"
  BY <1>1 DEF Working, CopyOK, InstanceOK, WaitsAtWaitNodes
<1>3. /\ inst \in Instance
      /\ i \in DOMAIN inst.tokens
      /\ inst.tokens[i].status = "waiting"
      /\ "consumed" \in TokenStatus
  BY <1>1 DEF WithStatus, Working, CopyOK, TokenStatus
<1> DEFINE list == f.outgoing[inst.tokens[i].node]
<1>4. list \in Seq(NodeIds) /\ Len(list) \in Nat
  BY <1>2, FlowFacts, LenProperties
<1>5. Moved(inst, ApplyEvent(f, inst, i), i, "consumed", inst.tokens[i].node, Len(list))
  BY <1>3, <1>4, CompleteMoves DEF ApplyEvent
<1> QED BY <1>2, <1>3, <1>4, <1>5, MovedConsumes

\* What was consumed at a node can be counted.
LEMMA ConsumedNat ==
    ASSUME NEW inst \in Instance, NEW n
    PROVE  /\ IsFiniteSet({ j \in WithStatus(inst, "consumed") : inst.tokens[j].node = n })
           /\ ConsumedAt(inst, n) \in Nat
<1> DEFINE Here == { j \in WithStatus(inst, "consumed") : inst.tokens[j].node = n }
<1>1. Here \subseteq 1..Len(inst.tokens) /\ Len(inst.tokens) \in Nat
  BY TokensSeq DEF WithStatus
<1>2. IsFiniteSet(1..Len(inst.tokens))
  BY <1>1, FS_Interval
<1>3. IsFiniteSet(Here)
  BY <1>1, <1>2, FS_Subset
<1> QED BY <1>3, FS_CardinalityType DEF ConsumedAt

\* One more where the token was, and nowhere else.
CountsOne(inst, next, i, S, n) ==
    /\ ConsumedAt(inst, n) \in Nat /\ ConsumedAt(next, n) \in Nat
    /\ S = {i} /\ inst.tokens[i].node = n => ConsumedAt(next, n) = ConsumedAt(inst, n) + 1
    /\ S # {i} \/ inst.tokens[i].node # n => ConsumedAt(next, n) = ConsumedAt(inst, n)

LEMMA ConsumedCounts ==
    ASSUME NEW inst, NEW next, NEW i, NEW S, S = {} \/ S = {i},
           Consumes(inst, next, S), NEW n
    PROVE  CountsOne(inst, next, i, S, n)
<1> SUFFICES /\ ConsumedAt(inst, n) \in Nat /\ ConsumedAt(next, n) \in Nat
             /\ S = {i} /\ inst.tokens[i].node = n =>
                  ConsumedAt(next, n) = ConsumedAt(inst, n) + 1
             /\ S # {i} \/ inst.tokens[i].node # n =>
                  ConsumedAt(next, n) = ConsumedAt(inst, n)
  BY DEF CountsOne
<1> DEFINE Here(x) == { j \in WithStatus(x, "consumed") : x.tokens[j].node = n }
<1>1. IsFiniteSet(Here(inst)) /\ ConsumedAt(inst, n) \in Nat
  BY ConsumedNat DEF Consumes
<1>2. Here(next) = IF S = {i} /\ inst.tokens[i].node = n THEN Here(inst) \cup {i} ELSE Here(inst)
  BY DEF Consumes, WithStatus
<1>3. S = {i} => i \notin Here(inst)
  BY DEF Consumes
<1>4. ConsumedAt(inst, n) = Cardinality(Here(inst)) /\ ConsumedAt(next, n) = Cardinality(Here(next))
  BY DEF ConsumedAt
<1> HIDE DEF Here
<1>5. CASE S = {i} /\ inst.tokens[i].node = n
  BY <1>1, <1>2, <1>3, <1>4, <1>5, FS_AddElement
<1>6. CASE ~(S = {i} /\ inst.tokens[i].node = n)
  BY <1>1, <1>2, <1>4, <1>6
<1> QED BY <1>5, <1>6

\* The count looks at the tokens only.
LEMMA ConsumedSame ==
    ASSUME NEW inst, NEW other, other.tokens = inst.tokens, NEW n
    PROVE  ConsumedAt(other, n) = ConsumedAt(inst, n)
BY DEF ConsumedAt, WithStatus

\* The parts of an instance that marking it, or settling it, leaves alone.
LEMMA StatusOnly ==
    ASSUME NEW inst \in Instance, NEW s
    PROVE  /\ [inst EXCEPT !.status = s].tokens = inst.tokens
           /\ [inst EXCEPT !.status = s].status = s
BY DEF Instance

\* A new instance has consumed nothing.
LEMMA NewConsumed ==
    ASSUME NEW f, IsFlow(f), NEW n
    PROVE  ConsumedAt(NewInstance(f), n) = 0
<1>1. f.starts \in Seq(NodeIds)
  BY SeqDef DEF IsFlow
<1> DEFINE tokens == NewTokens(NoSource, f.starts)
<1>2. /\ tokens \in Seq(Token)
      /\ \A k \in 1..Len(tokens) : tokens[k].status = "ready"
  <2>1. PICK list : list = f.starts
    OBVIOUS
  <2>2. list \in Seq(NodeIds) /\ NoSource \in NodeIds \cup {NoSource}
    BY <1>1, <2>1
  <2>3. /\ NewTokens(NoSource, list) \in Seq(Token)
        /\ Len(NewTokens(NoSource, list)) = Len(list)
        /\ \A k \in 1..Len(list) : NewTokens(NoSource, list)[k].status = "ready"
    BY <2>2, NewTokensSeq
  <2> QED BY <2>1, <2>3
<1>3. \A k \in DOMAIN tokens : tokens[k].status = "ready"
  BY <1>2, LenProperties
<1>4. NewInstance(f).tokens = tokens
  BY DEF NewInstance
<1> HIDE DEF tokens
<1>5. { j \in WithStatus(NewInstance(f), "consumed") : NewInstance(f).tokens[j].node = n } = {}
  BY <1>3, <1>4 DEF WithStatus
<1> QED BY <1>5, FS_EmptySet DEF ConsumedAt

\* A history that counts what happened at one node.
LEMMA CountGrows ==
    ASSUME NEW h \in [NodeIds -> Nat], NEW m, NEW b, NEW n \in NodeIds
    PROVE  Count(h, m, b)[n] = h[n] + IF b /\ n = m THEN 1 ELSE 0
<1>1. h[n] \in Nat
  OBVIOUS
<1>2. CASE b
  BY <1>1, <1>2 DEF Count
<1>3. CASE ~b
  BY <1>1, <1>3 DEF Count
<1> QED BY <1>2, <1>3
-----------------------------------------------------------------------------
(* When every call has returned, one of them has settled the instance.     *)

\* A call at one of these places saves the instance settled, or finds it so, before it
\* returns; one in Resume's loop may return without a save, and has changed nothing.
Committed == {"load", "loop"} \cup Saving

Settled(inst) == inst.status \in {"waiting", "completed", "failed"}

SettledInv ==
    /\ \A c \in Callers : pc[c] \in {"saveFailed", "saveBlocked"} => Settled(local[c])
    /\ store # NoInstance /\ aborts = 0 =>
          Settled(store) \/ \E c \in Callers : pc[c] \in Committed

\* What a step of one caller must show: it is committed afterwards, or it leaves the
\* stored instance settled, or as it was without having been committed itself.
LEMMA CommittedKept ==
    ASSUME InductiveInvariant, SettledInv, NEW c \in Callers, NEW l, NEW copy, Goto(c, l, copy),
           l \in {"saveFailed", "saveBlocked"} => Settled(copy),
           aborts' = aborts,
           \/ l \in Committed
           \/ Settled(store')
           \/ store' = store /\ pc[c] \notin Committed
    PROVE  SettledInv'
<1>1. /\ pc'[c] = l /\ local'[c] = copy
      /\ \A d \in Callers \ {c} : pc'[d] = pc[d] /\ local'[d] = local[d]
  BY DEF Goto, InductiveInvariant, TypeOK
<1>2. \A d \in Callers : pc'[d] \in {"saveFailed", "saveBlocked"} => Settled(local'[d])
  BY <1>1 DEF SettledInv
<1>3. ASSUME store' # NoInstance, aborts' = 0
      PROVE  Settled(store') \/ \E d \in Callers : pc'[d] \in Committed
  BY <1>1, <1>3 DEF SettledInv
<1> QED BY <1>2, <1>3 DEF SettledInv, Settled

LEMMA SettledStep == InductiveInvariant /\ SettledInv /\ [Next]_vars => SettledInv'
<1> SUFFICES ASSUME InductiveInvariant, SettledInv, [Next]_vars
             PROVE  SettledInv'
  OBVIOUS
<1>1. CASE UNCHANGED vars
  BY <1>1 DEF vars, SettledInv, Settled
<1>2. ASSUME NEW c \in Callers,
             Start(c) \/ RunUntilBlocked(c) \/ \E ev \in Events : Resume(c, ev)
      PROVE  SettledInv'
  <2>1. aborts' = aborts /\ pc[c] = "idle" /\ "idle" \notin Committed /\ "load" \in Committed
    BY <1>2 DEF Start, RunUntilBlocked, Resume, Call, Committed, Saving
  <2>2. CASE Goto(c, "load", NoInstance)
    BY <2>1, <2>2, CommittedKept
  <2>3. CASE \E ev \in Events : Resume(c, ev)
    <3>1. Goto(c, "match", [store EXCEPT !.status = "running"]) /\ store' = store
      BY <2>3 DEF Resume
    <3> QED BY <2>1, <3>1, CommittedKept
  <2> QED BY <1>2, <2>2, <2>3 DEF Start, RunUntilBlocked
<1>3. ASSUME NEW c \in Callers, Advance(c)
      PROVE  SettledInv'
  <2>1. aborts' = aborts
    BY <1>3 DEF Advance, MatchNext, MatchError, Load, ExecuteToken, Block, Save
  <2>2. CASE MatchNext(c)
    <3>1. PICK l, copy : l \in {"match", "saveResumed"} /\ Goto(c, l, copy)
      BY <2>2 DEF MatchNext
    <3>2. pc[c] \notin Committed /\ store' = store
      BY <2>2 DEF MatchNext, Committed, Saving
    <3> QED BY <2>1, <3>1, <3>2, CommittedKept
  <2>3. CASE MatchError(c)
    <3>1. Goto(c, "idle", NoInstance) /\ store' = store /\ pc[c] \notin Committed
      BY <2>3 DEF MatchError, Return, Committed, Saving
    <3> QED BY <2>1, <3>1, CommittedKept
  <2>4. CASE Load(c)
    <3>1. store' = store
      BY <2>4 DEF Load
    <3>2. CASE Terminal(store)
      <4>1. Goto(c, "idle", NoInstance) /\ Settled(store')
        BY <2>4, <3>1, <3>2 DEF Load, Return, Terminal, Settled
      <4> QED BY <2>1, <4>1, CommittedKept
    <3>3. CASE ~Terminal(store)
      <4>1. Goto(c, "loop", [store EXCEPT !.status = "running"]) /\ "loop" \in Committed
        BY <2>4, <3>3 DEF Load, Committed
      <4> QED BY <2>1, <4>1, CommittedKept
    <3> QED BY <3>2, <3>3
  <2>5. CASE ExecuteToken(c)
    <3>1. PICK i \in FirstReady(local[c]) : \E o \in ExecuteReadyToken(flow, local[c], i) :
                 Goto(c, IF o.err THEN "saveFailed" ELSE "saveStep", o.inst)
      BY <2>5 DEF ExecuteToken
    <3>2. PICK o \in ExecuteReadyToken(flow, local[c], i) :
                 Goto(c, IF o.err THEN "saveFailed" ELSE "saveStep", o.inst)
      BY <3>1
    <3>3. pc[c] = "loop" /\ i \in WithStatus(local[c], "ready")
      BY <2>5 DEF ExecuteToken, FirstReady, First
    <3>4. o.err => Settled(o.inst)
      <4>1. IsFlow(flow) /\ Working(flow, local[c])
        BY <3>3, CallerCopy
      <4>2. Takes(flow, local[c], i, o)
        BY <3>3, <4>1, ExecuteConsumes
      <4> QED BY <4>2 DEF Takes, Settled
    <3>5. {"saveFailed", "saveStep"} \subseteq Committed
      BY DEF Committed, Saving
    <3> QED BY <2>1, <3>2, <3>4, <3>5, CommittedKept
  <2>6. CASE Block(c)
    <3>1. Goto(c, "saveBlocked", FinalizeBlockedInstance(local[c])) /\ local[c] \in Instance
      BY <2>6, CallerCopy DEF Block, CopyOK
    <3>2. Settled(FinalizeBlockedInstance(local[c])) /\ "saveBlocked" \in Committed
      BY <3>1, StatusOnly DEF FinalizeBlockedInstance, Settled, Committed, Saving
    <3> QED BY <2>1, <3>1, <3>2, CommittedKept
  <2>7. CASE Save(c)
    <3>1. CASE pc[c] \in {"saveStep", "saveResumed"}
      <4>1. PICK l, copy : l \in {"loop", "load"} /\ Goto(c, l, copy)
        BY <2>7, <3>1 DEF Save
      <4>2. l \in Committed /\ l \notin {"saveFailed", "saveBlocked"}
        BY <4>1 DEF Committed
      <4> QED BY <2>1, <4>1, <4>2, CommittedKept
    <3>2. CASE pc[c] \in {"saveFailed", "saveBlocked"}
      <4>1. Goto(c, "idle", NoInstance) /\ store' = local[c]
        BY <2>7, <3>2 DEF Save, Return
      <4>2. Settled(store')
        BY <3>2, <4>1 DEF SettledInv, Settled
      <4> QED BY <2>1, <4>1, <4>2, CommittedKept
    <3> QED BY <2>7, <3>1, <3>2 DEF Save, Saving
  <2> QED BY <1>3, <2>2, <2>3, <2>4, <2>5, <2>6, <2>7 DEF Advance
<1>4. ASSUME NEW c \in Callers, Abort(c)
      PROVE  SettledInv'
  <2>1. aborts' # 0
    BY <1>4 DEF Abort, InductiveInvariant, TypeOK
  <2>2. /\ pc'[c] = "idle"
        /\ \A d \in Callers \ {c} : pc'[d] = pc[d] /\ local'[d] = local[d]
    BY <1>4 DEF Abort, Return, Goto, InductiveInvariant, TypeOK
  <2> QED BY <2>1, <2>2 DEF SettledInv, Settled
<1> QED BY <1>1, <1>2, <1>3, <1>4 DEF Next

\* Whatever calls overlap, when all have returned and none was cut short the stored
\* instance is blocked or at its end: no save that came late has left it in the middle.
THEOREM SettledWhenIdleHolds == Spec => []SettledWhenIdle
<1>1. Init => SettledInv
  BY DEF Init, SettledInv
<1>2. SettledInv => SettledWhenIdle
  BY DEF SettledInv, SettledWhenIdle, Settled, Committed, Saving
<1> QED BY InitInvariant, StepInvariant, <1>1, <1>2, SettledStep, PTL DEF Spec
-----------------------------------------------------------------------------
(* The event log, with any number of callers.                              *)

Covers(f, log, inst) ==
    \A n \in f.nodes \ f.fails : f.kind[n] # "join" => ConsumedAt(inst, n) <= log[n]

\* Not the stored instance alone: the log tells of what is still in a copy, too, and
\* that is why a save adds nothing it does not tell of.
Emitted  == [n \in NodeIds |-> audited[n] + lost[n]]
AuditInv == \A inst \in Copies \ {NoInstance} : Covers(flow, Emitted, inst)

\* Whether an append fails or not, one more completion has been told of.
LEMMA EmitCounts ==
    ASSUME audited \in [NodeIds -> Nat], lost \in [NodeIds -> Nat],
           NEW n, NEW b, EmitCompleted(n, b)
    PROVE  Emitted' = Count(Emitted, n, b)
<1>1. Emitted \in [NodeIds -> Nat] /\ Emitted' \in [NodeIds -> Nat]
  BY EmitNat DEF Emitted
<1>2. Count(Emitted, n, b) \in [NodeIds -> Nat]
  BY <1>1, CountNat
<1>3. ASSUME NEW m \in NodeIds
      PROVE  Emitted'[m] = Count(Emitted, n, b)[m]
  <2>1. Emitted[m] = audited[m] + lost[m] /\ Emitted'[m] = audited'[m] + lost'[m]
    BY DEF Emitted
  <2>2. Count(Emitted, n, b)[m] = Emitted[m] + IF b /\ m = n THEN 1 ELSE 0
    BY <1>1, CountGrows
  <2>3. CASE audited' = Count(audited, n, b) /\ lost' = lost
    <3>1. audited'[m] = audited[m] + IF b /\ m = n THEN 1 ELSE 0
      BY <2>3, CountGrows
    <3> QED BY <2>1, <2>2, <2>3, <3>1
  <2>4. CASE b /\ lost' = [lost EXCEPT ![n] = @ + 1] /\ audited' = audited
    <3>1. lost' = Count(lost, n, b)
      BY <2>4 DEF Count
    <3>2. lost'[m] = lost[m] + IF b /\ m = n THEN 1 ELSE 0
      BY <3>1, CountGrows
    <3> QED BY <2>1, <2>2, <2>4, <3>2
  <2> QED BY <2>3, <2>4 DEF EmitCompleted
<1> QED BY <1>1, <1>2, <1>3

\* The log only grows, so that what it covered it covers.
LEMMA CoversMore ==
    ASSUME NEW f, IsFlow(f), NEW log \in [NodeIds -> Nat], NEW m, NEW b,
           NEW inst \in Instance, Covers(f, log, inst)
    PROVE  Covers(f, Count(log, m, b), inst)
<1> SUFFICES ASSUME NEW n \in f.nodes \ f.fails, f.kind[n] # "join"
             PROVE  ConsumedAt(inst, n) <= Count(log, m, b)[n]
  BY DEF Covers
<1>1. n \in NodeIds
  BY DEF IsFlow
<1>2. ConsumedAt(inst, n) \in Nat /\ log[n] \in Nat /\ ConsumedAt(inst, n) <= log[n]
  BY <1>1, ConsumedNat DEF Covers
<1>3. Count(log, m, b)[n] = log[n] + IF b /\ n = m THEN 1 ELSE 0
  BY <1>1, CountGrows
<1> QED BY <1>2, <1>3

LEMMA CoversSame ==
    ASSUME NEW f, NEW log, NEW inst, Covers(f, log, inst), NEW other, other.tokens = inst.tokens
    PROVE  Covers(f, log, other)
BY ConsumedSame DEF Covers

\* A token that is consumed where the log counts one more.
Logs(f, inst, i, S, b) ==
    LET n == inst.tokens[i].node
    IN  n \in f.nodes \ f.fails /\ f.kind[n] # "join" /\ S = {i} => b

LEMMA CoversConsumed ==
    ASSUME NEW f, IsFlow(f), NEW log \in [NodeIds -> Nat], NEW b,
           NEW inst \in Instance, Covers(f, log, inst),
           NEW next, NEW i, NEW S, S = {} \/ S = {i}, Consumes(inst, next, S),
           Logs(f, inst, i, S, b)
    PROVE  Covers(f, Count(log, inst.tokens[i].node, b), next)
<1> DEFINE m == inst.tokens[i].node
<1> SUFFICES ASSUME NEW n \in f.nodes \ f.fails, f.kind[n] # "join"
             PROVE  ConsumedAt(next, n) <= Count(log, m, b)[n]
  BY DEF Covers
<1>1. n \in NodeIds
  BY DEF IsFlow
<1>2. ConsumedAt(inst, n) \in Nat /\ log[n] \in Nat /\ ConsumedAt(inst, n) <= log[n]
  BY <1>1, ConsumedNat DEF Covers
<1>3. Count(log, m, b)[n] = log[n] + IF b /\ n = m THEN 1 ELSE 0
  BY <1>1, CountGrows
<1>4. /\ S = {i} /\ m = n => ConsumedAt(next, n) = ConsumedAt(inst, n) + 1
      /\ S # {i} \/ m # n => ConsumedAt(next, n) = ConsumedAt(inst, n)
  <2>1. CountsOne(inst, next, i, S, n)
    BY ConsumedCounts
  <2> QED BY <2>1 DEF CountsOne, Logs
<1> QED BY <1>2, <1>3, <1>4 DEF Logs

\* What a step of one caller must show.
LEMMA AuditMoves ==
    ASSUME InductiveInvariant, AuditInv, NEW c \in Callers, NEW l, NEW copy, Goto(c, l, copy),
           flow' = flow, NEW m, NEW b, Emitted' = Count(Emitted, m, b),
           copy = NoInstance \/ Covers(flow, Emitted', copy),
           store' \in Copies \/ Covers(flow, Emitted', store')
    PROVE  AuditInv'
<1>1. Copies' \subseteq Copies \cup {store', copy}
  BY DEF Goto, InductiveInvariant, TypeOK, Copies
<1>2. ASSUME NEW inst \in Copies \ {NoInstance}
      PROVE  Covers(flow, Emitted', inst)
  <2>1. inst \in Instance /\ Covers(flow, Emitted, inst)
    BY <1>2 DEF InductiveInvariant, CopyOK, AuditInv
  <2>2. IsFlow(flow) /\ Emitted \in [NodeIds -> Nat]
    BY FlowsAssumption DEF InductiveInvariant, TypeOK, Emitted
  <2> QED BY <2>1, <2>2, CoversMore
<1> QED BY <1>1, <1>2 DEF AuditInv

LEMMA AuditStep == InductiveInvariant /\ AuditInv /\ [Next]_vars => AuditInv'
<1> SUFFICES ASSUME InductiveInvariant, AuditInv, [Next]_vars
             PROVE  AuditInv'
  OBVIOUS
<1>1. CASE UNCHANGED vars
  BY <1>1 DEF vars, eventLog, AuditInv, Emitted, Copies
<1>2. /\ IsFlow(flow) /\ audited \in [NodeIds -> Nat] /\ lost \in [NodeIds -> Nat]
      /\ Emitted \in [NodeIds -> Nat]
      /\ store \in Copies
      /\ store # NoInstance => store \in Instance /\ Covers(flow, Emitted, store)
      /\ \A m : Count(Emitted, m, FALSE) = Emitted
  BY FlowsAssumption DEF InductiveInvariant, TypeOK, Copies, CopyOK, AuditInv, Emitted, Count
<1>3. \A c \in Callers : local[c] # NoInstance =>
         local[c] \in Copies /\ local[c] \in Instance /\ Covers(flow, Emitted, local[c])
  BY DEF InductiveInvariant, TypeOK, Copies, CopyOK, AuditInv
<1>4. ASSUME NEW c \in Callers, NEW l, NEW copy, Goto(c, l, copy), flow' = flow,
             eventLog' = eventLog, store' \in Copies \/ Covers(flow, Emitted, store'),
             copy = NoInstance \/ Covers(flow, Emitted, copy)
      PROVE  AuditInv'
  <2>1. Emitted' = Emitted /\ Emitted' = Count(Emitted, l, FALSE)
    BY <1>2, <1>4 DEF Emitted, eventLog
  <2> QED BY <1>4, <2>1, AuditMoves
<1>5. ASSUME store # NoInstance
      PROVE  Covers(flow, Emitted, [store EXCEPT !.status = "running"])
  BY <1>2, <1>5, StatusOnly, CoversSame
<1>6. ASSUME NEW c \in Callers,
             Start(c) \/ RunUntilBlocked(c) \/ \E ev \in Events : Resume(c, ev)
      PROVE  AuditInv'
  <2>1. eventLog' = eventLog /\ flow' = flow
    BY <1>6 DEF Start, RunUntilBlocked, Resume, Call
  <2>2. CASE Start(c)
    <3>1. Covers(flow, Emitted, NewInstance(flow))
      <4>1. \A n \in flow.nodes : ConsumedAt(NewInstance(flow), n) = 0 /\ n \in NodeIds
        BY <1>2, NewConsumed DEF IsFlow
      <4> QED BY <1>2, <4>1 DEF Covers
    <3> QED BY <1>4, <2>1, <2>2, <3>1 DEF Start
  <2>3. CASE RunUntilBlocked(c)
    BY <1>2, <1>4, <2>1, <2>3 DEF RunUntilBlocked
  <2>4. CASE \E ev \in Events : Resume(c, ev)
    BY <1>2, <1>4, <1>5, <2>1, <2>4 DEF Resume
  <2> QED BY <1>6, <2>2, <2>3, <2>4
<1>7. ASSUME NEW c \in Callers, Advance(c) \/ Abort(c)
      PROVE  AuditInv'
  <2>0. flow' = flow
    BY <1>7 DEF Advance, MatchNext, MatchError, Load, ExecuteToken, Block, Save, Abort
  <2>1. CASE MatchNext(c)
    <3>1. PICK i \in NextMatch(flow, local[c], event[c]) : \E l :
             /\ Goto(c, l, ApplyEvent(flow, local[c], i))
             /\ EmitCompleted(local[c].tokens[i].node, TRUE)
      BY <2>1 DEF MatchNext
    <3>2. PICK l : Goto(c, l, ApplyEvent(flow, local[c], i))
      BY <3>1
    <3>3. pc[c] = "match" /\ store' = store
      BY <2>1 DEF MatchNext
    <3>4. Working(flow, local[c]) /\ local[c] # NoInstance
      BY <3>3, CallerCopy
    <3>5. Consumes(local[c], ApplyEvent(flow, local[c], i), {i})
      BY <1>2, <3>4, ApplyEventConsumes
    <3>6. /\ local[c] \in Instance /\ Covers(flow, Emitted, local[c])
          /\ Logs(flow, local[c], i, {i}, TRUE)
      BY <1>3, <3>4 DEF Logs
    <3>7. Covers(flow, Count(Emitted, local[c].tokens[i].node, TRUE), ApplyEvent(flow, local[c], i))
      BY <1>2, <3>5, <3>6, CoversConsumed
    <3>8. Emitted' = Count(Emitted, local[c].tokens[i].node, TRUE)
      BY <1>2, <3>1, EmitCounts
    <3> QED BY <1>2, <2>0, <3>2, <3>3, <3>7, <3>8, AuditMoves
  <2>2. CASE ExecuteToken(c)
    <3>1. PICK i \in FirstReady(local[c]) : \E o \in ExecuteReadyToken(flow, local[c], i) : \E l :
             Goto(c, l, o.inst) /\ EmitCompleted(local[c].tokens[i].node, o.done)
      BY <2>2 DEF ExecuteToken
    <3>2. PICK o \in ExecuteReadyToken(flow, local[c], i) : \E l :
             Goto(c, l, o.inst) /\ EmitCompleted(local[c].tokens[i].node, o.done)
      BY <3>1
    <3>3. PICK l : Goto(c, l, o.inst)
      BY <3>2
    <3>4. pc[c] = "loop" /\ store' = store /\ i \in WithStatus(local[c], "ready")
      BY <2>2 DEF ExecuteToken, FirstReady, First
    <3>5. Working(flow, local[c]) /\ local[c] # NoInstance
      BY <3>4, CallerCopy
    <3>6. PICK S \in {{}, {i}} : Took(flow, local[c], i, o, S)
      <4>1. Takes(flow, local[c], i, o)
        BY <1>2, <3>4, <3>5, ExecuteConsumes
      <4> QED BY <4>1 DEF Takes
    <3>7. Covers(flow, Count(Emitted, local[c].tokens[i].node, o.done), o.inst)
      <4>1. local[c] \in Instance /\ Covers(flow, Emitted, local[c]) /\ (S = {} \/ S = {i})
        BY <1>3, <3>5
      <4>2. /\ Consumes(local[c], o.inst, S)
            /\ Logs(flow, local[c], i, S, o.done)
        BY <3>6 DEF Took, Logs
      <4> QED BY <1>2, <4>1, <4>2, CoversConsumed
    <3>8. Emitted' = Count(Emitted, local[c].tokens[i].node, o.done)
      BY <1>2, <3>2, EmitCounts
    <3> QED BY <1>2, <2>0, <3>3, <3>4, <3>7, <3>8, AuditMoves
  <2>3. CASE Load(c)
    <3>1. CASE Terminal(store)
      BY <1>2, <1>4, <2>0, <2>3, <3>1 DEF Load, Return
    <3>2. CASE ~Terminal(store)
      <4>1. store # NoInstance
        BY <2>3, CallerCopy DEF Load
      <4> QED BY <1>2, <1>4, <1>5, <2>0, <2>3, <3>2, <4>1 DEF Load
    <3> QED BY <3>1, <3>2
  <2>4. CASE Block(c)
    <3>1. local[c] # NoInstance
      BY <2>4, CallerCopy DEF Block
    <3>2. Covers(flow, Emitted, FinalizeBlockedInstance(local[c]))
      BY <1>3, <3>1, StatusOnly, CoversSame DEF FinalizeBlockedInstance
    <3> QED BY <1>2, <1>4, <2>0, <2>4, <3>2 DEF Block
  <2>5. CASE Save(c)
    <3>1. local[c] # NoInstance /\ store' = local[c] /\ eventLog' = eventLog
      BY <2>5, CallerCopy DEF Save
    <3>2. PICK l, copy : copy \in {local[c], NoInstance} /\ Goto(c, l, copy)
      BY <2>5 DEF Save, Return
    <3> QED BY <1>3, <1>4, <2>0, <3>1, <3>2
  <2>6. CASE MatchError(c) \/ Abort(c)
    BY <1>2, <1>4, <2>0, <2>6 DEF MatchError, Abort, Return
  <2> QED BY <1>7, <2>1, <2>2, <2>3, <2>4, <2>5, <2>6 DEF Advance
<1> QED BY <1>1, <1>6, <1>7 DEF Next

\* Whatever calls overlap, are cut short or overwrite each other's saves, the log has a
\* completion for each token that was consumed where nothing can fail, but for the appends that failed.
THEOREM AuditMissesNothingHolds == Spec => []AuditMissesNothing
<1>1. Init => AuditInv
  BY DEF Init, AuditInv, Copies
<1>2. InductiveInvariant /\ AuditInv => AuditMissesNothing
  <2> SUFFICES ASSUME InductiveInvariant, AuditInv, store # NoInstance,
                      NEW n \in flow.nodes \ flow.fails, flow.kind[n] # "join"
               PROVE  ConsumedAt(store, n) <= audited[n] + lost[n]
    BY DEF AuditMissesNothing
  <2>1. n \in NodeIds
    BY FlowsAssumption DEF InductiveInvariant, TypeOK, IsFlow
  <2> QED BY <2>1 DEF AuditInv, Covers, Copies, Emitted
<1> QED BY InitInvariant, StepInvariant, <1>1, <1>2, AuditStep, PTL DEF Spec
-----------------------------------------------------------------------------
(***************************************************************************)
(* One caller at a time. Its copy is ahead of the stored instance by what  *)
(* the step it is about to save has done, and by no more: a call cut short *)
(* loses one effect at most, and a save takes nothing back.                *)
(***************************************************************************)
Continues(inst, next) ==
    \A i \in WithStatus(inst, "consumed") :
       i \in DOMAIN next.tokens /\ next.tokens[i] = inst.tokens[i]

\* The effects e at the nodes T are the tokens consumed there, and at most one more for each
\* of the a calls cut short.
Ran(T, inst, e, a) ==
    \A n \in T : /\ ConsumedAt(inst, n) <= e[n]
                 /\ e[n] <= ConsumedAt(inst, n) + a

\* The copy next of a caller at l continues inst, by one token at most where the caller is
\* about to save a step and by none elsewhere.
Follows(T, inst, next, l) ==
    /\ Continues(inst, next)
    /\ \A n \in T :
          \/ ConsumedAt(next, n) = ConsumedAt(inst, n)
          \/ ConsumedAt(next, n) = ConsumedAt(inst, n) + 1 /\ l \in {"saveStep", "saveFailed"}

OneInv(u) ==
    /\ store = NoInstance => \A n \in TaskNodes : effects[n] = 0
    /\ store # NoInstance => Ran(TaskNodes, View(u), effects, aborts)
    /\ local[u] # NoInstance => Follows(TaskNodes, store, local[u], pc[u])

LEMMA ConsumesContinues ==
    ASSUME NEW inst, NEW next, NEW other, NEW S,
           inst \in Instance, Continues(inst, next), Consumes(next, other, S)
    PROVE  Continues(inst, other)
<1> SUFFICES ASSUME NEW i \in WithStatus(inst, "consumed")
             PROVE  i \in DOMAIN other.tokens /\ other.tokens[i] = inst.tokens[i]
  BY DEF Continues
<1>1. /\ i \in DOMAIN inst.tokens /\ inst.tokens[i].status = "consumed"
      /\ i \in DOMAIN next.tokens /\ next.tokens[i] = inst.tokens[i]
  BY DEF Continues, WithStatus
<1>2. /\ i \in DOMAIN other.tokens /\ other.tokens[i].status = "consumed"
      /\ other.tokens[i].node = next.tokens[i].node
      /\ other.tokens[i].source = next.tokens[i].source
  BY <1>1 DEF Consumes, WithStatus
<1>3. other.tokens[i] \in Token /\ next.tokens[i] \in Token
  BY <1>1, <1>2, TokensSeq DEF Consumes
<1>4. \A t \in Token : t = [node |-> t.node, source |-> t.source, status |-> t.status]
  BY DEF Token
<1>5. other.tokens[i] = next.tokens[i]
  BY <1>1, <1>2, <1>3, <1>4
<1> QED BY <1>1, <1>2, <1>5

\* A copy of the same tokens follows what the original follows, with the same effects.
LEMMA SameFollows ==
    ASSUME NEW T, NEW inst, NEW next, NEW other, other.tokens = next.tokens, NEW l, NEW m, NEW e,
           NEW a
    PROVE  /\ Follows(T, inst, next, l) /\ l \notin {"saveStep", "saveFailed"} =>
                Follows(T, inst, other, m)
           /\ Ran(T, next, e, a) => Ran(T, other, e, a)
<1>1. \A n : ConsumedAt(other, n) = ConsumedAt(next, n)
  BY ConsumedSame
<1> QED BY <1>1 DEF Follows, Continues, Ran

\* An instance follows itself.
LEMMA FollowsItself ==
    ASSUME NEW T, NEW inst, NEW l
    PROVE  Follows(T, inst, inst, l)
BY DEF Follows, Continues, WithStatus

\* A step from a copy that is not ahead, which consumes token i or none, puts it ahead by one
\* at most, and by none where no node of T is concerned.
Level(T, inst, next) ==
    /\ Continues(inst, next)
    /\ \A n \in T : ConsumedAt(next, n) = ConsumedAt(inst, n)

LEMMA FollowsLevel ==
    ASSUME NEW T, NEW inst, NEW next
    PROVE  /\ Follows(T, inst, next, "match") => Level(T, inst, next)
           /\ Follows(T, inst, next, "loop") => Level(T, inst, next)
BY DEF Follows, Level

LEMMA ConsumesFollows ==
    ASSUME NEW T, NEW inst \in Instance, NEW next, NEW other, NEW i, NEW S, S = {} \/ S = {i},
           Level(T, inst, next), Consumes(next, other, S), NEW m
    PROVE  /\ m \in {"saveStep", "saveFailed"} => Follows(T, inst, other, m)
           /\ next.tokens[i].node \notin T => Follows(T, inst, other, m)
<1>1. Continues(inst, other)
  BY ConsumesContinues DEF Level
<1>2. ASSUME NEW n \in T
      PROVE  /\ ConsumedAt(other, n) \in {ConsumedAt(inst, n), ConsumedAt(inst, n) + 1}
             /\ next.tokens[i].node # n => ConsumedAt(other, n) = ConsumedAt(inst, n)
  <2>1. ConsumedAt(next, n) = ConsumedAt(inst, n)
    BY <1>2 DEF Level
  <2>2. /\ ConsumedAt(next, n) \in Nat /\ ConsumedAt(other, n) \in Nat
        /\ S = {i} /\ next.tokens[i].node = n => ConsumedAt(other, n) = ConsumedAt(next, n) + 1
        /\ S # {i} \/ next.tokens[i].node # n => ConsumedAt(other, n) = ConsumedAt(next, n)
    <3>1. CountsOne(next, other, i, S, n)
      BY ConsumedCounts
    <3> QED BY <3>1 DEF CountsOne
  <2> QED BY <1>2, <2>1, <2>2
<1> QED BY <1>1, <1>2 DEF Follows

\* A step that runs a node of T exactly where it consumes the token keeps the account.
LEMMA ConsumesRan ==
    ASSUME NEW T \in SUBSET NodeIds, NEW inst, NEW next, NEW i, NEW S, S = {} \/ S = {i},
           Consumes(inst, next, S), NEW e \in [NodeIds -> Nat], NEW a \in Nat, NEW b,
           Ran(T, inst, e, a), inst.tokens[i].node \in T => (b <=> S = {i})
    PROVE  Ran(T, next, Count(e, inst.tokens[i].node, b), a)
<1> DEFINE at == inst.tokens[i].node
<1> SUFFICES ASSUME NEW n \in T
             PROVE  /\ ConsumedAt(next, n) <= Count(e, at, b)[n]
                    /\ Count(e, at, b)[n] <= ConsumedAt(next, n) + a
  BY DEF Ran
<1>1. /\ e[n] \in Nat
      /\ ConsumedAt(inst, n) <= e[n] /\ e[n] <= ConsumedAt(inst, n) + a
  BY DEF Ran
<1>2. Count(e, at, b)[n] = e[n] + IF b /\ n = at THEN 1 ELSE 0
  BY CountGrows
<1>3. /\ ConsumedAt(inst, n) \in Nat /\ ConsumedAt(next, n) \in Nat
      /\ S = {i} /\ at = n => ConsumedAt(next, n) = ConsumedAt(inst, n) + 1
      /\ S # {i} \/ at # n => ConsumedAt(next, n) = ConsumedAt(inst, n)
  <2>1. CountsOne(inst, next, i, S, n)
    BY ConsumedCounts
  <2> QED BY <2>1 DEF CountsOne
<1> HIDE DEF at
<1>4. CASE n = at
  <2>1. at \in T /\ (b <=> S = {i})
    BY <1>4 DEF at
  <2>2. CASE b
    BY <1>1, <1>2, <1>3, <1>4, <2>1, <2>2
  <2>3. CASE ~b
    BY <1>1, <1>2, <1>3, <1>4, <2>1, <2>3
  <2> QED BY <2>2, <2>3
<1>5. CASE n # at
  BY <1>1, <1>2, <1>3, <1>5
<1> QED BY <1>4, <1>5

\* What a step must show: seen is what the caller sees after it.
LEMMA OneMoves ==
    ASSUME NEW u, Callers = {u}, InductiveInvariant, NEW l, NEW copy, Goto(u, l, copy),
           flow' = flow, store' # NoInstance,
           NEW seen, seen = IF copy = NoInstance THEN store' ELSE copy,
           Ran(TaskNodes, seen, effects', aborts'),
           copy = NoInstance \/ Follows(TaskNodes, store', copy, l)
    PROVE  OneInv(u)'
<1>1. pc'[u] = l /\ local'[u] = copy
  BY DEF Goto, InductiveInvariant, TypeOK
<1>2. TaskNodes' = TaskNodes
  BY DEF TaskNodes
<1>3. View(u)' = seen
  BY <1>1 DEF View
<1>4. Ran(TaskNodes, View(u), effects, aborts)'
  BY <1>2, <1>3
<1> QED BY <1>1, <1>2, <1>4 DEF OneInv

\* What is known of the one caller's copy, and of the stored instance beside it.
LEMMA OneFacts ==
    ASSUME NEW u, Callers = {u}, InductiveInvariant, OneInv(u)
    PROVE  /\ u \in Callers /\ IsFlow(flow) /\ aborts \in Nat /\ store \in Instance \cup {NoInstance}
           /\ TaskNodes \in SUBSET NodeIds /\ effects \in [NodeIds -> Nat]
           /\ store # NoInstance /\ local[u] = NoInstance => Ran(TaskNodes, store, effects, aborts)
           /\ local[u] # NoInstance => /\ store # NoInstance /\ local[u] \in Instance
                                       /\ Ran(TaskNodes, local[u], effects, aborts)
                                       /\ Follows(TaskNodes, store, local[u], pc[u])
           /\ pc[u] \in {"idle", "load"} => local[u] = NoInstance
           /\ pc[u] \in {"loop", "match"} \cup Saving => local[u] # NoInstance
           /\ pc[u] # "idle" => store # NoInstance
<1>1. u \in Callers
  OBVIOUS
<1>2. TypeOK /\ IsFlow(flow)
  BY FlowsAssumption DEF InductiveInvariant, TypeOK
<1>3. TaskNodes \in SUBSET NodeIds /\ effects \in [NodeIds -> Nat]
  BY <1>2 DEF TaskNodes, IsFlow, TypeOK
<1>4. /\ pc[u] \in {"idle", "load"} => local[u] = NoInstance
      /\ pc[u] \in {"loop", "match"} \cup Saving => local[u] # NoInstance
      /\ pc[u] # "idle" => store # NoInstance
      /\ local[u] # NoInstance => store # NoInstance /\ local[u] \in Instance
  BY <1>1, <1>2 DEF TypeOK, Saving
<1> QED BY <1>1, <1>2, <1>3, <1>4 DEF OneInv, View, TypeOK

\* A step that takes the stored instance as the caller's copy, marked running.
LEMMA OneTakes ==
    ASSUME NEW u, Callers = {u}, InductiveInvariant, OneInv(u), NEW l,
           Goto(u, l, [store EXCEPT !.status = "running"]), local[u] = NoInstance,
           store # NoInstance, UNCHANGED <<flow, store, aborts, effects>>
    PROVE  OneInv(u)'
<1>1. PICK copy : copy = [store EXCEPT !.status = "running"]
  OBVIOUS
<1>2. store \in Instance /\ Ran(TaskNodes, store, effects, aborts)
  BY OneFacts
<1>3. copy.tokens = store.tokens
  BY <1>1, <1>2, StatusOnly
<1>4. Follows(TaskNodes, store, copy, l)
  <2>1. \A n : ConsumedAt(copy, n) = ConsumedAt(store, n)
    BY <1>3, ConsumedSame
  <2> QED BY <1>3, <2>1 DEF Follows, Continues, WithStatus
<1>5. Ran(TaskNodes, copy, effects, aborts)
  BY <1>2, <1>3, SameFollows
<1>6. PICK seen : seen = IF copy = NoInstance THEN store' ELSE copy
  OBVIOUS
<1>7. Ran(TaskNodes, seen, effects', aborts') /\ Follows(TaskNodes, store', copy, l)
  BY <1>2, <1>4, <1>5, <1>6
<1> QED BY <1>1, <1>6, <1>7, OneMoves

LEMMA OneCalls ==
    ASSUME NEW u, Callers = {u}, InductiveInvariant, OneInv(u),
           Start(u) \/ RunUntilBlocked(u) \/ \E ev \in Events : Resume(u, ev)
    PROVE  OneInv(u)'
<1>1. /\ flow' = flow /\ aborts' = aborts /\ effects' = effects /\ pc[u] = "idle"
      /\ local[u] = NoInstance
  BY OneFacts DEF Start, RunUntilBlocked, Resume, Call
<1>2. CASE Start(u)
  <2>1. store' = NewInstance(flow) /\ Goto(u, "load", NoInstance) /\ store = NoInstance
    BY <1>2 DEF Start
  <2>2. PICK new : new = NewInstance(flow)
    OBVIOUS
  <2>3. store' = new /\ new # NoInstance
    BY <2>1, <2>2, OneFacts, NewInstanceOK, NoInstanceAssumption DEF CopyOK
  <2>4. aborts' \in Nat /\ IsFlow(flow) /\ \A n \in TaskNodes : effects'[n] = 0
    BY <1>1, <2>1, OneFacts DEF OneInv
  <2>5. \A n : ConsumedAt(new, n) = 0
    BY <2>2, <2>4, NewConsumed
  <2>6. Ran(TaskNodes, new, effects', aborts')
    BY <2>4, <2>5 DEF Ran
  <2> QED BY <1>1, <2>1, <2>3, <2>6, OneMoves
<1>3. CASE RunUntilBlocked(u)
  <2>1. PICK seen : seen = store
    OBVIOUS
  <2>2. store' = seen /\ Goto(u, "load", NoInstance) /\ seen # NoInstance
    BY <1>3, <2>1 DEF RunUntilBlocked
  <2>3. Ran(TaskNodes, seen, effects', aborts')
    BY <1>1, <2>1, <2>2, OneFacts
  <2> QED BY <1>1, <2>2, <2>3, OneMoves
<1>4. CASE \E ev \in Events : Resume(u, ev)
  <2>1. /\ store' = store /\ Goto(u, "match", [store EXCEPT !.status = "running"])
        /\ store # NoInstance
    BY <1>4 DEF Resume
  <2> QED BY <1>1, <2>1, OneTakes
<1> QED BY <1>2, <1>3, <1>4

\* A step that drops the caller's copy, at most one token ahead, for a call cut short or
\* none at all where it is not ahead.
LEMMA OneDrops ==
    ASSUME NEW u, Callers = {u}, InductiveInvariant, OneInv(u), NEW l,
           Goto(u, l, NoInstance), store # NoInstance, UNCHANGED <<flow, store, effects>>,
           \/ aborts' = aborts + 1
           \/ aborts' = aborts /\ pc[u] \notin {"saveStep", "saveFailed"}
    PROVE  OneInv(u)'
<1>1. PICK seen : seen = store
  OBVIOUS
<1>2. store' = seen /\ seen # NoInstance /\ seen \in Instance /\ aborts \in Nat
  BY <1>1, OneFacts
<1>3. Ran(TaskNodes, seen, effects', aborts')
  <2>1. CASE local[u] = NoInstance
    <3>1. Ran(TaskNodes, store, effects, aborts) /\ aborts \in Nat
      BY <2>1, OneFacts
    <3>2. \A n \in TaskNodes : effects[n] \in Nat /\ ConsumedAt(store, n) \in Nat
      BY <1>1, <1>2, OneFacts, ConsumedNat
    <3> QED BY <1>1, <3>1, <3>2 DEF Ran
  <2>2. CASE local[u] # NoInstance
    <3>1. /\ Ran(TaskNodes, local[u], effects, aborts) /\ local[u] \in Instance
          /\ Follows(TaskNodes, store, local[u], pc[u])
      BY <2>2, OneFacts
    <3>2. \A n \in TaskNodes : /\ effects[n] \in Nat /\ ConsumedAt(store, n) \in Nat
                               /\ ConsumedAt(local[u], n) \in Nat
      BY <1>1, <1>2, <3>1, OneFacts, ConsumedNat
    <3> QED BY <1>1, <1>2, <3>1, <3>2 DEF Ran, Follows
  <2> QED BY <2>1, <2>2
<1> QED BY <1>2, <1>3, OneMoves

LEMMA OneAdvances ==
    ASSUME NEW u, Callers = {u}, InductiveInvariant, OneInv(u), Advance(u) \/ Abort(u)
    PROVE  OneInv(u)'
<1>1. flow' = flow /\ store # NoInstance /\ u \in Callers
  BY OneFacts DEF Advance, MatchNext, MatchError, Load, ExecuteToken, Block, Save, Abort, Saving
<1>2. CASE MatchNext(u)
  <2>1. PICK i \in NextMatch(flow, local[u], event[u]) : \E l :
           Goto(u, l, ApplyEvent(flow, local[u], i)) /\ l \in {"match", "saveResumed"}
    BY <1>2 DEF MatchNext
  <2>2. PICK l : Goto(u, l, ApplyEvent(flow, local[u], i)) /\ l \in {"match", "saveResumed"}
    BY <2>1
  <2>3. pc[u] = "match" /\ UNCHANGED <<store, effects, aborts>>
    BY <1>2 DEF MatchNext
  <2>4. Working(flow, local[u]) /\ local[u] # NoInstance
    BY <1>1, <2>3, CallerCopy
  <2>5. /\ Ran(TaskNodes, local[u], effects, aborts) /\ Follows(TaskNodes, store, local[u], "match")
        /\ store \in Instance
    BY <1>1, <2>3, <2>4, OneFacts
  <2>6. PICK next : next = ApplyEvent(flow, local[u], i)
    OBVIOUS
  <2>7. Consumes(local[u], next, {i}) /\ local[u].tokens[i].node \notin TaskNodes
    <3>1. Consumes(local[u], next, {i}) /\ flow.kind[local[u].tokens[i].node] = "wait"
      BY <2>4, <2>6, OneFacts, ApplyEventConsumes
    <3> QED BY <3>1 DEF TaskNodes
  <2>8. Follows(TaskNodes, store, next, l)
    BY <2>5, <2>7, FollowsLevel, ConsumesFollows
  <2>9. Ran(TaskNodes, next, effects, aborts)
    <3>1. Ran(TaskNodes, next, Count(effects, local[u].tokens[i].node, FALSE), aborts)
      BY <2>5, <2>7, OneFacts, ConsumesRan
    <3> QED BY <3>1 DEF Count
  <2>10. PICK seen : seen = IF next = NoInstance THEN store' ELSE next
    OBVIOUS
  <2>11. next # NoInstance
    BY <2>7, NoInstanceAssumption DEF Consumes
  <2>12. Ran(TaskNodes, seen, effects', aborts') /\ Follows(TaskNodes, store', next, l)
    BY <2>3, <2>8, <2>9, <2>10, <2>11
  <2> QED BY <1>1, <2>2, <2>3, <2>6, <2>10, <2>12, OneMoves
<1>3. CASE ExecuteToken(u)
  <2>1. PICK i \in FirstReady(local[u]) : \E o \in ExecuteReadyToken(flow, local[u], i) : \E l :
           /\ Goto(u, l, o.inst) /\ l \in {"saveStep", "saveFailed"}
           /\ effects' = Count(effects, local[u].tokens[i].node, o.ran)
    BY <1>3 DEF ExecuteToken
  <2>2. PICK o \in ExecuteReadyToken(flow, local[u], i) : \E l :
           /\ Goto(u, l, o.inst) /\ l \in {"saveStep", "saveFailed"}
           /\ effects' = Count(effects, local[u].tokens[i].node, o.ran)
    BY <2>1
  <2>3. PICK l : /\ Goto(u, l, o.inst) /\ l \in {"saveStep", "saveFailed"}
                 /\ effects' = Count(effects, local[u].tokens[i].node, o.ran)
    BY <2>2
  <2>4. pc[u] = "loop" /\ UNCHANGED <<store, aborts>> /\ i \in WithStatus(local[u], "ready")
    BY <1>3 DEF ExecuteToken, FirstReady, First
  <2>5. Working(flow, local[u]) /\ local[u] # NoInstance
    BY <1>1, <2>4, CallerCopy
  <2>6. PICK S \in {{}, {i}} : Took(flow, local[u], i, o, S)
    <3>1. Takes(flow, local[u], i, o)
      BY <2>4, <2>5, OneFacts, ExecuteConsumes
    <3> QED BY <3>1 DEF Takes
  <2>7. /\ Ran(TaskNodes, local[u], effects, aborts) /\ Follows(TaskNodes, store, local[u], "loop")
        /\ store \in Instance
    BY <1>1, <2>4, <2>5, OneFacts
  <2>8. /\ Consumes(local[u], o.inst, S) /\ (S = {} \/ S = {i})
        /\ local[u].tokens[i].node \in TaskNodes => (o.ran <=> S = {i})
    BY <2>6 DEF Took, TaskNodes
  <2>9. Follows(TaskNodes, store, o.inst, l)
    BY <2>3, <2>7, <2>8, FollowsLevel, ConsumesFollows
  <2>10. Ran(TaskNodes, o.inst, Count(effects, local[u].tokens[i].node, o.ran), aborts)
    BY <2>7, <2>8, OneFacts, ConsumesRan
  <2>11. o.inst # NoInstance
    BY <2>8, NoInstanceAssumption DEF Consumes
  <2>12. PICK seen : seen = IF o.inst = NoInstance THEN store' ELSE o.inst
    OBVIOUS
  <2>13. Ran(TaskNodes, seen, effects', aborts') /\ Follows(TaskNodes, store', o.inst, l)
    BY <2>3, <2>4, <2>9, <2>10, <2>11, <2>12
  <2> QED BY <1>1, <2>3, <2>4, <2>12, <2>13, OneMoves
<1>4. CASE Load(u)
  <2>1. pc[u] = "load" /\ UNCHANGED <<flow, store, aborts, effects>>
    BY <1>4 DEF Load
  <2>2. CASE Terminal(store)
    <3>1. Goto(u, "idle", NoInstance)
      BY <1>4, <2>2 DEF Load, Return
    <3> QED BY <1>1, <2>1, <3>1, OneDrops
  <2>3. CASE ~Terminal(store)
    <3>1. Goto(u, "loop", [store EXCEPT !.status = "running"]) /\ local[u] = NoInstance
      BY <1>4, <2>1, <2>3, OneFacts DEF Load
    <3> QED BY <1>1, <2>1, <3>1, OneTakes
  <2> QED BY <2>2, <2>3
<1>5. CASE Block(u)
  <2>1. /\ pc[u] = "loop" /\ UNCHANGED <<store, effects, aborts>>
        /\ Goto(u, "saveBlocked", FinalizeBlockedInstance(local[u]))
    BY <1>5 DEF Block
  <2>2. /\ Ran(TaskNodes, local[u], effects, aborts) /\ Follows(TaskNodes, store, local[u], "loop")
        /\ local[u] \in Instance
    BY <2>1, OneFacts
  <2>3. PICK next : next = FinalizeBlockedInstance(local[u])
    OBVIOUS
  <2>4. next.tokens = local[u].tokens
    BY <2>2, <2>3, StatusOnly DEF FinalizeBlockedInstance
  <2>5. Ran(TaskNodes, next, effects, aborts) /\ Follows(TaskNodes, store, next, "saveBlocked")
    BY <2>2, <2>4, SameFollows
  <2>6. Working(flow, local[u]) /\ IsFlow(flow)
    BY <1>1, <2>1, CallerCopy, OneFacts
  <2>7. next # NoInstance
    <3>1. CopyOK(flow, next)
      BY <1>5, <2>3, <2>6, FinalizeOK DEF Block, Working
    <3> QED BY <3>1, NoInstanceAssumption DEF CopyOK
  <2>8. PICK seen : seen = IF next = NoInstance THEN store' ELSE next
    OBVIOUS
  <2>9. Ran(TaskNodes, seen, effects', aborts') /\ Follows(TaskNodes, store', next, "saveBlocked")
    BY <2>1, <2>5, <2>7, <2>8
  <2> QED BY <1>1, <2>1, <2>3, <2>8, <2>9, OneMoves
<1>6. CASE Save(u)
  <2>1. /\ pc[u] \in Saving /\ store' = local[u] /\ UNCHANGED <<effects, aborts>>
    BY <1>6 DEF Save
  <2>2. PICK seen : seen = local[u]
    OBVIOUS
  <2>3. PICK l, copy : copy \in {seen, NoInstance} /\ Goto(u, l, copy)
    BY <1>6, <2>2 DEF Save, Return
  <2>4. store' = seen /\ seen # NoInstance /\ Ran(TaskNodes, seen, effects', aborts')
    BY <2>1, <2>2, OneFacts
  <2>5. Follows(TaskNodes, seen, seen, l)
    BY FollowsItself
  <2>6. copy = NoInstance \/ Follows(TaskNodes, store', copy, l)
    BY <2>3, <2>4, <2>5
  <2> QED BY <1>1, <2>3, <2>4, <2>6, OneMoves
<1>7. CASE MatchError(u)
  <2>1. /\ pc[u] = "match" /\ UNCHANGED <<store, effects, aborts>> /\ Goto(u, "idle", NoInstance)
    BY <1>7 DEF MatchError, Return
  <2> QED BY <1>1, <2>1, OneDrops
<1>8. CASE Abort(u)
  <2>1. UNCHANGED <<store, effects>> /\ aborts' = aborts + 1 /\ Goto(u, "idle", NoInstance)
    BY <1>8 DEF Abort, Return
  <2> QED BY <1>1, <2>1, OneDrops
<1> QED BY <1>2, <1>3, <1>4, <1>5, <1>6, <1>7, <1>8 DEF Advance

LEMMA OneStep ==
    ASSUME NEW u, Callers = {u}
    PROVE  InductiveInvariant /\ OneInv(u) /\ [Next]_vars => OneInv(u)'
<1> SUFFICES ASSUME InductiveInvariant, OneInv(u), [Next]_vars
             PROVE  OneInv(u)'
  OBVIOUS
<1>1. CASE UNCHANGED vars
  <2>1. TaskNodes' = TaskNodes /\ View(u)' = View(u)
    BY <1>1 DEF vars, TaskNodes, View
  <2> QED BY <1>1, <2>1 DEF vars, OneInv
<1>2. CASE Next
  <2>1. PICK c \in Callers : \/ Start(c) \/ RunUntilBlocked(c) \/ \E ev \in Events : Resume(c, ev)
                             \/ Advance(c) \/ Abort(c)
    BY <1>2 DEF Next
  <2>2. c = u
    OBVIOUS
  <2> QED BY <2>1, <2>2, OneCalls, OneAdvances
<1> QED BY <1>1, <1>2

\* With one caller at a time a task runs once for each token it consumes, and once more
\* for each call cut short before its save, for every flow and however calls are cut short.
THEOREM EffectsAccountedHolds ==
    ASSUME NEW u, Callers = {u}
    PROVE  Spec => []EffectsAccounted
<1>1. Init => OneInv(u)
  BY FlowsAssumption DEF Init, OneInv, TaskNodes, IsFlow
<1>2. InductiveInvariant /\ OneInv(u) => EffectsAccounted
  <2> SUFFICES ASSUME InductiveInvariant, OneInv(u), NEW c \in Callers, View(c) # NoInstance
               PROVE  Ran(TaskNodes, View(c), effects, aborts)
    BY DEF EffectsAccounted, Ran
  <2>1. c = u /\ store # NoInstance
    BY OneFacts DEF View
  <2> QED BY <2>1 DEF OneInv
<1> QED BY InitInvariant, StepInvariant, <1>1, <1>2, OneStep, PTL DEF Spec

\* With one caller at a time a save never takes back a token the stored instance has
\* consumed: the copy saved goes on from the instance it was taken from.
THEOREM ConsumedIsFinalHolds ==
    ASSUME NEW u, Callers = {u}
    PROVE  Spec => ConsumedIsFinal
<1>1. Init => OneInv(u)
  BY FlowsAssumption DEF Init, OneInv, TaskNodes, IsFlow
<1>2. ASSUME InductiveInvariant, OneInv(u), [Next]_vars, store' # store, store # NoInstance
      PROVE  Continues(store, store')
  <2>1. PICK c \in Callers : \/ Start(c) \/ RunUntilBlocked(c) \/ \E ev \in Events : Resume(c, ev)
                             \/ Advance(c) \/ Abort(c)
    BY <1>2 DEF Next, vars
  <2>2. Save(c)
    BY <1>2, <2>1 DEF Start, RunUntilBlocked, Resume, Advance, MatchNext, MatchError, Load,
                      ExecuteToken, Block, Abort
  <2>3. c = u /\ store' = local[u] /\ pc[u] \in Saving
    BY <2>2 DEF Save
  <2>4. Follows(TaskNodes, store, local[u], pc[u])
    BY <1>2, <2>3, OneFacts
  <2> QED BY <2>3, <2>4 DEF Follows
<1>3. InductiveInvariant /\ OneInv(u) /\ [Next]_vars =>
         [store # NoInstance =>
            \A i \in WithStatus(store, "consumed") :
               /\ i \in DOMAIN store'.tokens
               /\ store'.tokens[i] = store.tokens[i]]_store
  BY <1>2 DEF Continues
<1> QED BY InitInvariant, StepInvariant, <1>1, <1>3, OneStep, PTL DEF Spec, ConsumedIsFinal

-----------------------------------------------------------------------------
(* Counting.                                                               *)

LEMMA BijectionMeans ==
    ASSUME NEW A, NEW B, NEW g
    PROVE  g \in Bijection(A, B) <=> /\ g \in [A -> B]
                                     /\ \A a, b \in A : g[a] = g[b] => a = b
                                     /\ \A y \in B : \E a \in A : g[a] = y
<1>1. g \in [A -> B] => (IsInjective(g) <=> \A a, b \in A : g[a] = g[b] => a = b)
  BY DEF IsInjective
<1> QED BY <1>1 DEF Bijection, Injection, Surjection

\* The members of A that f takes to q.
Having(A, f, q) == { x \in A : f[x] = q }

\* g pairs the members of A and B, and f and h agree on a pair.
Pairs(g, A, f, B, h) ==
    g \in Bijection(A, B) /\ \A x \in A : h[g[x]] = f[x]

LEMMA SameCount ==
    ASSUME NEW A, NEW B, NEW f, NEW h, NEW g, Pairs(g, A, f, B, h), NEW q,
           IsFiniteSet(Having(A, f, q))
    PROVE  Cardinality(Having(B, h, q)) = Cardinality(Having(A, f, q))
<1> DEFINE S == Having(A, f, q)
           T == Having(B, h, q)
           r == [ x \in S |-> g[x] ]
<1>1. /\ g \in [A -> B] /\ \A a, b \in A : g[a] = g[b] => a = b
      /\ \A t \in B : \E s \in A : g[s] = t
  BY BijectionMeans DEF Pairs
<1>2. r \in [S -> T] /\ \A a, b \in S : r[a] = r[b] => a = b
  BY <1>1 DEF Having, Pairs
<1>3. \A t \in T : \E s \in S : r[s] = t
  <2> TAKE t \in T
  <2>1. PICK s \in A : g[s] = t
    BY <1>1 DEF Having
  <2>2. s \in S
    BY <2>1 DEF Having, Pairs
  <2> QED BY <2>1, <2>2
<1>4. ExistsBijection(S, T)
  <2>1. r \in Bijection(S, T)
    <3> HIDE DEF r, S, T
    <3> QED BY <1>2, <1>3, BijectionMeans
  <2> QED BY <2>1 DEF ExistsBijection
<1> QED BY <1>4, FS_Bijection

\* Which members of a sequence are q, and how many.
AtPlace(s, q) == Having(DOMAIN s, s, q)
Number(s, q)  == Cardinality(AtPlace(s, q))

LEMMA NumberNat ==
    ASSUME NEW s \in Seq(Token), NEW q
    PROVE  /\ IsFiniteSet(AtPlace(s, q)) /\ Number(s, q) \in Nat
           /\ Number(s, q) > 0 <=> AtPlace(s, q) # {}
<1>1. Len(s) \in Nat /\ DOMAIN s = 1..Len(s) /\ IsFiniteSet(1..Len(s))
  BY LenProperties, FS_Interval
<1>2. IsFiniteSet(AtPlace(s, q))
  BY <1>1, FS_Subset DEF AtPlace, Having
<1>3. PICK n : n = Cardinality(AtPlace(s, q))
  OBVIOUS
<1>4. n \in Nat /\ (n = 0 <=> AtPlace(s, q) = {})
  BY <1>2, <1>3, FS_CardinalityType, FS_EmptySet
<1> QED BY <1>2, <1>3, <1>4 DEF Number

\* t is s with another token at i, and with those of new appended.
Replaces(s, t, i, new) ==
    /\ s \in Seq(Token) /\ t \in Seq(Token) /\ new \in Seq(Token)
    /\ i \in DOMAIN s
    /\ Len(t) = Len(s) + Len(new)
    /\ \A j \in 1..Len(s) : j # i => t[j] = s[j]
    /\ \A k \in 1..Len(new) : t[Len(s) + k] = new[k]

\* What lies in t behind l is new.
Appended(t, l, new) ==
    /\ t \in Seq(Token) /\ new \in Seq(Token) /\ l \in Nat
    /\ Len(t) = l + Len(new)
    /\ \A k \in 1..Len(new) : t[l + k] = new[k]

LEMMA NumberAppended ==
    ASSUME NEW t, NEW l, NEW new, Appended(t, l, new), NEW q
    PROVE  Cardinality(Having((l + 1)..Len(t), t, q)) = Number(new, q)
<1>1. /\ Len(new) \in Nat /\ DOMAIN new = 1..Len(new) /\ IsFiniteSet(1..Len(new)) /\ Len(t) \in Nat
      /\ l \in Nat /\ Len(t) = l + Len(new)
  BY LenProperties, FS_Interval DEF Appended
<1> DEFINE g == [ k \in 1..Len(new) |-> l + k ]
           B == (l + 1)..Len(t)
<1>2. g \in Bijection(1..Len(new), B)
  <2>1. g \in [1..Len(new) -> B]
    BY <1>1
  <2>2. \A a, b \in 1..Len(new) : g[a] = g[b] => a = b
    BY <1>1
  <2>3. \A j \in B : \E k \in 1..Len(new) : g[k] = j
    <3> TAKE j \in B
    <3>1. j - l \in 1..Len(new) /\ l + (j - l) = j
      BY <1>1
    <3> QED BY <3>1
  <2> HIDE DEF g, B
  <2> QED BY <2>1, <2>2, <2>3, BijectionMeans
<1>3. \A k \in 1..Len(new) : t[g[k]] = new[k]
  BY DEF Appended
<1>4. Cardinality(Having(B, t, q)) = Cardinality(Having(1..Len(new), new, q))
  <2> HIDE DEF g, B
  <2>1. PICK D : D = 1..Len(new)
    OBVIOUS
  <2>2. Pairs(g, D, new, B, t)
    BY <1>1, <1>2, <1>3, <2>1 DEF Pairs
  <2>3. IsFiniteSet(Having(D, new, q))
    BY <1>1, <2>1, FS_Subset DEF Having
  <2>4. Cardinality(Having(B, t, q)) = Cardinality(Having(D, new, q))
    BY <2>2, <2>3, SameCount
  <2> QED BY <2>1, <2>4
<1> QED BY <1>1, <1>4 DEF B, Number, AtPlace

\* 1 if the place is q.
OneAt(p, q) == IF p = q THEN 1 ELSE 0

\* The number of q changes by what is replaced, what replaces it, and what is appended.
LEMMA ReplacesCounts ==
    ASSUME NEW s, NEW t, NEW i, NEW new, Replaces(s, t, i, new), NEW q
    PROVE  Number(t, q) = Number(s, q) - OneAt(s[i], q) + OneAt(t[i], q) + Number(new, q)
<1>1. /\ s \in Seq(Token) /\ t \in Seq(Token) /\ new \in Seq(Token)
      /\ Len(s) \in Nat /\ DOMAIN s = 1..Len(s) /\ i \in 1..Len(s) /\ DOMAIN t = 1..Len(t)
      /\ Len(new) \in Nat /\ Len(t) = Len(s) + Len(new)
  BY LenProperties DEF Replaces
<1> DEFINE kept == { j \in 1..Len(s) : j # i /\ s[j] = q }
           more == Having((Len(s) + 1)..Len(t), t, q)
<1>2. AtPlace(s, q) \ {i} = kept /\ AtPlace(t, q) \ {i} = kept \cup more /\ kept \cap more = {}
  <2>1. PICK S, M, T : S = 1..Len(s) /\ M = (Len(s) + 1)..Len(t) /\ T = 1..Len(t)
    OBVIOUS
  <2>2. S \cup M = T /\ S \cap M = {} /\ i \in S
    BY <1>1, <2>1
  <2>3. \A j \in S : j # i => t[j] = s[j]
    BY <2>1 DEF Replaces
  <2>4. AtPlace(s, q) = Having(S, s, q) /\ AtPlace(t, q) = Having(T, t, q) /\ more = Having(M, t, q)
    BY <1>1, <2>1 DEF AtPlace
  <2>5. kept = { j \in S : j # i /\ s[j] = q }
    BY <2>1
  <2> HIDE DEF kept, more
  <2> QED BY <2>2, <2>3, <2>4, <2>5 DEF Having
<1>3. Cardinality(more) = Number(new, q) /\ IsFiniteSet(more)
  <2>1. Cardinality(more) = Number(new, q)
    <3>1. Appended(t, Len(s), new)
      BY <1>1 DEF Replaces, Appended
    <3> QED BY <3>1, NumberAppended
  <2>2. IsFiniteSet((Len(s) + 1)..Len(t))
    BY <1>1, FS_Interval
  <2> QED BY <2>1, <2>2, FS_Subset DEF Having
<1>4. IsFiniteSet(kept)
  <2>1. IsFiniteSet(1..Len(s))
    BY <1>1, FS_Interval
  <2> QED BY <2>1, FS_Subset
<1>5. Cardinality(kept \cup more) = Cardinality(kept) + Cardinality(more)
  <2>1. IsFiniteSet(kept \cup more)
        /\ Cardinality(kept \cup more)
              = Cardinality(kept) + Cardinality(more) - Cardinality(kept \cap more)
    <3> HIDE DEF kept, more
    <3> QED BY <1>3, <1>4, FS_Union
  <2>2. Cardinality(kept) \in Nat /\ Cardinality(more) \in Nat
    BY <1>3, <1>4, FS_CardinalityType
  <2>3. Cardinality(kept \cap more) = 0
    BY <1>2, FS_EmptySet
  <2> QED BY <2>1, <2>2, <2>3
<1> HIDE DEF kept, more
<1>6. Cardinality(kept) = Number(s, q) - OneAt(s[i], q)
  <2>1. IsFiniteSet(AtPlace(s, q)) /\ Number(s, q) \in Nat
    BY <1>1, NumberNat
  <2>2. Cardinality(AtPlace(s, q) \ {i})
           = IF i \in AtPlace(s, q) THEN Number(s, q) - 1 ELSE Number(s, q)
    BY <2>1, FS_RemoveElement DEF Number
  <2>3. i \in AtPlace(s, q) <=> s[i] = q
    BY <1>1 DEF AtPlace, Having
  <2> QED BY <1>2, <2>1, <2>2, <2>3 DEF OneAt
<1>7. Cardinality(kept \cup more) = Number(t, q) - OneAt(t[i], q) /\ Number(t, q) \in Nat
  <2>0. i \in 1..Len(t)
    BY <1>1
  <2>1. IsFiniteSet(AtPlace(t, q)) /\ Number(t, q) \in Nat
    BY <1>1, NumberNat
  <2>2. Cardinality(AtPlace(t, q) \ {i})
           = IF i \in AtPlace(t, q) THEN Number(t, q) - 1 ELSE Number(t, q)
    BY <2>1, FS_RemoveElement DEF Number
  <2>3. i \in AtPlace(t, q) <=> t[i] = q
    BY <1>1, <2>0 DEF AtPlace, Having
  <2>4. OneAt(t[i], q) = IF i \in AtPlace(t, q) THEN 1 ELSE 0
    BY <2>3 DEF OneAt
  <2>5. PICK x, y : x = Number(t, q) /\ y = OneAt(t[i], q)
    OBVIOUS
  <2> QED BY <1>2, <2>1, <2>2, <2>4, <2>5
<1>8. Number(s, q) \in Nat /\ Number(new, q) \in Nat /\ OneAt(s[i], q) \in Nat /\ OneAt(t[i], q) \in Nat
  <2>1. Number(s, q) \in Nat /\ Number(new, q) \in Nat
    BY <1>1, NumberNat
  <2> QED BY <2>1 DEF OneAt
<1> QED BY <1>3, <1>5, <1>6, <1>7, <1>8

-----------------------------------------------------------------------------
(* What an update of an instance does to the tokens that live in it.       *)

Tallied(new) == [ q \in LiveToken |-> Number(new, q) ]
NoGain       == [ q \in LiveToken |-> 0 ]
OneGain(p)   == [ q \in LiveToken |-> OneAt(p, q) ]

\* Of t there are as many as of s, but for a p that is gone and what was gained.
Spends(s, t, p, gain) ==
    /\ s \in Seq(Token) /\ t \in Seq(Token) /\ p \in LiveToken
    /\ AtPlace(s, p) # {}
    /\ \A q \in LiveToken : Number(t, q) = Number(s, q) - OneAt(p, q) + gain[q]

LEMMA EmptyNumber == \A q : Number(<<>>, q) = 0
<1> TAKE q
<1>1. AtPlace(<<>>, q) = {}
  BY DEF AtPlace, Having
<1> QED BY <1>1, FS_EmptySet DEF Number

\* A token that died is spent for what was appended, one that waits for itself.
LEMMA ReplacesSpends ==
    ASSUME NEW s, NEW t, NEW i, NEW new, Replaces(s, t, i, new), s[i] \in LiveToken
    PROVE  /\ t[i] \notin LiveToken => Spends(s, t, s[i], Tallied(new))
           /\ t[i] \notin LiveToken /\ new = <<>> => Spends(s, t, s[i], NoGain)
           /\ t[i] \in LiveToken /\ new = <<>> => Spends(s, t, s[i], OneGain(t[i]))
<1>1. s \in Seq(Token) /\ t \in Seq(Token) /\ new \in Seq(Token) /\ i \in AtPlace(s, s[i])
  BY DEF Replaces, AtPlace, Having
<1>2. ASSUME NEW q \in LiveToken
      PROVE  /\ Number(t, q) = Number(s, q) - OneAt(s[i], q) + OneAt(t[i], q) + Number(new, q)
             /\ Number(s, q) \in Nat /\ Number(new, q) \in Nat
             /\ OneAt(s[i], q) \in Nat /\ OneAt(t[i], q) \in Nat
  <2>1. Number(t, q) = Number(s, q) - OneAt(s[i], q) + OneAt(t[i], q) + Number(new, q)
    BY ReplacesCounts
  <2>2. Number(s, q) \in Nat /\ Number(new, q) \in Nat
    BY <1>1, NumberNat
  <2> QED BY <2>1, <2>2 DEF OneAt
<1>3. CASE t[i] \notin LiveToken
  <2>1. \A q \in LiveToken : OneAt(t[i], q) = 0
    BY <1>3 DEF OneAt
  <2>2. \A q \in LiveToken : Number(t, q) = Number(s, q) - OneAt(s[i], q) + Number(new, q)
    <3> TAKE q \in LiveToken
    <3> QED BY <1>2, <2>1
  <2>3. new = <<>> => \A q \in LiveToken : Number(new, q) = 0
    BY EmptyNumber
  <2> QED BY <1>1, <1>3, <2>2, <2>3 DEF Spends, Tallied, NoGain
<1>4. CASE t[i] \in LiveToken /\ new = <<>>
  <2>1. \A q \in LiveToken : Number(new, q) = 0
    BY <1>4, EmptyNumber
  <2>2. \A q \in LiveToken : Number(t, q) = Number(s, q) - OneAt(s[i], q) + OneAt(t[i], q)
    <3> TAKE q \in LiveToken
    <3> QED BY <1>2, <2>1
  <2> QED BY <1>1, <1>4, <2>2 DEF Spends, OneGain
<1> QED BY <1>3, <1>4

LEMMA TokenIs == \A t \in Token : t = [node |-> t.node, source |-> t.source, status |-> t.status]
BY DEF Token

\* A token among others is its own place while it is ready or waits.
LEMMA LivesWhile ==
    ASSUME NEW t \in Token
    PROVE  t \in LiveToken <=> t.status \in {"ready", "waiting"}
BY DEF Token, LiveToken

\* Token p with another status.
Turned(p, st) == [p EXCEPT !.status = st]

LEMMA MovedReplaces ==
    ASSUME NEW inst, NEW next, NEW i \in DOMAIN inst.tokens, NEW st \in TokenStatus, NEW source,
           Moved(inst, next, i, st, source, 0)
    PROVE  /\ Replaces(inst.tokens, next.tokens, i, <<>>)
           /\ next.tokens[i] = Turned(inst.tokens[i], st)
<1>1. inst \in Instance /\ next \in Instance
  BY DEF Moved
<1>2. PICK s, t, l : s = inst.tokens /\ t = next.tokens /\ l = Len(s)
  OBVIOUS
<1>3. /\ s \in Seq(Token) /\ t \in Seq(Token) /\ l \in Nat /\ DOMAIN s = 1..l
      /\ \A j \in 1..l : s[j] \in Token
      /\ \A j \in 1..Len(t) : t[j] \in Token
  BY <1>1, <1>2, TokensSeq
<1>4. /\ Len(t) = l
      /\ \A j \in 1..l : /\ t[j].node = s[j].node /\ t[j].source = s[j].source
                         /\ t[j].status = IF j = i THEN st ELSE s[j].status
  BY <1>2, <1>3 DEF Moved
<1>5. \A j \in 1..l : j # i => t[j] = s[j]
  BY <1>3, <1>4, TokenIs
<1>6. t[i] = Turned(s[i], st)
  <2>1. i \in 1..l /\ t[i] \in Token /\ s[i] \in Token
    BY <1>2, <1>3, <1>4
  <2>2. Turned(s[i], st) = [node |-> s[i].node, source |-> s[i].source, status |-> st]
    BY <2>1 DEF Token, Turned
  <2> QED BY <1>4, <2>1, <2>2, TokenIs
<1>7. <<>> \in Seq(Token) /\ Len(<<>>) = 0 /\ \A k \in 1..Len(<<>>) : FALSE
  OBVIOUS
<1>8. Replaces(s, t, i, <<>>)
  BY <1>2, <1>3, <1>4, <1>5, <1>7 DEF Replaces
<1> QED BY <1>2, <1>6, <1>8

LEMMA CompleteReplaces ==
    ASSUME NEW inst \in Instance, NEW i \in DOMAIN inst.tokens, NEW list \in Seq(NodeIds)
    PROVE  /\ Replaces(inst.tokens, CompleteNode(inst, i, list).tokens, i,
                       NewTokens(inst.tokens[i].node, list))
           /\ CompleteNode(inst, i, list).tokens[i] = Turned(inst.tokens[i], "consumed")
<1>1. PICK marked, n, new : /\ marked = Mark(inst, i, "consumed", "completed")
                            /\ n = inst.tokens[i].node /\ new = NewTokens(n, list)
  OBVIOUS
<1>2. n \in NodeIds /\ "consumed" \in TokenStatus /\ "completed" \in NodeStatus
  BY <1>1, TokensSeq DEF Token, TokenStatus, NodeStatus
<1>3. Moved(inst, marked, i, "consumed", n, 0)
  BY <1>1, <1>2, MarkMoves
<1>4. /\ Replaces(inst.tokens, marked.tokens, i, <<>>)
      /\ marked.tokens[i] = Turned(inst.tokens[i], "consumed")
  BY <1>2, <1>3, MovedReplaces
<1>5. new \in Seq(Token) /\ marked \in Instance
  BY <1>1, <1>2, <1>3, NewTokensSeq DEF Moved
<1>6. CompleteNode(inst, i, list).tokens = marked.tokens \o new
  BY <1>1, <1>5 DEF CompleteNode, AppendNextTokens, Instance
<1>7. PICK s, t, u : s = inst.tokens /\ t = marked.tokens /\ u = t \o new
  OBVIOUS
<1>8. /\ s \in Seq(Token) /\ t \in Seq(Token) /\ Len(t) = Len(s) /\ Len(s) \in Nat /\ i \in 1..Len(s)
      /\ \A j \in 1..Len(s) : j # i => t[j] = s[j]
  BY <1>4, <1>7, LenProperties DEF Replaces
<1>9. /\ u \in Seq(Token) /\ Len(u) = Len(t) + Len(new) /\ Len(new) \in Nat
      /\ \A j \in 1..Len(u) : u[j] = IF j <= Len(t) THEN t[j] ELSE new[j - Len(t)]
  <2>1. \A s1, s2 \in Seq(Token) :
           /\ s1 \o s2 \in Seq(Token)
           /\ Len(s1 \o s2) = Len(s1) + Len(s2)
           /\ \A j \in 1..(Len(s1) + Len(s2)) :
                 (s1 \o s2)[j] = IF j <= Len(s1) THEN s1[j] ELSE s2[j - Len(s1)]
    BY ConcatProperties, Zenon
  <2>2. /\ t \o new \in Seq(Token) /\ Len(t \o new) = Len(t) + Len(new)
        /\ \A j \in 1..(Len(t) + Len(new)) :
              (t \o new)[j] = IF j <= Len(t) THEN t[j] ELSE new[j - Len(t)]
    BY <1>5, <1>8, <2>1, Zenon
  <2>3. Len(new) \in Nat
    BY <1>5, LenProperties
  <2> QED BY <1>7, <2>2, <2>3
<1>10. \A j \in 1..Len(s) : u[j] = t[j]
  <2> TAKE j \in 1..Len(s)
  <2>1. j \in 1..Len(u) /\ j <= Len(t)
    BY <1>8, <1>9
  <2> QED BY <1>9, <2>1
<1>11. \A k \in 1..Len(new) : u[Len(s) + k] = new[k]
  <2> TAKE k \in 1..Len(new)
  <2>1. Len(s) + k \in 1..Len(u) /\ ~(Len(s) + k <= Len(t)) /\ (Len(s) + k) - Len(t) = k
    BY <1>8, <1>9
  <2> QED BY <1>9, <2>1
<1>12. Replaces(s, u, i, new)
  BY <1>5, <1>7, <1>8, <1>9, <1>10, <1>11 DEF Replaces
<1>13. u[i] = t[i]
  BY <1>8, <1>10
<1> QED BY <1>1, <1>4, <1>6, <1>7, <1>12, <1>13

\* The sources a join knows of when p has reached it.
Known(inst, p) == inst.joins[p.node].arrived \cup ({p.source} \ {NoSource})

JoinsAfter(inst, p, full) ==
    [inst.joins EXCEPT ![p.node] = [arrived |-> Known(inst, p), completed |-> full]]

\* p reaches an aggregating join: swallowed, counted, or the last one.
Reaches(f, inst, next, p) ==
    /\ p.node \in f.nodes /\ Aggregates(f, p.node)
    /\ \/ /\ inst.joins[p.node].completed
          /\ Spends(inst.tokens, next.tokens, p, NoGain)
          /\ next.joins = inst.joins
       \/ /\ ~inst.joins[p.node].completed
          /\ ~(Sources(f, p.node) \subseteq Known(inst, p))
          /\ Spends(inst.tokens, next.tokens, p, NoGain)
          /\ next.joins = JoinsAfter(inst, p, FALSE)
       \/ /\ ~inst.joins[p.node].completed
          /\ Sources(f, p.node) \subseteq Known(inst, p)
          /\ Spends(inst.tokens, next.tokens, p, Tallied(NewTokens(p.node, f.outgoing[p.node])))
          /\ next.joins = JoinsAfter(inst, p, TRUE)

\* p goes on along next-node list, or waits; no join changes.
Passes(f, inst, next, p) ==
    /\ p.node \in f.nodes
    /\ next.joins = inst.joins
    /\ \/ /\ f.kind[p.node] = "task"
          /\ \E list \in f.routes[p.node] :
                Spends(inst.tokens, next.tokens, p, Tallied(NewTokens(p.node, list)))
       \/ /\ f.kind[p.node] = "join" /\ ~Aggregates(f, p.node)
          /\ Spends(inst.tokens, next.tokens, p, Tallied(NewTokens(p.node, f.outgoing[p.node])))
       \/ /\ f.kind[p.node] = "wait"
          /\ Spends(inst.tokens, next.tokens, p, OneGain(Turned(p, "waiting")))

\* p fails the instance, and is spent unless its node is not in the flow.
Breaks(f, inst, next, p) ==
    /\ next.joins = inst.joins
    /\ \/ p.node \notin f.nodes /\ next.tokens = inst.tokens
       \/ p.node \in f.nodes /\ p.node \in f.fails /\ Spends(inst.tokens, next.tokens, p, NoGain)

\* A ready token lives at a place of its own, and what becomes of it is another.
LEMMA ReadyLives ==
    ASSUME NEW inst \in Instance, NEW i \in WithStatus(inst, "ready")
    PROVE  /\ i \in DOMAIN inst.tokens
           /\ inst.tokens[i] \in LiveToken /\ inst.tokens[i] \in Token
           /\ inst.tokens[i].status = "ready" /\ inst.tokens[i].node \in NodeIds
           /\ \A st \in {"running", "consumed"} : Turned(inst.tokens[i], st) \notin LiveToken
           /\ Turned(inst.tokens[i], "waiting") \in LiveToken
<1>1. /\ i \in DOMAIN inst.tokens /\ inst.tokens[i] \in Token /\ inst.tokens[i].status = "ready"
  BY TokensSeq DEF WithStatus
<1>2. \A st \in {"running", "consumed", "waiting"} :
         Turned(inst.tokens[i], st)
            = [node |-> inst.tokens[i].node, source |-> inst.tokens[i].source, status |-> st]
  BY <1>1 DEF Turned, Token
<1>3. /\ \A st \in {"running", "consumed"} : Turned(inst.tokens[i], st) \notin LiveToken
      /\ Turned(inst.tokens[i], "waiting") \in LiveToken
  BY <1>1, <1>2 DEF Token, LiveToken
<1> QED BY <1>1, <1>3, LivesWhile DEF Token

\* A ready token that is marked is spent for nothing, or for itself where it waits.
LEMMA MovedSpends ==
    ASSUME NEW inst, NEW next, NEW i \in WithStatus(inst, "ready"),
           NEW st \in {"running", "consumed", "waiting"}, NEW source,
           Moved(inst, next, i, st, source, 0)
    PROVE  Spends(inst.tokens, next.tokens, inst.tokens[i],
                  IF st = "waiting" THEN OneGain(Turned(inst.tokens[i], "waiting")) ELSE NoGain)
<1>1. inst \in Instance /\ st \in TokenStatus
  BY DEF Moved, TokenStatus
<1>2. PICK s, t, p : s = inst.tokens /\ t = next.tokens /\ p = inst.tokens[i]
  OBVIOUS
<1>3. /\ i \in DOMAIN inst.tokens /\ p \in LiveToken
      /\ \A x \in {"running", "consumed"} : Turned(p, x) \notin LiveToken
      /\ Turned(p, "waiting") \in LiveToken
  BY <1>1, <1>2, ReadyLives
<1>4. Replaces(s, t, i, <<>>) /\ t[i] = Turned(p, st)
  BY <1>1, <1>2, <1>3, MovedReplaces
<1>5. s[i] = p
  BY <1>2
<1>6. CASE st = "waiting"
  <2>1. t[i] \in LiveToken
    BY <1>3, <1>4, <1>6
  <2>2. Spends(s, t, s[i], OneGain(t[i]))
    BY <1>3, <1>4, <1>5, <2>1, ReplacesSpends
  <2> QED BY <1>2, <1>4, <1>5, <1>6, <2>2
<1>7. CASE st # "waiting"
  <2>1. t[i] \notin LiveToken
    BY <1>3, <1>4, <1>7
  <2>2. Spends(s, t, s[i], NoGain)
    BY <1>3, <1>4, <1>5, <2>1, ReplacesSpends
  <2> QED BY <1>2, <1>5, <1>7, <2>2
<1> QED BY <1>6, <1>7

\* A ready token that completes its node is spent for the tokens it sends.
LEMMA CompleteSpends ==
    ASSUME NEW inst \in Instance, NEW i \in WithStatus(inst, "ready"), NEW list \in Seq(NodeIds)
    PROVE  Spends(inst.tokens, CompleteNode(inst, i, list).tokens, inst.tokens[i],
                  Tallied(NewTokens(inst.tokens[i].node, list)))
<1>1. PICK s, t, p, new : /\ s = inst.tokens /\ t = CompleteNode(inst, i, list).tokens
                          /\ p = inst.tokens[i] /\ new = NewTokens(inst.tokens[i].node, list)
  OBVIOUS
<1>2. /\ i \in DOMAIN inst.tokens /\ p \in LiveToken /\ Turned(p, "consumed") \notin LiveToken
  BY <1>1, ReadyLives
<1>3. Replaces(s, t, i, new) /\ t[i] = Turned(p, "consumed") /\ s[i] = p
  BY <1>1, <1>2, CompleteReplaces
<1>4. Spends(s, t, s[i], Tallied(new))
  BY <1>2, <1>3, ReplacesSpends
<1> QED BY <1>1, <1>3, <1>4

LEMMA ArriveExactly ==
    ASSUME NEW inst \in Instance, NEW i \in DOMAIN inst.tokens
    PROVE  Arrive(inst, i).joins
              = JoinsAfter(inst, inst.tokens[i], inst.joins[inst.tokens[i].node].completed)
<1>1. PICK p : p = inst.tokens[i]
  OBVIOUS
<1>2. p.node \in NodeIds /\ inst.joins \in [NodeIds -> JoinState]
  BY <1>1, TokensSeq DEF Token, Instance
<1>3. PICK js : js = inst.joins[p.node]
  OBVIOUS
<1>4. js \in JoinState /\ js = [arrived |-> js.arrived, completed |-> js.completed]
  BY <1>2, <1>3 DEF JoinState
<1>5. CASE p.source = NoSource
  <2>1. Known(inst, p) = js.arrived
    BY <1>3, <1>5 DEF Known
  <2>2. JoinsAfter(inst, p, js.completed) = [inst.joins EXCEPT ![p.node] = js]
    BY <1>4, <2>1 DEF JoinsAfter
  <2>3. JoinsAfter(inst, p, js.completed) = inst.joins
    BY <1>2, <1>3, <2>2
  <2>4. Arrive(inst, i) = inst
    BY <1>1, <1>5 DEF Arrive
  <2> QED BY <1>1, <1>3, <2>3, <2>4
<1>6. CASE p.source # NoSource
  <2>1. Known(inst, p) = js.arrived \cup {p.source}
    BY <1>3, <1>6 DEF Known
  <2> DEFINE n == inst.tokens[i].node
             at == [inst.joins[n] EXCEPT !.arrived = @ \cup {inst.tokens[i].source}]
             joins == [inst.joins EXCEPT ![n] = at]
  <2>2. Arrive(inst, i) = [inst EXCEPT !.joins = joins]
    BY <1>1, <1>6 DEF Arrive, Instance
  <2>3. at = [arrived |-> js.arrived \cup {p.source}, completed |-> js.completed]
    BY <1>1, <1>3, <1>4 DEF JoinState
  <2> HIDE DEF at
  <2>4. joins = JoinsAfter(inst, p, js.completed)
    BY <1>1, <2>1, <2>3 DEF JoinsAfter
  <2> HIDE DEF joins
  <2>5. Arrive(inst, i).joins = joins
    BY <2>2 DEF Instance
  <2> QED BY <1>1, <1>3, <2>4, <2>5
<1> QED BY <1>5, <1>6

\* A join with all its arrivals is marked completed, and nothing else changes.
LEMMA FiredExactly ==
    ASSUME NEW inst \in Instance, NEW i \in DOMAIN inst.tokens, NEW fired,
           fired = [Arrive(inst, i) EXCEPT !.joins[inst.tokens[i].node].completed = TRUE]
    PROVE  /\ fired \in Instance /\ fired.tokens = inst.tokens
           /\ fired.joins = JoinsAfter(inst, inst.tokens[i], TRUE)
<1>1. PICK p, was, arrived : /\ p = inst.tokens[i] /\ was = inst.joins[inst.tokens[i].node].completed
                             /\ arrived = Arrive(inst, i)
  OBVIOUS
<1>2. p.node \in NodeIds /\ p.source \in NodeIds \cup {NoSource} /\ inst.joins \in [NodeIds -> JoinState]
  BY <1>1, TokensSeq DEF Token, Instance
<1>3. /\ arrived \in Instance /\ arrived.tokens = inst.tokens
      /\ arrived.joins = JoinsAfter(inst, p, was)
  BY <1>1, ArriveFacts, ArriveExactly
<1> DEFINE js == [arrived.joins[p.node] EXCEPT !.completed = TRUE]
           joins == [arrived.joins EXCEPT ![p.node] = js]
<1>4. arrived.joins[p.node] = [arrived |-> Known(inst, p), completed |-> was]
  BY <1>2, <1>3 DEF JoinsAfter
<1>5. js = [arrived |-> Known(inst, p), completed |-> TRUE] /\ js \in JoinState
  <2>1. PICK a : a = arrived.joins[p.node] /\ a \in JoinState
    BY <1>2, <1>3 DEF Instance
  <2>2. a.arrived = Known(inst, p)
    BY <1>4, <2>1
  <2>3. js \in JoinState /\ js.completed /\ js.arrived = a.arrived
    BY <2>1 DEF JoinState
  <2> HIDE DEF js
  <2>4. js.completed \in BOOLEAN /\ js = [arrived |-> js.arrived, completed |-> js.completed]
    BY <2>3 DEF JoinState
  <2>5. js.completed = TRUE
    BY <2>3, <2>4
  <2> QED BY <2>2, <2>3, <2>4, <2>5, Zenon
<1>7. fired = [arrived EXCEPT !.joins = joins]
  BY <1>1, <1>3 DEF Instance
<1> HIDE DEF js
<1>8. joins = JoinsAfter(inst, p, TRUE) /\ joins \in [NodeIds -> JoinState]
  <2>1. joins = [JoinsAfter(inst, p, was) EXCEPT ![p.node] = js]
    BY <1>3
  <2>2. joins = JoinsAfter(inst, p, TRUE)
    BY <1>2, <1>5, <2>1 DEF JoinsAfter
  <2>3. arrived.joins \in [NodeIds -> JoinState]
    BY <1>3 DEF Instance
  <2> QED BY <1>5, <2>2, <2>3
<1> HIDE DEF joins
<1>9. fired \in Instance /\ fired.tokens = arrived.tokens /\ fired.joins = joins
  BY <1>3, <1>7, <1>8 DEF Instance
<1> QED BY <1>1, <1>3, <1>8, <1>9

LEMMA JoinReaches ==
    ASSUME NEW f, IsFlow(f), NEW inst \in Instance, NEW i \in WithStatus(inst, "ready"),
           inst.tokens[i].node \in f.nodes, Aggregates(f, inst.tokens[i].node)
    PROVE  Reaches(f, inst, ExecuteJoinNode(f, inst, i), inst.tokens[i])
<1>1. PICK p, was, arrived, next : /\ p = inst.tokens[i] /\ was = inst.joins[inst.tokens[i].node].completed
                                   /\ arrived = Arrive(inst, i)
                                   /\ next = ExecuteJoinNode(f, inst, i)
  OBVIOUS
<1>2. i \in DOMAIN inst.tokens /\ p.node \in NodeIds
  BY <1>1, ReadyLives
<1>3. /\ arrived \in Instance /\ arrived.tokens = inst.tokens
      /\ arrived.joins = JoinsAfter(inst, p, was)
  BY <1>1, <1>2, ArriveFacts, ArriveExactly
<1>4. /\ "consumed" \in TokenStatus /\ "running" \in NodeStatus /\ "waiting" \in NodeStatus
      /\ inst.joins \in [NodeIds -> JoinState]
  BY DEF TokenStatus, NodeStatus, Instance
<1>5. JoinArrivedAll(f, arrived, p.node) <=> Sources(f, p.node) \subseteq Known(inst, p)
  BY <1>2, <1>3, <1>4 DEF JoinArrivedAll, JoinsAfter
<1>6. CASE was
  <2>1. next = Mark(inst, i, "consumed", "running")
    BY <1>1, <1>6 DEF ExecuteJoinNode
  <2>2. Moved(inst, next, i, "consumed", NoSource, 0) /\ next.joins = inst.joins
    BY <1>2, <1>4, <2>1, MarkMoves
  <2>3. Spends(inst.tokens, next.tokens, inst.tokens[i], NoGain)
    BY <2>2, MovedSpends
  <2> QED BY <1>1, <1>6, <2>2, <2>3 DEF Reaches
<1>7. CASE ~was /\ ~JoinArrivedAll(f, arrived, p.node)
  <2>1. next = Mark(arrived, i, "consumed", "waiting")
    BY <1>1, <1>7 DEF ExecuteJoinNode
  <2>2. Moved(arrived, next, i, "consumed", NoSource, 0) /\ next.joins = arrived.joins
    BY <1>2, <1>3, <1>4, <2>1, MarkMoves
  <2>3. i \in WithStatus(arrived, "ready")
    BY <1>3 DEF WithStatus
  <2>4. Spends(arrived.tokens, next.tokens, arrived.tokens[i], NoGain)
    BY <2>2, <2>3, MovedSpends
  <2>5. next.joins = JoinsAfter(inst, p, FALSE)
    <3>1. was = FALSE
      BY <1>1, <1>2, <1>4, <1>7 DEF JoinState
    <3> QED BY <1>3, <2>2, <3>1
  <2>6. Spends(inst.tokens, next.tokens, p, NoGain)
    BY <1>1, <1>3, <2>4
  <2>7. ~inst.joins[p.node].completed /\ ~(Sources(f, p.node) \subseteq Known(inst, p))
    BY <1>1, <1>5, <1>7
  <2>8. p.node \in f.nodes /\ Aggregates(f, p.node)
    BY <1>1
  <2>9. Reaches(f, inst, next, p)
    BY <2>5, <2>6, <2>7, <2>8, Zenon DEF Reaches
  <2> QED BY <1>1, <2>9
<1>8. CASE ~was /\ JoinArrivedAll(f, arrived, p.node)
  <2>1. PICK fired : fired = [arrived EXCEPT !.joins[p.node].completed = TRUE]
    OBVIOUS
  <2>2. next = CompleteNode(fired, i, f.outgoing[p.node])
    BY <1>1, <1>8, <2>1 DEF ExecuteJoinNode
  <2>3. fired \in Instance /\ fired.tokens = inst.tokens /\ fired.joins = JoinsAfter(inst, p, TRUE)
    <3>1. fired = [Arrive(inst, i) EXCEPT !.joins[inst.tokens[i].node].completed = TRUE]
      BY Zenon, <1>1, <2>1
    <3>2. /\ fired \in Instance /\ fired.tokens = inst.tokens
          /\ fired.joins = JoinsAfter(inst, inst.tokens[i], TRUE)
      BY Zenon, <1>2, <3>1, FiredExactly
    <3> QED BY Zenon, <1>1, <3>2
  <2>4. i \in WithStatus(fired, "ready") /\ i \in DOMAIN fired.tokens
    BY <1>2, <2>3 DEF WithStatus
  <2>5. PICK list : list = f.outgoing[p.node] /\ list \in Seq(NodeIds)
    BY <1>1, FlowFacts
  <2>6. /\ next.joins = fired.joins
        /\ Spends(fired.tokens, next.tokens, fired.tokens[i], Tallied(NewTokens(fired.tokens[i].node, list)))
    BY <2>2, <2>3, <2>4, <2>5, CompleteMoves, CompleteSpends
  <2> QED BY <1>1, <1>5, <1>8, <2>3, <2>5, <2>6 DEF Reaches
<1> QED BY <1>6, <1>7, <1>8

\* What one outcome of executing a ready token is to the token net.
Ticks(f, inst, o, p) ==
    IF o.err THEN Breaks(f, inst, o.inst, p)
    ELSE Passes(f, inst, o.inst, p) \/ Reaches(f, inst, o.inst, p)

LEMMA OutcomeTicks ==
    ASSUME NEW f, NEW inst, NEW next \in Instance, NEW err \in BOOLEAN, NEW ran, NEW done, NEW p,
           NEW o, o = Outcome(next, err, ran, done),
           IF err THEN Breaks(f, inst, next, p)
           ELSE Passes(f, inst, next, p) \/ Reaches(f, inst, next, p)
    PROVE  Ticks(f, inst, o, p)
<1>1. o.err = err /\ o.inst.tokens = next.tokens /\ o.inst.joins = next.joins
  BY DEF Outcome, Instance
<1> QED BY <1>1 DEF Ticks, Breaks, Passes, Reaches

LEMMA ExecuteTicks ==
    ASSUME NEW f, IsFlow(f), NEW inst, Working(f, inst),
           NEW i \in WithStatus(inst, "ready"),
           NEW o \in ExecuteReadyToken(f, inst, i)
    PROVE  Ticks(f, inst, o, inst.tokens[i])
<1>1. PICK p : p = inst.tokens[i]
  OBVIOUS
<1>2. inst \in Instance /\ i \in DOMAIN inst.tokens /\ p.node \in NodeIds
  BY <1>1, ReadyLives DEF Working, CopyOK
<1>3. CASE p.node \notin f.nodes
  <2>1. o = Outcome(inst, TRUE, FALSE, FALSE)
    BY <1>1, <1>3 DEF ExecuteReadyToken
  <2>2. Breaks(f, inst, inst, p)
    BY <1>3 DEF Breaks
  <2> QED BY <1>1, <1>2, <2>1, <2>2, OutcomeTicks
<1>4. CASE p.node \in f.nodes /\ o \in InputErrors(f, inst, i)
  <2>1. Moved(inst, o.inst, i, "running", NoSource, 0) /\ o.inst.joins = inst.joins /\ o.err
    BY <1>2, <1>4, InputErrorMoves
  <2>2. Spends(inst.tokens, o.inst.tokens, p, NoGain)
    BY <1>1, <2>1, MovedSpends
  <2>3. p.node \in f.fails
    BY <1>1, <1>4 DEF InputErrors, IfFails
  <2> QED BY <1>1, <1>4, <2>1, <2>2, <2>3 DEF Ticks, Breaks
<1>5. CASE p.node \in f.nodes /\ o \notin InputErrors(f, inst, i)
  <2>1. /\ f.kind[p.node] \in {"task", "wait", "join"}
        /\ f.outgoing[p.node] \in Seq(NodeIds)
        /\ f.routes[p.node] \subseteq Seq(NodeIds)
    BY <1>5, FlowFacts DEF NodeKind
  <2>2. FailNode(inst, i) \in Instance /\ (p.node \in f.fails => Breaks(f, inst, FailNode(inst, i), p))
    <3>1. PICK next : next = FailNode(inst, i)
      OBVIOUS
    <3>2. Moved(inst, next, i, "consumed", NoSource, 0) /\ next.joins = inst.joins
      <4>1. "consumed" \in TokenStatus /\ "failed" \in NodeStatus
        BY DEF TokenStatus, NodeStatus
      <4> QED BY <1>2, <3>1, <4>1, MarkMoves DEF FailNode
    <3>3. Spends(inst.tokens, next.tokens, p, NoGain)
      BY <1>1, <3>2, MovedSpends
    <3> QED BY <1>5, <3>1, <3>2, <3>3 DEF Breaks, Moved
  <2>3. ASSUME NEW list \in Seq(NodeIds)
        PROVE  /\ CompleteNode(inst, i, list) \in Instance
               /\ CompleteNode(inst, i, list).joins = inst.joins
               /\ Spends(inst.tokens, CompleteNode(inst, i, list).tokens, p,
                         Tallied(NewTokens(p.node, list)))
    BY <1>1, <1>2, CompleteMoves, CompleteSpends DEF Moved
  <2>4. CASE f.kind[p.node] = "task"
    <3>1. o \in TaskOutcomes(f, inst, i)
      BY <1>1, <1>5, <2>4 DEF ExecuteReadyToken
    <3>2. CASE \E next \in f.routes[p.node] :
                  o = Outcome(CompleteNode(inst, i, next), FALSE, TRUE, TRUE)
      <4>1. PICK list \in f.routes[p.node] :
                   o = Outcome(CompleteNode(inst, i, list), FALSE, TRUE, TRUE)
        BY <3>2
      <4>2. PICK next : next = CompleteNode(inst, i, list)
        OBVIOUS
      <4>3. next \in Instance /\ Passes(f, inst, next, p)
        BY <1>5, <2>1, <2>3, <2>4, <4>1, <4>2 DEF Passes
      <4> QED BY <1>1, <4>1, <4>2, <4>3, OutcomeTicks
    <3>3. CASE p.node \in f.fails /\ o = Outcome(FailNode(inst, i), TRUE, TRUE, FALSE)
      BY <1>1, <2>2, <3>3, OutcomeTicks
    <3> QED BY <1>1, <3>1, <3>2, <3>3 DEF TaskOutcomes, IfFails
  <2>5. CASE f.kind[p.node] = "wait"
    <3>1. o \in WaitOutcomes(f, inst, i)
      BY <1>1, <1>5, <2>5 DEF ExecuteReadyToken
    <3>2. PICK next : next = BlockOnWaitNode(inst, i)
      OBVIOUS
    <3>3. next \in Instance /\ Passes(f, inst, next, p)
      <4>1. "waiting" \in TokenStatus /\ "waiting" \in NodeStatus
        BY DEF TokenStatus, NodeStatus
      <4>2. Moved(inst, next, i, "waiting", NoSource, 0) /\ next.joins = inst.joins
        BY <1>2, <3>2, <4>1, MarkMoves DEF BlockOnWaitNode
      <4>3. Spends(inst.tokens, next.tokens, p, OneGain(Turned(p, "waiting")))
        BY <1>1, <4>2, MovedSpends
      <4> QED BY <1>5, <2>5, <4>2, <4>3 DEF Passes, Moved
    <3>4. CASE o = Outcome(BlockOnWaitNode(inst, i), FALSE, FALSE, FALSE)
      BY <1>1, <3>2, <3>3, <3>4, OutcomeTicks
    <3>5. CASE p.node \in f.fails /\ o = Outcome(FailNode(inst, i), TRUE, FALSE, FALSE)
      BY <1>1, <2>2, <3>5, OutcomeTicks
    <3> QED BY <1>1, <3>1, <3>4, <3>5 DEF WaitOutcomes, IfFails
  <2>6. CASE f.kind[p.node] = "join"
    <3>1. o \in JoinOutcomes(f, inst, i)
      BY <1>1, <1>5, <2>6 DEF ExecuteReadyToken
    <3>2. CASE Aggregates(f, p.node)
      <4>1. PICK next, done : next = ExecuteJoinNode(f, inst, i) /\ o = Outcome(next, FALSE, FALSE, done)
        BY <1>1, <3>1, <3>2 DEF JoinOutcomes
      <4>2. next \in Instance
        <5>1. Working(f, next)
          BY <1>1, <1>5, <2>6, <3>2, <4>1, JoinOK
        <5> QED BY <5>1 DEF Working, CopyOK
      <4>3. Reaches(f, inst, next, p)
        BY <1>1, <1>2, <1>5, <3>2, <4>1, JoinReaches
      <4> QED BY <1>1, <4>1, <4>2, <4>3, OutcomeTicks
    <3>3. CASE ~Aggregates(f, p.node)
      <4>1. PICK next : next = CompleteNode(inst, i, f.outgoing[p.node])
        OBVIOUS
      <4>2. next \in Instance /\ Passes(f, inst, next, p)
        BY <1>5, <2>1, <2>3, <2>6, <3>3, <4>1 DEF Passes
      <4>3. o = Outcome(next, FALSE, FALSE, TRUE)
        BY <1>1, <3>1, <3>3, <4>1 DEF JoinOutcomes
      <4> QED BY <1>1, <4>2, <4>3, OutcomeTicks
    <3> QED BY <3>2, <3>3
  <2> QED BY <2>1, <2>4, <2>5, <2>6
<1> QED BY <1>3, <1>4, <1>5

-----------------------------------------------------------------------------
(* What an event in delivery has done, token by token.                     *)

Wakes(f, ev, q) == q.status = "waiting" /\ ev \in f.accepts[q.node]

\* The tokens at the indices D of s, each with one of the edges of its node; the token
\* that is sent along one; and those that put a token at q.
Sends(f, s, D)     == UNION { {i} \X DOMAIN f.outgoing[s[i].node] : i \in D }
Along(f, s, x)     == NewTokens(s[x[1]].node, f.outgoing[s[x[1]].node])[x[2]]
SendsTo(f, s, D, q) == { x \in Sends(f, s, D) : Along(f, s, x) = q }

\* After D of its matching tokens were applied, next has no matching token of inst but the
\* others, and as many as inst and those D sent at every place the event does not wake.
Applied(f, inst, next, ev, D) ==
    /\ next.joins = inst.joins
    /\ D \subseteq Matching(f, inst, ev)
    /\ Matching(f, next, ev) = Matching(f, inst, ev) \ D
    /\ \A j \in Matching(f, inst, ev) :
          j \in DOMAIN next.tokens /\ next.tokens[j].node = inst.tokens[j].node
    /\ \A q \in LiveToken :
          /\ IsFiniteSet(SendsTo(f, inst.tokens, D, q))
          /\ ~Wakes(f, ev, q) =>
                Number(next.tokens, q)
                   = Number(inst.tokens, q) + Cardinality(SendsTo(f, inst.tokens, D, q))

LEMMA AppliesNone ==
    ASSUME NEW f, NEW inst \in Instance, NEW ev, NEW next,
           next.tokens = inst.tokens, next.joins = inst.joins
    PROVE  Applied(f, inst, next, ev, {})
<1>1. \A q : SendsTo(f, inst.tokens, {}, q) = {}
  BY DEF SendsTo, Sends
<1>2. \A q : Number(inst.tokens, q) \in Nat
  BY TokensSeq, NumberNat
<1>3. IsFiniteSet({}) /\ Cardinality({}) = 0
  BY FS_EmptySet
<1>4. \A q \in LiveToken :
         /\ IsFiniteSet(SendsTo(f, inst.tokens, {}, q))
         /\ Number(next.tokens, q)
               = Number(inst.tokens, q) + Cardinality(SendsTo(f, inst.tokens, {}, q))
  BY <1>1, <1>2, <1>3
<1>5. Matching(f, next, ev) = Matching(f, inst, ev) /\ Matching(f, inst, ev) \subseteq DOMAIN inst.tokens
  BY DEF Matching, WithStatus
<1> QED BY <1>4, <1>5 DEF Applied

\* Token i of s sends the tokens of new.
SendsList(f, s, i, new) ==
    /\ new \in Seq(Token) /\ new = NewTokens(s[i].node, f.outgoing[s[i].node])
    /\ DOMAIN f.outgoing[s[i].node] = DOMAIN new

\* One token more sends one more list.
LEMMA SendsMore ==
    ASSUME NEW f, NEW s, NEW D, NEW i, i \notin D, NEW q,
           NEW new, SendsList(f, s, i, new), IsFiniteSet(SendsTo(f, s, D, q))
    PROVE  /\ IsFiniteSet(SendsTo(f, s, D \cup {i}, q))
           /\ Cardinality(SendsTo(f, s, D \cup {i}, q))
                 = Cardinality(SendsTo(f, s, D, q)) + Number(new, q)
<1>1. PICK A, E, at : /\ A = SendsTo(f, s, D, q) /\ E = SendsTo(f, s, {i}, q)
                      /\ at = AtPlace(new, q)
  OBVIOUS
<1>2. SendsTo(f, s, D \cup {i}, q) = A \cup E /\ A \cap E = {}
  BY <1>1 DEF SendsTo, Sends
<1>3. E = { <<i, k>> : k \in at }
  <2>1. PICK K : K = DOMAIN f.outgoing[s[i].node] /\ K = DOMAIN new
    BY DEF SendsList
  <2>2. \A x : x \in Sends(f, s, {i}) <=> \E k \in K : x = <<i, k>>
    <3>1. Sends(f, s, {i}) = {i} \X K
      BY <2>1, Zenon DEF Sends
    <3> QED BY <3>1
  <2>3. \A k : Along(f, s, <<i, k>>) = new[k]
    BY DEF Along, SendsList
  <2>4. \A x : x \in E <=> \E k \in K : x = <<i, k>> /\ new[k] = q
    BY <1>1, <2>2, <2>3 DEF SendsTo
  <2>5. \A k : k \in at <=> k \in K /\ new[k] = q
    BY <1>1, <2>1 DEF AtPlace, Having
  <2> QED BY <2>4, <2>5
<1>4. IsFiniteSet(at) /\ Cardinality(at) = Number(new, q)
  BY <1>1, NumberNat DEF Number, SendsList
<1>5. ExistsBijection(at, E)
  <2> DEFINE g == [ k \in at |-> <<i, k>> ]
  <2>1. g \in [at -> E] /\ (\A a, b \in at : g[a] = g[b] => a = b) /\ \A y \in E : \E a \in at : g[a] = y
    BY <1>3
  <2> HIDE DEF g
  <2>2. g \in Bijection(at, E)
    BY <2>1, BijectionMeans
  <2> QED BY <2>2 DEF ExistsBijection
<1>6. IsFiniteSet(E) /\ Cardinality(E) = Number(new, q)
  BY <1>4, <1>5, FS_Bijection
<1>7. IsFiniteSet(A)
  BY <1>1, Zenon
<1>8. IsFiniteSet(A \cup E)
      /\ Cardinality(A \cup E) = Cardinality(A) + Cardinality(E) - Cardinality(A \cap E)
  BY <1>6, <1>7, FS_Union
<1>9. Cardinality(A \cap E) = 0 /\ Cardinality(A) \in Nat /\ Cardinality(E) \in Nat
  BY <1>2, <1>6, <1>7, FS_EmptySet, FS_CardinalityType
<1>10. Cardinality(A \cup E) = Cardinality(A) + Number(new, q)
  BY <1>6, <1>8, <1>9
<1> QED BY <1>1, <1>2, <1>8, <1>10

LEMMA AppliesMore ==
    ASSUME NEW f, IsFlow(f), NEW inst \in Instance, NEW next, Working(f, next), NEW ev, NEW D,
           Applied(f, inst, next, ev, D), NEW i \in NextMatch(f, next, ev)
    PROVE  Applied(f, inst, ApplyEvent(f, next, i), ev, D \cup {i})
<1>1. /\ next \in Instance /\ i \in Matching(f, next, ev) /\ i \in DOMAIN next.tokens
      /\ next.tokens[i].status = "waiting" /\ next.tokens[i] \in Token
      /\ ev \in f.accepts[next.tokens[i].node]
  BY TokensSeq DEF Working, CopyOK, NextMatch, First, Matching, WithStatus
<1>2. PICK n, out, new, other : /\ n = next.tokens[i].node /\ out = f.outgoing[n]
                                /\ new = NewTokens(n, out)
                                /\ other = ApplyEvent(f, next, i)
  OBVIOUS
<1>3. n \in f.nodes /\ f.kind[n] = "wait" /\ n \in NodeIds
  <2>1. i \in WithStatus(next, "waiting")
    BY <1>1 DEF WithStatus
  <2> QED BY <1>1, <1>2, <2>1 DEF Working, CopyOK, InstanceOK, WaitsAtWaitNodes, Token
<1>4. out \in Seq(NodeIds) /\ other = CompleteNode(next, i, out)
  BY <1>2, <1>3, FlowFacts DEF ApplyEvent
<1>5. /\ new \in Seq(Token) /\ DOMAIN out = DOMAIN new
      /\ \A k \in DOMAIN new : new[k].status = "ready"
  <2>1. /\ NewTokens(n, out) \in Seq(Token) /\ Len(NewTokens(n, out)) = Len(out)
        /\ \A k \in 1..Len(out) : NewTokens(n, out)[k].status = "ready"
    BY <1>3, <1>4, NewTokensSeq
  <2>2. new \in Seq(Token) /\ Len(new) = Len(out) /\ \A k \in 1..Len(out) : new[k].status = "ready"
    BY <1>2, <2>1
  <2>3. DOMAIN new = 1..Len(new) /\ DOMAIN out = 1..Len(out)
    BY <1>4, <2>2, LenProperties
  <2> QED BY <2>2, <2>3
<1>6. PICK s, t, p : s = next.tokens /\ t = other.tokens /\ p = next.tokens[i]
  OBVIOUS
<1>7. Replaces(s, t, i, new) /\ t[i] = Turned(p, "consumed")
  BY <1>1, <1>2, <1>4, <1>6, CompleteReplaces
<1>8. /\ p.status = "waiting" /\ p.node = n /\ p \in LiveToken /\ s[i] = p
      /\ t[i].node = n /\ t[i].status = "consumed" /\ t[i] \notin LiveToken
  <2>1. p \in Token /\ Turned(p, "consumed") = [node |-> p.node, source |-> p.source, status |-> "consumed"]
    BY <1>1, <1>6 DEF Turned, Token
  <2> QED BY <1>1, <1>2, <1>6, <1>7, <2>1 DEF LiveToken, Token
<1>9. /\ Len(s) \in Nat /\ DOMAIN s = 1..Len(s) /\ Len(new) \in Nat /\ DOMAIN new = 1..Len(new)
      /\ DOMAIN t = 1..Len(t) /\ Len(t) = Len(s) + Len(new) /\ i \in 1..Len(s)
  BY <1>7, LenProperties DEF Replaces
<1>10. \A j \in DOMAIN t : j # i => \/ j \in DOMAIN s /\ t[j] = s[j]
                                    \/ j \notin DOMAIN s /\ t[j].status = "ready"
  <2> TAKE j \in DOMAIN t
  <2>1. CASE j \in 1..Len(s)
    BY <1>7, <1>9, <2>1 DEF Replaces
  <2>2. CASE j \notin 1..Len(s)
    <3>1. j - Len(s) \in 1..Len(new) /\ Len(s) + (j - Len(s)) = j
      BY <1>9, <2>2
    <3>2. t[j] = new[j - Len(s)]
      BY <1>7, <3>1 DEF Replaces
    <3> QED BY <1>5, <1>9, <2>2, <3>1, <3>2
  <2> QED BY <2>1, <2>2
<1>11. DOMAIN s \subseteq DOMAIN t
  BY <1>9
<1>12. Matching(f, other, ev) = Matching(f, next, ev) \ {i}
  <2>1. \A j : j \in Matching(f, other, ev) <=>
                  j \in DOMAIN t /\ t[j].status = "waiting" /\ ev \in f.accepts[t[j].node]
    BY <1>6 DEF Matching, WithStatus
  <2>2. \A j : j \in Matching(f, next, ev) <=>
                  j \in DOMAIN s /\ s[j].status = "waiting" /\ ev \in f.accepts[s[j].node]
    BY <1>6 DEF Matching, WithStatus
  <2>3. \A j : j \in Matching(f, other, ev) <=> j \in Matching(f, next, ev) /\ j # i
    <3> TAKE j
    <3>1. CASE j = i
      BY <1>8, <2>1, <3>1
    <3>2. CASE j # i /\ j \in DOMAIN t
      BY <1>10, <2>1, <2>2, <3>2
    <3>3. CASE j \notin DOMAIN t
      BY <1>11, <2>1, <2>2, <3>3
    <3> QED BY <3>1, <3>2, <3>3
  <2> QED BY <2>3
<1>13. other.joins = inst.joins
  BY <1>1, <1>4, CompleteMoves DEF Applied
<1>14. /\ D \subseteq Matching(f, inst, ev) /\ Matching(f, next, ev) = Matching(f, inst, ev) \ D
       /\ i \in Matching(f, inst, ev) /\ i \notin D /\ inst.tokens[i].node = n
  BY <1>1, <1>2 DEF Applied
<1>15. ASSUME NEW j \in Matching(f, inst, ev)
       PROVE  j \in DOMAIN t /\ t[j].node = inst.tokens[j].node
  <2>1. j \in DOMAIN s /\ s[j].node = inst.tokens[j].node
    BY <1>6 DEF Applied
  <2>2. CASE j = i
    BY <1>8, <1>11, <1>14, <2>1, <2>2
  <2>3. CASE j # i
    BY <1>10, <1>11, <2>1, <2>3
  <2> QED BY <2>2, <2>3
<1>16. ASSUME NEW q \in LiveToken
       PROVE  /\ IsFiniteSet(SendsTo(f, inst.tokens, D \cup {i}, q))
              /\ ~Wakes(f, ev, q) =>
                    Number(t, q) = Number(inst.tokens, q)
                                   + Cardinality(SendsTo(f, inst.tokens, D \cup {i}, q))
  <2>1. PICK at, A : at = inst.tokens /\ A = SendsTo(f, at, D, q)
    OBVIOUS
  <2>2. /\ IsFiniteSet(A)
        /\ ~Wakes(f, ev, q) => Number(s, q) = Number(at, q) + Cardinality(A)
    BY <1>6, <2>1 DEF Applied
  <2>3. at[i].node = n /\ new = NewTokens(at[i].node, f.outgoing[at[i].node])
        /\ DOMAIN f.outgoing[at[i].node] = DOMAIN new
    BY <1>2, <1>5, <1>14, <2>1
  <2>4. /\ IsFiniteSet(SendsTo(f, at, D \cup {i}, q))
        /\ Cardinality(SendsTo(f, at, D \cup {i}, q)) = Cardinality(A) + Number(new, q)
    <3>1. IsFiniteSet(SendsTo(f, at, D, q)) /\ SendsList(f, at, i, new) /\ i \notin D
      BY <1>5, <1>14, <2>1, <2>2, <2>3 DEF SendsList
    <3>2. /\ IsFiniteSet(SendsTo(f, at, D \cup {i}, q))
          /\ Cardinality(SendsTo(f, at, D \cup {i}, q))
                = Cardinality(SendsTo(f, at, D, q)) + Number(new, q)
      BY <3>1, SendsMore
    <3> QED BY <2>1, <3>2
  <2>5. ~Wakes(f, ev, q) => Number(t, q) = Number(s, q) + Number(new, q)
    <3>1. Number(t, q) = Number(s, q) - OneAt(s[i], q) + OneAt(t[i], q) + Number(new, q)
      BY <1>7, ReplacesCounts
    <3>2. Number(s, q) \in Nat /\ Number(new, q) \in Nat
      BY <1>7, NumberNat DEF Replaces
    <3>3. OneAt(t[i], q) = 0
      BY <1>8 DEF OneAt
    <3>4. Wakes(f, ev, p)
      BY <1>1, <1>6 DEF Wakes
    <3>5. ~Wakes(f, ev, q) => OneAt(s[i], q) = 0
      BY <1>8, <3>4 DEF OneAt
    <3> QED BY <3>1, <3>2, <3>3, <3>5
  <2>6. Number(at, q) \in Nat /\ Number(new, q) \in Nat /\ Cardinality(A) \in Nat
    BY <1>5, <2>1, <2>2, TokensSeq, NumberNat, FS_CardinalityType
  <2> QED BY <2>1, <2>2, <2>4, <2>5, <2>6
<1>17. Matching(f, other, ev) = Matching(f, inst, ev) \ (D \cup {i})
  BY <1>12, <1>14
<1> QED BY <1>2, <1>6, <1>13, <1>14, <1>15, <1>16, <1>17 DEF Applied

-----------------------------------------------------------------------------
(* What the copy of the one caller holds that the stored instance does not *)
(* have yet: nothing, one step of the net, or an event in delivery.        *)

Running(inst) == [inst EXCEPT !.status = "running"]

Ahead(f, inst, next, l, ev) ==
    /\ ~Terminal(inst)
    /\ l = "loop" => next = Running(inst)
    /\ l = "saveStep" =>
          \E p \in LiveToken : p.status = "ready" /\ (Passes(f, inst, next, p) \/ Reaches(f, inst, next, p))
    /\ l = "saveFailed" =>
          next.status = "failed" /\ \E p \in LiveToken :
             p.status = "ready" /\ AtPlace(inst.tokens, p) # {} /\ Breaks(f, inst, next, p)
    /\ l = "saveBlocked" =>
          WithStatus(inst, "ready") = {} /\ next = FinalizeBlockedInstance(Running(inst))
    /\ l \in {"match", "saveResumed"} =>
          ev \in Events /\ Matching(f, inst, ev) # {} /\ \E D : Applied(f, inst, next, ev, D)
    /\ l = "saveResumed" => Matching(f, next, ev) = {} /\ next.status = "running"

NetInv(u) == local[u] # NoInstance => Ahead(flow, store, local[u], pc[u], event[u])

LEMMA RunningIs ==
    ASSUME NEW inst \in Instance
    PROVE  /\ Running(inst) \in Instance /\ Running(inst).status = "running"
           /\ Running(inst).tokens = inst.tokens /\ Running(inst).joins = inst.joins
           /\ inst.status = "running" => Running(inst) = inst
           /\ \A st : WithStatus(Running(inst), st) = WithStatus(inst, st)
<1>1. /\ Running(inst) \in Instance /\ Running(inst).status = "running"
      /\ Running(inst).tokens = inst.tokens /\ Running(inst).joins = inst.joins
      /\ inst.status = "running" => Running(inst) = inst
  BY DEF Running, Instance, InstanceStatus
<1> QED BY <1>1 DEF WithStatus

LEMMA NetMoves ==
    ASSUME NEW u, Callers = {u}, InductiveInvariant, NEW l, NEW copy, Goto(u, l, copy),
           flow' = flow, copy = NoInstance \/ Ahead(flow, store', copy, l, event'[u])
    PROVE  NetInv(u)'
<1>1. pc'[u] = l /\ local'[u] = copy
  BY DEF Goto, InductiveInvariant, TypeOK
<1> QED BY <1>1 DEF NetInv

\* What is known of the one caller's copy.
LEMMA NetFacts ==
    ASSUME NEW u, Callers = {u}, InductiveInvariant, NetInv(u)
    PROVE  /\ u \in Callers /\ IsFlow(flow) /\ store \in Instance \cup {NoInstance}
           /\ pc[u] \in {"idle", "load"} => local[u] = NoInstance
           /\ pc[u] \in {"loop", "match"} \cup Saving =>
                 /\ local[u] \in Instance /\ local[u] # NoInstance
                 /\ store \in Instance /\ store # NoInstance
                 /\ Ahead(flow, store, local[u], pc[u], event[u])
           /\ pc[u] = "saveStep" => local[u].status = "running"
<1>1. u \in Callers
  OBVIOUS
<1>2. TypeOK /\ IsFlow(flow)
  BY FlowsAssumption DEF InductiveInvariant, TypeOK
<1>3. /\ pc[u] \in {"idle", "load"} => local[u] = NoInstance
      /\ pc[u] \in {"loop", "match"} \cup Saving => local[u] # NoInstance /\ store # NoInstance
      /\ local[u] # NoInstance => local[u] \in Instance
      /\ store # NoInstance => store \in Instance
  BY <1>1, <1>2 DEF TypeOK, Saving
<1>4. pc[u] = "saveStep" => local[u].status = "running"
  BY <1>1 DEF InductiveInvariant
<1> QED BY <1>1, <1>2, <1>3, <1>4 DEF NetInv, TypeOK

LEMMA NetCalls ==
    ASSUME NEW u, Callers = {u}, InductiveInvariant, NetInv(u),
           Start(u) \/ RunUntilBlocked(u) \/ \E ev \in Events : Resume(u, ev)
    PROVE  NetInv(u)'
<1>1. flow' = flow
  BY DEF Start, RunUntilBlocked, Resume, Call
<1>2. CASE Start(u) \/ RunUntilBlocked(u)
  <2>1. Goto(u, "load", NoInstance)
    BY <1>2 DEF Start, RunUntilBlocked
  <2> QED BY <1>1, <2>1, NetMoves
<1>3. CASE \E ev \in Events : Resume(u, ev)
  <2>1. PICK ev \in Events : Resume(u, ev)
    BY <1>3
  <2>2. PICK copy : copy = Running(store)
    OBVIOUS
  <2>3. /\ store' = store /\ store # NoInstance /\ ~Terminal(store) /\ Matching(flow, store, ev) # {}
        /\ Goto(u, "match", copy) /\ event'[u] = ev
    BY <2>1, <2>2, NetFacts DEF Resume, Running, InductiveInvariant, TypeOK
  <2>4. copy.tokens = store.tokens /\ copy.joins = store.joins /\ store \in Instance
    BY <2>2, <2>3, NetFacts, RunningIs
  <2>5. Applied(flow, store, copy, ev, {})
    BY <2>4, AppliesNone
  <2>6. Ahead(flow, store', copy, "match", event'[u])
    BY <2>1, <2>3, <2>5 DEF Ahead
  <2> QED BY <1>1, <2>3, <2>6, NetMoves
<1> QED BY <1>2, <1>3

LEMMA NetAdvances ==
    ASSUME NEW u, Callers = {u}, InductiveInvariant, NetInv(u), Advance(u) \/ Abort(u)
    PROVE  NetInv(u)'
<1>1. flow' = flow /\ u \in Callers
  BY NetFacts DEF Advance, MatchNext, MatchError, Load, ExecuteToken, Block, Save, Abort
<1>2. CASE MatchNext(u)
  <2>1. /\ pc[u] = "match" /\ store' = store /\ event' = event
    BY <1>2 DEF MatchNext
  <2>2. PICK i \in NextMatch(flow, local[u], event[u]) :
           Goto(u, IF Matching(flow, ApplyEvent(flow, local[u], i), event[u]) # {}
                   THEN "match" ELSE "saveResumed", ApplyEvent(flow, local[u], i))
    BY <1>2 DEF MatchNext
  <2>3. PICK next, l : /\ next = ApplyEvent(flow, local[u], i)
                       /\ l = IF Matching(flow, next, event[u]) # {} THEN "match" ELSE "saveResumed"
    OBVIOUS
  <2>4. Working(flow, local[u])
    BY <1>1, <2>1, CallerCopy
  <2>5. store \in Instance /\ IsFlow(flow) /\ Ahead(flow, store, local[u], "match", event[u])
    BY <2>1, NetFacts
  <2>6. PICK D : Applied(flow, store, local[u], event[u], D)
    BY <2>5 DEF Ahead
  <2>7. Applied(flow, store, next, event[u], D \cup {i})
    BY <2>2, <2>3, <2>4, <2>5, <2>6, AppliesMore
  <2>8. next.status = "running"
    BY <2>2, <2>3, <2>4, <2>5, ApplyEventOK DEF Working
  <2>9. Ahead(flow, store', next, l, event'[u])
    BY <2>1, <2>3, <2>5, <2>7, <2>8 DEF Ahead
  <2>10. Goto(u, l, next)
    BY <2>2, <2>3
  <2> QED BY <1>1, <2>9, <2>10, NetMoves
<1>3. CASE ExecuteToken(u)
  <2>1. pc[u] = "loop" /\ store' = store
    BY <1>3 DEF ExecuteToken
  <2>2. PICK i \in FirstReady(local[u]) : \E o \in ExecuteReadyToken(flow, local[u], i) :
           Goto(u, IF o.err THEN "saveFailed" ELSE "saveStep", o.inst)
    BY <1>3 DEF ExecuteToken
  <2>3. PICK o \in ExecuteReadyToken(flow, local[u], i) :
           Goto(u, IF o.err THEN "saveFailed" ELSE "saveStep", o.inst)
    BY <2>2
  <2>4. PICK copy, p, l : copy = local[u] /\ p = local[u].tokens[i]
                          /\ l = IF o.err THEN "saveFailed" ELSE "saveStep"
    OBVIOUS
  <2>5. Working(flow, copy)
    BY <1>1, <2>1, <2>4, CallerCopy
  <2>6. i \in WithStatus(copy, "ready") /\ copy \in Instance
    BY <2>2, <2>4, <2>5 DEF FirstReady, First, Working, CopyOK
  <2>7. p \in LiveToken /\ p.status = "ready" /\ i \in DOMAIN copy.tokens
    BY <2>4, <2>6, ReadyLives
  <2>8. Ticks(flow, copy, o, p) /\ (o.err => o.inst.status = "failed")
    <3>1. IsFlow(flow) /\ o \in ExecuteReadyToken(flow, copy, i)
      BY <2>4, NetFacts
    <3>2. Ticks(flow, copy, o, p)
      BY <2>4, <2>5, <2>6, <3>1, ExecuteTicks
    <3>3. Takes(flow, copy, i, o)
      BY <2>5, <2>6, <3>1, ExecuteConsumes
    <3> QED BY <3>2, <3>3 DEF Takes
  <2>9. store \in Instance /\ ~Terminal(store) /\ copy = Running(store)
    BY <2>1, <2>4, NetFacts DEF Ahead
  <2>10. copy.tokens = store.tokens /\ copy.joins = store.joins
    BY <2>9, RunningIs
  <2>11. AtPlace(store.tokens, p) # {}
    BY <2>4, <2>7, <2>10 DEF AtPlace, Having
  <2>12. Ahead(flow, store', o.inst, l, event'[u])
    <3>1. CASE o.err
      <4>1. Breaks(flow, store, o.inst, p)
        BY <2>8, <2>10, <3>1 DEF Ticks, Breaks
      <4> QED BY <2>1, <2>4, <2>7, <2>8, <2>9, <2>11, <3>1, <4>1 DEF Ahead
    <3>2. CASE ~o.err
      <4>1. Passes(flow, store, o.inst, p) \/ Reaches(flow, store, o.inst, p)
        <5>1. Passes(flow, copy, o.inst, p) => Passes(flow, store, o.inst, p)
          BY <2>10 DEF Passes
        <5>2. Reaches(flow, copy, o.inst, p) => Reaches(flow, store, o.inst, p)
          BY <2>10 DEF Reaches, Known, JoinsAfter
        <5> QED BY <2>8, <3>2, <5>1, <5>2 DEF Ticks
      <4> QED BY <2>1, <2>4, <2>7, <2>9, <3>2, <4>1 DEF Ahead
    <3> QED BY <3>1, <3>2
  <2> QED BY <1>1, <2>3, <2>4, <2>12, NetMoves
<1>4. CASE Load(u)
  <2>1. pc[u] = "load" /\ store' = store
    BY <1>4 DEF Load
  <2>2. CASE Terminal(store)
    <3>1. Goto(u, "idle", NoInstance)
      BY <1>4, <2>2 DEF Load, Return
    <3> QED BY <1>1, <3>1, NetMoves
  <2>3. CASE ~Terminal(store)
    <3>1. PICK copy : copy = Running(store)
      OBVIOUS
    <3>2. Goto(u, "loop", copy)
      BY <1>4, <2>3, <3>1 DEF Load, Running
    <3>3. Ahead(flow, store', copy, "loop", event'[u])
      BY <2>1, <2>3, <3>1 DEF Ahead
    <3> QED BY <1>1, <3>2, <3>3, NetMoves
  <2> QED BY <2>2, <2>3
<1>5. CASE Block(u)
  <2>1. pc[u] = "loop" /\ store' = store /\ WithStatus(local[u], "ready") = {}
    BY <1>5 DEF Block
  <2>2. PICK next : next = FinalizeBlockedInstance(local[u])
    OBVIOUS
  <2>3. Goto(u, "saveBlocked", next)
    BY <1>5, <2>2 DEF Block
  <2>4. store \in Instance /\ ~Terminal(store) /\ local[u] = Running(store)
    BY <2>1, NetFacts DEF Ahead
  <2>5. WithStatus(store, "ready") = {} /\ next = FinalizeBlockedInstance(Running(store))
    BY <2>1, <2>2, <2>4, RunningIs
  <2>6. Ahead(flow, store', next, "saveBlocked", event'[u])
    BY <2>1, <2>4, <2>5 DEF Ahead
  <2> QED BY <1>1, <2>3, <2>6, NetMoves
<1>6. CASE Save(u)
  <2>1. pc[u] \in Saving /\ store' = local[u]
    BY <1>6 DEF Save
  <2>2. CASE pc[u] = "saveStep"
    <3>1. PICK copy : copy = local[u]
      OBVIOUS
    <3>2. Goto(u, "loop", copy) /\ copy \in Instance /\ copy.status = "running"
      BY <1>6, <2>1, <2>2, <3>1, NetFacts DEF Save
    <3>3. copy = Running(copy) /\ ~Terminal(copy)
      BY <3>2, RunningIs DEF Terminal
    <3>4. Ahead(flow, store', copy, "loop", event'[u])
      BY <2>1, <3>1, <3>3 DEF Ahead
    <3> QED BY <1>1, <3>2, <3>4, NetMoves
  <2>3. CASE pc[u] # "saveStep"
    <3>1. \E l : Goto(u, l, NoInstance)
      BY <1>6, <2>1, <2>3 DEF Save, Return
    <3> QED BY <1>1, <3>1, NetMoves
  <2> QED BY <2>2, <2>3
<1>7. CASE MatchError(u) \/ Abort(u)
  <2>1. Goto(u, "idle", NoInstance)
    BY <1>7 DEF MatchError, Abort, Return
  <2> QED BY <1>1, <2>1, NetMoves
<1> QED BY <1>2, <1>3, <1>4, <1>5, <1>6, <1>7 DEF Advance

LEMMA NetStep ==
    ASSUME NEW u, Callers = {u}
    PROVE  InductiveInvariant /\ NetInv(u) /\ [Next]_vars => NetInv(u)'
<1> SUFFICES ASSUME InductiveInvariant, NetInv(u), [Next]_vars
             PROVE  NetInv(u)'
  OBVIOUS
<1>1. CASE UNCHANGED vars
  BY <1>1 DEF vars, NetInv
<1>2. CASE Next
  <2>1. PICK c \in Callers : \/ Start(c) \/ RunUntilBlocked(c) \/ \E ev \in Events : Resume(c, ev)
                             \/ Advance(c) \/ Abort(c)
    BY <1>2 DEF Next
  <2>2. c = u
    OBVIOUS
  <2> QED BY <2>1, <2>2, NetCalls, NetAdvances
<1> QED BY <1>1, <1>2

-----------------------------------------------------------------------------
(* The token net over the stored instance.                                 *)

\* What a stored instance is to the net.
LiveOf(inst)       == [ q \in LiveToken |-> Number(inst.tokens, q) ]
ArrivedOf(f, inst) ==
    [ n \in NodeIds |-> IF n \in f.nodes /\ Aggregates(f, n) THEN inst.joins[n].arrived ELSE {} ]
FiredOf(inst)      == { n \in NodeIds : inst.joins[n].completed }

\* The net's own copies of the model's operators are the model's.
LEMMA NetNames ==
    /\ Net!LiveToken = LiveToken
    /\ \A f, n : Net!Sources(f, n) = Sources(f, n)
    /\ \A f, n : Net!Aggregates(f, n) <=> Aggregates(f, n)
    /\ \A n, list : Net!NewTokens(n, list) = NewTokens(n, list)
    /\ Net!NoTokens = NoGain
    /\ \A p : Net!One(p) = OneGain(p)
    /\ \A n, list : Net!Sent(n, list) = Tallied(NewTokens(n, list))
<1>1. Net!LiveToken = LiveToken
  BY DEF Net!LiveToken, LiveToken
<1>2. \A f, n : Net!Sources(f, n) = Sources(f, n)
  BY DEF Net!Sources, Sources
<1>3. \A f, n : Net!Aggregates(f, n) <=> Aggregates(f, n)
  BY DEF Net!Aggregates, Aggregates
<1>4. \A n, list : Net!NewTokens(n, list) = NewTokens(n, list)
  BY DEF Net!NewTokens, NewTokens
<1>5. Net!NoTokens = NoGain
  BY <1>1 DEF Net!NoTokens, NoGain
<1>6. \A p : Net!One(p) = OneGain(p)
  BY <1>1 DEF Net!One, OneGain, OneAt
<1>7. \A S : Net!Cardinality(S) = Cardinality(S)
  BY DEF Net!Cardinality, Cardinality
<1>8. \A n, list : Net!Sent(n, list) = Tallied(NewTokens(n, list))
  BY <1>1, <1>4, <1>7 DEF Net!Sent, Net!Tally, Tallied, Number, AtPlace, Having
<1> QED BY <1>1, <1>2, <1>3, <1>4, <1>5, <1>6, <1>8

\* What the net sees before and after a save.
Seen ==
    /\ store \in Instance /\ store' \in Instance /\ flow' = flow /\ ~Terminal(store)

LEMMA SeenIs ==
    ASSUME Seen
    PROVE  /\ store # NoInstance /\ store' # NoInstance
           /\ LiveTokens = LiveOf(store) /\ LiveTokens' = LiveOf(store')
           /\ StoredStatus = store.status /\ StoredStatus' = store'.status
           /\ Arrivals = ArrivedOf(flow, store) /\ Arrivals' = ArrivedOf(flow, store')
           /\ FiredJoins = FiredOf(store) /\ FiredJoins' = FiredOf(store')
           /\ \A q : Number(store.tokens, q) \in Nat
<1>1. store # NoInstance /\ store' # NoInstance
  BY NoInstanceAssumption DEF Seen
<1>2. LiveTokens = LiveOf(store) /\ LiveTokens' = LiveOf(store')
  BY <1>1 DEF LiveTokens, LiveOf, Number, AtPlace, Having
<1>3. /\ StoredStatus = store.status /\ StoredStatus' = store'.status
      /\ FiredJoins = FiredOf(store) /\ FiredJoins' = FiredOf(store')
  BY <1>1 DEF StoredStatus, FiredJoins, FiredOf
<1>4. Arrivals = ArrivedOf(flow, store) /\ Arrivals' = ArrivedOf(flow, store')
  BY <1>1 DEF Arrivals, ArrivedOf, Seen
<1>5. store.tokens \in Seq(Token)
  BY TokensSeq DEF Seen
<1> QED BY <1>1, <1>2, <1>3, <1>4, <1>5, NumberNat

LEMMA NetPhase ==
    ASSUME Seen, NEW phase
    PROVE  Net!InPhase(phase) = { p \in LiveToken : p.status = phase /\ AtPlace(store.tokens, p) # {} }
<1>1. \A p \in LiveToken : LiveTokens[p] = Number(store.tokens, p)
  BY SeenIs DEF LiveOf
<1>2. \A p : Number(store.tokens, p) > 0 <=> AtPlace(store.tokens, p) # {}
  BY TokensSeq, NumberNat DEF Seen
<1> QED BY <1>1, <1>2, NetNames DEF Net!InPhase

LEMMA NetLive == ASSUME Seen PROVE Net!Live
<1>1. store.status \in {"created", "running", "waiting"}
  BY DEF Seen, Terminal, Instance, InstanceStatus
<1> QED BY <1>1, SeenIs DEF Net!Live

LEMMA NetMove ==
    ASSUME Seen, NEW p \in LiveToken, p.status = "ready", store'.status = "running", NEW gain,
           Spends(store.tokens, store'.tokens, p, gain)
    PROVE  p \in Net!InPhase("ready") /\ Net!Move(p, gain)
<1>1. p \in Net!InPhase("ready")
  BY NetPhase DEF Spends
<1>2. LiveTokens' = [ q \in LiveToken |-> LiveTokens[q] - Net!One(p)[q] + gain[q] ]
  <2>1. \A q \in LiveToken : Net!One(p)[q] = OneAt(p, q)
    BY NetNames DEF OneGain
  <2>2. \A q \in LiveToken :
           Number(store'.tokens, q) = LiveTokens[q] - Net!One(p)[q] + gain[q]
    BY <2>1, SeenIs DEF Spends, LiveOf
  <2> QED BY <2>2, SeenIs DEF LiveOf
<1>3. flow' = flow /\ StoredStatus' = "running"
  BY SeenIs DEF Seen
<1> QED BY <1>1, <1>2, <1>3, NetLive, NetNames DEF Net!Move

LEMMA NetPasses ==
    ASSUME Seen, NEW p \in LiveToken, p.status = "ready", store'.status = "running",
           Passes(flow, store, store', p)
    PROVE  Net!Next
<1>1. UNCHANGED <<Arrivals, FiredJoins>>
  BY SeenIs DEF Passes, ArrivedOf, FiredOf
<1>2. p.node \in flow.nodes
  BY DEF Passes
<1>3. CASE /\ flow.kind[p.node] = "task"
           /\ \E list \in flow.routes[p.node] :
                 Spends(store.tokens, store'.tokens, p, Tallied(NewTokens(p.node, list)))
  <2>1. PICK list \in flow.routes[p.node] :
             Spends(store.tokens, store'.tokens, p, Tallied(NewTokens(p.node, list)))
    BY <1>3
  <2>2. p \in Net!InPhase("ready") /\ Net!Move(p, Net!Sent(p.node, list))
    BY <2>1, NetMove, NetNames
  <2>3. Net!PassThrough(p)
    BY <1>1, <1>2, <1>3, <2>2 DEF Net!PassThrough
  <2> QED BY <2>2, <2>3 DEF Net!Next
<1>4. CASE /\ flow.kind[p.node] = "join" /\ ~Aggregates(flow, p.node)
           /\ Spends(store.tokens, store'.tokens, p,
                     Tallied(NewTokens(p.node, flow.outgoing[p.node])))
  <2>1. p \in Net!InPhase("ready") /\ Net!Move(p, Net!Sent(p.node, flow.outgoing[p.node]))
    BY <1>4, NetMove, NetNames
  <2>2. Net!PassThrough(p)
    BY <1>1, <1>2, <1>4, <2>1, NetNames DEF Net!PassThrough
  <2> QED BY <2>1, <2>2 DEF Net!Next
<1>5. CASE /\ flow.kind[p.node] = "wait"
           /\ Spends(store.tokens, store'.tokens, p, OneGain(Turned(p, "waiting")))
  <2>1. p \in Net!InPhase("ready") /\ Net!Move(p, Net!One(Turned(p, "waiting")))
    BY <1>5, NetMove, NetNames
  <2>2. Net!PassThrough(p)
    BY <1>1, <1>2, <1>5, <2>1 DEF Net!PassThrough, Turned
  <2> QED BY <2>1, <2>2 DEF Net!Next
<1> QED BY <1>3, <1>4, <1>5 DEF Passes

LEMMA NetReaches ==
    ASSUME Seen, IsFlow(flow), NEW p \in LiveToken, p.status = "ready", store'.status = "running",
           Reaches(flow, store, store', p)
    PROVE  Net!Next
<1>1. PICK n, have : n = p.node /\ have = Known(store, p)
  OBVIOUS
<1>2. n \in flow.nodes /\ Aggregates(flow, n) /\ n \in NodeIds /\ store.joins \in [NodeIds -> JoinState]
  BY <1>1 DEF Reaches, IsFlow, Seen, Instance
<1>3. have = Arrivals[n] \cup ({p.source} \ {NoSource})
  BY <1>1, <1>2, SeenIs DEF ArrivedOf, Known
<1>4. n \in FiredJoins <=> store.joins[n].completed
  BY <1>2, SeenIs DEF FiredOf
<1>5. CASE store.joins[n].completed
  <2>1. Spends(store.tokens, store'.tokens, p, Net!NoTokens) /\ store'.joins = store.joins
    BY <1>1, <1>5, NetNames DEF Reaches
  <2>2. UNCHANGED <<Arrivals, FiredJoins>>
    BY <2>1, SeenIs DEF ArrivedOf, FiredOf
  <2>3. p \in Net!InPhase("ready") /\ Net!Move(p, Net!NoTokens)
    BY <2>1, NetMove
  <2>4. Net!ReachJoin(p)
    BY <1>1, <1>2, <1>4, <1>5, <2>2, <2>3, NetNames DEF Net!ReachJoin
  <2> QED BY <2>3, <2>4 DEF Net!Next
<1>6. ASSUME NEW full \in BOOLEAN, store'.joins = JoinsAfter(store, p, full),
             ~store.joins[n].completed
      PROVE  /\ Arrivals' = [Arrivals EXCEPT ![n] = have]
             /\ FiredJoins' = IF full THEN FiredJoins \cup {n} ELSE FiredJoins
  <2>1. \A m \in NodeIds : store'.joins[m] = IF m = n THEN [arrived |-> have, completed |-> full]
                                             ELSE store.joins[m]
    BY <1>1, <1>2, <1>6 DEF JoinsAfter
  <2>2. \A m \in NodeIds : /\ m # n => store'.joins[m] = store.joins[m]
                           /\ m = n => store'.joins[m].arrived = have
                                       /\ (store'.joins[m].completed <=> full)
    BY <2>1
  <2>3. Arrivals' = [Arrivals EXCEPT ![n] = have]
    BY <1>2, <2>2, SeenIs DEF ArrivedOf
  <2>4. \A m : m \in FiredJoins' <=> m \in NodeIds /\ store'.joins[m].completed
    BY SeenIs DEF FiredOf
  <2>5. \A m : m \in FiredJoins <=> m \in NodeIds /\ store.joins[m].completed
    BY SeenIs DEF FiredOf
  <2>6. FiredJoins' = IF full THEN FiredJoins \cup {n} ELSE FiredJoins
    <3>1. CASE full
      BY <1>2, <2>2, <2>4, <2>5, <3>1
    <3>2. CASE ~full
      BY <1>2, <1>6, <2>2, <2>4, <2>5, <3>2
    <3> QED BY <3>1, <3>2
  <2> QED BY <2>3, <2>6
<1>7. CASE ~store.joins[n].completed /\ ~(Sources(flow, n) \subseteq have)
  <2>1. Spends(store.tokens, store'.tokens, p, Net!NoTokens) /\ store'.joins = JoinsAfter(store, p, FALSE)
    BY <1>1, <1>7, NetNames DEF Reaches
  <2>2. Arrivals' = [Arrivals EXCEPT ![n] = have] /\ FiredJoins' = FiredJoins
    BY <1>6, <1>7, <2>1
  <2>3. p \in Net!InPhase("ready") /\ Net!Move(p, Net!NoTokens)
    BY <2>1, NetMove
  <2>4. Net!ReachJoin(p)
    BY <1>1, <1>2, <1>3, <1>4, <1>7, <2>2, <2>3, NetNames DEF Net!ReachJoin
  <2> QED BY <2>3, <2>4 DEF Net!Next
<1>8. CASE ~store.joins[n].completed /\ Sources(flow, n) \subseteq have
  <2>1. /\ Spends(store.tokens, store'.tokens, p, Net!Sent(n, flow.outgoing[n]))
        /\ store'.joins = JoinsAfter(store, p, TRUE)
    BY <1>1, <1>8, NetNames DEF Reaches
  <2>2. Arrivals' = [Arrivals EXCEPT ![n] = have] /\ FiredJoins' = FiredJoins \cup {n}
    BY <1>6, <1>8, <2>1
  <2>3. p \in Net!InPhase("ready") /\ Net!Move(p, Net!Sent(n, flow.outgoing[n]))
    BY <2>1, NetMove
  <2>4. Net!ReachJoin(p)
    BY <1>1, <1>2, <1>3, <1>4, <1>8, <2>2, <2>3, NetNames DEF Net!ReachJoin
  <2> QED BY <2>3, <2>4 DEF Net!Next
<1> QED BY <1>5, <1>7, <1>8

LEMMA NetBreaks ==
    ASSUME Seen, NEW p \in LiveToken, p.status = "ready", AtPlace(store.tokens, p) # {},
           store'.status = "failed", Breaks(flow, store, store', p)
    PROVE  Net!Next
<1>1. UNCHANGED <<Arrivals, FiredJoins>>
  BY SeenIs DEF Breaks, ArrivedOf, FiredOf
<1>2. p \in Net!InPhase("ready") /\ Net!Live /\ StoredStatus' = "failed" /\ flow' = flow
  BY NetPhase, NetLive, SeenIs DEF Seen
<1>3. CASE p.node \notin flow.nodes /\ store'.tokens = store.tokens
  <2>1. LiveTokens' = LiveTokens
    BY <1>3, SeenIs DEF LiveOf
  <2>2. Net!Fail(p)
    BY <1>1, <1>2, <1>3, <2>1 DEF Net!Fail
  <2> QED BY <1>2, <2>2 DEF Net!Next
<1>4. CASE /\ p.node \in flow.nodes /\ p.node \in flow.fails
           /\ Spends(store.tokens, store'.tokens, p, NoGain)
  <2>1. \A q \in LiveToken : Net!One(p)[q] = OneAt(p, q) /\ NoGain[q] = 0
    BY NetNames DEF OneGain, NoGain
  <2>2. \A q \in LiveToken : Number(store'.tokens, q) = LiveTokens[q] - Net!One(p)[q]
    <3> TAKE q \in LiveToken
    <3>1. Number(store'.tokens, q) = Number(store.tokens, q) - OneAt(p, q) + NoGain[q]
      BY <1>4 DEF Spends
    <3>2. Number(store.tokens, q) \in Nat /\ LiveTokens[q] = Number(store.tokens, q)
      BY SeenIs DEF LiveOf
    <3>3. OneAt(p, q) \in Nat
      BY DEF OneAt
    <3> QED BY <2>1, <3>1, <3>2, <3>3
  <2>3. LiveTokens' = [ q \in LiveToken |-> LiveTokens[q] - Net!One(p)[q] ]
    BY <2>2, SeenIs DEF LiveOf
  <2>4. Net!Fail(p)
    BY <1>1, <1>2, <1>4, <2>3, NetNames DEF Net!Fail
  <2> QED BY <1>2, <2>4 DEF Net!Next
<1> QED BY <1>3, <1>4 DEF Breaks

LEMMA NetSettles ==
    ASSUME Seen, WithStatus(store, "ready") = {}, store' = FinalizeBlockedInstance(Running(store))
    PROVE  Net!Next
<1>1. /\ store'.tokens = store.tokens /\ store'.joins = store.joins
      /\ store'.status = IF WithStatus(store, "waiting") # {} THEN "waiting" ELSE "completed"
  <2>1. PICK r : r = Running(store)
    OBVIOUS
  <2>2. /\ r \in Instance /\ r.tokens = store.tokens /\ r.joins = store.joins
        /\ WithStatus(r, "waiting") = WithStatus(store, "waiting")
    BY <2>1, RunningIs DEF Seen
  <2>3. store' = FinalizeBlockedInstance(r)
    BY <2>1
  <2> QED BY <2>2, <2>3 DEF FinalizeBlockedInstance, Instance
<1>2. UNCHANGED <<flow, LiveTokens, Arrivals, FiredJoins>> /\ StoredStatus' = store'.status
  BY <1>1, SeenIs DEF LiveOf, ArrivedOf, FiredOf, Seen
<1>3. ASSUME NEW phase \in {"ready", "waiting"}
      PROVE  Net!InPhase(phase) = {} <=> WithStatus(store, phase) = {}
  <2>1. PICK s : s = store.tokens /\ \A j \in DOMAIN s : s[j] \in Token
    BY TokensSeq DEF Seen
  <2>2. \A j \in DOMAIN s : s[j].status = phase => s[j] \in LiveToken /\ j \in AtPlace(s, s[j])
    BY <2>1, LivesWhile DEF AtPlace, Having
  <2>3. Net!InPhase(phase) = { p \in LiveToken : p.status = phase /\ AtPlace(s, p) # {} }
    BY <2>1, NetPhase
  <2>4. WithStatus(store, phase) = { j \in DOMAIN s : s[j].status = phase }
    BY <2>1 DEF WithStatus
  <2>5. \A p : AtPlace(s, p) = { j \in DOMAIN s : s[j] = p }
    BY DEF AtPlace, Having
  <2> QED BY <2>2, <2>3, <2>4, <2>5
<1>4. Net!Settle
  BY <1>1, <1>2, <1>3, NetLive DEF Net!Settle
<1> QED BY <1>4 DEF Net!Next

\* The net's sends: a token of a woken place, by its number there, and one of its edges.
Places(f, s, W)  == UNION { {p} \X (1..Number(s, p)) \X DOMAIN f.outgoing[p.node] : p \in W }
FromPlace(f, x)  == NewTokens(x[1].node, f.outgoing[x[1].node])[x[3]]
PlacesTo(f, s, W, q) == { x \in Places(f, s, W) : FromPlace(f, x) = q }

\* The tokens of s that lie at a place of W, which are all alive.
LyingIn(s, W) == { i \in DOMAIN s : s[i] \in W }

\* Numbering the tokens of each place pairs the sends of tokens with those of places.
LEMMA SendsCounted ==
    ASSUME NEW f, NEW s \in Seq(Token), NEW W \in SUBSET LiveToken, NEW q,
           IsFiniteSet(SendsTo(f, s, LyingIn(s, W), q))
    PROVE  Cardinality(PlacesTo(f, s, W, q)) = Cardinality(SendsTo(f, s, LyingIn(s, W), q))
<1>1. PICK M, A, B : M = LyingIn(s, W) /\ A = Sends(f, s, M) /\ B = Places(f, s, W)
  OBVIOUS
<1> DEFINE h == [ p \in W |-> CHOOSE b : b \in Bijection(AtPlace(s, p), 1..Number(s, p)) ]
           a == [ x \in A |-> Along(f, s, x) ]
           b == [ x \in B |-> FromPlace(f, x) ]
           g == [ x \in A |-> <<s[x[1]], h[s[x[1]]][x[1]], x[2]>> ]
<1>2. ASSUME NEW p \in W
      PROVE  h[p] \in Bijection(AtPlace(s, p), 1..Number(s, p))
  <2>1. PICK n, at : n = Number(s, p) /\ at = AtPlace(s, p)
    OBVIOUS
  <2>2. IsFiniteSet(at) /\ n \in Nat /\ Cardinality(at) = n
    BY <2>1, NumberNat DEF Number
  <2>3. IsFiniteSet(1..n) /\ Cardinality(1..n) = n
    BY <2>2, FS_Interval
  <2>4. ExistsBijection(at, 1..n)
    BY <2>2, <2>3, FS_SameCardinalityBij
  <2>5. \E x : x \in Bijection(at, 1..n)
    BY <2>4, Zenon DEF ExistsBijection
  <2>6. h[p] = CHOOSE x : x \in Bijection(at, 1..n)
    BY <2>1
  <2> HIDE DEF h
  <2> QED BY <2>1, <2>5, <2>6, Zenon
<1> HIDE DEF h
<1>3. ASSUME NEW p \in W
      PROVE  /\ h[p] \in [AtPlace(s, p) -> 1..Number(s, p)]
             /\ \A x, y \in AtPlace(s, p) : h[p][x] = h[p][y] => x = y
             /\ \A m \in 1..Number(s, p) : \E x \in AtPlace(s, p) : h[p][x] = m
  <2>1. PICK n, at, hp : n = 1..Number(s, p) /\ at = AtPlace(s, p) /\ hp = h[p]
    OBVIOUS
  <2>2. hp \in Bijection(at, n)
    BY <1>2, <2>1
  <2>3. /\ hp \in [at -> n] /\ \A x, y \in at : hp[x] = hp[y] => x = y
        /\ \A m \in n : \E x \in at : hp[x] = m
    BY <2>2, BijectionMeans
  <2> QED BY <2>1, <2>3
<1>4. \A x : x \in A <=> \E i \in M : \E k \in DOMAIN f.outgoing[s[i].node] : x = <<i, k>>
  BY <1>1 DEF Sends
<1>5. \A x : x \in B <=> \E p \in W : \E m \in 1..Number(s, p) :
                            \E k \in DOMAIN f.outgoing[p.node] : x = <<p, m, k>>
  BY <1>1 DEF Places
<1>6. \A i : i \in M <=> i \in DOMAIN s /\ s[i] \in W
  BY <1>1 DEF LyingIn
<1>7. \A p : \A i : i \in AtPlace(s, p) <=> i \in DOMAIN s /\ s[i] = p
  BY DEF AtPlace, Having
<1>8. \A i \in M : \A k : <<i, k>> \in A => g[<<i, k>>] = <<s[i], h[s[i]][i], k>>
  OBVIOUS
<1> HIDE DEF g
<1>9. \A x \in A : g[x] \in B /\ FromPlace(f, g[x]) = Along(f, s, x)
  <2> TAKE x \in A
  <2>1. PICK i \in M : \E k \in DOMAIN f.outgoing[s[i].node] : x = <<i, k>>
    BY <1>4
  <2>2. PICK k \in DOMAIN f.outgoing[s[i].node] : x = <<i, k>>
    BY <2>1
  <2>3. PICK p, m : p = s[i] /\ m = h[s[i]][i]
    OBVIOUS
  <2>4. p \in W /\ i \in AtPlace(s, p) /\ m \in 1..Number(s, p)
    BY <1>3, <1>6, <1>7, <2>1, <2>3
  <2>5. g[x] = <<p, m, k>>
    BY <1>8, <2>1, <2>2, <2>3
  <2>6. g[x] \in B
    BY <1>5, <2>2, <2>3, <2>4, <2>5
  <2> QED BY <2>2, <2>3, <2>5, <2>6 DEF FromPlace, Along
<1>10. \A x, y \in A : g[x] = g[y] => x = y
  <2> SUFFICES ASSUME NEW x \in A, NEW y \in A, g[x] = g[y]
               PROVE  x = y
    OBVIOUS
  <2>1. PICK i \in M : \E k \in DOMAIN f.outgoing[s[i].node] : x = <<i, k>>
    BY <1>4
  <2>2. PICK k \in DOMAIN f.outgoing[s[i].node] : x = <<i, k>>
    BY <2>1
  <2>3. PICK j \in M : \E l \in DOMAIN f.outgoing[s[j].node] : y = <<j, l>>
    BY <1>4
  <2>4. PICK l \in DOMAIN f.outgoing[s[j].node] : y = <<j, l>>
    BY <2>3
  <2>5. g[x] = <<s[i], h[s[i]][i], k>> /\ g[y] = <<s[j], h[s[j]][j], l>>
    BY <1>8, <2>1, <2>2, <2>3, <2>4
  <2>6. s[i] = s[j] /\ h[s[i]][i] = h[s[j]][j] /\ k = l
    <3>1. <<s[i], h[s[i]][i], k>> = <<s[j], h[s[j]][j], l>>
      BY <2>5
    <3> HIDE DEF a, b
    <3> QED BY <3>1
  <2>7. s[i] \in W /\ i \in AtPlace(s, s[i]) /\ j \in AtPlace(s, s[i])
    BY <1>6, <1>7, <2>1, <2>3, <2>6
  <2>8. i = j
    BY <1>3, <2>6, <2>7
  <2> QED BY <2>2, <2>4, <2>6, <2>8
<1>11. \A y \in B : \E x \in A : g[x] = y
  <2> TAKE y \in B
  <2>1. PICK p \in W : \E m \in 1..Number(s, p) : \E k \in DOMAIN f.outgoing[p.node] : y = <<p, m, k>>
    BY <1>5
  <2>2. PICK m \in 1..Number(s, p) : \E k \in DOMAIN f.outgoing[p.node] : y = <<p, m, k>>
    BY <2>1
  <2>3. PICK k \in DOMAIN f.outgoing[p.node] : y = <<p, m, k>>
    BY <2>2
  <2>4. PICK i \in AtPlace(s, p) : h[p][i] = m
    BY <1>3, <2>1, <2>2
  <2>5. i \in M /\ s[i] = p
    BY <1>6, <1>7, <2>1, <2>4
  <2>6. <<i, k>> \in A
    BY <1>4, <2>3, <2>5
  <2>7. g[<<i, k>>] = y
    BY <1>8, <2>3, <2>4, <2>5, <2>6
  <2> QED BY <2>6, <2>7
<1>12. g \in Bijection(A, B)
  <2>1. g \in [A -> B]
    BY <1>9 DEF g
  <2> QED BY <1>10, <1>11, <2>1, BijectionMeans
<1>13. Pairs(g, A, a, B, b)
  BY <1>9, <1>12 DEF Pairs
<1>14. SendsTo(f, s, M, q) = Having(A, a, q) /\ PlacesTo(f, s, W, q) = Having(B, b, q)
  BY <1>1 DEF SendsTo, PlacesTo, Having
<1> HIDE DEF a, b
<1>15. IsFiniteSet(Having(A, a, q))
  BY <1>1, <1>14
<1>16. Cardinality(Having(B, b, q)) = Cardinality(Having(A, a, q))
  BY <1>13, <1>15, SameCount
<1> QED BY <1>1, <1>14, <1>16

LEMMA NetDelivers ==
    ASSUME Seen, IsFlow(flow), NEW ev \in Events, NEW D, Applied(flow, store, store', ev, D),
           WaitsAtWaitNodes(flow, store), Matching(flow, store, ev) # {},
           Matching(flow, store', ev) = {}, store'.status = "running"
    PROVE  Net!Next
<1>1. PICK s, t, M : s = store.tokens /\ t = store'.tokens /\ M = Matching(flow, store, ev)
  OBVIOUS
<1>2. /\ s \in Seq(Token) /\ \A j \in DOMAIN s : s[j] \in Token
      /\ t \in Seq(Token) /\ \A j \in DOMAIN t : t[j] \in Token
  BY <1>1, TokensSeq DEF Seen
<1>3. \A j : j \in M <=> j \in DOMAIN s /\ Wakes(flow, ev, s[j])
  BY <1>1 DEF Matching, WithStatus, Wakes
<1>4. \A j \in DOMAIN t : ~Wakes(flow, ev, t[j])
  BY <1>1 DEF Matching, WithStatus, Wakes
<1>5. \A j \in M : s[j].node \in flow.nodes
  BY <1>1 DEF Matching, WaitsAtWaitNodes
<1>6. D = M
  BY <1>1 DEF Applied
<1>7. PICK W : W = { p \in Net!InPhase("waiting") : ev \in flow.accepts[p.node] }
  OBVIOUS
<1>8. \A p : p \in W <=> p \in LiveToken /\ Wakes(flow, ev, p) /\ AtPlace(s, p) # {}
  BY <1>1, <1>7, NetPhase DEF Wakes
<1>9. \A j \in DOMAIN s : Wakes(flow, ev, s[j]) <=> s[j] \in W
  <2> TAKE j \in DOMAIN s
  <2>1. j \in AtPlace(s, s[j])
    BY DEF AtPlace, Having
  <2>2. Wakes(flow, ev, s[j]) => s[j] \in LiveToken
    BY <1>2, LivesWhile DEF Wakes
  <2> QED BY <1>8, <2>1, <2>2
<1>10. M = LyingIn(s, W) /\ W \in SUBSET LiveToken
  BY <1>3, <1>8, <1>9 DEF LyingIn
<1>11. W # {}
  BY <1>1, <1>3, <1>9
<1>12. ASSUME NEW q \in LiveToken
       PROVE  /\ IsFiniteSet(SendsTo(flow, s, M, q))
              /\ ~Wakes(flow, ev, q) =>
                    Number(t, q) = Number(s, q) + Cardinality(SendsTo(flow, s, M, q))
  BY <1>1, <1>6 DEF Applied
<1>13. \A q : q.status = "waiting" => SendsTo(flow, s, M, q) = {}
  <2> SUFFICES ASSUME NEW x \in Sends(flow, s, M)
               PROVE  Along(flow, s, x).status = "ready"
    BY DEF SendsTo
  <2>1. PICK i \in M : x \in {i} \X DOMAIN flow.outgoing[s[i].node]
    BY DEF Sends
  <2>2. PICK k \in DOMAIN flow.outgoing[s[i].node] : x = <<i, k>>
    BY <2>1
  <2> QED BY <2>2 DEF Along, NewTokens
<1>14. \A q : Wakes(flow, ev, q) => Number(t, q) = 0
  <2> SUFFICES ASSUME NEW q, Wakes(flow, ev, q)
               PROVE  Number(t, q) = 0
    OBVIOUS
  <2>1. AtPlace(t, q) = {}
    BY <1>4 DEF AtPlace, Having
  <2> QED BY <2>1, FS_EmptySet DEF Number
<1>15. \A q : AtPlace(s, q) = {} => Number(s, q) = 0
  BY FS_EmptySet DEF Number
<1> DEFINE sends == UNION { {p} \X (1..LiveTokens[p]) \X DOMAIN flow.outgoing[p.node] : p \in W }
           sent  == Net!Tally([ x \in sends |->
                       Net!NewTokens(x[1].node, flow.outgoing[x[1].node])[x[3]] ])
<1>16. sends = Places(flow, s, W)
  <2>1. \A p \in W : LiveTokens[p] = Number(s, p)
    BY <1>1, <1>8, SeenIs DEF LiveOf
  <2> QED BY <2>1 DEF Places
<1>17. \A q \in LiveToken : sent[q] = Cardinality(PlacesTo(flow, s, W, q))
  <2>1. PICK e : e = [ x \in sends |-> Net!NewTokens(x[1].node, flow.outgoing[x[1].node])[x[3]] ]
    OBVIOUS
  <2>2. DOMAIN e = Places(flow, s, W) /\ \A x \in DOMAIN e : e[x] = FromPlace(flow, x)
    <3> HIDE DEF sends
    <3> QED BY <1>16, <2>1, NetNames DEF FromPlace
  <2>3. \A q : { x \in DOMAIN e : e[x] = q } = PlacesTo(flow, s, W, q)
    BY <2>2 DEF PlacesTo
  <2>4. \A S : Net!Cardinality(S) = Cardinality(S)
    BY DEF Net!Cardinality, Cardinality
  <2>5. \A q \in LiveToken : Net!Tally(e)[q] = Cardinality(PlacesTo(flow, s, W, q))
    BY <2>3, <2>4, NetNames DEF Net!Tally
  <2>6. sent = Net!Tally(e)
    BY <2>1
  <2> HIDE DEF sent
  <2> QED BY <2>5, <2>6
<1> HIDE DEF sends, sent
<1>18. ASSUME NEW q \in LiveToken
       PROVE  Number(t, q) = IF q \in W THEN 0 ELSE LiveTokens[q] + sent[q]
  <2>1. LiveTokens[q] = Number(s, q)
    BY <1>1, SeenIs DEF LiveOf
  <2>2. sent[q] = Cardinality(SendsTo(flow, s, M, q))
    <3>1. IsFiniteSet(SendsTo(flow, s, LyingIn(s, W), q))
      BY <1>10, <1>12
    <3>2. Cardinality(PlacesTo(flow, s, W, q)) = Cardinality(SendsTo(flow, s, LyingIn(s, W), q))
      BY <1>2, <1>10, <3>1, SendsCounted
    <3> QED BY <1>10, <1>17, <3>2
  <2>3. CASE ~Wakes(flow, ev, q)
    BY <1>8, <1>12, <2>1, <2>2, <2>3
  <2>4. CASE Wakes(flow, ev, q) /\ q \in W
    BY <1>14, <2>4
  <2>5. CASE Wakes(flow, ev, q) /\ q \notin W
    <3>1. Number(s, q) = 0 /\ Number(t, q) = 0
      BY <1>8, <1>14, <1>15, <2>5
    <3>2. Cardinality(SendsTo(flow, s, M, q)) = 0
      BY <1>13, <2>5, FS_EmptySet DEF Wakes
    <3> QED BY <2>1, <2>2, <2>5, <3>1, <3>2
  <2> QED BY <2>3, <2>4, <2>5
<1>19. LiveTokens' = [ q \in LiveToken |-> IF q \in W THEN 0 ELSE LiveTokens[q] + sent[q] ]
  <2>1. LiveTokens' = [ q \in LiveToken |-> Number(t, q) ]
    BY <1>1, SeenIs DEF LiveOf
  <2> QED BY <1>18, <2>1
<1>20. UNCHANGED <<flow, Arrivals, FiredJoins>> /\ StoredStatus' = "running"
  BY SeenIs DEF Applied, ArrivedOf, FiredOf, Seen
<1>21. Net!Deliver(ev)
  BY <1>7, <1>11, <1>19, <1>20, NetLive, NetNames DEF Net!Deliver, sends, sent
<1> QED BY <1>21 DEF Net!Next

\* A stored instance is created once, with a token for each start of its flow.
LEMMA NetCreates ==
    ASSUME store = NoInstance, store' = NewInstance(flow), flow' = flow, IsFlow(flow),
           store' \in Instance
    PROVE  Net!Next
<1>1. store' # NoInstance
  BY NoInstanceAssumption
<1>2. /\ store'.status = "created" /\ store'.tokens = NewTokens(NoSource, flow.starts)
      /\ \A n \in NodeIds : store'.joins[n].arrived = {} /\ ~store'.joins[n].completed
  BY DEF NewInstance
<1>3. StoredStatus = "absent" /\ StoredStatus' = "created"
  BY <1>1, <1>2 DEF StoredStatus
<1>4. LiveTokens' = Net!Sent(NoSource, flow.starts)
  <2>1. LiveTokens' = Tallied(store'.tokens)
    BY <1>1 DEF LiveTokens, Tallied, Number, AtPlace, Having
  <2> QED BY <1>2, <2>1, NetNames
<1>5. Arrivals' = Arrivals
  BY <1>1, <1>2 DEF Arrivals
<1>6. FiredJoins' = FiredJoins
  BY <1>1, <1>2 DEF FiredJoins
<1>7. Net!Create
  BY <1>3, <1>4, <1>5, <1>6 DEF Net!Create
<1> QED BY <1>7 DEF Net!Next

LEMMA NetSaves ==
    ASSUME NEW u, Callers = {u}, InductiveInvariant, NetInv(u), Save(u)
    PROVE  Net!Next
<1>1. PICK l, ev : l = pc[u] /\ ev = event[u]
  OBVIOUS
<1>2. /\ l \in Saving /\ store' = local[u] /\ flow' = flow
  BY <1>1 DEF Save
<1>3. /\ IsFlow(flow) /\ store \in Instance /\ store' \in Instance /\ store # NoInstance
      /\ Ahead(flow, store, store', l, ev) /\ u \in Callers
  BY <1>1, <1>2, NetFacts
<1>4. Seen
  BY <1>2, <1>3 DEF Seen, Ahead
<1>5. CASE l = "saveStep"
  <2>1. store'.status = "running"
    BY <1>1, <1>2, <1>5, NetFacts
  <2>2. PICK p \in LiveToken : /\ p.status = "ready"
                               /\ Passes(flow, store, store', p) \/ Reaches(flow, store, store', p)
    BY <1>3, <1>5 DEF Ahead
  <2> QED BY <1>3, <1>4, <2>1, <2>2, NetPasses, NetReaches
<1>6. CASE l = "saveFailed"
  <2>1. store'.status = "failed"
    BY <1>3, <1>6 DEF Ahead
  <2>2. PICK p \in LiveToken : /\ p.status = "ready" /\ AtPlace(store.tokens, p) # {}
                               /\ Breaks(flow, store, store', p)
    BY <1>3, <1>6 DEF Ahead
  <2> QED BY <1>4, <2>1, <2>2, NetBreaks
<1>7. CASE l = "saveBlocked"
  <2>1. WithStatus(store, "ready") = {} /\ store' = FinalizeBlockedInstance(Running(store))
    BY <1>3, <1>7 DEF Ahead
  <2> QED BY <1>4, <2>1, NetSettles
<1>8. CASE l = "saveResumed"
  <2>1. /\ ev \in Events /\ Matching(flow, store, ev) # {} /\ Matching(flow, store', ev) = {}
        /\ store'.status = "running"
    BY <1>3, <1>8 DEF Ahead
  <2>2. PICK D : Applied(flow, store, store', ev, D)
    BY <1>3, <1>8 DEF Ahead
  <2>3. WaitsAtWaitNodes(flow, store)
    BY <1>3, CallerCopy DEF CopyOK, InstanceOK
  <2> QED BY <1>3, <1>4, <2>1, <2>2, <2>3, NetDelivers
<1> QED BY <1>2, <1>5, <1>6, <1>7, <1>8 DEF Saving

LEMMA NetInit == Init => Net!Init
<1> SUFFICES ASSUME Init PROVE Net!Init
  OBVIOUS
<1>1. flow \in Flows /\ store = NoInstance
  BY DEF Init
<1>2. StoredStatus = "absent" /\ FiredJoins = {} /\ LiveTokens = NoGain
  BY <1>1 DEF StoredStatus, FiredJoins, LiveTokens, NoGain
<1>3. Arrivals = [n \in NodeIds |-> {}]
  BY <1>1 DEF Arrivals
<1> QED BY <1>1, <1>2, <1>3, NetNames DEF Net!Init

\* With one caller at a time every save is one step of the token net, and a step that saves
\* nothing is none: no token moves twice, no event is half delivered, and a call that is cut
\* short leaves the net where it was, whatever the flow.
THEOREM ImplementsTokenNetHolds ==
    ASSUME NEW u, Callers = {u}
    PROVE  Spec => ImplementsTokenNet
<1>1. Init => NetInv(u)
  BY DEF Init, NetInv
<1>2. InductiveInvariant /\ NetInv(u) /\ [Next]_vars => [Net!Next]_(Net!vars)
  <2> SUFFICES ASSUME InductiveInvariant, NetInv(u), [Next]_vars
               PROVE  Net!Next \/ UNCHANGED <<flow, store>>
    BY DEF Net!vars, StoredStatus, LiveTokens, Arrivals, FiredJoins
  <2>1. CASE UNCHANGED vars
    BY <2>1 DEF vars
  <2>2. CASE Next
    <3>1. PICK c \in Callers : \/ Start(c) \/ RunUntilBlocked(c) \/ \E ev \in Events : Resume(c, ev)
                               \/ Advance(c) \/ Abort(c)
      BY <2>2 DEF Next
    <3>2. c = u
      OBVIOUS
    <3>3. CASE Start(u)
      <4>1. store = NoInstance /\ store' = NewInstance(flow) /\ flow' = flow
        BY <3>3 DEF Start, Call
      <4>2. IsFlow(flow) /\ NewInstance(flow) \in Instance
        BY NetFacts, NewInstanceOK DEF CopyOK
      <4> QED BY <4>1, <4>2, NetCreates
    <3>4. CASE Save(u)
      BY <3>4, NetSaves
    <3>5. CASE ~Start(u) /\ ~Save(u)
      BY <3>1, <3>2, <3>5 DEF RunUntilBlocked, Resume, Call, Advance, MatchNext, MatchError, Load,
                              ExecuteToken, Block, Abort
    <3> QED BY <3>3, <3>4, <3>5
  <2> QED BY <2>1, <2>2
<1> QED BY InitInvariant, StepInvariant, NetStep, NetInit, <1>1, <1>2, PTL
        DEF Spec, ImplementsTokenNet, Net!Spec
=============================================================================
