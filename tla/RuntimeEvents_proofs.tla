------------------------ MODULE RuntimeEvents_proofs ------------------------
(***************************************************************************)
(* For any limit, number of publishers and queue: the broker's history is  *)
(* the latest events, every event a client was owed was delivered, is      *)
(* under way or is counted as dropped (EveryEventAccounted), and the       *)
(* events of one source reach a client in order (InOrderPerSource).        *)
(***************************************************************************)
EXTENDS RuntimeEvents, SequenceTheorems, FiniteSetTheorems, TLAPS

Numbered == [n : Nat, by : Publishers]

HistoryInv == history \in Seq(Numbered) /\ published \in Nat /\ HistoryIsLatest

\* Trim keeps the last elements, as many as the limit allows.
LEMMA TrimKeepsLatest ==
    ASSUME NEW h \in Seq(Numbered)
    PROVE  /\ Trim(h) \in Seq(Numbered)
           /\ Len(Trim(h)) = IF Len(h) > HistoryLimit THEN HistoryLimit ELSE Len(h)
           /\ \A k \in DOMAIN Trim(h) : Trim(h)[k] = h[Len(h) - Len(Trim(h)) + k]
<1>1. Len(h) \in Nat /\ DOMAIN h = 1..Len(h) /\ HistoryLimit \in Nat \ {0}
  BY LenProperties, LimitAssumption
<1>2. CASE Len(h) <= HistoryLimit
  BY <1>1, <1>2 DEF Trim
<1>3. CASE Len(h) > HistoryLimit
  <2> DEFINE m == Len(h) - HistoryLimit + 1   t == SubSeq(h, m, Len(h))
  <2>1. m \in 1..Len(h) /\ m \in Int /\ Len(h) \in Int
    BY <1>1, <1>3
  <2>2. \A i \in m..Len(h) : h[i] \in Numbered
    BY <1>1, <2>1, ElementOfSeq
  <2>3. /\ t \in Seq(Numbered)
        /\ Len(t) = IF m <= Len(h) THEN Len(h) - m + 1 ELSE 0
        /\ \A i \in 1..(Len(h) - m + 1) : t[i] = h[m + i - 1]
    BY <2>1, <2>2, SubSeqProperties
  <2>4. Len(t) = HistoryLimit /\ DOMAIN t = 1..HistoryLimit /\ Trim(h) = t
    BY <1>1, <1>3, <2>1, <2>3, LenProperties DEF Trim
  <2> HIDE DEF t
  <2>5. \A k \in 1..HistoryLimit : t[k] = h[Len(h) - HistoryLimit + k]
    BY <1>1, <2>3
  <2> QED BY <1>3, <2>3, <2>4, <2>5
<1> QED BY <1>1, <1>2, <1>3

LEMMA HistoryKept == HistoryInv /\ [Next]_vars => HistoryInv'
<1> SUFFICES ASSUME HistoryInv, [Next]_vars
             PROVE  HistoryInv'
  OBVIOUS
<1>1. CASE UNCHANGED <<history, published>>
  BY <1>1 DEF HistoryInv, HistoryIsLatest
<1>2. ASSUME NEW p \in Publishers, Publish(p)
      PROVE  HistoryInv'
  <2> DEFINE e == [n |-> published + 1, by |-> p]   h == Append(history, e)
  <2>1. e \in Numbered /\ e.n = published + 1
    BY DEF Numbered, HistoryInv
  <2> HIDE DEF e
  <2>2. /\ h \in Seq(Numbered) /\ Len(h) = Len(history) + 1
        /\ \A k \in 1..Len(history) : h[k] = history[k]
        /\ h[Len(history) + 1] = e
    BY <2>1, AppendProperties DEF HistoryInv
  <2>3. history' = Trim(h) /\ published' = published + 1
    BY <1>2 DEF Publish, e
  <2>4. Len(history) \in Nat /\ DOMAIN history = 1..Len(history) /\ HistoryLimit \in Nat \ {0}
        /\ published \in Nat
    BY LenProperties, LimitAssumption DEF HistoryInv
  <2> HIDE DEF h
  <2>5. ASSUME NEW k \in 1..Len(h)
        PROVE  h[k].n = published + 1 - Len(h) + k
    <3>1. CASE k = Len(h)
      BY <2>1, <2>2, <2>4, <3>1
    <3>2. CASE k # Len(h)
      <4>1. k \in 1..Len(history) /\ k \in Nat
        BY <2>2, <2>4, <3>2
      <4>2. h[k].n = published - Len(history) + k
        BY <2>2, <2>4, <4>1 DEF HistoryInv, HistoryIsLatest
      <4> QED BY <2>2, <2>4, <4>1, <4>2
    <3> QED BY <3>1, <3>2
  <2>6. /\ history' \in Seq(Numbered)
        /\ Len(history') = IF Len(h) > HistoryLimit THEN HistoryLimit ELSE Len(h)
        /\ \A k \in DOMAIN history' : history'[k] = h[Len(h) - Len(history') + k]
        /\ DOMAIN history' = 1..Len(history') /\ Len(history') \in Nat /\ Len(h) \in Nat
    BY <2>2, <2>3, TrimKeepsLatest, LenProperties
  <2>7. Len(history') <= Len(h)
    BY <2>4, <2>6
  <2>8. ASSUME NEW k \in 1..Len(history')
        PROVE  history'[k].n = published' - Len(history') + k
    <3> DEFINE j == Len(h) - Len(history') + k
    <3>1. j \in 1..Len(h)
      BY <2>6, <2>7
    <3>2. history'[k] = h[j] /\ h[j].n = published + 1 - Len(h) + j
      BY <2>5, <2>6, <3>1
    <3> QED BY <2>3, <2>4, <2>6, <3>2
  <2>9. Len(history') = IF published' < HistoryLimit THEN published' ELSE HistoryLimit
    BY <2>2, <2>3, <2>4, <2>6 DEF HistoryInv, HistoryIsLatest
  <2>10. DOMAIN history' = 1..Len(history')
    BY <2>6
  <2>11. HistoryIsLatest'
    BY ONLY <2>8, <2>9, <2>10 DEF HistoryIsLatest
  <2>12. history' \in Seq(Numbered) /\ published' \in Nat
    BY <2>3, <2>4, <2>6
  <2> QED BY <2>11, <2>12 DEF HistoryInv
<1>3. ASSUME ~UNCHANGED <<history, published>>
      PROVE  \E p \in Publishers : Publish(p)
  BY <1>3 DEF vars, Next, broker, Send, Abandon, Deliver, Drop, Cancel, Subscribe, ReplayGoroutine,
              Replay, EndReplay, Receive, Disconnect, Unsubscribe
<1> QED BY <1>1, <1>2, <1>3

\* The history a late subscriber finds is the latest events, none missing, whatever the
\* limit and however many publishers append.
THEOREM HistoryIsLatestHolds == Spec => []HistoryIsLatest
<1>1. Init => HistoryInv
  <2>1. <<>> \in Seq(Numbered) /\ Len(<<>>) = 0 /\ DOMAIN <<>> = {}
    BY EmptySeq, LenProperties
  <2> QED BY <2>1, LimitAssumption DEF Init, HistoryInv, HistoryIsLatest
<1>2. HistoryInv => HistoryIsLatest
  BY DEF HistoryInv
<1> QED BY <1>1, <1>2, HistoryKept, PTL DEF Spec
-----------------------------------------------------------------------------
(***************************************************************************)
(* What a subscriber is sent. Delivered(s) is what has reached its channel:*)
(* a step appends to it (Deliver, Replay) or leaves it as it is.           *)
(***************************************************************************)

TypeInv ==
    /\ sending \in [Publishers -> Numbered \cup {NoEvent}]
    /\ targets \in [Publishers -> SUBSET Subscribers]
    /\ subscribers \subseteq Subscribers
    /\ conn \in [Subscribers -> {"off", "open", "gone", "closed"}]
    /\ buffer \in [Subscribers -> Seq(Numbered)]
    /\ replay \in [Subscribers -> Seq(Numbered)]
    /\ received \in [Subscribers -> Seq(Numbered)]
    /\ snapshot \in [Subscribers -> Seq(Numbered)]
    /\ lost \in [Subscribers -> SUBSET Nat]

\* The last event of the snapshot, and how many of its events have been replayed.
LastFound(s) == Since(s) + Len(snapshot[s]) - 1

Replayed(s) == Len(snapshot[s]) - Len(replay[s])

\* A publisher sends the event it appended last.
SendingInv ==
    \A p \in Publishers : targets[p] # {} =>
        sending[p] \in Numbered /\ sending[p].by = p /\ sending[p].n <= published

\* Who is registered, and that nothing has happened to who has not subscribed.
ConnInv(s) ==
    /\ conn[s] = "off" =>
         /\ received[s] = <<>> /\ buffer[s] = <<>> /\ replay[s] = <<>> /\ snapshot[s] = <<>>
         /\ lost[s] = {} /\ s \notin subscribers
         /\ \A p \in Publishers : s \notin targets[p]
    /\ conn[s] = "open" => s \in subscribers

\* The snapshot is a run of consecutive events, and what is left to replay its end.
SnapshotInv(s) ==
    /\ \A k \in 1..Len(snapshot[s]) : snapshot[s][k].n = Since(s) + k - 1
    /\ conn[s] # "off" => LastFound(s) <= published
    /\ Len(replay[s]) <= Len(snapshot[s])
    /\ \A k \in 1..Len(replay[s]) : replay[s][k] = snapshot[s][Replayed(s) + k]

\* An event that got there was replayed, or is later than the snapshot.
IsReplayed(s, e) == /\ e.n - Since(s) + 1 \in 1..Replayed(s)
                    /\ e = snapshot[s][e.n - Since(s) + 1]

IsLive(s, e) == e.n > LastFound(s) /\ e.n <= published

DeliveredInv(s) ==
    LET D == Delivered(s) IN
    /\ \A i \in 1..Len(D) : IsReplayed(s, D[i]) \/ IsLive(s, D[i])
    /\ \A i, j \in 1..Len(D) : i < j =>
         /\ D[i].n # D[j].n
         /\ IsReplayed(s, D[i]) /\ IsReplayed(s, D[j]) => D[i].n < D[j].n
         /\ IsLive(s, D[i]) /\ IsLive(s, D[j]) /\ D[i].by = D[j].by => D[i].n < D[j].n

\* An event that is still to be sent is in no other place, and follows what its
\* publisher has sent before.
PendingInv(s) ==
    LET D == Delivered(s) IN
    \A p \in Publishers : s \in targets[p] =>
        /\ sending[p].n > LastFound(s)
        /\ sending[p].n \notin lost[s]
        /\ \A i \in 1..Len(D) : /\ D[i].n # sending[p].n
                                /\ IsLive(s, D[i]) /\ D[i].by = p => D[i].n < sending[p].n
        /\ \A q \in Publishers \ {p} : s \in targets[q] => sending[q].n # sending[p].n

LostInv(s) ==
    LET D == Delivered(s) IN
    \A n \in lost[s] : /\ n > LastFound(s) /\ n <= published
                       /\ \A i \in 1..Len(D) : D[i].n # n

Got(s, n) == \E i \in 1..Len(Delivered(s)) : Delivered(s)[i].n = n

\* While the request is open each event has come somewhere.
CompleteInv(s) ==
    conn[s] = "open" =>
        /\ \A n \in Since(s)..(Since(s) + Replayed(s) - 1) : Got(s, n)
        /\ \A n \in (LastFound(s) + 1)..published :
             \/ Got(s, n) \/ n \in lost[s]
             \/ \E p \in Publishers : s \in targets[p] /\ sending[p].n = n

SubscriberInv(s) == /\ ConnInv(s) /\ SnapshotInv(s) /\ DeliveredInv(s)
                    /\ PendingInv(s) /\ LostInv(s) /\ CompleteInv(s)

EventsInv == /\ HistoryInv /\ TypeInv /\ SendingInv
             /\ \A s \in Subscribers : SubscriberInv(s)

-----------------------------------------------------------------------------
LEMMA TypeKept == TypeInv /\ SendingInv /\ HistoryInv /\ [Next]_vars => TypeInv' /\ SendingInv'
<1> SUFFICES ASSUME TypeInv, SendingInv, HistoryInv, [Next]_vars
             PROVE  TypeInv' /\ SendingInv'
  OBVIOUS
<1>1. CASE UNCHANGED vars
  BY <1>1 DEF vars, TypeInv, SendingInv
<1>2. ASSUME NEW p \in Publishers, Publish(p)
      PROVE  TypeInv' /\ SendingInv'
  <2> DEFINE e == [n |-> published + 1, by |-> p]
  <2>1. e \in Numbered /\ e.by = p /\ e.n = published + 1 /\ published' = published + 1
        /\ published \in Nat
    BY <1>2 DEF Publish, Numbered, HistoryInv
  <2>2. sending' = [sending EXCEPT ![p] = e] /\ targets' = [targets EXCEPT ![p] = subscribers]
    BY <1>2 DEF Publish
  <2> HIDE DEF e
  <2>3. TypeInv'
    BY <1>2, <2>1, <2>2 DEF TypeInv, Publish
  <2>4. ASSUME NEW q \in Publishers, targets'[q] # {}
        PROVE  sending'[q] \in Numbered /\ sending'[q].by = q /\ sending'[q].n <= published'
    <3>1. CASE q = p
      BY <2>1, <2>2, <3>1 DEF TypeInv
    <3>2. CASE q # p
      <4>1. sending'[q] = sending[q] /\ targets[q] # {}
        BY <2>2, <2>4, <3>2 DEF TypeInv
      <4>2. sending[q] \in Numbered /\ sending[q].by = q /\ sending[q].n <= published
        BY <4>1 DEF SendingInv
      <4>3. sending[q].n \in Nat
        BY <4>2 DEF Numbered
      <4> QED BY <2>1, <4>1, <4>2, <4>3
    <3> QED BY <3>1, <3>2
  <2> QED BY <2>3, <2>4 DEF SendingInv
<1>3. ASSUME NEW p \in Publishers, NEW s \in Subscribers, Deliver(p, s)
      PROVE  TypeInv' /\ SendingInv'
  <2>1. sending[p] \in Numbered
    BY <1>3 DEF Deliver, SendingInv
  <2>2. Append(buffer[s], sending[p]) \in Seq(Numbered)
    BY <2>1, AppendProperties DEF TypeInv
  <2>3. TypeInv'
    BY <1>3, <2>2 DEF TypeInv, Deliver, broker
  <2>4. SendingInv'
    BY <1>3 DEF SendingInv, TypeInv, Deliver, broker
  <2> QED BY <2>3, <2>4
<1>4. ASSUME NEW p \in Publishers, NEW s \in Subscribers, Drop(p, s)
      PROVE  TypeInv' /\ SendingInv'
  <2>1. sending[p].n \in Nat
    BY <1>4 DEF Drop, SendingInv, Numbered
  <2>2. TypeInv'
    BY <1>4, <2>1 DEF TypeInv, Drop, broker
  <2>3. SendingInv'
    BY <1>4 DEF SendingInv, TypeInv, Drop, broker
  <2> QED BY <2>2, <2>3
<1>5. ASSUME NEW p \in Publishers, Abandon(p)
      PROVE  TypeInv' /\ SendingInv'
  <2>1. sending[p].n \in Nat
    BY <1>5 DEF Abandon, SendingInv, Numbered
  <2>2. lost' \in [Subscribers -> SUBSET Nat]
    BY <1>5, <2>1 DEF TypeInv, Abandon
  <2>3. TypeInv'
    BY <1>5, <2>2 DEF TypeInv, Abandon, broker
  <2>4. SendingInv'
    BY <1>5 DEF SendingInv, TypeInv, Abandon, broker
  <2> QED BY <2>3, <2>4
<1>6. ASSUME NEW p \in Publishers, Cancel(p)
      PROVE  TypeInv' /\ SendingInv'
  BY <1>6 DEF Cancel, TypeInv, SendingInv, broker, sends
<1>7. ASSUME NEW s \in Subscribers, Subscribe(s)
      PROVE  TypeInv' /\ SendingInv'
  BY <1>7 DEF Subscribe, TypeInv, SendingInv, HistoryInv, sends
<1>8. ASSUME NEW s \in Subscribers, Replay(s)
      PROVE  TypeInv' /\ SendingInv'
  <2>1. Head(replay[s]) \in Numbered /\ Tail(replay[s]) \in Seq(Numbered)
    BY <1>8, HeadTailProperties DEF TypeInv, Replay
  <2>2. Append(buffer[s], Head(replay[s])) \in Seq(Numbered)
    BY <2>1, AppendProperties DEF TypeInv
  <2> QED BY <1>8, <2>1, <2>2 DEF Replay, TypeInv, SendingInv, broker, sends
<1>9. ASSUME NEW s \in Subscribers, EndReplay(s)
      PROVE  TypeInv' /\ SendingInv'
  BY <1>9 DEF EndReplay, TypeInv, SendingInv, broker, sends
<1>10. ASSUME NEW s \in Subscribers, Receive(s)
       PROVE  TypeInv' /\ SendingInv'
  <2>1. Head(buffer[s]) \in Numbered /\ Tail(buffer[s]) \in Seq(Numbered)
    BY <1>10, HeadTailProperties DEF TypeInv, Receive
  <2>2. Append(received[s], Head(buffer[s])) \in Seq(Numbered)
    BY <2>1, AppendProperties DEF TypeInv
  <2> QED BY <1>10, <2>1, <2>2 DEF Receive, TypeInv, SendingInv, broker, sends
<1>11. ASSUME NEW s \in Subscribers, Disconnect(s) \/ Unsubscribe(s)
       PROVE  TypeInv' /\ SendingInv'
  BY <1>11 DEF Disconnect, Unsubscribe, TypeInv, SendingInv, broker, sends
<1> QED
  BY <1>1, <1>2, <1>3, <1>4, <1>5, <1>6, <1>7, <1>8, <1>9, <1>10, <1>11
  DEF Next, Send, ReplayGoroutine

\* What has reached a subscriber's channel, as a sequence of events.
LEMMA DeliveredType ==
    ASSUME TypeInv, NEW s \in Subscribers
    PROVE  /\ Delivered(s) \in Seq(Numbered) /\ Len(Delivered(s)) \in Nat
           /\ \A i \in 1..Len(Delivered(s)) : /\ Delivered(s)[i] \in Numbered
                                             /\ Delivered(s)[i].n \in Nat
<1>1. Delivered(s) \in Seq(Numbered)
  BY ConcatProperties DEF Delivered, TypeInv
<1>2. Len(Delivered(s)) \in Nat
  BY <1>1, LenProperties
<1>3. \A i \in 1..Len(Delivered(s)) : Delivered(s)[i] \in Numbered
  BY <1>1, ElementOfSeq
<1> QED BY <1>1, <1>2, <1>3 DEF Numbered

\* To append to the second of two sequences is to append to both.
LEMMA AppendToConcat ==
    ASSUME NEW S, NEW a \in Seq(S), NEW b \in Seq(S), NEW e \in S
    PROVE  a \o Append(b, e) = Append(a \o b, e)
<1> DEFINE l == a \o Append(b, e)   r == Append(a \o b, e)
<1>1. /\ Append(b, e) \in Seq(S) /\ Len(Append(b, e)) = Len(b) + 1
      /\ \A i \in 1..Len(b) : Append(b, e)[i] = b[i]
      /\ Append(b, e)[Len(b) + 1] = e
  BY AppendProperties
<1>2. /\ a \o b \in Seq(S) /\ Len(a \o b) = Len(a) + Len(b)
      /\ \A i \in 1..(Len(a) + Len(b)) : (a \o b)[i] = IF i <= Len(a) THEN a[i] ELSE b[i - Len(a)]
  BY ConcatProperties
<1>3. Len(a) \in Nat /\ Len(b) \in Nat
  BY LenProperties
<1>4. /\ l \in Seq(S) /\ Len(l) = Len(a) + Len(b) + 1
      /\ \A i \in 1..(Len(a) + Len(b) + 1) :
            l[i] = IF i <= Len(a) THEN a[i] ELSE Append(b, e)[i - Len(a)]
  BY <1>1, <1>3, ConcatProperties
<1>5. /\ r \in Seq(S) /\ Len(r) = Len(a) + Len(b) + 1
      /\ \A i \in 1..(Len(a) + Len(b)) : r[i] = (a \o b)[i]
      /\ r[Len(a) + Len(b) + 1] = e
  BY <1>2, AppendProperties
<1> HIDE DEF l, r
<1>6. ASSUME NEW i \in 1..(Len(a) + Len(b) + 1)
      PROVE  l[i] = r[i]
  <2>1. CASE i <= Len(a)
    <3>1. i \in 1..(Len(a) + Len(b))
      BY <1>3, <2>1
    <3> QED BY <1>2, <1>4, <1>5, <2>1, <3>1
  <2>2. CASE i > Len(a) /\ i <= Len(a) + Len(b)
    <3>1. i - Len(a) \in 1..Len(b) /\ i \in 1..(Len(a) + Len(b)) /\ ~(i <= Len(a))
      BY <1>3, <2>2
    <3> QED BY <1>1, <1>2, <1>4, <1>5, <3>1
  <2>3. CASE i = Len(a) + Len(b) + 1
    <3>1. i - Len(a) = Len(b) + 1 /\ ~(i <= Len(a))
      BY <1>3, <2>3
    <3> QED BY <1>1, <1>4, <1>5, <2>3, <3>1
  <2> QED BY <1>3, <2>1, <2>2, <2>3
<1>7. l = r
  BY <1>4, <1>5, <1>6, SeqEqual
<1> QED BY <1>7 DEF l, r

\* To move the head of the second of two sequences to the end of the first leaves their
\* concatenation as it is.
LEMMA HeadMoved ==
    ASSUME NEW S, NEW a \in Seq(S), NEW b \in Seq(S), b # <<>>
    PROVE  Append(a, Head(b)) \o Tail(b) = a \o b
<1> DEFINE x == Append(a, Head(b))   l == x \o Tail(b)   r == a \o b
<1>1. Len(a) \in Nat /\ Len(b) \in Nat \ {0}
  BY LenProperties, EmptySeq
<1>2. /\ Head(b) \in S /\ Tail(b) \in Seq(S) /\ Len(Tail(b)) = Len(b) - 1
      /\ \A i \in 1..Len(Tail(b)) : Tail(b)[i] = b[i + 1]
      /\ Head(b) = b[1]
  BY HeadTailProperties
<1>3. /\ x \in Seq(S) /\ Len(x) = Len(a) + 1 /\ x[Len(a) + 1] = Head(b)
      /\ \A i \in 1..Len(a) : x[i] = a[i]
  BY <1>2, AppendProperties
<1>4. /\ r \in Seq(S) /\ Len(r) = Len(a) + Len(b)
      /\ \A i \in 1..(Len(a) + Len(b)) : r[i] = IF i <= Len(a) THEN a[i] ELSE b[i - Len(a)]
  BY ConcatProperties
<1> HIDE DEF x
<1>5. /\ l \in Seq(S) /\ Len(l) = Len(x) + Len(Tail(b))
      /\ \A i \in 1..(Len(x) + Len(Tail(b))) :
            l[i] = IF i <= Len(x) THEN x[i] ELSE Tail(b)[i - Len(x)]
  BY <1>2, <1>3, ConcatProperties
<1>6. Len(l) = Len(a) + Len(b)
  BY <1>1, <1>2, <1>3, <1>5
<1> HIDE DEF l, r
<1>7. ASSUME NEW i \in 1..(Len(a) + Len(b))
      PROVE  l[i] = r[i]
  <2>0. i \in 1..(Len(x) + Len(Tail(b)))
    BY <1>1, <1>2, <1>3
  <2>1. CASE i <= Len(a)
    <3>1. i <= Len(x) /\ i \in 1..Len(a)
      BY <1>1, <1>3, <2>1
    <3>2. l[i] = x[i] /\ x[i] = a[i]
      BY <1>3, <1>5, <2>0, <3>1
    <3> QED BY <1>4, <2>1, <3>2
  <2>2. CASE i = Len(a) + 1
    <3>1. i <= Len(x) /\ ~(i <= Len(a)) /\ i - Len(a) = 1
      BY <1>1, <1>3, <2>2
    <3> QED BY <1>2, <1>3, <1>4, <1>5, <2>0, <2>2, <3>1
  <2>3. CASE i > Len(a) + 1
    <3>1. ~(i <= Len(x)) /\ ~(i <= Len(a)) /\ i - Len(x) \in 1..Len(Tail(b))
          /\ (i - Len(x)) + 1 = i - Len(a)
      BY <1>1, <1>2, <1>3, <2>3
    <3> QED BY <1>2, <1>4, <1>5, <2>0, <3>1
  <2> QED BY <1>1, <2>1, <2>2, <2>3
<1>8. l = r
  BY <1>4, <1>5, <1>6, <1>7, SeqEqual
<1> QED BY <1>8 DEF l, r, x

\* A send to the channel appends to it.
LEMMA DeliveredAppended ==
    ASSUME TypeInv, NEW s \in Subscribers, NEW e \in Numbered,
           buffer'[s] = Append(buffer[s], e), received' = received
    PROVE  Delivered(s)' = Append(Delivered(s), e)
<1> DEFINE a == received[s]   b == buffer[s]   N == Numbered
<1>1. a \in Seq(N) /\ b \in Seq(N) /\ e \in N
  BY DEF TypeInv
<1>2. Delivered(s)' = a \o Append(b, e)
  BY DEF Delivered
<1>3. Delivered(s) = a \o b
  BY DEF Delivered
<1> HIDE DEF a, b, N
<1>4. a \o Append(b, e) = Append(a \o b, e)
  BY <1>1, AppendToConcat
<1> QED BY <1>2, <1>3, <1>4, Zenon

\* The handler moves an event from the channel to the response.
LEMMA DeliveredKept ==
    ASSUME TypeInv, NEW s \in Subscribers, Receive(s)
    PROVE  Delivered(s)' = Delivered(s)
<1>1. received[s] \in Seq(Numbered) /\ buffer[s] \in Seq(Numbered) /\ buffer[s] # <<>>
  BY DEF TypeInv, Receive
<1>2. received'[s] = Append(received[s], Head(buffer[s])) /\ buffer'[s] = Tail(buffer[s])
  BY DEF Receive, TypeInv
<1>3. Append(received[s], Head(buffer[s])) \o Tail(buffer[s]) = received[s] \o buffer[s]
  BY <1>1, HeadMoved
<1> QED BY <1>2, <1>3 DEF Delivered

-----------------------------------------------------------------------------
LEMMA Numbers ==
    ASSUME TypeInv, HistoryInv, NEW s \in Subscribers
    PROVE  /\ Len(snapshot[s]) \in Nat /\ Len(replay[s]) \in Nat /\ published \in Nat
           /\ Since(s) \in Nat /\ LastFound(s) \in Int /\ Replayed(s) \in Int
           /\ lost[s] \in SUBSET Nat
           /\ \A k \in 1..Len(snapshot[s]) : snapshot[s][k] \in Numbered /\ snapshot[s][k].n \in Nat
           /\ \A k \in 1..Len(replay[s]) : replay[s][k] \in Numbered /\ replay[s][k].n \in Nat
<1>1. snapshot[s] \in Seq(Numbered) /\ replay[s] \in Seq(Numbered) /\ lost[s] \in SUBSET Nat
      /\ published \in Nat
  BY DEF TypeInv, HistoryInv
<1>2. Len(snapshot[s]) \in Nat /\ Len(replay[s]) \in Nat
  BY <1>1, LenProperties
<1>3. /\ \A k \in 1..Len(snapshot[s]) : snapshot[s][k] \in Numbered
      /\ \A k \in 1..Len(replay[s]) : replay[s][k] \in Numbered
  BY <1>1, ElementOfSeq
<1>4. Since(s) \in Nat
  <2>1. CASE snapshot[s] = <<>>
    BY <2>1 DEF Since
  <2>2. CASE snapshot[s] # <<>>
    <3>1. 1 \in 1..Len(snapshot[s])
      BY <1>1, <1>2, <2>2, EmptySeq
    <3> QED BY <1>3, <2>2, <3>1 DEF Since, Numbered
  <2> QED BY <2>1, <2>2
<1>5. LastFound(s) \in Int /\ Replayed(s) \in Int
  BY <1>2, <1>4 DEF LastFound, Replayed
<1>6. /\ \A k \in 1..Len(snapshot[s]) : snapshot[s][k].n \in Nat
      /\ \A k \in 1..Len(replay[s]) : replay[s][k].n \in Nat
  BY <1>3 DEF Numbered
<1> QED BY <1>1, <1>2, <1>3, <1>4, <1>5, <1>6

LEMMA SnapshotSteady ==
    ASSUME NEW s \in Subscribers, snapshot'[s] = snapshot[s], replay'[s] = replay[s]
    PROVE  /\ Since(s)' = Since(s) /\ LastFound(s)' = LastFound(s) /\ Replayed(s)' = Replayed(s)
           /\ \A e : IsReplayed(s, e)' <=> IsReplayed(s, e)
<1>1. Since(s)' = Since(s)
  BY DEF Since
<1>2. LastFound(s)' = LastFound(s) /\ Replayed(s)' = Replayed(s)
  BY <1>1 DEF LastFound, Replayed
<1>3. ASSUME NEW e
      PROVE  IsReplayed(s, e)' <=> IsReplayed(s, e)
  BY <1>1, <1>2 DEF IsReplayed
<1> QED BY <1>1, <1>2, <1>3

\* A step that is not about a subscriber keeps what is said of it.
LEMMA UntouchedKept ==
    ASSUME NEW s \in Subscribers, SubscriberInv(s),
           conn'[s] = conn[s], received'[s] = received[s], buffer'[s] = buffer[s],
           replay'[s] = replay[s], snapshot'[s] = snapshot[s], lost'[s] = lost[s],
           published' = published, sending' = sending,
           s \in subscribers' <=> s \in subscribers,
           \A p \in Publishers : s \in targets'[p] <=> s \in targets[p]
    PROVE  SubscriberInv(s)'
<1>1. Delivered(s)' = Delivered(s)
  BY DEF Delivered
<1>2. /\ Since(s)' = Since(s) /\ LastFound(s)' = LastFound(s) /\ Replayed(s)' = Replayed(s)
      /\ \A e : IsReplayed(s, e)' <=> IsReplayed(s, e)
  BY SnapshotSteady
<1>3. \A e : IsLive(s, e)' <=> IsLive(s, e)
  BY <1>2 DEF IsLive
<1>4. \A n : Got(s, n)' <=> Got(s, n)
  BY <1>1 DEF Got
<1>5. ConnInv(s)'
  BY DEF SubscriberInv, ConnInv
<1>6. SnapshotInv(s)'
  BY <1>2 DEF SubscriberInv, SnapshotInv
<1>7. DeliveredInv(s)'
  BY <1>1, <1>2, <1>3 DEF SubscriberInv, DeliveredInv
<1>8. PendingInv(s)'
  BY <1>1, <1>2, <1>3 DEF SubscriberInv, PendingInv
<1>9. LostInv(s)'
  BY <1>1, <1>2 DEF SubscriberInv, LostInv
<1>10. CompleteInv(s)'
  BY <1>2, <1>4 DEF SubscriberInv, CompleteInv
<1> QED BY <1>5, <1>6, <1>7, <1>8, <1>9, <1>10 DEF SubscriberInv

\* A replayed event is one of the snapshot's, hence not a live one.
LEMMA ReplayedIsFound ==
    ASSUME TypeInv, HistoryInv, NEW s \in Subscribers, NEW e \in Numbered, IsReplayed(s, e)
    PROVE  e.n >= Since(s) /\ e.n <= LastFound(s) - Len(replay[s])
           /\ e.n <= LastFound(s) /\ ~IsLive(s, e)
<1> DEFINE n == e.n   a == Since(s)   l == Len(snapshot[s])   r == Len(replay[s])   k == n - a + 1
<1>1. n \in Nat /\ a \in Nat /\ l \in Nat /\ r \in Nat /\ k \in Int
  BY Numbers DEF Numbered
<1>2. k \in 1..(l - r)
  BY DEF IsReplayed, Replayed
<1>3. LastFound(s) = a + l - 1
  BY DEF LastFound
<1> HIDE DEF n, a, l, r
<1>4. n >= a /\ n <= LastFound(s) - r /\ n <= LastFound(s) /\ ~(n > LastFound(s))
  BY <1>1, <1>2, <1>3
<1>5. ~IsLive(s, e)
  BY <1>4 DEF n, IsLive
<1>6. e.n >= Since(s) /\ e.n <= LastFound(s) - Len(replay[s]) /\ e.n <= LastFound(s)
  BY <1>4 DEF n, a, r
<1> QED BY <1>5, <1>6

\* What has got to a channel has been published.
LEMMA DeliveredPublished ==
    ASSUME TypeInv, HistoryInv, NEW s \in Subscribers, SubscriberInv(s),
           NEW i \in 1..Len(Delivered(s))
    PROVE  Delivered(s)[i].n <= published
<1>1. PICK e : e = Delivered(s)[i]
  OBVIOUS
<1>2. e \in Numbered /\ e.n \in Nat
  BY <1>1, DeliveredType
<1>3. IsReplayed(s, e) \/ IsLive(s, e)
  BY <1>1 DEF SubscriberInv, DeliveredInv
<1>4. CASE IsLive(s, e)
  BY <1>1, <1>4 DEF IsLive
<1>5. CASE IsReplayed(s, e)
  <2>1. conn[s] # "off"
    <3>1. SUFFICES ASSUME conn[s] = "off" PROVE FALSE
      OBVIOUS
    <3>2. Len(snapshot[s]) = 0 /\ Len(replay[s]) = 0
      BY <3>1, EmptySeq DEF SubscriberInv, ConnInv
    <3>3. 1..Replayed(s) = {}
      BY <3>2 DEF Replayed
    <3> QED BY <1>5, <3>3 DEF IsReplayed
  <2>2. LastFound(s) <= published
    BY <2>1 DEF SubscriberInv, SnapshotInv
  <2>3. e.n <= LastFound(s) /\ LastFound(s) \in Int /\ published \in Nat
    BY <1>2, <1>5, ReplayedIsFound, Numbers
  <2> QED BY <1>1, <1>2, <2>2, <2>3
<1> QED BY <1>3, <1>4, <1>5

LEMMA PublishKept ==
    ASSUME EventsInv, NEW p \in Publishers, Publish(p), NEW s \in Subscribers
    PROVE  SubscriberInv(s)'
<1> DEFINE e == [n |-> published + 1, by |-> p]
<1>0. PICK D : D = Delivered(s)
  OBVIOUS
<1>1. TypeInv /\ HistoryInv /\ SubscriberInv(s) /\ SendingInv
  BY DEF EventsInv
<1>2. /\ targets[p] = {} /\ sending' = [sending EXCEPT ![p] = e]
      /\ targets' = [targets EXCEPT ![p] = subscribers] /\ published' = published + 1
      /\ UNCHANGED <<subscribers, conn, buffer, replay, received, snapshot, lost>>
  BY DEF Publish
<1>3. e.n = published + 1 /\ e.by = p
  OBVIOUS
<1> HIDE DEF e
<1>4. /\ sending'[p] = e /\ targets'[p] = subscribers
      /\ \A q \in Publishers \ {p} : sending'[q] = sending[q] /\ targets'[q] = targets[q]
  BY <1>1, <1>2 DEF TypeInv
<1>5. Delivered(s)' = D
  BY <1>0, <1>2 DEF Delivered
<1>6. /\ Since(s)' = Since(s) /\ LastFound(s)' = LastFound(s) /\ Replayed(s)' = Replayed(s)
      /\ \A x : IsReplayed(s, x)' <=> IsReplayed(s, x)
  BY <1>2, SnapshotSteady
<1>7. /\ published \in Nat /\ LastFound(s) \in Int /\ Since(s) \in Nat /\ Replayed(s) \in Int
      /\ lost[s] \in SUBSET Nat
      /\ \A k \in 1..Len(snapshot[s]) : snapshot[s][k].n \in Nat
  BY <1>1, Numbers
<1>8. /\ Len(D) \in Nat
      /\ \A i \in 1..Len(D) : D[i].n \in Nat
  BY <1>1, <1>0, DeliveredType
<1>9. \A x : x.n \in Nat /\ x.n <= published => (IsLive(s, x)' <=> IsLive(s, x))
  BY <1>2, <1>6, <1>7 DEF IsLive
<1>10. conn[s] # "off" => LastFound(s) <= published
  BY <1>1 DEF SubscriberInv, SnapshotInv
<1>11. conn[s] = "off" => s \notin subscribers
  BY <1>1 DEF SubscriberInv, ConnInv
<1>12. \A i \in 1..Len(D) : D[i].n <= published
  BY <1>0, <1>1, DeliveredPublished
<1>13. \A i \in 1..Len(D) : IsLive(s, D[i])' <=> IsLive(s, D[i])
  BY <1>8, <1>9, <1>12
<1>14. ConnInv(s)'
  BY <1>1, <1>2, <1>4 DEF SubscriberInv, ConnInv
<1>15. SnapshotInv(s)'
  <2>1. conn'[s] # "off" => LastFound(s)' <= published'
    BY <1>2, <1>6, <1>7, <1>10
  <2> QED BY <1>1, <1>2, <1>6, <2>1 DEF SubscriberInv, SnapshotInv
<1>16. DeliveredInv(s)'
  BY <1>0, <1>1, <1>5, <1>6, <1>13 DEF SubscriberInv, DeliveredInv
<1>17. LostInv(s)'
  <2>1. \A n \in lost[s] : n > LastFound(s) /\ n <= published /\ \A i \in 1..Len(D) : D[i].n # n
    BY <1>0, <1>1 DEF SubscriberInv, LostInv
  <2>2. \A n \in lost[s] : n <= published + 1
    BY <1>7, <2>1
  <2> QED BY <1>2, <1>5, <1>6, <2>1, <2>2 DEF LostInv
<1>18. ASSUME NEW q \in Publishers, s \in targets'[q]
       PROVE  /\ sending'[q].n > LastFound(s)
              /\ sending'[q].n \notin lost[s]
              /\ \A i \in 1..Len(D) :
                    /\ D[i].n # sending'[q].n
                    /\ IsLive(s, D[i])' /\ D[i].by = q => D[i].n < sending'[q].n
              /\ \A r \in Publishers \ {q} : s \in targets'[r] => sending'[r].n # sending'[q].n
  <2>1. \A r \in Publishers : s \in targets[r] => sending[r].n \in Nat /\ sending[r].n <= published
    BY <1>1 DEF SendingInv, Numbered
  <2>2. CASE q = p
    <3>1. sending'[q].n = published + 1 /\ s \in subscribers /\ conn[s] # "off"
      BY <1>3, <1>4, <1>11, <1>18, <2>2
    <3>2. published + 1 > LastFound(s)
      BY <1>7, <1>10, <3>1
    <3>3. published + 1 \notin lost[s]
      BY <1>1, <1>7 DEF SubscriberInv, LostInv
    <3>4. \A i \in 1..Len(D) : D[i].n < published + 1 /\ D[i].n # published + 1
      BY <1>7, <1>8, <1>12
    <3>5. \A r \in Publishers \ {q} : s \in targets'[r] => sending'[r].n # published + 1
      BY <1>4, <1>7, <2>1, <2>2
    <3> QED BY <3>1, <3>2, <3>3, <3>4, <3>5
  <2>3. CASE q # p
    <3>1. sending'[q] = sending[q] /\ s \in targets[q] /\ sending[q].n \in Nat /\ sending[q].n <= published
      BY <1>4, <1>18, <2>1, <2>3
    <3>2. /\ sending[q].n > LastFound(s)
          /\ sending[q].n \notin lost[s]
          /\ \A i \in 1..Len(D) : /\ D[i].n # sending[q].n
                                  /\ IsLive(s, D[i]) /\ D[i].by = q => D[i].n < sending[q].n
          /\ \A r \in Publishers \ {q} : s \in targets[r] => sending[r].n # sending[q].n
      BY <1>0, <1>1, <3>1 DEF SubscriberInv, PendingInv
    <3>3. \A r \in Publishers \ {q} : s \in targets'[r] => sending'[r].n # sending[q].n
      <4> SUFFICES ASSUME NEW r \in Publishers \ {q}, s \in targets'[r]
                   PROVE  sending'[r].n # sending[q].n
        OBVIOUS
      <4>1. CASE r = p
        BY <1>3, <1>4, <1>7, <3>1, <4>1
      <4>2. CASE r # p
        BY <1>4, <3>2, <4>2
      <4> QED BY <4>1, <4>2
    <3> QED BY <1>13, <3>1, <3>2, <3>3
  <2> QED BY <2>2, <2>3
<1>19. PendingInv(s)'
  BY <1>2, <1>5, <1>6, <1>18 DEF PendingInv
<1>20. CompleteInv(s)'
  <2>1. \A n : Got(s, n)' <=> Got(s, n)
    BY <1>0, <1>5 DEF Got
  <2>2. ASSUME conn[s] = "open", NEW n \in (LastFound(s) + 1)..(published + 1)
        PROVE  \/ Got(s, n) \/ n \in lost[s]
               \/ \E q \in Publishers : s \in targets'[q] /\ sending'[q].n = n
    <3>1. CASE n = published + 1
      <4>1. s \in subscribers
        BY <1>1, <2>2 DEF SubscriberInv, ConnInv
      <4> QED BY <1>3, <1>4, <3>1, <4>1
    <3>2. CASE n # published + 1
      <4>1. n \in (LastFound(s) + 1)..published
        BY <1>7, <3>2
      <4>2. \/ Got(s, n) \/ n \in lost[s]
            \/ \E q \in Publishers : s \in targets[q] /\ sending[q].n = n
        BY <1>1, <2>2, <4>1 DEF SubscriberInv, CompleteInv
      <4> QED BY <1>2, <1>4, <4>2
    <3> QED BY <3>1, <3>2
  <2>3. conn[s] = "open" => \A n \in Since(s)..(Since(s) + Replayed(s) - 1) : Got(s, n)
    BY <1>1 DEF SubscriberInv, CompleteInv
  <2> QED BY <1>2, <1>6, <2>1, <2>2, <2>3 DEF CompleteInv
<1> QED BY <1>14, <1>15, <1>16, <1>17, <1>19, <1>20 DEF SubscriberInv

\* What it takes for an event to be the next one in a subscriber's channel.
LEMMA DeliveredGrows ==
    ASSUME TypeInv, NEW s \in Subscribers, DeliveredInv(s), NEW x \in Numbered,
           Delivered(s)' = Append(Delivered(s), x),
           IsReplayed(s, x)' \/ IsLive(s, x)',
           \A d \in Numbered : (\E i \in 1..Len(Delivered(s)) : Delivered(s)[i] = d) =>
              /\ IsReplayed(s, d)' <=> IsReplayed(s, d)
              /\ IsLive(s, d)' <=> IsLive(s, d)
              /\ d.n # x.n
              /\ IsReplayed(s, d)' /\ IsReplayed(s, x)' => d.n < x.n
              /\ IsLive(s, d)' /\ IsLive(s, x)' /\ d.by = x.by => d.n < x.n
    PROVE  /\ DeliveredInv(s)'
           /\ \A n : Got(s, n)' <=> (Got(s, n) \/ n = x.n)
           /\ Len(Delivered(s)') = Len(Delivered(s)) + 1
           /\ \A i \in 1..Len(Delivered(s)) : Delivered(s)'[i] = Delivered(s)[i]
           /\ Delivered(s)'[Len(Delivered(s)) + 1] = x
<1>1. PICK D : D = Delivered(s)
  OBVIOUS
<1>2. PICK E : E = Delivered(s)'
  OBVIOUS
<1>3. D \in Seq(Numbered) /\ Len(D) \in Nat /\ \A i \in 1..Len(D) : D[i] \in Numbered
  BY <1>1, DeliveredType
<1>4. /\ Len(E) = Len(D) + 1 /\ \A i \in 1..Len(D) : E[i] = D[i]
      /\ E[Len(D) + 1] = x
  BY <1>1, <1>2, <1>3, AppendProperties
<1>5. ASSUME NEW i \in 1..Len(D)
      PROVE  /\ IsReplayed(s, D[i])' <=> IsReplayed(s, D[i])
             /\ IsLive(s, D[i])' <=> IsLive(s, D[i])
             /\ D[i].n # x.n
             /\ IsReplayed(s, D[i])' /\ IsReplayed(s, x)' => D[i].n < x.n
             /\ IsLive(s, D[i])' /\ IsLive(s, x)' /\ D[i].by = x.by => D[i].n < x.n
  <2>1. PICK d \in Numbered : d = D[i]
    BY <1>3
  <2>2. \E k \in 1..Len(Delivered(s)) : Delivered(s)[k] = d
    BY <1>1, <2>1
  <2> QED BY <2>1, <2>2
<1>6. /\ \A i \in 1..Len(D) : IsReplayed(s, D[i]) \/ IsLive(s, D[i])
      /\ \A i, j \in 1..Len(D) : i < j =>
            /\ D[i].n # D[j].n
            /\ IsReplayed(s, D[i]) /\ IsReplayed(s, D[j]) => D[i].n < D[j].n
            /\ IsLive(s, D[i]) /\ IsLive(s, D[j]) /\ D[i].by = D[j].by => D[i].n < D[j].n
  BY <1>1 DEF DeliveredInv
<1>7. \A i \in 1..Len(E) : i \in 1..Len(D) \/ i = Len(D) + 1
  BY <1>3, <1>4
<1>8. \A i \in 1..Len(E) : IsReplayed(s, E[i])' \/ IsLive(s, E[i])'
  <2> SUFFICES ASSUME NEW i \in 1..Len(E)
               PROVE  IsReplayed(s, E[i])' \/ IsLive(s, E[i])'
    OBVIOUS
  <2>1. CASE i \in 1..Len(D)
    <3>1. E[i] = D[i]
      BY <1>4, <2>1
    <3>2. IsReplayed(s, D[i])' \/ IsLive(s, D[i])'
      BY <1>5, <1>6, <2>1
    <3> QED BY <3>1, <3>2
  <2>2. CASE i = Len(D) + 1
    BY <1>4, <2>2
  <2> QED BY <1>7, <2>1, <2>2
<1>9. ASSUME NEW i \in 1..Len(E), NEW j \in 1..Len(E), i < j
      PROVE  /\ E[i].n # E[j].n
             /\ IsReplayed(s, E[i])' /\ IsReplayed(s, E[j])' => E[i].n < E[j].n
             /\ IsLive(s, E[i])' /\ IsLive(s, E[j])' /\ E[i].by = E[j].by => E[i].n < E[j].n
  <2>1. i \in 1..Len(D) /\ E[i] = D[i]
    BY <1>3, <1>4, <1>9
  <2>2. CASE j \in 1..Len(D)
    <3>1. E[j] = D[j]
      BY <1>4, <2>2
    <3>2. /\ D[i].n # D[j].n
          /\ IsReplayed(s, D[i])' /\ IsReplayed(s, D[j])' => D[i].n < D[j].n
          /\ IsLive(s, D[i])' /\ IsLive(s, D[j])' /\ D[i].by = D[j].by => D[i].n < D[j].n
      BY <1>5, <1>6, <1>9, <2>1, <2>2
    <3> QED BY <2>1, <3>1, <3>2
  <2>3. CASE j = Len(D) + 1
    <3>1. E[j] = x
      BY <1>4, <2>3
    <3> QED BY <1>5, <2>1, <3>1
  <2> QED BY <1>7, <2>2, <2>3
<1>10. DeliveredInv(s)'
  BY <1>2, <1>8, <1>9 DEF DeliveredInv
<1>11. ASSUME NEW n
       PROVE  (\E i \in 1..Len(E) : E[i].n = n) <=> ((\E i \in 1..Len(D) : D[i].n = n) \/ n = x.n)
  <2>1. ASSUME NEW i \in 1..Len(E), E[i].n = n
        PROVE  (\E k \in 1..Len(D) : D[k].n = n) \/ n = x.n
    BY <1>4, <1>7, <2>1
  <2>2. ASSUME NEW i \in 1..Len(D), D[i].n = n
        PROVE  \E k \in 1..Len(E) : E[k].n = n
    <3>1. i \in 1..Len(E) /\ E[i] = D[i]
      BY <1>3, <1>4
    <3> QED BY <2>2, <3>1
  <2>3. Len(D) + 1 \in 1..Len(E)
    BY <1>3, <1>4
  <2> QED BY <1>4, <2>1, <2>2, <2>3
<1>12. \A n : Got(s, n)' <=> (Got(s, n) \/ n = x.n)
  BY <1>1, <1>2, <1>11 DEF Got
<1> QED BY <1>1, <1>2, <1>4, <1>10, <1>12

LEMMA DeliverKept ==
    ASSUME EventsInv, NEW p \in Publishers, NEW s \in Subscribers, Deliver(p, s)
    PROVE  SubscriberInv(s)'
<1>1. TypeInv /\ HistoryInv /\ SubscriberInv(s) /\ SendingInv
  BY DEF EventsInv
<1>2. /\ s \in targets[p] /\ targets' = [targets EXCEPT ![p] = @ \ {s}]
      /\ buffer' = [buffer EXCEPT ![s] = Append(@, sending[p])]
      /\ UNCHANGED <<published, subscribers, sending, conn, replay, received, snapshot, lost>>
  BY DEF Deliver, broker
<1>3. PICK x : x = sending[p]
  OBVIOUS
<1>4. x \in Numbered /\ x.by = p /\ x.n <= published /\ x.n \in Nat
  BY <1>1, <1>2, <1>3 DEF SendingInv, Numbered
<1>5. /\ s \notin targets'[p]
      /\ \A q \in Publishers \ {p} : targets'[q] = targets[q]
      /\ \A q \in Publishers : s \in targets'[q] => s \in targets[q] /\ q # p
  BY <1>1, <1>2 DEF TypeInv
<1>6. Delivered(s)' = Append(Delivered(s), x)
  <2>1. buffer'[s] = Append(buffer[s], x) /\ received' = received
    BY <1>1, <1>2, <1>3 DEF TypeInv
  <2> QED BY <1>1, <1>4, <2>1, DeliveredAppended
<1>7. /\ Since(s)' = Since(s) /\ LastFound(s)' = LastFound(s) /\ Replayed(s)' = Replayed(s)
      /\ \A e : IsReplayed(s, e)' <=> IsReplayed(s, e)
  BY <1>2, SnapshotSteady
<1>8. \A e : IsLive(s, e)' <=> IsLive(s, e)
  BY <1>2, <1>7 DEF IsLive
<1>9. PICK D : D = Delivered(s)
  OBVIOUS
<1>10. /\ x.n > LastFound(s) /\ x.n \notin lost[s]
       /\ \A i \in 1..Len(D) : D[i].n # x.n /\ (IsLive(s, D[i]) /\ D[i].by = p => D[i].n < x.n)
       /\ \A q \in Publishers \ {p} : s \in targets[q] => sending[q].n # x.n
  BY <1>1, <1>2, <1>3, <1>9 DEF SubscriberInv, PendingInv
<1>11. IsLive(s, x) /\ ~IsReplayed(s, x)
  BY <1>1, <1>4, <1>10, ReplayedIsFound DEF IsLive
<1>12. /\ DeliveredInv(s)'
       /\ \A n : Got(s, n)' <=> (Got(s, n) \/ n = x.n)
       /\ Len(Delivered(s)') = Len(Delivered(s)) + 1
       /\ \A i \in 1..Len(Delivered(s)) : Delivered(s)'[i] = Delivered(s)[i]
       /\ Delivered(s)'[Len(Delivered(s)) + 1] = x
  <2>1. ASSUME NEW d \in Numbered, \E i \in 1..Len(Delivered(s)) : Delivered(s)[i] = d
        PROVE  /\ IsReplayed(s, d)' <=> IsReplayed(s, d)
               /\ IsLive(s, d)' <=> IsLive(s, d)
               /\ d.n # x.n
               /\ IsReplayed(s, d)' /\ IsReplayed(s, x)' => d.n < x.n
               /\ IsLive(s, d)' /\ IsLive(s, x)' /\ d.by = x.by => d.n < x.n
    BY <1>4, <1>7, <1>8, <1>9, <1>10, <1>11, <2>1
  <2>2. IsReplayed(s, x)' \/ IsLive(s, x)'
    BY <1>8, <1>11
  <2>3. DeliveredInv(s)
    BY <1>1 DEF SubscriberInv
  <2> QED BY <1>1, <1>4, <1>6, <2>1, <2>2, <2>3, DeliveredGrows
<1>13. PICK E : E = Delivered(s)'
  OBVIOUS
<1>14. /\ Len(D) \in Nat /\ Len(E) = Len(D) + 1 /\ \A i \in 1..Len(D) : E[i] = D[i]
       /\ E[Len(D) + 1] = x
       /\ \A i \in 1..Len(E) : i \in 1..Len(D) \/ i = Len(D) + 1
  BY <1>1, <1>9, <1>12, <1>13, DeliveredType
<1>15. ConnInv(s)'
  BY <1>1, <1>2 DEF SubscriberInv, ConnInv
<1>16. SnapshotInv(s)'
  BY <1>1, <1>2, <1>7 DEF SubscriberInv, SnapshotInv
<1>17. ASSUME NEW q \in Publishers, s \in targets'[q]
       PROVE  /\ sending'[q].n > LastFound(s)
              /\ sending'[q].n \notin lost[s]
              /\ \A i \in 1..Len(E) :
                    /\ E[i].n # sending'[q].n
                    /\ IsLive(s, E[i])' /\ E[i].by = q => E[i].n < sending'[q].n
              /\ \A r \in Publishers \ {q} : s \in targets'[r] => sending'[r].n # sending'[q].n
  <2>1. s \in targets[q] /\ q # p /\ sending'[q] = sending[q]
    BY <1>2, <1>5, <1>17
  <2>2. /\ sending[q].n > LastFound(s) /\ sending[q].n \notin lost[s]
        /\ \A i \in 1..Len(D) : /\ D[i].n # sending[q].n
                                /\ IsLive(s, D[i]) /\ D[i].by = q => D[i].n < sending[q].n
        /\ \A r \in Publishers \ {q} : s \in targets[r] => sending[r].n # sending[q].n
    BY <1>1, <1>9, <2>1 DEF SubscriberInv, PendingInv
  <2>3. sending[q].n # x.n
    BY <1>10, <2>1
  <2>4. ASSUME NEW i \in 1..Len(E)
        PROVE  /\ E[i].n # sending[q].n
               /\ IsLive(s, E[i])' /\ E[i].by = q => E[i].n < sending[q].n
    <3>1. CASE i \in 1..Len(D)
      BY <1>8, <1>14, <2>2, <3>1
    <3>2. CASE i = Len(D) + 1
      BY <1>4, <1>14, <2>1, <2>3, <3>2
    <3> QED BY <1>14, <3>1, <3>2
  <2> QED BY <1>2, <1>5, <2>1, <2>2, <2>4
<1>18. PendingInv(s)'
  BY <1>2, <1>7, <1>13, <1>17 DEF PendingInv
<1>19. LostInv(s)'
  <2>1. \A n \in lost[s] : n > LastFound(s) /\ n <= published /\ \A i \in 1..Len(D) : D[i].n # n
    BY <1>1, <1>9 DEF SubscriberInv, LostInv
  <2>2. ASSUME NEW n \in lost[s], NEW i \in 1..Len(E)
        PROVE  E[i].n # n
    BY <1>10, <1>14, <2>1
  <2> QED BY <1>2, <1>7, <1>13, <2>1, <2>2 DEF LostInv
<1>20. CompleteInv(s)'
  <2>1. conn[s] = "open" =>
        /\ \A n \in Since(s)..(Since(s) + Replayed(s) - 1) : Got(s, n)
        /\ \A n \in (LastFound(s) + 1)..published :
             \/ Got(s, n) \/ n \in lost[s]
             \/ \E q \in Publishers : s \in targets[q] /\ sending[q].n = n
    BY <1>1 DEF SubscriberInv, CompleteInv
  <2>2. ASSUME NEW n, NEW q \in Publishers, s \in targets[q], sending[q].n = n
        PROVE  n = x.n \/ \E r \in Publishers : s \in targets'[r] /\ sending'[r].n = n
    BY <1>2, <1>3, <1>5, <2>2
  <2>3. ASSUME conn'[s] = "open"
        PROVE  /\ \A n \in Since(s)..(Since(s) + Replayed(s) - 1) : Got(s, n)'
               /\ \A n \in (LastFound(s) + 1)..published :
                    \/ Got(s, n)' \/ n \in lost'[s]
                    \/ \E q \in Publishers : s \in targets'[q] /\ sending'[q].n = n
    <3>1. ASSUME NEW n \in (LastFound(s) + 1)..published
          PROVE  \/ Got(s, n)' \/ n \in lost'[s]
                 \/ \E q \in Publishers : s \in targets'[q] /\ sending'[q].n = n
      BY <1>2, <1>12, <2>1, <2>2, <2>3
    <3>2. \A n \in Since(s)..(Since(s) + Replayed(s) - 1) : Got(s, n)'
      BY <1>2, <1>12, <2>1, <2>3
    <3> QED BY <3>1, <3>2
  <2> QED BY <1>2, <1>7, <2>3 DEF CompleteInv
<1> QED BY <1>12, <1>15, <1>16, <1>18, <1>19, <1>20 DEF SubscriberInv

\* An event that is dropped, or abandoned with the rest of its publisher's sends.
LEMMA LoseKept ==
    ASSUME EventsInv, NEW p \in Publishers, NEW s \in Subscribers, s \in targets[p],
           \/ Drop(p, s)
           \/ Abandon(p)
    PROVE  SubscriberInv(s)'
<1>1. TypeInv /\ HistoryInv /\ SubscriberInv(s) /\ SendingInv
  BY DEF EventsInv
<1>2. UNCHANGED <<published, subscribers, sending, conn, buffer, replay, received, snapshot>>
  BY DEF Drop, Abandon, broker
<1>3. /\ lost'[s] = lost[s] \cup {sending[p].n} /\ s \notin targets'[p]
      /\ \A q \in Publishers \ {p} : targets'[q] = targets[q]
  BY <1>1 DEF Drop, Abandon, TypeInv
<1>4. \A q \in Publishers : s \in targets'[q] => s \in targets[q] /\ q # p
  BY <1>3
<1>5. Delivered(s)' = Delivered(s)
  BY <1>2 DEF Delivered
<1>6. /\ Since(s)' = Since(s) /\ LastFound(s)' = LastFound(s) /\ Replayed(s)' = Replayed(s)
      /\ \A e : IsReplayed(s, e)' <=> IsReplayed(s, e)
  BY <1>2, SnapshotSteady
<1>7. \A e : IsLive(s, e)' <=> IsLive(s, e)
  BY <1>2, <1>6 DEF IsLive
<1>8. PICK D : D = Delivered(s)
  OBVIOUS
<1>9. /\ sending[p].n > LastFound(s)
      /\ \A i \in 1..Len(D) : D[i].n # sending[p].n
      /\ \A q \in Publishers \ {p} : s \in targets[q] => sending[q].n # sending[p].n
  BY <1>1, <1>8 DEF SubscriberInv, PendingInv
<1>10. sending[p].n <= published
  BY <1>1 DEF SendingInv
<1>11. ConnInv(s)'
  BY <1>1, <1>2 DEF SubscriberInv, ConnInv
<1>12. SnapshotInv(s)'
  BY <1>1, <1>2, <1>6 DEF SubscriberInv, SnapshotInv
<1>13. DeliveredInv(s)'
  BY <1>1, <1>5, <1>6, <1>7 DEF SubscriberInv, DeliveredInv
<1>14. PendingInv(s)'
  <2>1. ASSUME NEW q \in Publishers, s \in targets'[q]
        PROVE  /\ sending'[q].n > LastFound(s)
               /\ sending'[q].n \notin lost'[s]
               /\ \A i \in 1..Len(D) :
                     /\ D[i].n # sending'[q].n
                     /\ IsLive(s, D[i]) /\ D[i].by = q => D[i].n < sending'[q].n
               /\ \A r \in Publishers \ {q} : s \in targets'[r] => sending'[r].n # sending'[q].n
    <3>1. /\ sending[q].n > LastFound(s) /\ sending[q].n \notin lost[s]
          /\ \A i \in 1..Len(D) : /\ D[i].n # sending[q].n
                                  /\ IsLive(s, D[i]) /\ D[i].by = q => D[i].n < sending[q].n
          /\ \A r \in Publishers \ {q} : s \in targets[r] => sending[r].n # sending[q].n
      BY <1>1, <1>4, <1>8, <2>1 DEF SubscriberInv, PendingInv
    <3>2. sending[q].n # sending[p].n
      BY <1>4, <1>9, <2>1
    <3> QED BY <1>2, <1>3, <1>4, <3>1, <3>2
  <2> QED BY <1>2, <1>5, <1>6, <1>7, <1>8, <2>1 DEF PendingInv
<1>15. LostInv(s)'
  <2>1. \A n \in lost[s] : n > LastFound(s) /\ n <= published /\ \A i \in 1..Len(D) : D[i].n # n
    BY <1>1, <1>8 DEF SubscriberInv, LostInv
  <2> QED BY <1>2, <1>3, <1>5, <1>6, <1>8, <1>9, <1>10, <2>1 DEF LostInv
<1>16. CompleteInv(s)'
  <2>1. \A n : Got(s, n)' <=> Got(s, n)
    BY <1>5 DEF Got
  <2>2. ASSUME conn[s] = "open", NEW n \in (LastFound(s) + 1)..published
        PROVE  \/ Got(s, n) \/ n \in lost'[s]
               \/ \E q \in Publishers : s \in targets'[q] /\ sending'[q].n = n
    <3>1. \/ Got(s, n) \/ n \in lost[s]
          \/ \E q \in Publishers : s \in targets[q] /\ sending[q].n = n
      BY <1>1, <2>2 DEF SubscriberInv, CompleteInv
    <3> QED BY <1>2, <1>3, <3>1
  <2>3. conn[s] = "open" => \A n \in Since(s)..(Since(s) + Replayed(s) - 1) : Got(s, n)
    BY <1>1 DEF SubscriberInv, CompleteInv
  <2> QED BY <1>2, <1>6, <2>1, <2>2, <2>3 DEF CompleteInv
<1> QED BY <1>11, <1>12, <1>13, <1>14, <1>15, <1>16 DEF SubscriberInv

\* A client leaves, or the handler's deferred cancel runs.
LEMMA LeaveKept ==
    ASSUME EventsInv, NEW s \in Subscribers, Disconnect(s) \/ Unsubscribe(s)
    PROVE  SubscriberInv(s)'
<1>1. TypeInv /\ HistoryInv /\ SubscriberInv(s)
  BY DEF EventsInv
<1>2. UNCHANGED <<published, sending, targets, buffer, replay, received, snapshot, lost>>
  BY DEF Disconnect, Unsubscribe, broker, sends
<1>3. conn[s] # "off" /\ conn'[s] \in {"gone", "closed"}
  BY <1>1 DEF Disconnect, Unsubscribe, TypeInv
<1>4. Delivered(s)' = Delivered(s)
  BY <1>2 DEF Delivered
<1>5. /\ Since(s)' = Since(s) /\ LastFound(s)' = LastFound(s) /\ Replayed(s)' = Replayed(s)
      /\ \A e : IsReplayed(s, e)' <=> IsReplayed(s, e)
  BY <1>2, SnapshotSteady
<1>6. \A e : IsLive(s, e)' <=> IsLive(s, e)
  BY <1>2, <1>5 DEF IsLive
<1>7. ConnInv(s)' /\ CompleteInv(s)'
  BY <1>3 DEF ConnInv, CompleteInv
<1>8. SnapshotInv(s)'
  BY <1>1, <1>2, <1>3, <1>5 DEF SubscriberInv, SnapshotInv
<1>9. DeliveredInv(s)'
  BY <1>1, <1>4, <1>5, <1>6 DEF SubscriberInv, DeliveredInv
<1>10. PendingInv(s)'
  BY <1>1, <1>2, <1>4, <1>5, <1>6 DEF SubscriberInv, PendingInv
<1>11. LostInv(s)'
  BY <1>1, <1>2, <1>4, <1>5 DEF SubscriberInv, LostInv
<1> QED BY <1>7, <1>8, <1>9, <1>10, <1>11 DEF SubscriberInv

\* The handler only moves an event on.
LEMMA ReceiveKept ==
    ASSUME EventsInv, NEW s \in Subscribers, Receive(s)
    PROVE  SubscriberInv(s)'
<1>1. TypeInv /\ HistoryInv /\ SubscriberInv(s)
  BY DEF EventsInv
<1>2. UNCHANGED <<published, sending, targets, subscribers, conn, replay, snapshot, lost>>
      /\ conn[s] # "off"
  BY DEF Receive, broker, sends
<1>3. Delivered(s)' = Delivered(s)
  BY <1>1, DeliveredKept
<1>4. /\ Since(s)' = Since(s) /\ LastFound(s)' = LastFound(s) /\ Replayed(s)' = Replayed(s)
      /\ \A e : IsReplayed(s, e)' <=> IsReplayed(s, e)
  BY <1>2, SnapshotSteady
<1>5. \A e : IsLive(s, e)' <=> IsLive(s, e)
  BY <1>2, <1>4 DEF IsLive
<1>6. ConnInv(s)'
  BY <1>1, <1>2 DEF SubscriberInv, ConnInv
<1>7. SnapshotInv(s)'
  BY <1>1, <1>2, <1>4 DEF SubscriberInv, SnapshotInv
<1>8. DeliveredInv(s)'
  BY <1>1, <1>3, <1>4, <1>5 DEF SubscriberInv, DeliveredInv
<1>9. PendingInv(s)'
  BY <1>1, <1>2, <1>3, <1>4, <1>5 DEF SubscriberInv, PendingInv
<1>10. LostInv(s)'
  BY <1>1, <1>2, <1>3, <1>4 DEF SubscriberInv, LostInv
<1>11. CompleteInv(s)'
  <2>1. \A n : Got(s, n)' <=> Got(s, n)
    BY <1>3 DEF Got
  <2> QED BY <1>1, <1>2, <1>4, <2>1 DEF SubscriberInv, CompleteInv
<1> QED BY <1>6, <1>7, <1>8, <1>9, <1>10, <1>11 DEF SubscriberInv

\* A subscription finds the latest events and nothing on its way.
LEMMA SubscribeKept ==
    ASSUME EventsInv, NEW s \in Subscribers, Subscribe(s)
    PROVE  SubscriberInv(s)'
<1>1. TypeInv /\ HistoryInv /\ SubscriberInv(s)
  BY DEF EventsInv
<1>2. /\ conn[s] = "off" /\ conn'[s] = "open" /\ s \in subscribers'
      /\ replay'[s] = history /\ snapshot'[s] = history
      /\ UNCHANGED <<history, published, sending, targets, buffer, received, lost>>
  BY <1>1 DEF Subscribe, sends, TypeInv
<1>3. /\ received[s] = <<>> /\ buffer[s] = <<>> /\ lost[s] = {}
      /\ \A p \in Publishers : s \notin targets[p]
  BY <1>1, <1>2 DEF SubscriberInv, ConnInv
<1>4. /\ history \in Seq(Numbered) /\ published \in Nat /\ Len(history) \in Nat
      /\ DOMAIN history = 1..Len(history)
      /\ Len(history) = IF published < HistoryLimit THEN published ELSE HistoryLimit
      /\ \A k \in 1..Len(history) : history[k].n = published - Len(history) + k
  BY <1>1, LenProperties DEF HistoryInv, HistoryIsLatest
<1>5. Since(s)' = published - Len(history) + 1
  <2>1. CASE history = <<>>
    <3>1. Len(history) = 0
      BY <2>1, EmptySeq
    <3>2. published = 0
      BY <1>4, <3>1, LimitAssumption
    <3>3. Since(s)' = 1
      BY <1>2, <2>1 DEF Since
    <3> QED BY <3>1, <3>2, <3>3
  <2>2. CASE history # <<>>
    <3>1. 1 \in 1..Len(history)
      BY <1>4, <2>2, EmptySeq
    <3>2. Since(s)' = history[1].n
      BY <1>2, <2>2 DEF Since
    <3> QED BY <1>4, <3>1, <3>2
  <2> QED BY <2>1, <2>2
<1>6. LastFound(s)' = published
  BY <1>2, <1>4, <1>5 DEF LastFound
<1>7. Replayed(s)' = 0
  BY <1>2, <1>4 DEF Replayed
<1>8. Len(Delivered(s)') = 0
  <2> DEFINE empty == <<>>
  <2>1. empty \in Seq(Numbered) /\ Len(empty) = 0
    BY EmptySeq
  <2>2. Delivered(s)' = empty \o empty
    BY <1>2, <1>3 DEF Delivered
  <2> HIDE DEF empty
  <2>3. Len(empty \o empty) = Len(empty) + Len(empty)
    BY <2>1, ConcatProperties
  <2> QED BY <2>1, <2>2, <2>3
<1>9. 1..Len(Delivered(s)') = {}
  BY <1>8
<1>10. ConnInv(s)'
  BY <1>2 DEF ConnInv
<1>11. SnapshotInv(s)'
  <2>1. \A k \in 1..Len(history) : history[k].n = (published - Len(history) + 1) + k - 1
    BY <1>4
  <2>2. \A k \in 1..Len(history) : history[k] = history[0 + k]
    BY <1>4
  <2> QED BY <1>2, <1>4, <1>5, <1>6, <1>7, <2>1, <2>2 DEF SnapshotInv
<1>12. DeliveredInv(s)'
  BY <1>9 DEF DeliveredInv
<1>13. PendingInv(s)'
  BY <1>2, <1>3 DEF PendingInv
<1>14. LostInv(s)'
  BY <1>2, <1>3 DEF LostInv
<1>15. CompleteInv(s)'
  <2>1. \A n \in Since(s)'..(Since(s)' + Replayed(s)' - 1) : FALSE
    BY <1>4, <1>5, <1>7
  <2>2. \A n \in (LastFound(s)' + 1)..published' : FALSE
    BY <1>2, <1>4, <1>6
  <2> QED BY <2>1, <2>2 DEF CompleteInv
<1> QED BY <1>10, <1>11, <1>12, <1>13, <1>14, <1>15 DEF SubscriberInv

\* The replay sends the oldest event of the snapshot it has not sent.
LEMMA ReplayKept ==
    ASSUME EventsInv, NEW s \in Subscribers, Replay(s)
    PROVE  SubscriberInv(s)'
<1>1. TypeInv /\ HistoryInv /\ SubscriberInv(s) /\ SendingInv
  BY DEF EventsInv
<1>2. PICK x : x = Head(replay[s])
  OBVIOUS
<1>3. /\ replay[s] # <<>> /\ replay[s] \in Seq(Numbered) /\ replay'[s] = Tail(replay[s])
      /\ buffer'[s] = Append(buffer[s], x)
      /\ UNCHANGED <<published, subscribers, sending, targets, conn, received, snapshot, lost>>
  BY <1>1, <1>2 DEF Replay, broker, sends, TypeInv
<1>4. /\ x \in Numbered /\ x = replay[s][1] /\ x.n \in Nat
      /\ Len(replay'[s]) = Len(replay[s]) - 1
      /\ \A k \in 1..Len(replay'[s]) : replay'[s][k] = replay[s][k + 1]
      /\ Len(replay[s]) \in Nat \ {0}
  <2> DEFINE q == replay[s]
  <2>1. q \in Seq(Numbered) /\ q # <<>> /\ x = Head(q) /\ replay'[s] = Tail(q)
    BY <1>2, <1>3
  <2>2. Head(q) = q[1]
    OBVIOUS
  <2> HIDE DEF q
  <2>3. /\ Head(q) \in Numbered /\ Len(Tail(q)) = Len(q) - 1
        /\ \A k \in 1..Len(Tail(q)) : Tail(q)[k] = q[k + 1]
    BY <2>1, HeadTailProperties
  <2>4. Len(q) \in Nat \ {0}
    BY <2>1, EmptySeq
  <2>5. x.n \in Nat
    BY <2>1, <2>3 DEF Numbered
  <2> QED BY <2>1, <2>2, <2>3, <2>4, <2>5 DEF q
<1>5. /\ Len(snapshot[s]) \in Nat /\ published \in Nat
      /\ Since(s) \in Nat /\ LastFound(s) \in Int /\ Replayed(s) \in Int
      /\ lost[s] \in SUBSET Nat
  BY <1>1, Numbers
<1>6. /\ \A k \in 1..Len(snapshot[s]) : snapshot[s][k].n = Since(s) + k - 1
      /\ conn[s] # "off" => LastFound(s) <= published
      /\ Len(replay[s]) <= Len(snapshot[s])
      /\ \A k \in 1..Len(replay[s]) : replay[s][k] = snapshot[s][Replayed(s) + k]
  BY <1>1 DEF SubscriberInv, SnapshotInv
<1>7. /\ Since(s)' = Since(s) /\ LastFound(s)' = LastFound(s) /\ Replayed(s)' = Replayed(s) + 1
      /\ Replayed(s) \in Nat /\ Replayed(s) + 1 <= Len(snapshot[s])
      /\ LastFound(s) = Since(s) + Len(snapshot[s]) - 1
  <2>1. Since(s)' = Since(s)
    BY <1>3 DEF Since
  <2>2. LastFound(s)' = LastFound(s)
    BY <1>3, <2>1 DEF LastFound
  <2>3. Replayed(s)' = Replayed(s) + 1
    <3>1. Replayed(s)' = Len(snapshot[s]) - Len(replay'[s])
      BY <1>3 DEF Replayed
    <3>2. Replayed(s) = Len(snapshot[s]) - Len(replay[s])
      BY DEF Replayed
    <3> QED BY <1>4, <1>5, <3>1, <3>2
  <2>4. Replayed(s) \in Nat /\ Replayed(s) + 1 <= Len(snapshot[s])
    BY <1>4, <1>5, <1>6 DEF Replayed
  <2> QED BY <2>1, <2>2, <2>3, <2>4 DEF LastFound
<1>8. x = snapshot[s][Replayed(s) + 1] /\ x.n = Since(s) + Replayed(s)
  <2>1. 1 \in 1..Len(replay[s]) /\ Replayed(s) + 1 \in 1..Len(snapshot[s])
    BY <1>4, <1>5, <1>7
  <2>2. x = snapshot[s][Replayed(s) + 1]
    BY <1>4, <1>6, <2>1
  <2>3. snapshot[s][Replayed(s) + 1].n = Since(s) + (Replayed(s) + 1) - 1
    BY <1>6, <2>1
  <2> QED BY <1>5, <1>7, <2>2, <2>3
<1>9. x.n - Since(s) + 1 = Replayed(s) + 1 /\ x.n <= LastFound(s)
  BY <1>4, <1>5, <1>7, <1>8
<1>10. \A e \in Numbered : IsLive(s, e)' <=> IsLive(s, e)
  BY <1>3, <1>7 DEF IsLive
<1>11. IsReplayed(s, x)' /\ ~IsLive(s, x)
  <2>1. Replayed(s) + 1 \in 1..(Replayed(s) + 1)
    BY <1>7
  <2>2. IsReplayed(s, x)'
    BY <1>3, <1>7, <1>8, <1>9, <2>1 DEF IsReplayed
  <2>3. ~(x.n > LastFound(s))
    BY <1>4, <1>5, <1>9
  <2> QED BY <2>2, <2>3 DEF IsLive
<1>12. ASSUME NEW e \in Numbered, IsReplayed(s, e)
       PROVE  IsReplayed(s, e)' /\ e.n < x.n /\ ~IsLive(s, e)
  <2>1. e.n - Since(s) + 1 \in 1..Replayed(s) /\ e = snapshot[s][e.n - Since(s) + 1] /\ e.n \in Nat
    BY <1>12 DEF IsReplayed, Numbered
  <2>2. e.n - Since(s) + 1 \in 1..(Replayed(s) + 1) /\ e.n < x.n
    BY <1>4, <1>5, <1>7, <1>8, <2>1
  <2>3. IsReplayed(s, e)'
    BY <1>3, <1>7, <2>1, <2>2 DEF IsReplayed
  <2>4. ~IsLive(s, e)
    BY <1>1, <1>12, ReplayedIsFound
  <2> QED BY <2>2, <2>3, <2>4
<1>13. ASSUME NEW e \in Numbered, IsLive(s, e)
       PROVE  ~IsReplayed(s, e)' /\ ~IsReplayed(s, e) /\ x.n < e.n
  <2>1. e.n > LastFound(s) /\ e.n \in Nat
    BY <1>13 DEF IsLive, Numbered
  <2>2. x.n < e.n
    BY <1>4, <1>5, <1>9, <2>1
  <2>3. ~(e.n - Since(s) + 1 \in 1..(Replayed(s) + 1))
    BY <1>5, <1>7, <2>1
  <2>4. ~IsReplayed(s, e)'
    BY <1>7, <2>3 DEF IsReplayed
  <2>5. ~IsReplayed(s, e)
    BY <1>1, <1>13, ReplayedIsFound
  <2> QED BY <2>2, <2>4, <2>5
<1>14. PICK D : D = Delivered(s)
  OBVIOUS
<1>15. /\ Len(D) \in Nat
       /\ \A i \in 1..Len(D) : D[i] \in Numbered /\ (IsReplayed(s, D[i]) \/ IsLive(s, D[i]))
  BY <1>1, <1>14, DeliveredType DEF SubscriberInv, DeliveredInv
<1>16. /\ DeliveredInv(s)'
       /\ \A n : Got(s, n)' <=> (Got(s, n) \/ n = x.n)
       /\ Len(Delivered(s)') = Len(Delivered(s)) + 1
       /\ \A i \in 1..Len(Delivered(s)) : Delivered(s)'[i] = Delivered(s)[i]
       /\ Delivered(s)'[Len(Delivered(s)) + 1] = x
  <2>1. ASSUME NEW d \in Numbered, \E i \in 1..Len(Delivered(s)) : Delivered(s)[i] = d
        PROVE  /\ IsReplayed(s, d)' <=> IsReplayed(s, d)
               /\ IsLive(s, d)' <=> IsLive(s, d)
               /\ d.n # x.n
               /\ IsReplayed(s, d)' /\ IsReplayed(s, x)' => d.n < x.n
               /\ IsLive(s, d)' /\ IsLive(s, x)' /\ d.by = x.by => d.n < x.n
    <3>1. d.n \in Nat
      BY DEF Numbered
    <3>2. CASE IsReplayed(s, d)
      <4>1. IsReplayed(s, d)' /\ d.n < x.n /\ d.n # x.n
        BY <1>4, <1>12, <3>1, <3>2
      <4> QED BY <1>10, <3>2, <4>1
    <3>3. CASE IsLive(s, d)
      <4>1. ~IsReplayed(s, d)' /\ ~IsReplayed(s, d) /\ d.n # x.n
        BY <1>4, <1>13, <3>1, <3>3
      <4>2. ~IsLive(s, x)'
        BY <1>4, <1>10, <1>11
      <4> QED BY <1>10, <4>1, <4>2
    <3> QED BY <1>14, <1>15, <2>1, <3>2, <3>3
  <2>2. DeliveredInv(s)
    BY <1>1 DEF SubscriberInv
  <2>3. Delivered(s)' = Append(Delivered(s), x)
    BY <1>1, <1>3, <1>4, DeliveredAppended
  <2> QED BY <1>1, <1>4, <1>11, <2>1, <2>2, <2>3, DeliveredGrows
<1>17. PICK E : E = Delivered(s)'
  OBVIOUS
<1>18. /\ Len(E) = Len(D) + 1 /\ \A i \in 1..Len(D) : E[i] = D[i]
       /\ E[Len(D) + 1] = x
       /\ \A i \in 1..Len(E) : i \in 1..Len(D) \/ i = Len(D) + 1
  BY <1>14, <1>15, <1>16, <1>17
<1>19. ConnInv(s)'
  <2>1. conn[s] # "off"
    BY <1>1, <1>3 DEF SubscriberInv, ConnInv
  <2> QED BY <1>1, <1>3, <2>1 DEF SubscriberInv, ConnInv
<1>20. SnapshotInv(s)'
  <2>1. Len(replay'[s]) <= Len(snapshot[s])
    BY <1>4, <1>5, <1>6
  <2>2. ASSUME NEW k \in 1..Len(replay'[s])
        PROVE  replay'[s][k] = snapshot[s][(Replayed(s) + 1) + k]
    <3>1. k \in Nat /\ k + 1 \in 1..Len(replay[s])
      BY <1>4
    <3>2. Replayed(s) + (k + 1) = (Replayed(s) + 1) + k
      BY <1>7, <3>1
    <3> QED BY <1>4, <1>6, <3>1, <3>2
  <2> QED BY <1>3, <1>6, <1>7, <2>1, <2>2 DEF SnapshotInv
<1>21. PendingInv(s)'
  <2>1. ASSUME NEW q \in Publishers, s \in targets[q]
        PROVE  /\ sending[q].n > LastFound(s)
               /\ sending[q].n \notin lost[s]
               /\ \A i \in 1..Len(E) :
                     /\ E[i].n # sending[q].n
                     /\ IsLive(s, E[i])' /\ E[i].by = q => E[i].n < sending[q].n
               /\ \A r \in Publishers \ {q} : s \in targets[r] => sending[r].n # sending[q].n
    <3>1. /\ sending[q].n > LastFound(s) /\ sending[q].n \notin lost[s]
          /\ \A i \in 1..Len(D) : /\ D[i].n # sending[q].n
                                  /\ IsLive(s, D[i]) /\ D[i].by = q => D[i].n < sending[q].n
          /\ \A r \in Publishers \ {q} : s \in targets[r] => sending[r].n # sending[q].n
      BY <1>1, <1>14, <2>1 DEF SubscriberInv, PendingInv
    <3>2. sending[q].n \in Nat
      BY <1>1, <2>1 DEF SendingInv, Numbered
    <3>3. x.n # sending[q].n
      BY <1>4, <1>5, <1>9, <3>1, <3>2
    <3>4. ASSUME NEW i \in 1..Len(E)
          PROVE  /\ E[i].n # sending[q].n
                 /\ IsLive(s, E[i])' /\ E[i].by = q => E[i].n < sending[q].n
      <4>1. CASE i \in 1..Len(D)
        BY <1>10, <1>15, <1>18, <3>1, <4>1
      <4>2. CASE i = Len(D) + 1
        BY <1>4, <1>10, <1>11, <1>18, <3>3, <4>2
      <4> QED BY <1>18, <4>1, <4>2
    <3> QED BY <3>1, <3>4
  <2> QED BY <1>3, <1>7, <1>17, <2>1 DEF PendingInv
<1>22. LostInv(s)'
  <2>1. \A n \in lost[s] : n > LastFound(s) /\ n <= published /\ \A i \in 1..Len(D) : D[i].n # n
    BY <1>1, <1>14 DEF SubscriberInv, LostInv
  <2>2. ASSUME NEW n \in lost[s], NEW i \in 1..Len(E)
        PROVE  E[i].n # n
    <3>1. x.n # n
      BY <1>4, <1>5, <1>9, <2>1
    <3> QED BY <1>18, <2>1, <3>1
  <2> QED BY <1>3, <1>7, <1>17, <2>1, <2>2 DEF LostInv
<1>23. CompleteInv(s)'
  <2>1. ASSUME conn[s] = "open", NEW n \in Since(s)..(Since(s) + (Replayed(s) + 1) - 1)
        PROVE  Got(s, n)'
    <3>1. CASE n = x.n
      BY <1>16, <3>1
    <3>2. CASE n # x.n
      <4> DEFINE a == Since(s)   m == Replayed(s)
      <4>0. a \in Nat /\ m \in Nat /\ n \in a..(a + (m + 1) - 1) /\ n # a + m
        BY <1>5, <1>7, <1>8, <3>2
      <4> HIDE DEF a, m
      <4>1. n \in a..(a + m - 1)
        BY <4>0
      <4>2. Got(s, n)
        BY <1>1, <2>1, <4>1 DEF SubscriberInv, CompleteInv, a, m
      <4> QED BY <1>16, <4>2
    <3> QED BY <3>1, <3>2
  <2>2. ASSUME conn[s] = "open", NEW n \in (LastFound(s) + 1)..published
        PROVE  \/ Got(s, n)' \/ n \in lost[s]
               \/ \E q \in Publishers : s \in targets[q] /\ sending[q].n = n
    BY <1>1, <1>16, <2>2 DEF SubscriberInv, CompleteInv
  <2> QED BY <1>3, <1>7, <2>1, <2>2 DEF CompleteInv
<1> QED BY <1>16, <1>19, <1>20, <1>21, <1>22, <1>23 DEF SubscriberInv

-----------------------------------------------------------------------------
LEMMA EventsKept == EventsInv /\ [Next]_vars => EventsInv'
<1> SUFFICES ASSUME EventsInv, [Next]_vars
             PROVE  EventsInv'
  OBVIOUS
<1>1. TypeInv /\ SendingInv /\ HistoryInv
  BY DEF EventsInv
<1>2. TypeInv' /\ SendingInv' /\ HistoryInv'
  BY <1>1, TypeKept, HistoryKept
<1>3. ASSUME NEW s \in Subscribers
      PROVE  SubscriberInv(s)'
  <2>0. SubscriberInv(s)
    BY DEF EventsInv
  <2>1. CASE UNCHANGED vars
    BY <2>0, <2>1, UntouchedKept DEF vars
  <2>2. ASSUME NEW p \in Publishers, Publish(p)
        PROVE  SubscriberInv(s)'
    BY <2>2, PublishKept
  <2>3. ASSUME NEW p \in Publishers, NEW t \in Subscribers, Deliver(p, t)
        PROVE  SubscriberInv(s)'
    <3>1. CASE t = s
      BY <2>3, <3>1, DeliverKept
    <3>2. CASE t # s
      <4>1. UNCHANGED <<published, subscribers, sending, conn, received, replay, snapshot, lost>>
            /\ buffer'[s] = buffer[s]
            /\ \A q \in Publishers : s \in targets'[q] <=> s \in targets[q]
        BY <1>1, <2>3, <3>2 DEF Deliver, broker, TypeInv
      <4> QED BY <2>0, <4>1, UntouchedKept
    <3> QED BY <3>1, <3>2
  <2>4. ASSUME NEW p \in Publishers, NEW t \in Subscribers, Drop(p, t)
        PROVE  SubscriberInv(s)'
    <3>1. CASE t = s
      <4>1. s \in targets[p] /\ Drop(p, s)
        BY <2>4, <3>1 DEF Drop
      <4> QED BY <4>1, LoseKept
    <3>2. CASE t # s
      <4>1. UNCHANGED <<published, subscribers, sending, conn, buffer, received, replay, snapshot>>
            /\ lost'[s] = lost[s]
            /\ \A q \in Publishers : s \in targets'[q] <=> s \in targets[q]
        BY <1>1, <2>4, <3>2 DEF Drop, broker, TypeInv
      <4> QED BY <2>0, <4>1, UntouchedKept
    <3> QED BY <3>1, <3>2
  <2>5. ASSUME NEW p \in Publishers, Abandon(p)
        PROVE  SubscriberInv(s)'
    <3>1. CASE s \in targets[p]
      BY <2>5, <3>1, LoseKept
    <3>2. CASE s \notin targets[p]
      <4>1. UNCHANGED <<published, subscribers, sending, conn, buffer, received, replay, snapshot>>
            /\ lost'[s] = lost[s]
            /\ \A q \in Publishers : s \in targets'[q] <=> s \in targets[q]
        BY <1>1, <2>5, <3>2 DEF Abandon, broker, TypeInv
      <4> QED BY <2>0, <4>1, UntouchedKept
    <3> QED BY <3>1, <3>2
  <2>6. ASSUME NEW p \in Publishers, Cancel(p)
        PROVE  SubscriberInv(s)'
    BY <2>0, <2>6, UntouchedKept DEF Cancel, broker, sends
  <2>7. ASSUME NEW t \in Subscribers, Subscribe(t)
        PROVE  SubscriberInv(s)'
    <3>1. CASE t = s
      BY <2>7, <3>1, SubscribeKept
    <3>2. CASE t # s
      <4>1. UNCHANGED <<published, sending, targets, buffer, received, lost>>
            /\ conn'[s] = conn[s] /\ replay'[s] = replay[s] /\ snapshot'[s] = snapshot[s]
            /\ (s \in subscribers' <=> s \in subscribers)
        BY <1>1, <2>7, <3>2 DEF Subscribe, sends, TypeInv
      <4> QED BY <2>0, <4>1, UntouchedKept
    <3> QED BY <3>1, <3>2
  <2>8. ASSUME NEW t \in Subscribers, Replay(t)
        PROVE  SubscriberInv(s)'
    <3>1. CASE t = s
      BY <2>8, <3>1, ReplayKept
    <3>2. CASE t # s
      <4>1. UNCHANGED <<published, subscribers, sending, targets, conn, received, snapshot, lost>>
            /\ buffer'[s] = buffer[s] /\ replay'[s] = replay[s]
        BY <1>1, <2>8, <3>2 DEF Replay, broker, sends, TypeInv
      <4> QED BY <2>0, <4>1, UntouchedKept
    <3> QED BY <3>1, <3>2
  <2>9. ASSUME NEW t \in Subscribers, EndReplay(t)
        PROVE  SubscriberInv(s)'
    BY <2>0, <2>9, UntouchedKept DEF EndReplay, broker, sends
  <2>10. ASSUME NEW t \in Subscribers, Receive(t)
         PROVE  SubscriberInv(s)'
    <3>1. CASE t = s
      BY <2>10, <3>1, ReceiveKept
    <3>2. CASE t # s
      <4>1. UNCHANGED <<published, subscribers, sending, targets, conn, replay, snapshot, lost>>
            /\ buffer'[s] = buffer[s] /\ received'[s] = received[s]
        BY <1>1, <2>10, <3>2 DEF Receive, broker, sends, TypeInv
      <4> QED BY <2>0, <4>1, UntouchedKept
    <3> QED BY <3>1, <3>2
  <2>11. ASSUME NEW t \in Subscribers, Disconnect(t) \/ Unsubscribe(t)
         PROVE  SubscriberInv(s)'
    <3>1. CASE t = s
      BY <2>11, <3>1, LeaveKept
    <3>2. CASE t # s
      <4>1. UNCHANGED <<published, sending, targets, buffer, received, replay, snapshot, lost>>
            /\ conn'[s] = conn[s]
            /\ (s \in subscribers' <=> s \in subscribers)
        BY <1>1, <2>11, <3>2 DEF Disconnect, Unsubscribe, broker, sends, TypeInv
      <4> QED BY <2>0, <4>1, UntouchedKept
    <3> QED BY <3>1, <3>2
  <2> QED
    BY <2>1, <2>2, <2>3, <2>4, <2>5, <2>6, <2>7, <2>8, <2>9, <2>10, <2>11
    DEF Next, Send, ReplayGoroutine
<1> QED BY <1>2, <1>3 DEF EventsInv

LEMMA InitEvents == Init => EventsInv
<1> SUFFICES ASSUME Init
             PROVE  EventsInv
  OBVIOUS
<1>1. <<>> \in Seq(Numbered) /\ Len(<<>>) = 0 /\ DOMAIN <<>> = {}
  BY EmptySeq, LenProperties
<1>2. HistoryInv
  BY <1>1, LimitAssumption DEF Init, HistoryInv, HistoryIsLatest
<1>3. TypeInv /\ SendingInv
  BY <1>1 DEF Init, TypeInv, SendingInv
<1>4. ASSUME NEW s \in Subscribers
      PROVE  SubscriberInv(s)
  <2>1. /\ conn[s] = "off" /\ received[s] = <<>> /\ buffer[s] = <<>> /\ replay[s] = <<>>
        /\ snapshot[s] = <<>> /\ lost[s] = {} /\ s \notin subscribers
        /\ \A p \in Publishers : s \notin targets[p]
    BY DEF Init
  <2>2. Len(Delivered(s)) = 0
    <3> DEFINE empty == <<>>
    <3>1. empty \in Seq(Numbered) /\ Len(empty) = 0
      BY EmptySeq
    <3>2. Delivered(s) = empty \o empty
      BY <2>1 DEF Delivered
    <3> HIDE DEF empty
    <3>3. Len(empty \o empty) = Len(empty) + Len(empty)
      BY <3>1, ConcatProperties
    <3> QED BY <3>1, <3>2, <3>3
  <2>3. 1..Len(Delivered(s)) = {}
    BY <2>2
  <2>4. ConnInv(s) /\ CompleteInv(s) /\ PendingInv(s) /\ LostInv(s)
    BY <2>1 DEF ConnInv, CompleteInv, PendingInv, LostInv
  <2>5. DeliveredInv(s)
    BY <2>3 DEF DeliveredInv
  <2>6. SnapshotInv(s)
    BY <1>1, <2>1 DEF SnapshotInv
  <2> QED BY <2>4, <2>5, <2>6 DEF SubscriberInv
<1> QED BY <1>2, <1>3, <1>4 DEF EventsInv

LEMMA EventsOrdered == EventsInv => InOrderPerSource
<1> SUFFICES ASSUME EventsInv, NEW s \in Subscribers
             PROVE  LET replayed == { snapshot[s][k] : k \in DOMAIN snapshot[s] }
                    IN  /\ Ascending(Delivered(s), replayed)
                        /\ \A p \in Publishers :
                              Ascending(Delivered(s), { e \in Event : e.by = p } \ replayed)
  BY DEF InOrderPerSource
<1> DEFINE found == { snapshot[s][k] : k \in DOMAIN snapshot[s] }
<1>1. TypeInv /\ HistoryInv /\ SubscriberInv(s)
  BY DEF EventsInv
<1>2. PICK D : D = Delivered(s)
  OBVIOUS
<1>3. /\ D \in Seq(Numbered) /\ DOMAIN D = 1..Len(D)
      /\ \A i \in 1..Len(D) : D[i] \in Numbered
      /\ snapshot[s] \in Seq(Numbered) /\ DOMAIN snapshot[s] = 1..Len(snapshot[s])
  BY <1>1, <1>2, DeliveredType, LenProperties DEF TypeInv
<1>4. /\ \A i \in 1..Len(D) : IsReplayed(s, D[i]) \/ IsLive(s, D[i])
      /\ \A i, j \in 1..Len(D) : i < j =>
            /\ IsReplayed(s, D[i]) /\ IsReplayed(s, D[j]) => D[i].n < D[j].n
            /\ IsLive(s, D[i]) /\ IsLive(s, D[j]) /\ D[i].by = D[j].by => D[i].n < D[j].n
  BY <1>1, <1>2 DEF SubscriberInv, DeliveredInv
<1>5. /\ Len(snapshot[s]) \in Nat /\ Len(replay[s]) \in Nat /\ Since(s) \in Nat
      /\ LastFound(s) = Since(s) + Len(snapshot[s]) - 1
      /\ Replayed(s) = Len(snapshot[s]) - Len(replay[s])
  BY <1>1, Numbers DEF LastFound, Replayed
<1>6. ASSUME NEW e \in found
      PROVE  ~IsLive(s, e)
  <2>1. PICK k \in 1..Len(snapshot[s]) : e = snapshot[s][k]
    BY <1>3
  <2>2. e.n = Since(s) + k - 1
    BY <1>1, <2>1 DEF SubscriberInv, SnapshotInv
  <2>3. ~(e.n > LastFound(s))
    BY <1>5, <2>2
  <2> QED BY <2>3 DEF IsLive
<1>7. ASSUME NEW e \in Numbered, IsReplayed(s, e)
      PROVE  e \in found
  <2>1. PICK k : k = e.n - Since(s) + 1
    OBVIOUS
  <2>2. k \in 1..Replayed(s) /\ e = snapshot[s][k]
    BY <1>7, <2>1 DEF IsReplayed
  <2>3. k \in 1..Len(snapshot[s])
    BY <1>5, <2>2
  <2> QED BY <1>3, <2>2, <2>3
<1> HIDE DEF found
<1>8. Ascending(D, found)
  <2> SUFFICES ASSUME NEW i \in 1..Len(D), NEW j \in 1..Len(D), i < j, D[i] \in found, D[j] \in found
               PROVE  D[i].n < D[j].n
    BY <1>3 DEF Ascending
  <2>1. IsReplayed(s, D[i]) /\ IsReplayed(s, D[j])
    BY <1>4, <1>6
  <2> QED BY <1>4, <2>1
<1>9. ASSUME NEW p \in Publishers
      PROVE  Ascending(D, { e \in Event : e.by = p } \ found)
  <2> SUFFICES ASSUME NEW i \in 1..Len(D), NEW j \in 1..Len(D), i < j,
                      D[i].by = p, D[i] \notin found, D[j].by = p, D[j] \notin found
               PROVE  D[i].n < D[j].n
    BY <1>3 DEF Ascending
  <2>1. IsLive(s, D[i]) /\ IsLive(s, D[j])
    BY <1>3, <1>4, <1>7
  <2> QED BY <1>4, <2>1
<1> QED BY <1>2, <1>8, <1>9 DEF found

\* A set with one element, by what its elements are.
LEMMA OneElement ==
    ASSUME NEW S, NEW e, e \in S, \A k \in S : k = e
    PROVE  Cardinality(S) = 1
<1>1. S = {e}
  OBVIOUS
<1> QED BY <1>1, FS_Singleton

LEMMA EventsAccounted == EventsInv => EveryEventAccounted
<1> SUFFICES ASSUME EventsInv, NEW s \in Subscribers, conn[s] = "open",
                    NEW n \in Since(s)..published
             PROVE  Times(received[s] \o buffer[s] \o replay[s], n)
                      + Cardinality({ p \in Publishers : s \in targets[p] /\ sending[p].n = n })
                      + Cardinality(lost[s] \cap {n}) = 1
  BY DEF EveryEventAccounted
<1> DEFINE pending == { p \in Publishers : s \in targets[p] /\ sending[p].n = n }
           gone    == lost[s] \cap {n}
<1>1. TypeInv /\ HistoryInv /\ SubscriberInv(s)
  BY DEF EventsInv
<1>2. PICK D : D = Delivered(s)
  OBVIOUS
<1>3. PICK R : R = replay[s]
  OBVIOUS
<1>4. PICK Q : Q = D \o R
  OBVIOUS
<1> DEFINE places == { k \in DOMAIN Q : Q[k].n = n }
<1>5. /\ D \in Seq(Numbered) /\ Len(D) \in Nat /\ R \in Seq(Numbered) /\ Len(R) \in Nat
      /\ \A i \in 1..Len(D) : D[i] \in Numbered
  BY <1>1, <1>2, <1>3, DeliveredType, Numbers DEF TypeInv
<1>6. /\ DOMAIN Q = 1..(Len(D) + Len(R))
      /\ \A i \in 1..(Len(D) + Len(R)) : Q[i] = IF i <= Len(D) THEN D[i] ELSE R[i - Len(D)]
  <2>1. /\ Q \in Seq(Numbered) /\ Len(Q) = Len(D) + Len(R)
        /\ \A i \in 1..(Len(D) + Len(R)) : Q[i] = IF i <= Len(D) THEN D[i] ELSE R[i - Len(D)]
    BY <1>4, <1>5, ConcatProperties
  <2> QED BY <2>1, LenProperties
<1>7. PICK b : b = Since(s) + Replayed(s) \* the first event that is left to replay
  OBVIOUS
<1>8. PICK l : l = LastFound(s)
  OBVIOUS
<1>9. /\ published \in Nat /\ Since(s) \in Nat /\ n \in Nat /\ Since(s) <= n /\ n <= published
      /\ b \in Nat /\ l = b + Len(R) - 1 /\ l \in Int /\ Replayed(s) \in Nat
  <2>1. /\ Len(snapshot[s]) \in Nat /\ published \in Nat /\ Since(s) \in Nat
        /\ Replayed(s) = Len(snapshot[s]) - Len(R) /\ l = Since(s) + Len(snapshot[s]) - 1
    <3>1. Len(snapshot[s]) \in Nat /\ published \in Nat /\ Since(s) \in Nat
      BY <1>1, Numbers
    <3>2. Replayed(s) = Len(snapshot[s]) - Len(R) /\ l = Since(s) + Len(snapshot[s]) - 1
      BY <1>3, <1>8 DEF Replayed, LastFound
    <3> QED BY <3>1, <3>2
  <2>2. Len(R) <= Len(snapshot[s])
    BY <1>1, <1>3 DEF SubscriberInv, SnapshotInv
  <2>3. n \in Nat /\ Since(s) <= n /\ n <= published
    BY <2>1
  <2>4. Replayed(s) \in Nat
    BY <1>5, <2>1, <2>2
  <2>5. b \in Nat
    BY <1>7, <2>1, <2>4
  <2>6. l = b + Len(R) - 1
    <3> DEFINE a == Since(s)   f == Len(snapshot[s])   r == Len(R)
    <3>1. a \in Nat /\ f \in Nat /\ r \in Nat /\ b = a + (f - r) /\ l = a + f - 1
      BY <1>5, <1>7, <2>1
    <3> HIDE DEF a, f, r
    <3>2. l = b + r - 1
      BY <3>1
    <3> QED BY <3>2 DEF r
  <2>7. l \in Int
    BY <1>5, <2>5, <2>6
  <2> QED BY <2>1, <2>3, <2>4, <2>5, <2>6, <2>7
<1>10. ASSUME NEW k \in 1..Len(R)
       PROVE  R[k].n = b + k - 1
  <2>1. /\ \A i \in 1..Len(snapshot[s]) : snapshot[s][i].n = Since(s) + i - 1
        /\ R[k] = snapshot[s][Replayed(s) + k]
    BY <1>1, <1>3 DEF SubscriberInv, SnapshotInv
  <2>2. Replayed(s) = Len(snapshot[s]) - Len(R) /\ Len(snapshot[s]) \in Nat
    BY <1>1, <1>3, Numbers DEF Replayed
  <2>3. Replayed(s) + k \in 1..Len(snapshot[s])
    BY <1>5, <1>9, <2>2
  <2>4. R[k].n = Since(s) + (Replayed(s) + k) - 1
    BY <2>1, <2>3
  <2> QED BY <1>7, <1>9, <2>4
<1>11. ASSUME NEW i \in 1..Len(D)
       PROVE  D[i].n \in Nat /\ (D[i].n < b \/ D[i].n > l)
  <2>1. IsReplayed(s, D[i]) \/ IsLive(s, D[i])
    BY <1>1, <1>2 DEF SubscriberInv, DeliveredInv
  <2>2. D[i].n \in Nat
    BY <1>5 DEF Numbered
  <2>3. CASE IsReplayed(s, D[i])
    <3>1. D[i].n - Since(s) + 1 \in 1..Replayed(s)
      BY <2>3 DEF IsReplayed
    <3>2. Since(s) \in Nat /\ Replayed(s) \in Nat /\ b = Since(s) + Replayed(s)
      BY <1>7, <1>9
    <3>3. D[i].n - Since(s) + 1 <= Replayed(s)
      BY <2>2, <3>1, <3>2
    <3> QED BY <2>2, <3>2, <3>3
  <2> QED BY <1>8, <2>1, <2>2, <2>3 DEF IsLive
<1>12. /\ pending # {} => n > l /\ n \notin lost[s] /\ \A i \in 1..Len(D) : D[i].n # n
       /\ \A p, q \in pending : p = q
  BY <1>1, <1>2, <1>8 DEF SubscriberInv, PendingInv
<1>13. n \in lost[s] => n > l /\ \A i \in 1..Len(D) : D[i].n # n
  BY <1>1, <1>2, <1>8 DEF SubscriberInv, LostInv
<1>14. \A i, j \in 1..Len(D) : D[i].n = n /\ D[j].n = n => i = j
  <2>1. \A i, j \in 1..Len(D) : i < j => D[i].n # D[j].n
    BY <1>1, <1>2 DEF SubscriberInv, DeliveredInv
  <2> QED BY <2>1, <1>5
<1>15. /\ n < b => \E i \in 1..Len(D) : D[i].n = n
       /\ n > l => \/ \E i \in 1..Len(D) : D[i].n = n
                   \/ n \in lost[s]
                   \/ pending # {}
  <2>1. /\ \A m \in Since(s)..(Since(s) + Replayed(s) - 1) : Got(s, m)
        /\ \A m \in (LastFound(s) + 1)..published :
             \/ Got(s, m) \/ m \in lost[s]
             \/ \E p \in Publishers : s \in targets[p] /\ sending[p].n = m
    BY <1>1 DEF SubscriberInv, CompleteInv
  <2>2. n < b => n \in Since(s)..(Since(s) + Replayed(s) - 1)
    BY <1>7, <1>9
  <2>3. n > l => n \in (LastFound(s) + 1)..published
    BY <1>8, <1>9
  <2>4. n < b => \E i \in 1..Len(D) : D[i].n = n
    BY <1>2, <2>1, <2>2 DEF Got
  <2>5. n > l => \/ Got(s, n) \/ n \in lost[s]
                 \/ \E p \in Publishers : s \in targets[p] /\ sending[p].n = n
    BY <2>1, <2>3
  <2> QED BY <1>2, <2>4, <2>5 DEF Got
<1>16. ASSUME NEW k \in places
       PROVE  \/ k \in 1..Len(D) /\ D[k].n = n
              \/ k - Len(D) \in 1..Len(R) /\ k \in Int /\ n = b + (k - Len(D)) - 1
  <2>1. k \in 1..(Len(D) + Len(R)) /\ Q[k].n = n
    BY <1>6
  <2>2. CASE k <= Len(D)
    BY <1>5, <1>6, <2>1, <2>2
  <2>3. CASE k > Len(D)
    <3>1. k - Len(D) \in 1..Len(R) /\ ~(k <= Len(D)) /\ k \in Int
      BY <1>5, <2>1, <2>3
    <3>2. Q[k] = R[k - Len(D)]
      BY <1>6, <2>1, <3>1
    <3> QED BY <1>10, <2>1, <3>1, <3>2
  <2> QED BY <1>5, <2>1, <2>2, <2>3
<1>17. \A i \in 1..Len(D) : D[i].n = n => i \in places
  BY <1>5, <1>6
<1>18. \A j \in 1..Len(R) : R[j].n = n => Len(D) + j \in places
  <2> SUFFICES ASSUME NEW j \in 1..Len(R), R[j].n = n
               PROVE  Len(D) + j \in places
    OBVIOUS
  <2> DEFINE k == Len(D) + j
  <2>1. k \in 1..(Len(D) + Len(R)) /\ ~(k <= Len(D)) /\ k - Len(D) = j
    BY <1>5
  <2>2. Q[k].n = n
    BY <1>6, <2>1
  <2> QED BY <1>6, <2>1, <2>2
<1>19. (n \in lost[s] => gone = {n}) /\ (n \notin lost[s] => gone = {})
  OBVIOUS
<1>20. Times(received[s] \o buffer[s] \o replay[s], n) = Cardinality(places)
  BY <1>2, <1>3, <1>4 DEF Delivered, Times
<1> HIDE DEF places, pending, gone
<1>21. /\ places = {} => Cardinality(places) = 0
       /\ pending = {} => Cardinality(pending) = 0
       /\ gone = {} => Cardinality(gone) = 0
  BY FS_EmptySet
<1>22. Cardinality(places) + Cardinality(pending) + Cardinality(gone) = 1
  <2>1. CASE n < b
    <3>1. pending = {} /\ gone = {}
      BY <1>5, <1>9, <1>12, <1>13, <1>19, <2>1
    <3>2. PICK i \in 1..Len(D) : D[i].n = n
      BY <1>15, <2>1
    <3>3. ASSUME NEW k \in places
          PROVE  k = i
      <4>1. ~(k - Len(D) \in 1..Len(R) /\ n = b + (k - Len(D)) - 1)
        BY <1>5, <1>9, <2>1
      <4> QED BY <1>14, <1>16, <3>2, <4>1
    <3>4. i \in places
      BY <1>17, <3>2
    <3>5. Cardinality(places) = 1
      BY <3>3, <3>4, OneElement
    <3> QED BY <1>21, <3>1, <3>5
  <2>2. CASE b <= n /\ n <= l
    <3>1. pending = {} /\ gone = {}
      BY <1>9, <1>12, <1>13, <1>19, <2>2
    <3>2. PICK j : j = n - b + 1
      OBVIOUS
    <3>3. j \in 1..Len(R)
      BY <1>5, <1>9, <2>2, <3>2
    <3>4. R[j].n = n
      BY <1>9, <1>10, <3>2, <3>3
    <3>5. Len(D) + j \in places
      BY <1>18, <3>3, <3>4
    <3>6. ASSUME NEW k \in places
          PROVE  k = Len(D) + j
      <4>1. ~(k \in 1..Len(D) /\ D[k].n = n)
        BY <1>9, <1>11, <2>2
      <4>2. k \in Int /\ n = b + (k - Len(D)) - 1
        BY <1>16, <4>1
      <4> QED BY <1>5, <1>9, <3>2, <4>2
    <3>7. Cardinality(places) = 1
      BY <3>5, <3>6, OneElement
    <3> QED BY <1>21, <3>1, <3>7
  <2>3. CASE n > l
    <3>1. ASSUME NEW k \in places
          PROVE  k \in 1..Len(D) /\ D[k].n = n
      <4>1. ~(k - Len(D) \in 1..Len(R) /\ n = b + (k - Len(D)) - 1)
        BY <1>5, <1>9, <2>3
      <4> QED BY <1>16, <4>1
    <3>2. CASE \E i \in 1..Len(D) : D[i].n = n
      <4>1. PICK i \in 1..Len(D) : D[i].n = n
        BY <3>2
      <4>2. i \in places
        BY <1>17, <4>1
      <4>3. ASSUME NEW k \in places
            PROVE  k = i
        BY <1>14, <3>1, <4>1
      <4>4. Cardinality(places) = 1
        <5>1. places = {i}
          BY <4>2, <4>3
        <5> QED BY <5>1, FS_Singleton
      <4>5. pending = {} /\ n \notin lost[s]
        BY <1>12, <1>13, <4>1
      <4>6. gone = {}
        BY <1>19, <4>5
      <4> QED BY <1>21, <4>4, <4>5, <4>6
    <3>3. CASE n \in lost[s]
      <4>1. places = {} /\ pending = {} /\ gone = {n}
        BY <1>12, <1>13, <1>19, <3>1, <3>3
      <4>2. Cardinality(gone) = 1
        BY <4>1, FS_Singleton
      <4> QED BY <1>21, <4>1, <4>2
    <3>4. CASE pending # {}
      <4>1. places = {} /\ gone = {}
        BY <1>12, <1>19, <3>1, <3>4
      <4>2. PICK p : p \in pending
        BY <3>4
      <4>3. Cardinality(pending) = 1
        BY <1>12, <4>2, OneElement
      <4> QED BY <1>21, <4>1, <4>3
    <3> QED BY <1>15, <2>3, <3>2, <3>3, <3>4
  <2> QED BY <1>9, <2>1, <2>2, <2>3
<1> QED BY <1>20, <1>22 DEF places, pending, gone

\* What a subscriber gets is in order source by source, whatever the sizes of the history
\* and of the channels and however many publish, replay and read at once.
THEOREM InOrderPerSourceHolds == Spec => []InOrderPerSource
<1> QED BY InitEvents, EventsKept, EventsOrdered, PTL DEF Spec

\* Every event from the oldest a subscription found on is in exactly one place: replayed
\* or sent live, on its way, or lost to a full channel or a cancelled publisher.
THEOREM EveryEventAccountedHolds == Spec => []EveryEventAccounted
<1> QED BY InitEvents, EventsKept, EventsAccounted, PTL DEF Spec
=============================================================================
