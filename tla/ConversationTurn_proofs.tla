---------------------- MODULE ConversationTurn_proofs ----------------------
(***************************************************************************)
(* For every policy, history and choice of the model: each request is      *)
(* paired, holds the whole turn and keeps its history within the budget,   *)
(* and the store gets whole turns and the results they got, however turns  *)
(* overlap.                                                                *)
(***************************************************************************)
EXTENDS ConversationTurn, SequenceTheorems, FiniteSetTheorems, FiniteRecursion, TLAPS

\* A set of naturals has a least element, a bounded one a greatest.
LEMMA LeastOf ==
    ASSUME NEW S \in SUBSET Nat, S # {}
    PROVE  Min(S) \in S /\ \A y \in S : Min(S) <= y
<1>1. PICK x \in S : \A y \in S : ~ (<<y, x>> \in OpToRel(<, Nat))
  BY NatLessThanWellFounded, WFMin
<1>2. \A y \in S : ~(y < x)
  BY <1>1 DEF OpToRel
<1>3. \E z \in S : \A y \in S : z <= y
  BY <1>2
<1> QED BY <1>3, Zenon DEF Min

LEMMA LeastIs ==
    ASSUME NEW S \in SUBSET Nat, NEW x \in S, \A y \in S : x <= y
    PROVE  Min(S) = x
<1>1. Min(S) \in S /\ \A y \in S : Min(S) <= y
  BY LeastOf
<1>2. Min(S) \in Nat /\ x \in Nat /\ Min(S) <= x /\ x <= Min(S)
  BY <1>1
<1> QED BY <1>2

LEMMA GreatestIs ==
    ASSUME NEW S \in SUBSET Nat, NEW x \in S, \A y \in S : y <= x
    PROVE  Max(S) = x
<1>1. Max(S) \in S /\ \A y \in S : Max(S) >= y
  <2>1. \E z \in S : \A y \in S : z >= y
    OBVIOUS
  <2> QED BY <2>1, Zenon DEF Max
<1>2. Max(S) \in Nat /\ x \in Nat /\ Max(S) <= x /\ x <= Max(S)
  BY <1>1
<1> QED BY <1>2
-----------------------------------------------------------------------------
(* Messages and sequences of them, by their elements.                      *)

LEMMA MessageFacts ==
    ASSUME NEW m \in Message
    PROVE  /\ m.calls \in Seq(CallIds) /\ Len(m.calls) \in Nat
           /\ DOMAIN m.calls = 1..Len(m.calls)
           /\ m.calls = <<>> <=> Len(m.calls) = 0
           /\ CompactContent(m) \in Message
           /\ CompactContent(m).role = m.role
           /\ CompactContent(m).turn = m.turn
           /\ CompactContent(m).calls = m.calls
           /\ CompactContent(m).answers = m.answers
           /\ CompactContent(CompactContent(m)) = CompactContent(m)
<1>1. /\ m.calls \in Seq(CallIds) /\ Len(m.calls) \in Nat
      /\ DOMAIN m.calls = 1..Len(m.calls)
      /\ m.calls = <<>> <=> Len(m.calls) = 0
  BY LenProperties, EmptySeq DEF Message
<1>2. /\ MaxToolResult \in Nat \ {0} /\ MaxText \in Nat \ {0} /\ Marker \in Nat
      /\ m.size \in Nat \ {0}
  BY PolicyAssumption DEF Message
<1>3. PICK limit \in Nat \ {0} : limit = IF m.role = "tool" THEN MaxToolResult ELSE MaxText
  BY <1>2
<1>4. PICK size \in Nat \ {0} : size = limit + Marker
  BY <1>2, <1>3
<1>8. PICK cut : cut = [m EXCEPT !.size = size]
  OBVIOUS
<1>9. /\ cut \in Message /\ cut.size = size
      /\ cut.role = m.role /\ cut.turn = m.turn
      /\ cut.calls = m.calls /\ cut.answers = m.answers
  BY <1>4, <1>8 DEF Message
<1>10. [cut EXCEPT !.size = size] = cut
  BY <1>8, <1>9 DEF Message
<1>5. /\ cut \in Message
      /\ cut.role = m.role /\ cut.turn = m.turn
      /\ cut.calls = m.calls /\ cut.answers = m.answers
      /\ [cut EXCEPT !.size = limit + Marker] = cut
      /\ cut = [m EXCEPT !.size = limit + Marker]
  BY <1>4, <1>8, <1>9, <1>10
<1>6. CompactContent(m) = IF m.size > limit THEN cut ELSE m
  BY <1>3, <1>5 DEF CompactContent
<1>7. CompactContent(cut) = cut
  BY <1>3, <1>5 DEF CompactContent
<1> QED BY <1>1, <1>5, <1>6, <1>7

LEMMA AlikeFacts ==
    ASSUME NEW m \in Message, NEW n \in Message, CompactContent(m) = CompactContent(n)
    PROVE  m.role = n.role /\ m.turn = n.turn /\ m.calls = n.calls /\ m.answers = n.answers
BY MessageFacts

LEMMA MessagesSeq ==
    ASSUME NEW q \in Seq(Message)
    PROVE  /\ Len(q) \in Nat /\ DOMAIN q = 1..Len(q)
           /\ q = <<>> <=> Len(q) = 0
           /\ \A i \in 1..Len(q) : /\ q[i] \in Message
                                   /\ Len(q[i].calls) \in Nat
                                   /\ DOMAIN q[i].calls = 1..Len(q[i].calls)
                                   /\ q[i].calls = <<>> <=> Len(q[i].calls) = 0
<1>1. Len(q) \in Nat /\ DOMAIN q = 1..Len(q) /\ (q = <<>> <=> Len(q) = 0)
  BY LenProperties, EmptySeq
<1>2. \A i \in 1..Len(q) : q[i] \in Message
  BY ElementOfSeq
<1> QED BY <1>1, <1>2, MessageFacts

LEMMA ConcatFacts ==
    ASSUME NEW p \in Seq(Message), NEW q \in Seq(Message)
    PROVE  /\ p \o q \in Seq(Message) /\ Len(p) \in Nat /\ Len(q) \in Nat
           /\ Len(p \o q) = Len(p) + Len(q)
           /\ \A i \in 1..Len(p) : (p \o q)[i] = p[i]
           /\ \A i \in 1..Len(q) : (p \o q)[Len(p) + i] = q[i]
           /\ \A i \in 1..Len(p \o q) : i \in 1..Len(p) \/ \E k \in 1..Len(q) : i = Len(p) + k
<1>1. PICK r : r = p \o q
  OBVIOUS
<1>2. Len(p) \in Nat /\ Len(q) \in Nat
  BY MessagesSeq
<1>3. /\ r \in Seq(Message) /\ Len(r) = Len(p) + Len(q)
      /\ \A i \in 1..(Len(p) + Len(q)) : r[i] = IF i <= Len(p) THEN p[i] ELSE q[i - Len(p)]
  BY <1>1, ConcatProperties
<1>4. \A i \in 1..Len(p) : r[i] = p[i]
  BY <1>2, <1>3
<1>5. ASSUME NEW i \in 1..Len(q)
      PROVE  r[Len(p) + i] = q[i]
  <2>1. PICK k : k = Len(p) + i
    OBVIOUS
  <2>2. k \in 1..(Len(p) + Len(q)) /\ ~(k <= Len(p)) /\ k - Len(p) = i
    BY <1>2, <2>1
  <2> QED BY <1>3, <2>1, <2>2
<1>6. ASSUME NEW i \in 1..Len(r), i \notin 1..Len(p)
      PROVE  \E k \in 1..Len(q) : i = Len(p) + k
  <2>1. PICK k : k = i - Len(p)
    OBVIOUS
  <2>2. k \in 1..Len(q) /\ i = Len(p) + k
    BY <1>2, <1>3, <1>6, <2>1
  <2> QED BY <2>2
<1> QED BY <1>1, <1>2, <1>3, <1>4, <1>5, <1>6

\* Paired, over intervals; and only the assistant calls.
CallsMet(q) ==
    \A i \in 1..Len(q) : \A k \in 1..Len(q[i].calls) :
       i + k <= Len(q) /\ q[i + k].role = "tool" /\ q[i + k].answers = q[i].calls[k]

Due(q, j) == \E i \in 1..(j - 1) : j - i <= Len(q[i].calls)

Whole(q) ==
    /\ q \in Seq(Message)
    /\ CallsMet(q)
    /\ \A j \in 1..Len(q) : q[j].role = "tool" => Due(q, j)
    /\ \A i \in 1..Len(q) : q[i].calls # <<>> => q[i].role = "assistant"

LEMMA WholeIsPaired ==
    ASSUME NEW q \in Seq(Message)
    PROVE  /\ Whole(q) => Paired(q)
           /\ Conversation(q) => Whole(q)
<1>1. /\ Len(q) \in Nat /\ DOMAIN q = 1..Len(q)
      /\ \A i \in 1..Len(q) : DOMAIN q[i].calls = 1..Len(q[i].calls)
  BY MessagesSeq
<1>2. Paired(q) <=> CallsMet(q) /\ \A j \in DOMAIN q : q[j].role = "tool" => Due(q, j)
  <2>1. CallsMet(q) <=> \A i \in DOMAIN q : \A k \in DOMAIN q[i].calls :
           i + k <= Len(q) /\ q[i + k].role = "tool" /\ q[i + k].answers = q[i].calls[k]
    BY <1>1 DEF CallsMet
  <2> QED BY <2>1, Zenon DEF Paired, Due
<1>3. Whole(q) => Paired(q)
  BY <1>1, <1>2, Zenon DEF Whole
<1>4. Conversation(q) => Whole(q)
  <2>1. Conversation(q) => \A i \in 1..Len(q) : q[i].calls # <<>> => q[i].role = "assistant"
    BY <1>1 DEF Conversation
  <2>2. Conversation(q) => Paired(q)
    BY DEF Conversation
  <2>3. Paired(q) => CallsMet(q) /\ \A j \in 1..Len(q) : q[j].role = "tool" => Due(q, j)
    BY <1>1, <1>2
  <2> QED BY <2>1, <2>2, <2>3 DEF Whole
<1> QED BY <1>3, <1>4

\* s is what q holds after its first c messages, text cut or not.
Copied(s, q, c) ==
    /\ s \in Seq(Message) /\ q \in Seq(Message)
    /\ c \in Nat /\ c + Len(s) <= Len(q)
    /\ \A i \in 1..Len(s) : CompactContent(s[i]) = CompactContent(q[c + i])

LEMMA CopiedFacts ==
    ASSUME NEW s, NEW q, NEW c, Copied(s, q, c)
    PROVE  /\ Len(s) \in Nat /\ Len(q) \in Nat /\ c \in Nat /\ c + Len(s) <= Len(q)
           /\ \A i \in 1..Len(s) : /\ c + i \in 1..Len(q)
                                   /\ s[i] \in Message /\ q[c + i] \in Message
                                   /\ s[i].role = q[c + i].role
                                   /\ s[i].turn = q[c + i].turn
                                   /\ s[i].calls = q[c + i].calls
                                   /\ s[i].answers = q[c + i].answers
<1>1. Len(s) \in Nat /\ Len(q) \in Nat /\ c \in Nat /\ c + Len(s) <= Len(q)
  BY MessagesSeq DEF Copied
<1>2. \A i \in 1..Len(s) : c + i \in 1..Len(q)
  BY <1>1
<1>3. \A i \in 1..Len(s) : s[i] \in Message
  BY MessagesSeq DEF Copied
<1>4. \A i \in 1..Len(s) : q[c + i] \in Message
  BY <1>2, MessagesSeq DEF Copied
<1>5. \A i \in 1..Len(s) : CompactContent(s[i]) = CompactContent(q[c + i])
  BY DEF Copied
<1> QED BY <1>1, <1>2, <1>3, <1>4, <1>5, AlikeFacts

LEMMA CopiedRoles ==
    ASSUME NEW s, NEW q, NEW c, Copied(s, q, c)
    PROVE  \A i \in 1..Len(s) : c + i \in 1..Len(q) /\ s[i].role = q[c + i].role
<1>1. \A i \in 1..Len(s) : c + i \in 1..Len(q)
  BY CopiedFacts
<1>2. \A i \in 1..Len(s) : s[i].role = q[c + i].role
  BY CopiedFacts
<1> QED BY <1>1, <1>2

\* A stretch of a paired sequence is paired when no result is cut off at either end.
LEMMA StretchWhole ==
    ASSUME NEW s, NEW q, NEW c, Copied(s, q, c), Whole(q),
           s = <<>> \/ s[1].role # "tool",
           c + Len(s) = Len(q) \/ q[c + Len(s) + 1].role # "tool"
    PROVE  Whole(s)
<1>1. /\ Len(s) \in Nat /\ Len(q) \in Nat /\ c \in Nat /\ c + Len(s) <= Len(q)
      /\ \A i \in 1..Len(s) : /\ c + i \in 1..Len(q)
                              /\ s[i].role = q[c + i].role
                              /\ s[i].calls = q[c + i].calls
                              /\ s[i].answers = q[c + i].answers
  BY CopiedFacts
<1>2. s \in Seq(Message) /\ (s = <<>> <=> Len(s) = 0)
  BY MessagesSeq DEF Copied
<1>3. \A i \in 1..Len(q) : Len(q[i].calls) \in Nat
  BY MessagesSeq DEF Whole, CallsMet
<1>4. ASSUME NEW i \in 1..Len(s), NEW k \in 1..Len(s[i].calls)
      PROVE  i + k <= Len(s) /\ s[i + k].role = "tool" /\ s[i + k].answers = s[i].calls[k]
  <2>1. c + i \in 1..Len(q) /\ Len(q[c + i].calls) \in Nat /\ k \in 1..Len(q[c + i].calls)
    BY <1>1, <1>3
  <2>2. \A l \in 1..Len(q[c + i].calls) :
           /\ c + i + l <= Len(q) /\ q[c + i + l].role = "tool"
           /\ q[c + i + l].answers = q[c + i].calls[l]
    BY <2>1 DEF Whole, CallsMet
  <2>3. i + k <= Len(s)
    <3> SUFFICES ASSUME i + k > Len(s) PROVE FALSE
      BY <1>1, <2>1
    <3>1. PICK l : l = Len(s) + 1 - i
      OBVIOUS
    <3>2. l \in 1..Len(q[c + i].calls) /\ c + i + l = c + Len(s) + 1
      BY <1>1, <2>1, <3>1
    <3>3. c + Len(s) + 1 <= Len(q) /\ q[c + Len(s) + 1].role = "tool"
      BY <2>2, <3>2
    <3> QED BY <1>1, <3>3
  <2>4. c + i + k = c + (i + k) /\ i + k \in 1..Len(s)
    BY <1>1, <2>1, <2>3
  <2>5. q[c + (i + k)].role = "tool" /\ q[c + (i + k)].answers = q[c + i].calls[k]
    BY <2>1, <2>2, <2>4
  <2> QED BY <1>1, <2>3, <2>4, <2>5
<1>5. ASSUME NEW j \in 1..Len(s), s[j].role = "tool"
      PROVE  Due(s, j)
  <2>0. PICK g : g = c + j
    OBVIOUS
  <2>1. c + j \in 1..Len(q) /\ g \in 1..Len(q) /\ q[g].role = "tool"
    BY <1>1, <1>5, <2>0
  <2>7. PICK i \in 1..(g - 1) : g - i <= Len(q[i].calls)
    BY <2>1 DEF Whole, Due
  <2>2. i \in 1..(c + j - 1) /\ c + j - i <= Len(q[i].calls)
    BY <1>1, <2>0, <2>1, <2>7
  <2>3. i \in 1..Len(q) /\ i \in Nat /\ j \in Nat
    BY <1>1, <2>1, <2>2
  <2>4. i > c
    <3> SUFFICES ASSUME i <= c PROVE FALSE
      BY <1>1, <2>3
    <3>1. PICK l : l = c + 1 - i
      OBVIOUS
    <3>2. l \in 1..Len(q[i].calls) /\ i + l = c + 1
      BY <1>1, <1>3, <2>2, <2>3, <3>1
    <3>3. q[c + 1].role = "tool"
      BY <2>3, <3>2 DEF Whole, CallsMet
    <3> QED BY <1>1, <1>2, <3>3
  <2>5. PICK h : h = i - c
    OBVIOUS
  <2>6. h \in 1..(j - 1) /\ c + h = i /\ h \in 1..Len(s)
    BY <1>1, <2>2, <2>3, <2>4, <2>5
  <2>8. j - h <= Len(s[h].calls)
    BY <1>1, <2>2, <2>3, <2>6
  <2> QED BY <2>6, <2>8 DEF Due
<1>6. \A i \in 1..Len(s) : s[i].calls # <<>> => s[i].role = "assistant"
  BY <1>1 DEF Whole, CallsMet
<1> QED BY <1>2, <1>4, <1>5, <1>6 DEF Whole, CallsMet

\* Two paired sequences, one after the other, are paired.
LEMMA ConcatWhole ==
    ASSUME NEW p, NEW q, Whole(p), Whole(q)
    PROVE  Whole(p \o q)
<1> DEFINE r == p \o q
           n == Len(p)
<1>1. p \in Seq(Message) /\ q \in Seq(Message)
  BY DEF Whole, CallsMet
<1>2. /\ r \in Seq(Message) /\ n \in Nat /\ Len(q) \in Nat /\ Len(r) = n + Len(q)
      /\ \A i \in 1..n : r[i] = p[i]
      /\ \A i \in 1..Len(q) : r[n + i] = q[i]
  BY <1>1, ConcatProperties, LenProperties
<1>3. /\ \A i \in 1..n : Len(p[i].calls) \in Nat
      /\ \A i \in 1..Len(q) : Len(q[i].calls) \in Nat
  BY <1>1, MessagesSeq
<1>4. \A i \in 1..Len(r) : i \in 1..n \/ \E h \in 1..Len(q) : i = n + h
  <2> SUFFICES ASSUME NEW i \in 1..Len(r), i \notin 1..n
               PROVE  \E h \in 1..Len(q) : i = n + h
    OBVIOUS
  <2>1. i - n \in 1..Len(q) /\ i = n + (i - n)
    BY <1>2
  <2> QED BY <2>1
<1> HIDE DEF r, n
<1>5. ASSUME NEW i \in 1..Len(r), NEW k \in 1..Len(r[i].calls)
      PROVE  i + k <= Len(r) /\ r[i + k].role = "tool" /\ r[i + k].answers = r[i].calls[k]
  <2>1. CASE i \in 1..n
    <3>1. r[i] = p[i] /\ k \in 1..Len(p[i].calls) /\ k \in Nat /\ i \in Nat
      BY <1>2, <1>3, <2>1
    <3>2. i + k <= n /\ p[i + k].role = "tool" /\ p[i + k].answers = p[i].calls[k]
      BY <2>1, <3>1 DEF Whole, CallsMet, n
    <3>3. i + k \in 1..n
      BY <1>2, <3>1, <3>2
    <3> QED BY <1>2, <3>1, <3>2, <3>3
  <2>2. ASSUME NEW h \in 1..Len(q), i = n + h
        PROVE  i + k <= Len(r) /\ r[i + k].role = "tool" /\ r[i + k].answers = r[i].calls[k]
    <3>1. r[i] = q[h] /\ k \in 1..Len(q[h].calls) /\ k \in Nat /\ h \in Nat
      BY <1>2, <1>3, <2>2
    <3>2. h + k <= Len(q) /\ q[h + k].role = "tool" /\ q[h + k].answers = q[h].calls[k]
      BY <2>2, <3>1 DEF Whole, CallsMet
    <3>3. PICK x : x = h + k
      OBVIOUS
    <3>4. x \in 1..Len(q) /\ i + k = n + x /\ n + x <= Len(r)
      BY <1>2, <2>2, <3>1, <3>2, <3>3
    <3>5. r[n + x] = q[x]
      BY <1>2, <3>4
    <3> QED BY <3>1, <3>2, <3>3, <3>4, <3>5
  <2> QED BY <1>4, <2>1, <2>2
<1>6. ASSUME NEW j \in 1..Len(r), r[j].role = "tool"
      PROVE  Due(r, j)
  <2>1. CASE j \in 1..n
    <3>1. p[j].role = "tool"
      BY <1>2, <1>6, <2>1
    <3>2. PICK i \in 1..(j - 1) : j - i <= Len(p[i].calls)
      BY <2>1, <3>1 DEF Whole, Due, n
    <3>3. i \in 1..n /\ r[i] = p[i]
      BY <1>2, <2>1, <3>2
    <3> QED BY <3>2, <3>3 DEF Due
  <2>2. ASSUME NEW h \in 1..Len(q), j = n + h
        PROVE  Due(r, j)
    <3>1. q[h].role = "tool" /\ h \in Nat
      BY <1>2, <1>6, <2>2
    <3>2. PICK i \in 1..(h - 1) : h - i <= Len(q[i].calls)
      BY <2>2, <3>1 DEF Whole, Due
    <3>3. PICK x : x = n + i
      OBVIOUS
    <3>4. i \in 1..Len(q) /\ x \in 1..(j - 1) /\ j - x = h - i
      BY <1>2, <2>2, <3>1, <3>2, <3>3
    <3>5. r[x] = q[i]
      BY <1>2, <3>3, <3>4
    <3> QED BY <3>2, <3>4, <3>5 DEF Due
  <2> QED BY <1>4, <2>1, <2>2
<1>7. \A i \in 1..Len(r) : r[i].calls # <<>> => r[i].role = "assistant"
  <2>4. /\ \A i \in 1..n : p[i].calls # <<>> => p[i].role = "assistant"
        /\ \A i \in 1..Len(q) : q[i].calls # <<>> => q[i].role = "assistant"
    BY DEF Whole, n
  <2>1. \A i \in 1..n : r[i].calls # <<>> => r[i].role = "assistant"
    BY <1>2, <2>4
  <2>2. \A i \in 1..Len(q) : r[n + i].calls # <<>> => r[n + i].role = "assistant"
    BY <1>2, <2>4
  <2>3. ASSUME NEW i \in 1..Len(r)
        PROVE  r[i].calls # <<>> => r[i].role = "assistant"
    <3>1. i \in 1..n \/ \E h \in 1..Len(q) : i = n + h
      BY <1>4
    <3> QED BY <2>1, <2>2, <3>1
  <2> QED BY <2>3
<1>8. CallsMet(r)
  BY <1>5 DEF CallsMet
<1>9. Whole(r)
  BY <1>2, <1>6, <1>7, <1>8 DEF Whole
<1> QED BY <1>9 DEF r
-----------------------------------------------------------------------------
(* What assembler.go keeps of a sequence.                                  *)

\* A copy of a copy is a copy.
LEMMA CopiedTwice ==
    ASSUME NEW s, NEW q, NEW r, NEW c, NEW d, Copied(s, q, c), Copied(q, r, d)
    PROVE  Copied(s, r, d + c)
<1>1. /\ Len(s) \in Nat /\ Len(q) \in Nat /\ Len(r) \in Nat /\ c \in Nat /\ d \in Nat
      /\ c + Len(s) <= Len(q) /\ d + Len(q) <= Len(r)
  BY CopiedFacts
<1>2. ASSUME NEW i \in 1..Len(s)
      PROVE  CompactContent(s[i]) = CompactContent(r[d + c + i])
  <2>1. c + i \in 1..Len(q) /\ d + (c + i) = d + c + i
    BY <1>1
  <2>2. CompactContent(q[c + i]) = CompactContent(r[d + (c + i)])
    BY <2>1 DEF Copied
  <2> QED BY <2>1, <2>2 DEF Copied
<1> QED BY <1>1, <1>2 DEF Copied

\* The suffix From takes, and where it begins.
LEMMA FromIs ==
    ASSUME NEW q \in Seq(Message), NEW S \in SUBSET DOMAIN q
    PROVE  \E c \in 0..Len(q) :
              /\ From(q, S) = SubSeq(q, c + 1, Len(q))
              /\ From(q, S) \in Seq(Message) /\ c + Len(From(q, S)) = Len(q)
              /\ \A i \in 1..Len(From(q, S)) : From(q, S)[i] = q[c + i]
              /\ From(q, S) = <<>> \/ c + 1 \in S
<1>1. Len(q) \in Nat /\ DOMAIN q = 1..Len(q)
  BY MessagesSeq
<1>2. PICK a : a = Min(S \cup {Len(q) + 1})
  OBVIOUS
<1>3. S \cup {Len(q) + 1} \in SUBSET Nat
  BY <1>1
<1>4. a \in S \cup {Len(q) + 1}
  BY <1>2, <1>3, LeastOf
<1>5. PICK s : s = SubSeq(q, a, Len(q))
  OBVIOUS
<1>6. a \in 1..(Len(q) + 1) /\ a \in Int /\ Len(q) \in Int
  BY <1>1, <1>4
<1>7. \A i \in a..Len(q) : q[i] \in Message
  BY <1>1, <1>6, MessagesSeq
<1>8. /\ s \in Seq(Message)
      /\ Len(s) = IF a <= Len(q) THEN Len(q) - a + 1 ELSE 0
      /\ \A i \in 1..(Len(q) - a + 1) : s[i] = q[a + i - 1]
  BY <1>5, <1>6, <1>7, SubSeqProperties
<1>9. PICK c : c = a - 1
  OBVIOUS
<1>10. c \in 0..Len(q) /\ c \in Nat /\ c + Len(s) = Len(q) /\ Len(s) = Len(q) - a + 1 /\ c + 1 = a
  BY <1>1, <1>6, <1>8, <1>9
<1>11. \A i \in 1..Len(s) : s[i] = q[c + i]
  <2>1. \A i \in 1..Len(s) : a + i - 1 = c + i
    BY <1>6, <1>9, <1>10
  <2> QED BY <1>8, <1>10, <2>1
<1>12. s = <<>> \/ c + 1 \in S
  <2>1. CASE a \in S
    BY <1>10, <2>1
  <2>2. CASE a = Len(q) + 1
    <3>1. Len(s) = 0
      BY <1>1, <1>8, <2>2
    <3> QED BY <1>8, <3>1, MessagesSeq
  <2> QED BY <1>4, <2>1, <2>2
<1>13. From(q, S) = s
  BY <1>2, <1>5 DEF From
<1> QED BY <1>5, <1>8, <1>10, <1>11, <1>12, <1>13

LEMMA FromCopies ==
    ASSUME NEW q \in Seq(Message), NEW S \in SUBSET DOMAIN q
    PROVE  \E c \in 0..Len(q) :
              /\ Copied(From(q, S), q, c)
              /\ c + Len(From(q, S)) = Len(q)
              /\ From(q, S) = <<>> \/ c + 1 \in S
<1>1. PICK s : s = From(q, S)
  OBVIOUS
<1>2. PICK c \in 0..Len(q) : /\ s \in Seq(Message) /\ c + Len(s) = Len(q)
                             /\ \A i \in 1..Len(s) : s[i] = q[c + i]
                             /\ s = <<>> \/ c + 1 \in S
  BY <1>1, FromIs
<1>3. c \in Nat /\ c + Len(s) <= Len(q)
  BY <1>2, MessagesSeq
<1>4. Copied(s, q, c)
  BY <1>2, <1>3 DEF Copied
<1> QED BY <1>1, <1>2, <1>4

\* What is selected is a suffix that does not begin with a result.
Ends(s, q) ==
    \E c \in 0..Len(q) : Copied(s, q, c) /\ c + Len(s) = Len(q)

LEMMA FromEnds ==
    ASSUME NEW q \in Seq(Message), NEW S \in SUBSET DOMAIN q
    PROVE  Ends(From(q, S), q)
BY FromCopies DEF Ends

LEMMA EndsTwice ==
    ASSUME NEW s, NEW q, NEW r, Ends(s, q), Ends(q, r)
    PROVE  Ends(s, r)
<1>1. PICK c \in 0..Len(q) : Copied(s, q, c) /\ c + Len(s) = Len(q)
  BY DEF Ends
<1>2. PICK d \in 0..Len(r) : Copied(q, r, d) /\ d + Len(q) = Len(r)
  BY DEF Ends
<1>3. PICK e : e = d + c
  OBVIOUS
<1>4. Copied(s, r, e)
  BY <1>1, <1>2, <1>3, CopiedTwice
<1>5. e \in 0..Len(r) /\ e + Len(s) = Len(r)
  BY <1>1, <1>2, <1>3, CopiedFacts
<1> QED BY <1>4, <1>5 DEF Ends

LEMMA CompactCopies ==
    ASSUME NEW q \in Seq(Message)
    PROVE  /\ CompactHistory(q) \in Seq(Message)
           /\ Len(CompactHistory(q)) = Len(q)
           /\ \A i \in 1..Len(q) : CompactHistory(q)[i] = CompactContent(q[i])
           /\ Copied(CompactHistory(q), q, 0)
           /\ Ends(CompactHistory(q), q)
<1>1. Len(q) \in Nat /\ DOMAIN q = 1..Len(q)
  BY MessagesSeq
<1>2. \A i \in 1..Len(q) : /\ q[i] \in Message
                           /\ CompactContent(q[i]) \in Message
                           /\ CompactContent(CompactContent(q[i])) = CompactContent(q[i])
  BY MessagesSeq, MessageFacts
<1>3. PICK h : h = CompactHistory(q)
  OBVIOUS
<1>4. h = [i \in 1..Len(q) |-> CompactContent(q[i])]
  BY <1>1, <1>3 DEF CompactHistory
<1>5. h \in [1..Len(q) -> Message]
  BY <1>2, <1>4
<1>6. h \in Seq(Message)
  BY <1>1, <1>5, SeqDef
<1>7. Len(h) = Len(q)
  BY <1>1, <1>5, <1>6, LenProperties
<1>8. \A i \in 1..Len(q) : h[i] = CompactContent(q[i])
  BY <1>4
<1>9. Copied(h, q, 0)
  <2>1. \A i \in 1..Len(h) : CompactContent(h[i]) = CompactContent(q[0 + i])
    BY <1>1, <1>2, <1>7, <1>8
  <2> QED BY <1>1, <1>6, <1>7, <2>1 DEF Copied
<1>10. Ends(h, q)
  <2>1. 0 \in 0..Len(q) /\ 0 + Len(h) = Len(q)
    BY <1>1, <1>7
  <2> QED BY <1>9, <2>1 DEF Ends
<1> QED BY <1>3, <1>6, <1>7, <1>8, <1>9, <1>10

LEMMA NothingEnds ==
    ASSUME NEW q \in Seq(Message)
    PROVE  Ends(<<>>, q)
<1>1. Len(q) \in Nat /\ <<>> \in Seq(Message) /\ Len(<<>>) = 0
  BY MessagesSeq, EmptySeq
<1>2. Copied(<<>>, q, Len(q))
  BY <1>1 DEF Copied
<1> QED BY <1>1, <1>2 DEF Ends

LEMMA SelectEnds ==
    ASSUME NEW q \in Seq(Message), NEW budget
    PROVE  LET s == SelectHistoryWithinBudget(q, budget)
           IN  Ends(s, q) /\ (s = <<>> \/ s[1].role # "tool")
<1>1. CASE budget <= 0
  BY <1>1, NothingEnds DEF SelectHistoryWithinBudget
<1>2. CASE ~(budget <= 0)
  <2>1. PICK S : S = { i \in DOMAIN q : EstimateTokens(SubSeq(q, i, Len(q))) <= budget }
    OBVIOUS
  <2>2. S \in SUBSET DOMAIN q
    BY <2>1
  <2>3. PICK h : h = From(q, S)
    OBVIOUS
  <2>4. Ends(h, q) /\ h \in Seq(Message)
    BY <2>2, <2>3, FromEnds DEF Ends, Copied
  <2>5. PICK T : T = { i \in DOMAIN h : h[i].role # "tool" }
    OBVIOUS
  <2>6. T \in SUBSET DOMAIN h
    BY <2>5
  <2>7. PICK s : s = From(h, T)
    OBVIOUS
  <2>8. Ends(s, h)
    BY <2>4, <2>6, <2>7, FromEnds
  <2>9. s = <<>> \/ s[1].role # "tool"
    <3>1. PICK c \in 0..Len(h) : Copied(s, h, c) /\ (s = <<>> \/ c + 1 \in T)
      BY <2>4, <2>6, <2>7, FromCopies
    <3>2. ASSUME s # <<>>
          PROVE  s[1].role # "tool"
      <4>1. 1 \in 1..Len(s)
        BY <3>1, <3>2, MessagesSeq DEF Copied
      <4>2. s[1].role = h[c + 1].role
        BY <3>1, <4>1, CopiedFacts
      <4> QED BY <2>5, <3>1, <3>2, <4>2
    <3> QED BY <3>2
  <2>10. SelectHistoryWithinBudget(q, budget) = s
    BY <1>2, <2>1, <2>3, <2>5, <2>7 DEF SelectHistoryWithinBudget, DropLeadingToolMessages
  <2> QED BY <2>4, <2>8, <2>9, <2>10, EndsTwice
<1> QED BY <1>1, <1>2
-----------------------------------------------------------------------------
(* What messages cost: of two sequences, the costs of both.                *)

\* What the loop of EstimateTokens makes of a function of its rounds.
Totals(q, f) == [i \in 0..Len(q) |-> IF i = 0 THEN 0 ELSE f[i - 1] + Cost(q[i])]

Charged(q, f) ==
    /\ EstimateTokens(q) = f[Len(q)]
    /\ f[0] = 0
    /\ \A i \in 1..Len(q) : f[i] = f[i - 1] + Cost(q[i])
    /\ \A i \in 0..Len(q) : f[i] \in Nat

LEMMA CostNat ==
    ASSUME NEW m \in Message
    PROVE  Cost(m) \in Nat
<1>1. Len(m.calls) \in Nat /\ m.size \in Nat
  BY MessageFacts DEF Message
<1> QED BY <1>1 DEF Cost

LEMMA TotalsExist ==
    ASSUME NEW q \in Seq(Message)
    PROVE  \E f : f = Totals(q, f)
<1> DEFINE n == Len(q)
           Round(i, s) == s + Cost(q[i])
           step == [i \in 1..n |-> [s \in Nat |-> Round(i, s)]]
<1>1. n \in Nat /\ \A i \in 1..n : Cost(q[i]) \in Nat
  BY MessagesSeq, CostNat
<1>2. \A i \in 1..n, s \in Nat : Round(i, s) \in Nat
  <2> SUFFICES ASSUME NEW i \in 1..n, NEW s \in Nat
               PROVE  Round(i, s) \in Nat
    OBVIOUS
  <2>1. Cost(q[i]) \in Nat
    BY <1>1
  <2> QED BY <2>1
<1> HIDE DEF n, Round
<1>3. step \in Rounds(n, Nat)
  BY <1>2 DEF Rounds
<1>4. \A i \in 1..n, s \in Nat : step[i][s] = Round(i, s)
  OBVIOUS
<1> HIDE DEF step
<1>5. PICK f : Iterates(f, n, Nat, 0, step)
  BY <1>1, <1>3, IterationExists
<1>6. \A i \in 1..n : f[i] = Round(i, f[i - 1])
  <2>1. \A i \in 1..n : i - 1 \in 0..n
    BY <1>1
  <2> QED BY <1>4, <1>5, <2>1 DEF Iterates
<1>7. f = [i \in 0..n |-> IF i = 0 THEN 0 ELSE Round(i, f[i - 1])]
  BY <1>5, <1>6 DEF Iterates
<1>8. f = Totals(q, f)
  BY <1>7, Zenon DEF Totals, Round, n
<1> QED BY <1>8

LEMMA EstimateCharged ==
    ASSUME NEW q \in Seq(Message)
    PROVE  \E f : Charged(q, f)
<1>1. PICK f : f = CHOOSE g : g = Totals(q, g)
  OBVIOUS
<1>2. f = Totals(q, f)
  BY <1>1, TotalsExist
<1>3. EstimateTokens(q) = f[Len(q)]
  BY <1>1, Zenon DEF EstimateTokens, Totals
<1>4. Len(q) \in Nat /\ \A i \in 1..Len(q) : Cost(q[i]) \in Nat
  BY MessagesSeq, CostNat
<1>5. f[0] = 0 /\ \A i \in 1..Len(q) : f[i] = f[i - 1] + Cost(q[i])
  BY <1>2, <1>4 DEF Totals
<1>6. \A i \in 0..Len(q) : f[i] \in Nat
  <2> DEFINE S == {i \in 0..Len(q) : f[i] \in Nat}
  <2>1. 0 \in S
    BY <1>4, <1>5
  <2>2. ASSUME NEW i \in 1..Len(q), i - 1 \in S
        PROVE  i \in S
    <3>1. f[i - 1] \in Nat /\ Cost(q[i]) \in Nat /\ f[i] = f[i - 1] + Cost(q[i])
      BY <1>4, <1>5, <2>2
    <3>2. f[i] \in Nat
      BY <3>1
    <3> QED BY <1>4, <3>2
  <2> HIDE DEF S
  <2>3. \A i \in 0..Len(q) : i \in S
    BY <1>4, <2>1, <2>2, Reaches
  <2> QED BY <2>3 DEF S
<1> QED BY <1>3, <1>5, <1>6 DEF Charged

Within(s, q, c) ==
    /\ c \in Nat /\ c + Len(s) <= Len(q)
    /\ \A i \in 1..Len(s) : q[c + i] = s[i]

\* A stretch of messages costs what the total grows by over it.
LEMMA StretchCosts ==
    ASSUME NEW s \in Seq(Message), NEW q \in Seq(Message), NEW c, Within(s, q, c),
           NEW f, Charged(q, f)
    PROVE  f[c + Len(s)] = f[c] + EstimateTokens(s)
<1>1. PICK g : Charged(s, g)
  BY EstimateCharged
<1>2. Len(s) \in Nat /\ Len(q) \in Nat /\ c \in Nat /\ c + Len(s) <= Len(q)
  BY MessagesSeq DEF Within
<1> DEFINE S == {i \in 0..Len(s) : f[c + i] = f[c] + g[i]}
<1>3. f[c] \in Nat
  <2>1. c \in 0..Len(q)
    BY <1>2
  <2> QED BY <2>1 DEF Charged
<1>4. 0 \in S
  <2>1. c + 0 = c /\ g[0] = 0 /\ f[c] + 0 = f[c]
    BY <1>1, <1>2, <1>3 DEF Charged
  <2> QED BY <1>2, <2>1
<1>5. ASSUME NEW i \in 1..Len(s), i - 1 \in S
      PROVE  i \in S
  <2>1. c + i \in 1..Len(q) /\ c + (i - 1) = c + i - 1 /\ i - 1 \in 0..Len(s)
    BY <1>2
  <2>2. f[c + i] = f[c + i - 1] + Cost(q[c + i])
    <3>1. PICK j : j = c + i
      OBVIOUS
    <3>2. j \in 1..Len(q) /\ j - 1 = c + i - 1
      BY <1>2, <2>1, <3>1
    <3>3. f[j] = f[j - 1] + Cost(q[j])
      BY <3>2 DEF Charged
    <3> QED BY <3>1, <3>2, <3>3, Zenon
  <2>3. f[c + i - 1] = f[c] + g[i - 1]
    BY <1>5, <2>1
  <2>4. q[c + i] = s[i]
    BY DEF Within
  <2>5. g[i] = g[i - 1] + Cost(s[i]) /\ g[i - 1] \in Nat
    BY <1>1, <2>1 DEF Charged
  <2>6. Cost(s[i]) \in Nat
    BY MessagesSeq, CostNat
  <2>7. f[c + i] = f[c] + g[i]
    <3>1. PICK a, b, k : a = f[c] /\ b = g[i - 1] /\ k = Cost(s[i])
      OBVIOUS
    <3>2. a \in Nat /\ b \in Nat /\ k \in Nat /\ f[c + i] = (a + b) + k /\ g[i] = b + k
      BY <1>3, <2>2, <2>3, <2>4, <2>5, <2>6, <3>1
    <3>3. (a + b) + k = a + (b + k)
      BY <3>2
    <3> QED BY <3>1, <3>2, <3>3
  <2> QED BY <2>7
<1> HIDE DEF S
<1>6. \A i \in 0..Len(s) : i \in S
  BY <1>2, <1>4, <1>5, Reaches
<1>7. Len(s) \in S
  BY <1>2, <1>6
<1>8. f[c + Len(s)] = f[c] + g[Len(s)]
  BY <1>7 DEF S
<1> QED BY <1>1, <1>8 DEF Charged

LEMMA EstimateConcat ==
    ASSUME NEW p \in Seq(Message), NEW q \in Seq(Message)
    PROVE  /\ EstimateTokens(p \o q) = EstimateTokens(p) + EstimateTokens(q)
           /\ EstimateTokens(p) \in Nat /\ EstimateTokens(q) \in Nat
<1>1. PICK r : r = p \o q
  OBVIOUS
<1>2. /\ r \in Seq(Message) /\ Len(p) \in Nat /\ Len(q) \in Nat
      /\ Len(r) = Len(p) + Len(q)
      /\ \A i \in 1..Len(p) : r[i] = p[i]
      /\ \A i \in 1..Len(q) : r[Len(p) + i] = q[i]
  BY <1>1, ConcatFacts
<1>3. PICK f : Charged(r, f)
  BY <1>2, EstimateCharged
<1>4. Within(p, r, 0) /\ Within(q, r, Len(p))
  <2>1. \A i \in 1..Len(p) : 0 + i = i
    OBVIOUS
  <2> QED BY <1>2, <2>1 DEF Within
<1>5. /\ f[0 + Len(p)] = f[0] + EstimateTokens(p)
      /\ f[Len(p) + Len(q)] = f[Len(p)] + EstimateTokens(q)
  BY <1>2, <1>3, <1>4, StretchCosts
<1>6. f[0] = 0 /\ EstimateTokens(r) = f[Len(p) + Len(q)] /\ 0 + Len(p) = Len(p)
  BY <1>2, <1>3 DEF Charged
<1>7. EstimateTokens(p) \in Nat /\ EstimateTokens(q) \in Nat
  <2>1. ASSUME NEW s \in Seq(Message)
        PROVE  EstimateTokens(s) \in Nat
    <3>1. PICK g : Charged(s, g)
      BY EstimateCharged
    <3>2. Len(s) \in 0..Len(s)
      BY MessagesSeq
    <3> QED BY <3>1, <3>2 DEF Charged
  <2> QED BY <2>1
<1>8. f[Len(p)] = EstimateTokens(p)
  BY <1>5, <1>6, <1>7
<1> QED BY <1>1, <1>5, <1>6, <1>7, <1>8

\* What comes last costs no more than all.
LEMMA EndCheaper ==
    ASSUME NEW s \in Seq(Message), NEW q \in Seq(Message), NEW c, Within(s, q, c),
           c + Len(s) = Len(q)
    PROVE  EstimateTokens(s) <= EstimateTokens(q)
<1>1. PICK f : Charged(q, f)
  BY EstimateCharged
<1>2. f[c + Len(s)] = f[c] + EstimateTokens(s)
  BY <1>1, StretchCosts
<1>3. c \in 0..Len(q)
  BY MessagesSeq DEF Within
<1>4. f[c] \in Nat /\ EstimateTokens(q) = f[Len(q)]
  BY <1>1, <1>3 DEF Charged
<1>5. EstimateTokens(s) \in Nat
  BY EstimateConcat
<1> QED BY <1>2, <1>4, <1>5

\* What is selected of the history is within what is left for it.
LEMMA SelectFits ==
    ASSUME NEW q \in Seq(Message), NEW budget \in Int
    PROVE  LET s == SelectHistoryWithinBudget(q, budget)
           IN  s = <<>> \/ EstimateTokens(s) <= budget
<1>1. CASE budget <= 0
  BY <1>1 DEF SelectHistoryWithinBudget
<1>2. CASE ~(budget <= 0)
  <2>1. PICK S : S = { i \in DOMAIN q : EstimateTokens(SubSeq(q, i, Len(q))) <= budget }
    OBVIOUS
  <2>2. PICK h : h = From(q, S)
    OBVIOUS
  <2>3. PICK c \in 0..Len(q) : /\ h = SubSeq(q, c + 1, Len(q)) /\ h \in Seq(Message)
                               /\ h = <<>> \/ c + 1 \in S
    <3>1. S \in SUBSET DOMAIN q
      BY <2>1
    <3> QED BY <2>2, <3>1, FromIs
  <2>4. h = <<>> \/ EstimateTokens(h) <= budget
    BY <2>1, <2>3
  <2>5. PICK T : T = { i \in DOMAIN h : h[i].role # "tool" }
    OBVIOUS
  <2>6. PICK s : s = From(h, T)
    OBVIOUS
  <2>7. PICK d \in 0..Len(h) : /\ s \in Seq(Message) /\ d + Len(s) = Len(h)
                               /\ \A i \in 1..Len(s) : s[i] = h[d + i]
    <3>1. T \in SUBSET DOMAIN h
      BY <2>5
    <3> QED BY <2>3, <2>6, <3>1, FromIs
  <2>8. Len(h) \in Nat /\ Len(s) \in Nat /\ (h = <<>> <=> Len(h) = 0) /\ (s = <<>> <=> Len(s) = 0)
    BY <2>3, <2>7, MessagesSeq
  <2>9. h = <<>> => s = <<>>
    BY <2>7, <2>8
  <2>10. EstimateTokens(s) <= EstimateTokens(h)
    <3>1. Within(s, h, d)
      BY <2>7, <2>8 DEF Within
    <3> QED BY <2>3, <2>7, <3>1, EndCheaper
  <2>11. EstimateTokens(s) \in Nat /\ EstimateTokens(h) \in Nat
    BY <2>3, <2>7, EstimateConcat
  <2>12. SelectHistoryWithinBudget(q, budget) = s
    BY <1>2, <2>1, <2>2, <2>5, <2>6 DEF SelectHistoryWithinBudget, DropLeadingToolMessages
  <2> QED BY <2>4, <2>9, <2>10, <2>11, <2>12
<1> QED BY <1>1, <1>2

\* The cost of what is kept whatever it costs.
LEMMA FixedCost ==
    ASSUME NEW m \in Message, NEW tail \in Seq(Message)
    PROVE  EstimateTokens(<<m>> \o tail) \in Nat
<1>1. PICK h : h = <<m>>
  OBVIOUS
<1>2. h \in Seq(Message)
  BY <1>1
<1>3. h \o tail \in Seq(Message)
  BY <1>2, ConcatFacts
<1> QED BY <1>1, <1>3, EstimateConcat

\* A request of a turn of n messages fits, or there is nothing to drop.
Fits(q, n) == EstimateTokens(q) <= MaxTokens \/ Len(q) = n + 1

LEMMA PartsFit ==
    ASSUME NEW m \in Message, NEW s \in Seq(Message), NEW tail \in Seq(Message),
           s = <<>> \/ EstimateTokens(s) <= MaxTokens - EstimateTokens(<<m>> \o tail)
    PROVE  Fits(<<m>> \o s \o tail, Len(tail))
<1>1. PICK h : h = <<m>>
  OBVIOUS
<1>2. h \in Seq(Message) /\ Len(h) = 1
  BY <1>1
<1>3. /\ h \o s \in Seq(Message) /\ Len(h \o s) = 1 + Len(s)
      /\ Len(s) \in Nat /\ Len(tail) \in Nat
  <2>1. h \o s \in Seq(Message) /\ Len(h \o s) = Len(h) + Len(s)
    BY <1>2, ConcatFacts
  <2> QED BY <1>2, <2>1, MessagesSeq
<1>4. Len(h \o s \o tail) = 1 + Len(s) + Len(tail)
  <2>1. PICK p : p = h \o s
    OBVIOUS
  <2>2. Len(p \o tail) = Len(p) + Len(tail)
    BY <1>3, <2>1, ConcatFacts
  <2> QED BY <1>3, <2>1, <2>2
<1>5. CASE s = <<>>
  <2>1. Len(s) = 0
    BY <1>5, MessagesSeq
  <2> QED BY <1>1, <1>3, <1>4, <2>1 DEF Fits
<1>6. CASE EstimateTokens(s) <= MaxTokens - EstimateTokens(<<m>> \o tail)
  <2>1. PICK x, y, z : x = EstimateTokens(h) /\ y = EstimateTokens(s) /\ z = EstimateTokens(tail)
    OBVIOUS
  <2>2. x \in Nat /\ y \in Nat /\ z \in Nat
    BY <1>2, <2>1, EstimateConcat
  <2>3. EstimateTokens(h \o tail) = x + z /\ EstimateTokens(h \o s) = x + y
    BY <1>2, <2>1, EstimateConcat
  <2>4. EstimateTokens(h \o s \o tail) = (x + y) + z
    BY <1>3, <2>1, <2>3, EstimateConcat
  <2>5. y <= MaxTokens - (x + z) /\ MaxTokens \in Nat
    BY <1>1, <1>6, <2>1, <2>3, PolicyAssumption
  <2>6. (x + y) + z <= MaxTokens
    BY <2>2, <2>5
  <2> QED BY <1>1, <2>4, <2>6 DEF Fits
<1> QED BY <1>5, <1>6
-----------------------------------------------------------------------------
(* The requests assembler.go makes.                                        *)
Request(q) ==
    /\ Whole(q)
    /\ Len(q) >= 1
    /\ q[1].role = "system"
    /\ \A i \in 2..Len(q) : q[i].role # "system"

NoSystem(q) == \A i \in 1..Len(q) : q[i].role # "system"

LEMMA OneWhole ==
    ASSUME NEW m \in Message, m.calls = <<>>, m.role # "tool"
    PROVE  /\ Whole(<<m>>) /\ Len(<<m>>) = 1 /\ <<m>>[1] = m
           /\ <<m>> \in Seq(Message)
<1>1. /\ <<m>> \in Seq(Message) /\ Len(<<m>>) = 1 /\ <<m>>[1] = m
      /\ Len(m.calls) = 0
  BY MessageFacts
<1>2. PICK q : q = <<m>>
  OBVIOUS
<1>3. q \in Seq(Message) /\ Len(q) = 1 /\ q[1] = m
  BY <1>1, <1>2
<1>4. \A i \in 1..Len(q) : q[i] = m
  BY <1>3
<1>5. CallsMet(q)
  BY <1>1, <1>3, <1>4 DEF CallsMet
<1>6. Whole(q)
  BY <1>3, <1>4, <1>5 DEF Whole
<1> QED BY <1>1, <1>2, <1>6

\* The system prompt, what was selected of the history, and the rest.
LEMMA PartsRequest ==
    ASSUME NEW m \in Message, m.role = "system", m.calls = <<>>,
           NEW p, Whole(p), NoSystem(p), NEW q, Whole(q), NoSystem(q)
    PROVE  LET r == <<m>> \o p \o q
           IN  /\ Request(r) /\ Len(r) > Len(q)
               /\ \A own : Copied(q, own, 0) /\ Len(own) = Len(q) =>
                     Copied(own, r, Len(r) - Len(own))
<1>1. Whole(<<m>>) /\ Len(<<m>>) = 1 /\ <<m>>[1] = m /\ <<m>> \in Seq(Message)
  BY OneWhole
<1>2. PICK h : h = <<m>> \o p
  OBVIOUS
<1>3. p \in Seq(Message) /\ q \in Seq(Message) /\ Len(p) \in Nat /\ Len(q) \in Nat
  BY MessagesSeq DEF Whole
<1>4. /\ h \in Seq(Message) /\ Len(h) = 1 + Len(p)
      /\ \A i \in 1..Len(h) : h[i] = IF i <= 1 THEN m ELSE p[i - 1]
  BY <1>1, <1>2, <1>3, ConcatProperties
<1>5. Whole(h)
  BY <1>1, <1>2, ConcatWhole
<1>6. PICK r : r = h \o q
  OBVIOUS
<1>7. /\ r \in Seq(Message) /\ Len(r) = 1 + Len(p) + Len(q)
      /\ \A i \in 1..Len(h) : r[i] = h[i]
      /\ \A i \in 1..Len(q) : r[Len(h) + i] = q[i]
  <2>1. /\ r \in Seq(Message) /\ Len(r) = Len(h) + Len(q)
        /\ \A i \in 1..(Len(h) + Len(q)) :
              r[i] = IF i <= Len(h) THEN h[i] ELSE q[i - Len(h)]
    BY <1>3, <1>4, <1>6, ConcatProperties
  <2>2. Len(h) \in Nat
    BY <1>3, <1>4
  <2>3. \A i \in 1..Len(h) : r[i] = h[i]
    BY <1>3, <2>1, <2>2
  <2>4. \A i \in 1..Len(q) : r[Len(h) + i] = q[i]
    BY <1>3, <2>1, <2>2
  <2> QED BY <1>3, <1>4, <2>1, <2>3, <2>4
<1>8. Whole(r)
  BY <1>5, <1>6, ConcatWhole
<1>9. r[1].role = "system"
  BY <1>3, <1>4, <1>7
<1>10. ASSUME NEW i \in 2..Len(r)
       PROVE  r[i].role # "system"
  <2>1. CASE i \in 1..Len(h)
    <3>1. i - 1 \in 1..Len(p) /\ r[i] = p[i - 1]
      BY <1>3, <1>4, <1>7, <1>10, <2>1
    <3> QED BY <3>1 DEF NoSystem
  <2>2. CASE i \notin 1..Len(h)
    <3>1. PICK k : k = i - Len(h)
      OBVIOUS
    <3>2. k \in 1..Len(q) /\ i = Len(h) + k
      BY <1>3, <1>4, <1>7, <1>10, <2>2, <3>1
    <3>3. r[i] = q[k]
      BY <1>7, <3>2
    <3> QED BY <3>2, <3>3 DEF NoSystem
  <2> QED BY <2>1, <2>2
<1>11. Request(r) /\ Len(r) > Len(q)
  BY <1>3, <1>7, <1>8, <1>9, <1>10 DEF Request
<1>12. ASSUME NEW own, Copied(q, own, 0), Len(own) = Len(q)
       PROVE  Copied(own, r, Len(r) - Len(own))
  <2>1. own \in Seq(Message)
    BY <1>12 DEF Copied
  <2>2. Len(r) - Len(own) = Len(h) /\ Len(h) \in Nat /\ Len(h) + Len(own) <= Len(r)
    BY <1>3, <1>4, <1>7, <1>12
  <2>3. ASSUME NEW i \in 1..Len(own)
        PROVE  CompactContent(own[i]) = CompactContent(r[Len(h) + i])
    <3>1. r[Len(h) + i] = q[i] /\ 0 + i = i
      BY <1>7, <1>12
    <3>2. CompactContent(q[i]) = CompactContent(own[0 + i])
      BY <1>12 DEF Copied
    <3> QED BY <3>1, <3>2
  <2> QED BY <1>7, <2>1, <2>2, <2>3 DEF Copied
<1>13. \A own : Copied(q, own, 0) /\ Len(own) = Len(q) =>
                     Copied(own, r, Len(r) - Len(own))
  BY <1>3, <1>12
<1> QED BY <1>2, <1>6, <1>11, <1>13

\* A selected suffix of a paired history is paired.
LEMMA SelectedWhole ==
    ASSUME NEW s, NEW q, NEW c, Copied(s, q, c), Whole(q), NoSystem(q),
           s = <<>> \/ s[1].role # "tool",
           c + Len(s) = Len(q) \/ q[c + Len(s) + 1].role # "tool"
    PROVE  Whole(s) /\ NoSystem(s)
<1>1. Whole(s)
  BY StretchWhole
<1>2. \A i \in 1..Len(s) : c + i \in 1..Len(q) /\ s[i].role = q[c + i].role
  BY CopiedFacts
<1> QED BY <1>1, <1>2 DEF NoSystem

LEMMA CopiedItself ==
    ASSUME NEW q \in Seq(Message)
    PROVE  Copied(q, q, 0)
<1>1. Len(q) \in Nat
  BY MessagesSeq
<1>2. \A i \in 1..Len(q) : CompactContent(q[i]) = CompactContent(q[0 + i])
  BY <1>1
<1> QED BY <1>1, <1>2 DEF Copied

LEMMA PairOfTwo ==
    ASSUME NEW m \in Message, NEW n \in Message
    PROVE  <<m, n>> = <<m>> \o <<n>>
<1>1. PICK p, a, b : p = <<m, n>> /\ a = <<m>> /\ b = <<n>>
  OBVIOUS
<1>2. /\ p \in Seq(Message) /\ Len(p) = 2 /\ p[1] = m /\ p[2] = n
      /\ a \in Seq(Message) /\ Len(a) = 1 /\ a[1] = m
      /\ b \in Seq(Message) /\ Len(b) = 1 /\ b[1] = n
  BY <1>1
<1>3. PICK q : q = a \o b
  OBVIOUS
<1>4. /\ q \in Seq(Message) /\ Len(q) = 2
      /\ \A i \in 1..2 : q[i] = IF i <= 1 THEN a[i] ELSE b[i - 1]
  BY <1>2, <1>3, ConcatProperties
<1>5. q[1] = m /\ q[2] = n
  BY <1>2, <1>4
<1>6. \A i \in 1..2 : i = 1 \/ i = 2
  OBVIOUS
<1>7. p = q
  BY <1>2, <1>4, <1>5, <1>6, SeqEqual
<1> QED BY <1>1, <1>3, <1>7

\* The first request of a run: of a paired history, wherever it was bounded, and the user's
\* message.
LEMMA AssembleRequest ==
    ASSUME NEW user \in Message, user.role = "user", user.calls = <<>>,
           NEW q, Whole(q), NoSystem(q), NEW history, Ends(history, q)
    PROVE  LET r == Assemble(user, history)
           IN  /\ Request(r) /\ Len(r) > Len(<<user>>)
               /\ Copied(<<user>>, r, Len(r) - Len(<<user>>))
               /\ Fits(r, 1)
<1>1. history \in Seq(Message)
  BY DEF Ends, Copied
<1>2. PICK S : S = { i \in DOMAIN history : Len(history) - i < MaxHistoryMessages }
  OBVIOUS
<1>3. PICK b : b = BoundHistory(history)
  OBVIOUS
<1>4. b = From(history, S) /\ S \in SUBSET DOMAIN history
  BY <1>2, <1>3 DEF BoundHistory
<1>5. Ends(b, history) /\ b \in Seq(Message)
  BY <1>1, <1>4, FromEnds DEF Ends, Copied
<1>6. PICK h : h = CompactHistory(b)
  OBVIOUS
<1>7. h \in Seq(Message) /\ Ends(h, b)
  BY <1>5, <1>6, CompactCopies
<1>8. PICK s : s = SelectHistoryWithinBudget(h, MaxTokens - EstimateTokens(<<System, user>>))
  OBVIOUS
<1>9. Ends(s, h) /\ (s = <<>> \/ s[1].role # "tool")
  BY <1>7, <1>8, SelectEnds
<1>10. Ends(s, q)
  BY <1>5, <1>7, <1>9, EndsTwice
<1>11. PICK c : Copied(s, q, c) /\ c + Len(s) = Len(q)
  BY <1>10 DEF Ends
<1>12. Whole(s) /\ NoSystem(s)
  BY <1>9, <1>11, SelectedWhole
<1>13. Whole(<<user>>) /\ <<user>> \in Seq(Message) /\ NoSystem(<<user>>)
  BY OneWhole DEF NoSystem
<1>14. System \in Message /\ System.role = "system" /\ System.calls = <<>>
  <2>1. <<>> \in Seq(CallIds)
    BY EmptySeq
  <2> QED BY <2>1, PolicyAssumption DEF System, Plain, Message
<1>15. PICK r : r = <<System>> \o s \o <<user>>
  OBVIOUS
<1>16. /\ Request(r) /\ Len(r) > Len(<<user>>)
       /\ Copied(<<user>>, r, Len(r) - Len(<<user>>))
  BY <1>12, <1>13, <1>14, <1>15, PartsRequest, CopiedItself
<1>17. Assemble(user, history) = r
  BY <1>3, <1>6, <1>8, <1>15 DEF Assemble
<1>18. Fits(r, 1)
  <2>1. PICK fixed : fixed = EstimateTokens(<<System>> \o <<user>>)
    OBVIOUS
  <2>2. <<System, user>> = <<System>> \o <<user>>
    BY <1>14, PairOfTwo
  <2>3. s = SelectHistoryWithinBudget(h, MaxTokens - fixed)
    BY <1>8, <2>1, <2>2
  <2>4. fixed \in Nat
    BY <1>13, <1>14, <2>1, OneWhole, FixedCost
  <2>5. MaxTokens - fixed \in Int
    BY <2>4, PolicyAssumption
  <2>6. s = <<>> \/ EstimateTokens(s) <= MaxTokens - fixed
    BY <1>7, <2>3, <2>5, SelectFits
  <2>7. s \in Seq(Message) /\ Len(<<user>>) = 1
    BY <1>9 DEF Ends, Copied
  <2> QED BY <1>13, <1>14, <1>15, <2>1, <2>6, <2>7, PartsFit
<1> QED BY <1>16, <1>17, <1>18

LEMMA SubSeqCopied ==
    ASSUME NEW q \in Seq(Message), NEW a \in Nat, NEW b \in Nat, 1 <= a, a <= b + 1, b <= Len(q)
    PROVE  /\ SubSeq(q, a, b) \in Seq(Message)
           /\ Len(SubSeq(q, a, b)) = b + 1 - a
           /\ \A i \in 1..(b + 1 - a) : SubSeq(q, a, b)[i] = q[a - 1 + i]
           /\ Copied(SubSeq(q, a, b), q, a - 1)
<1>1. Len(q) \in Nat
  BY MessagesSeq
<1>2. \A i \in a..b : q[i] \in Message
  BY <1>1, MessagesSeq
<1>3. PICK s : s = SubSeq(q, a, b)
  OBVIOUS
<1>4. /\ s \in Seq(Message) /\ Len(s) = IF a <= b THEN b - a + 1 ELSE 0
      /\ \A i \in 1..(b - a + 1) : s[i] = q[a + i - 1]
  BY <1>2, <1>3, SubSeqProperties
<1>5. Len(s) = b + 1 - a
  BY <1>4
<1>6. \A i \in 1..(b + 1 - a) : a + i - 1 = a - 1 + i /\ i \in 1..(b - a + 1)
  OBVIOUS
<1>7. \A i \in 1..(b + 1 - a) : s[i] = q[a - 1 + i]
  BY <1>4, <1>6
<1>8. Copied(s, q, a - 1)
  <2>1. a - 1 \in Nat /\ a - 1 + Len(s) <= Len(q)
    BY <1>1, <1>5
  <2> QED BY <1>4, <1>5, <1>7, <2>1 DEF Copied
<1> QED BY <1>3, <1>4, <1>5, <1>7, <1>8

\* The tail of a request that ends with the own messages of a turn: all of them. The call
\* whose results come last is the g-th.
LEMMA TailIsOwn ==
    ASSUME NEW h \in Seq(Message), NEW d \in Nat, NEW n \in Nat, NEW g \in Nat,
           1 <= d, 1 < g, g < n, Len(h) = d + n,
           h[d + 1].role = "user", h[d + g].role = "assistant",
           \A i \in 2..n : h[d + i].role # "user",
           \A i \in (g + 1)..n : h[d + i].role = "tool"
    PROVE  TailStart(h) = d + 1
<1>1. DOMAIN h = 1..(d + n)
  BY MessagesSeq
<1>2. PICK tools : tools = { i \in DOMAIN h : \A j \in i..Len(h) : h[j].role = "tool" }
  OBVIOUS
<1>3. \A j \in (d + g + 1)..(d + n) : h[j].role = "tool"
  <2> SUFFICES ASSUME NEW j \in (d + g + 1)..(d + n)
               PROVE  h[j].role = "tool"
    OBVIOUS
  <2>1. PICK i : i = j - d
    OBVIOUS
  <2>2. i \in (g + 1)..n /\ j = d + i
    BY <2>1
  <2> QED BY <2>2
<1>4. d + g + 1 \in tools
  BY <1>1, <1>2, <1>3
<1>5. \A i \in tools : d + g + 1 <= i
  <2> SUFFICES ASSUME NEW i \in tools, i < d + g + 1
               PROVE  FALSE
    BY <1>1, <1>2
  <2>1. d + g \in i..Len(h)
    BY <1>1, <1>2
  <2>2. h[d + g].role = "tool"
    BY <1>2, <2>1
  <2> QED BY <2>2
<1>6. Min(tools) = d + g + 1
  <2>1. tools \in SUBSET Nat
    BY <1>1, <1>2
  <2> QED BY <1>4, <1>5, <2>1, LeastIs
<1>7. RuntimeTailStart(h) = d + g
  <2>1. d + g + 1 - 1 = d + g /\ d + g + 1 > 1 /\ tools # {}
    BY <1>4
  <2> QED BY <1>2, <1>6, <2>1 DEF RuntimeTailStart
<1>8. PICK users : users = { i \in 2..(d + g - 1) : h[i].role = "user" }
  OBVIOUS
<1>9. d + 1 \in users
  <2>1. d + 1 \in 2..(d + g - 1)
    OBVIOUS
  <2> QED BY <1>8, <2>1
<1>10. \A i \in users : i <= d + 1
  <2> SUFFICES ASSUME NEW i \in users, i > d + 1
               PROVE  FALSE
    BY <1>8
  <2>1. PICK k : k = i - d
    OBVIOUS
  <2>2. k \in 2..n /\ d + k = i
    BY <1>8, <2>1
  <2>3. h[i].role # "user"
    BY <2>2
  <2> QED BY <1>8, <2>3
<1>11. Max(users) = d + 1
  <2>1. users \in SUBSET Nat
    BY <1>8
  <2> QED BY <1>9, <1>10, <2>1, GreatestIs
<1> QED BY <1>7, <1>8, <1>9, <1>11 DEF TailStart

\* What CompactMessages makes of such a request.
LEMMA CompactRequest ==
    ASSUME NEW q, Request(q), NEW own, NEW d \in Nat, 1 <= d, Copied(own, q, d),
           d + Len(own) = Len(q), NEW g \in Nat, 1 < g, g < Len(own),
           own[1].role = "user", own[g].role = "assistant",
           \A i \in 2..Len(own) : own[i].role # "user",
           \A i \in (g + 1)..Len(own) : own[i].role = "tool"
    PROVE  LET r == CompactMessages(q)
           IN  /\ Request(r) /\ Len(r) > Len(own)
               /\ Copied(own, r, Len(r) - Len(own))
               /\ Fits(r, Len(own))
<1>1. /\ q \in Seq(Message) /\ Whole(q) /\ own \in Seq(Message)
      /\ Len(q) \in Nat /\ Len(own) \in Nat
  BY MessagesSeq DEF Request, Whole, Copied
<1>2. PICK h : h = CompactHistory(q)
  OBVIOUS
<1>3. h \in Seq(Message) /\ Len(h) = Len(q) /\ Copied(h, q, 0)
  BY <1>1, <1>2, CompactCopies
<1>4. \A i \in 1..Len(q) : h[i].role = q[i].role /\ h[i].calls = q[i].calls
  <2>1. \A i \in 1..Len(h) : h[i].role = q[0 + i].role /\ h[i].calls = q[0 + i].calls
    BY <1>3, CopiedFacts
  <2> QED BY <1>1, <1>3, <2>1
<1>5. \A i \in 1..Len(own) : d + i \in 1..Len(q) /\ h[d + i].role = own[i].role
  <2>1. \A i \in 1..Len(own) : d + i \in 1..Len(q) /\ own[i].role = q[d + i].role
    BY CopiedRoles
  <2> QED BY <1>4, <2>1
<1>6. TailStart(h) = d + 1
  <2>1. /\ 1 \in 1..Len(own) /\ g \in 1..Len(own)
        /\ \A i \in 2..Len(own) : i \in 1..Len(own)
        /\ \A i \in (g + 1)..Len(own) : i \in 1..Len(own)
    BY <1>1
  <2>2. /\ h[d + 1].role = "user" /\ h[d + g].role = "assistant"
        /\ \A i \in 2..Len(own) : h[d + i].role # "user"
        /\ \A i \in (g + 1)..Len(own) : h[d + i].role = "tool"
    BY <1>5, <2>1
  <2> QED BY <1>1, <1>3, <2>2, TailIsOwn
<1>7. PICK tail : tail = SubSeq(h, d + 1, Len(h))
  OBVIOUS
<1>8. /\ tail \in Seq(Message) /\ Len(tail) = Len(own) /\ Copied(tail, h, d)
  <2>1. PICK a \in Nat : a = d + 1
    OBVIOUS
  <2>2. PICK b \in Nat : b = Len(h)
    BY <1>1, <1>3
  <2>3. b = d + Len(own)
    BY <1>3, <2>2
  <2>4. 1 <= a /\ a <= b + 1 /\ b <= Len(h) /\ a - 1 = d /\ b + 1 - a = Len(own)
    BY <1>1, <2>1, <2>2, <2>3
  <2>5. /\ SubSeq(h, a, b) \in Seq(Message) /\ Len(SubSeq(h, a, b)) = b + 1 - a
        /\ Copied(SubSeq(h, a, b), h, a - 1)
    BY <1>3, <2>4, SubSeqCopied
  <2> QED BY <1>7, <2>1, <2>2, <2>4, <2>5
<1>9. PICK middle : middle = SubSeq(h, 2, d + 1 - 1)
  OBVIOUS
<1>10. middle \in Seq(Message) /\ Len(middle) = d - 1 /\ Copied(middle, h, 1)
  <2>1. /\ 2 \in Nat /\ 1 <= 2 /\ d + 1 - 1 = d /\ 2 <= d + 1 /\ d <= Len(h)
        /\ d + 1 - 2 = d - 1 /\ 2 - 1 = 1
    BY <1>1, <1>3
  <2>2. /\ SubSeq(h, 2, d) \in Seq(Message) /\ Len(SubSeq(h, 2, d)) = d + 1 - 2
        /\ Copied(SubSeq(h, 2, d), h, 2 - 1)
    BY <1>3, <2>1, SubSeqCopied
  <2> QED BY <1>9, <2>1, <2>2
<1>11. PICK s : s = SelectHistoryWithinBudget(middle, MaxTokens - EstimateTokens(<<h[1]>> \o tail))
  OBVIOUS
<1>12. Ends(s, middle) /\ (s = <<>> \/ s[1].role # "tool")
  BY <1>10, <1>11, SelectEnds
<1>13. PICK c : Copied(s, middle, c) /\ c + Len(s) = Len(middle)
  BY <1>12 DEF Ends
<1>14. PICK e : e = 0 + (1 + c)
  OBVIOUS
<1>15. Copied(s, q, e) /\ e + Len(s) = d /\ e \in Nat /\ e >= 1 /\ Len(s) \in Nat
  <2>1. Copied(s, h, 1 + c)
    BY <1>10, <1>13, CopiedTwice
  <2>2. Copied(s, q, e)
    BY <1>3, <1>14, <2>1, CopiedTwice
  <2>3. c \in Nat /\ Len(s) \in Nat
    BY <1>13, CopiedFacts
  <2> QED BY <1>10, <1>13, <1>14, <2>2, <2>3
<1>16. Whole(s) /\ NoSystem(s)
  <2>1. 1 \in 1..Len(own) /\ d + 1 \in 1..Len(q)
    BY <1>1
  <2>2. q[e + Len(s) + 1].role # "tool"
    BY <1>4, <1>5, <1>15, <2>1
  <2>3. Whole(s)
    BY <1>1, <1>12, <1>15, <2>2, StretchWhole
  <2>6. \A i \in 1..Len(s) : e + i \in 1..Len(q) /\ s[i].role = q[e + i].role
    <3>1. Copied(s, q, e)
      BY <1>15
    <3> QED BY <3>1, CopiedRoles
  <2>4. \A i \in 1..Len(s) : e + i \in 2..Len(q) /\ s[i].role = q[e + i].role
    BY <1>1, <1>15, <2>6
  <2>5. NoSystem(s)
    BY <2>4 DEF NoSystem, Request
  <2> QED BY <2>3, <2>5
<1>17. Whole(tail) /\ NoSystem(tail)
  <2>1. PICK f : f = 0 + d
    OBVIOUS
  <2>2. Copied(tail, q, f) /\ f = d
    BY <1>3, <1>8, <2>1, CopiedTwice
  <2>7. \A i \in 1..Len(tail) : d + i \in 1..Len(q) /\ tail[i].role = q[d + i].role
    <3>1. Copied(tail, q, f)
      BY <2>2
    <3>2. \A i \in 1..Len(tail) : f + i \in 1..Len(q) /\ tail[i].role = q[f + i].role
      BY <3>1, CopiedRoles
    <3> QED BY <2>2, <3>2
  <2>3. \A i \in 1..Len(tail) : d + i \in 2..Len(q) /\ tail[i].role = q[d + i].role
    BY <1>1, <1>8, <2>7
  <2>4. tail[1].role # "tool"
    <3>1. 1 \in 1..Len(own) /\ 1 \in 1..Len(tail) /\ d + 1 \in 1..Len(q)
      BY <1>1, <1>8
    <3> QED BY <1>4, <1>5, <2>3, <3>1
  <2>5. Whole(tail)
    BY <1>1, <1>8, <2>2, <2>4, StretchWhole
  <2>6. NoSystem(tail)
    BY <2>3 DEF NoSystem, Request
  <2> QED BY <2>5, <2>6
<1>18. h[1] \in Message /\ h[1].role = "system" /\ h[1].calls = <<>>
  <2>1. 1 \in 1..Len(q)
    BY <1>1
  <2>2. q[1].role = "system" /\ q[1].calls = <<>>
    BY <2>1 DEF Request, Whole
  <2> QED BY <1>3, <1>4, <2>1, <2>2, MessagesSeq
<1>19. Copied(tail, own, 0)
  <2>1. ASSUME NEW i \in 1..Len(tail)
        PROVE  CompactContent(tail[i]) = CompactContent(own[0 + i])
    <3>1. i \in 1..Len(own) /\ 0 + i = i /\ d + i \in 1..Len(h) /\ 0 + (d + i) = d + i
      BY <1>1, <1>3, <1>8
    <3>2. CompactContent(tail[i]) = CompactContent(h[d + i])
      BY <1>8 DEF Copied
    <3>3. CompactContent(h[d + i]) = CompactContent(q[d + i])
      BY <1>3, <3>1 DEF Copied
    <3>4. CompactContent(own[i]) = CompactContent(q[d + i])
      BY <3>1 DEF Copied
    <3> QED BY <3>1, <3>2, <3>3, <3>4
  <2>2. 0 \in Nat /\ 0 + Len(tail) <= Len(own)
    BY <1>1, <1>8
  <2> QED BY <1>1, <1>8, <2>1, <2>2 DEF Copied
<1>20. PICK r : r = <<h[1]>> \o s \o tail
  OBVIOUS
<1>21. Request(r) /\ Len(r) > Len(own) /\ Copied(own, r, Len(r) - Len(own))
  BY <1>8, <1>16, <1>17, <1>18, <1>19, <1>20, PartsRequest
<1>22. ~(Len(h) <= 2)
  BY <1>1, <1>3
<1>23. CompactMessages(q) = r
  <2>1. CompactMessages(q)
          = IF Len(h) <= 2 THEN h
            ELSE <<h[1]>> \o SelectHistoryWithinBudget(SubSeq(h, 2, TailStart(h) - 1),
                    MaxTokens - EstimateTokens(<<h[1]>> \o SubSeq(h, TailStart(h), Len(h))))
                 \o SubSeq(h, TailStart(h), Len(h))
    BY <1>2, Zenon DEF CompactMessages
  <2>2. SubSeq(h, TailStart(h), Len(h)) = tail /\ SubSeq(h, 2, TailStart(h) - 1) = middle
    BY <1>6, <1>7, <1>9
  <2>3. CompactMessages(q)
          = <<h[1]>> \o SelectHistoryWithinBudget(middle,
                           MaxTokens - EstimateTokens(<<h[1]>> \o tail)) \o tail
    BY <1>22, <2>1, <2>2, Zenon
  <2> QED BY <1>11, <1>20, <2>3, Zenon
<1>24. Fits(r, Len(own))
  <2>1. PICK fixed : fixed = EstimateTokens(<<h[1]>> \o tail)
    OBVIOUS
  <2>2. fixed \in Nat
    BY <1>8, <1>18, <2>1, FixedCost
  <2>3. MaxTokens - fixed \in Int
    BY <2>2, PolicyAssumption
  <2>4. s = <<>> \/ EstimateTokens(s) <= MaxTokens - fixed
    BY <1>10, <1>11, <2>1, <2>3, SelectFits
  <2>5. s \in Seq(Message)
    BY <1>15 DEF Copied
  <2>6. Fits(r, Len(tail))
    BY <1>8, <1>18, <1>20, <2>1, <2>4, <2>5, PartsFit
  <2> QED BY <1>8, <2>6
<1> QED BY <1>21, <1>23, <1>24
-----------------------------------------------------------------------------
(* The messages of a turn.                                                 *)

\* What a turn has said so far.
OwnTurn(t, q) ==
    /\ q \in Seq(Message) /\ Len(q) >= 1
    /\ q[1].role = "user"
    /\ \A i \in 1..Len(q) : q[i].turn = t
    /\ \A i \in 2..Len(q) : q[i].role \in {"assistant", "tool"}

\* Within an iteration: the first calls of the message are answered, the others pending.
Answering(t, fresh, pending) ==
    /\ fresh \in Seq(Message) /\ Len(fresh) >= 1
    /\ pending \in Seq(CallIds) /\ Len(pending) >= 1
    /\ fresh[1].role = "assistant"
    /\ Len(fresh[1].calls) = Len(fresh) - 1 + Len(pending)
    /\ \A i \in 1..Len(fresh) : fresh[i].turn = t
    /\ \A i \in 2..Len(fresh) : /\ fresh[i].role = "tool" /\ fresh[i].calls = <<>>
                               /\ fresh[i].answers = fresh[1].calls[i - 1]
    /\ \A k \in 1..Len(pending) : pending[k] = fresh[1].calls[Len(fresh) - 1 + k]

LEMMA AnswerFacts ==
    ASSUME NEW t \in Turns, NEW c \in CallIds, NEW size \in Sizes
    PROVE  LET m == Answer(t, c, size)
           IN  /\ m \in Message /\ m.role = "tool" /\ m.turn = t
               /\ m.calls = <<>> /\ m.answers = c
<1>1. <<>> \in Seq(CallIds)
  BY EmptySeq
<1>2. size \in Nat \ {0}
  BY ConversationAssumption
<1> QED BY <1>1, <1>2 DEF Answer, Plain, Message

LEMMA CallingFacts ==
    ASSUME NEW t \in Turns, NEW calls \in CallLists
    PROVE  /\ calls \in Seq(CallIds) /\ Len(calls) \in Nat /\ Len(calls) >= 1
           /\ Answering(t, <<Calling(t, calls)>>, calls)
<1>1. calls \in Seq(CallIds) /\ calls # <<>>
  BY ConversationAssumption
<1>2. Len(calls) \in Nat /\ Len(calls) >= 1
  BY <1>1, LenProperties, EmptySeq
<1>3. PICK m : m = Calling(t, calls)
  OBVIOUS
<1>4. m \in Message /\ m.role = "assistant" /\ m.turn = t /\ m.calls = calls
  BY <1>1, <1>3 DEF Calling, Reply, Plain, Message
<1>5. PICK q : q = <<m>>
  OBVIOUS
<1>6. q \in Seq(Message) /\ Len(q) = 1 /\ q[1] = m
  BY <1>4, <1>5
<1>7. \A k \in 1..Len(calls) : 1 - 1 + k = k
  BY <1>2
<1>8. /\ \A i \in 1..Len(q) : q[i].turn = t
      /\ \A i \in 2..Len(q) : /\ q[i].role = "tool" /\ q[i].calls = <<>>
                            /\ q[i].answers = q[1].calls[i - 1]
  BY <1>4, <1>6
<1>9. \A k \in 1..Len(calls) : calls[k] = q[1].calls[Len(q) - 1 + k]
  BY <1>4, <1>6, <1>7
<1>10. Answering(t, q, calls)
  BY <1>1, <1>2, <1>4, <1>6, <1>8, <1>9 DEF Answering
<1> QED BY <1>1, <1>2, <1>3, <1>5, <1>10

\* The next result joins what the iteration has said.
LEMMA AnsweringGrows ==
    ASSUME NEW t \in Turns, NEW fresh, NEW pending, Answering(t, fresh, pending),
           NEW m \in Message, m.role = "tool", m.turn = t, m.calls = <<>>,
           m.answers = Head(pending)
    PROVE  LET f == Append(fresh, m)
           IN  /\ f \in Seq(Message) /\ Len(f) = Len(fresh) + 1 /\ Len(fresh) \in Nat
               /\ Len(pending) \in Nat /\ f[1] = fresh[1]
               /\ Len(f[1].calls) = Len(f) - 1 + (Len(pending) - 1)
               /\ \A i \in 1..Len(f) : f[i].turn = t
               /\ \A i \in 2..Len(f) : /\ f[i].role = "tool" /\ f[i].calls = <<>>
                                       /\ f[i].answers = f[1].calls[i - 1]
<1>1. PICK f : f = Append(fresh, m)
  OBVIOUS
<1>2. /\ fresh \in Seq(Message) /\ pending \in Seq(CallIds)
      /\ Len(fresh) >= 1 /\ Len(pending) >= 1
  BY DEF Answering
<1>3. Len(fresh) \in Nat /\ Len(pending) \in Nat
  BY <1>2, LenProperties
<1>4. /\ f \in Seq(Message) /\ Len(f) = Len(fresh) + 1
      /\ \A i \in 1..Len(fresh) : f[i] = fresh[i]
      /\ f[Len(fresh) + 1] = m
  BY <1>1, <1>2, AppendProperties
<1>5. f[1] = fresh[1]
  BY <1>2, <1>3, <1>4
<1>6. Len(f[1].calls) = Len(f) - 1 + (Len(pending) - 1)
  <2>1. Len(fresh[1].calls) = Len(fresh) - 1 + Len(pending)
    BY DEF Answering
  <2> QED BY <1>3, <1>4, <1>5, <2>1
<1>7. \A i \in 1..Len(f) : f[i].turn = t
  <2>1. \A i \in 1..Len(fresh) : f[i].turn = t
    BY <1>4 DEF Answering
  <2> QED BY <1>3, <1>4, <2>1
<1>8. \A i \in 2..Len(fresh) : /\ f[i].role = "tool" /\ f[i].calls = <<>>
                              /\ f[i].answers = f[1].calls[i - 1]
  <2>1. \A i \in 2..Len(fresh) : i \in 1..Len(fresh)
    BY <1>3
  <2> QED BY <1>4, <1>5, <2>1 DEF Answering
<1>9. m.answers = f[1].calls[Len(fresh)]
  <2>1. 1 \in 1..Len(pending) /\ Len(fresh) - 1 + 1 = Len(fresh)
    BY <1>2, <1>3
  <2>2. pending[1] = fresh[1].calls[Len(fresh)]
    BY <2>1 DEF Answering
  <2>3. Head(pending) = pending[1]
    BY <1>2
  <2> QED BY <1>5, <2>2, <2>3
<1>10. \A i \in 2..Len(f) : /\ f[i].role = "tool" /\ f[i].calls = <<>>
                           /\ f[i].answers = f[1].calls[i - 1]
  <2> SUFFICES ASSUME NEW i \in 2..Len(f)
               PROVE  /\ f[i].role = "tool" /\ f[i].calls = <<>>
                      /\ f[i].answers = f[1].calls[i - 1]
    OBVIOUS
  <2>1. i \in 2..Len(fresh) \/ (i = Len(fresh) + 1 /\ i - 1 = Len(fresh))
    BY <1>3, <1>4
  <2> QED BY <1>4, <1>8, <1>9, <2>1
<1> QED BY <1>1, <1>3, <1>4, <1>5, <1>6, <1>7, <1>10

LEMMA AnsweringGoesOn ==
    ASSUME NEW t \in Turns, NEW fresh, NEW pending, Answering(t, fresh, pending),
           NEW m \in Message, m.role = "tool", m.turn = t, m.calls = <<>>,
           m.answers = Head(pending), Len(pending) > 1
    PROVE  Answering(t, Append(fresh, m), Tail(pending))
<1>1. PICK f : f = Append(fresh, m)
  OBVIOUS
<1>2. /\ f \in Seq(Message) /\ Len(f) = Len(fresh) + 1 /\ Len(fresh) \in Nat
      /\ Len(pending) \in Nat /\ f[1] = fresh[1]
      /\ Len(f[1].calls) = Len(f) - 1 + (Len(pending) - 1)
      /\ \A i \in 1..Len(f) : f[i].turn = t
      /\ \A i \in 2..Len(f) : /\ f[i].role = "tool" /\ f[i].calls = <<>>
                              /\ f[i].answers = f[1].calls[i - 1]
  BY <1>1, AnsweringGrows
<1>3. pending \in Seq(CallIds) /\ pending # <<>> /\ fresh[1].role = "assistant"
  BY EmptySeq DEF Answering
<1>4. PICK p : p = Tail(pending)
  OBVIOUS
<1>5. /\ p \in Seq(CallIds) /\ Len(p) = Len(pending) - 1
      /\ \A k \in 1..Len(p) : p[k] = pending[k + 1]
  BY <1>3, <1>4, HeadTailProperties
<1>6. ASSUME NEW k \in 1..Len(p)
      PROVE  p[k] = f[1].calls[Len(f) - 1 + k]
  <2>1. PICK l : l = k + 1
    OBVIOUS
  <2>2. l \in 1..Len(pending) /\ Len(fresh) - 1 + l = Len(f) - 1 + k
    BY <1>2, <1>5, <2>1
  <2>3. pending[l] = fresh[1].calls[Len(fresh) - 1 + l]
    BY <2>2 DEF Answering
  <2> QED BY <1>2, <1>5, <2>1, <2>2, <2>3
<1>7. Answering(t, f, p)
  <2>1. Len(f[1].calls) = Len(f) - 1 + Len(p) /\ Len(f) >= 1 /\ Len(p) >= 1
    BY <1>2, <1>5
  <2> QED BY <1>2, <1>3, <1>5, <1>6, <2>1 DEF Answering
<1> QED BY <1>1, <1>4, <1>7

\* What a whole iteration says: calls, and a result for each.
Iteration(t, f) ==
    /\ Whole(f) /\ Len(f) >= 2 /\ f[1].role = "assistant"
    /\ \A i \in 2..Len(f) : f[i].role = "tool"
    /\ \A i \in 1..Len(f) : f[i].turn = t

\* After the last result the calls of the iteration are met.
LEMMA AnsweringEnds ==
    ASSUME NEW t \in Turns, NEW fresh, NEW pending, Answering(t, fresh, pending),
           NEW m \in Message, m.role = "tool", m.turn = t, m.calls = <<>>,
           m.answers = Head(pending), ~(Len(pending) > 1)
    PROVE  Iteration(t, Append(fresh, m))
<1>1. PICK f : f = Append(fresh, m)
  OBVIOUS
<1>2. /\ f \in Seq(Message) /\ Len(f) = Len(fresh) + 1 /\ Len(fresh) \in Nat
      /\ Len(pending) \in Nat /\ f[1] = fresh[1]
      /\ Len(f[1].calls) = Len(f) - 1 + (Len(pending) - 1)
      /\ \A i \in 1..Len(f) : f[i].turn = t
      /\ \A i \in 2..Len(f) : /\ f[i].role = "tool" /\ f[i].calls = <<>>
                              /\ f[i].answers = f[1].calls[i - 1]
  BY <1>1, AnsweringGrows
<1>3. Len(fresh) >= 1 /\ Len(pending) >= 1 /\ f[1].role = "assistant"
  BY <1>2 DEF Answering
<1>4. Len(f[1].calls) = Len(f) - 1 /\ Len(f) \in Nat /\ Len(f) >= 2
  BY <1>2, <1>3
<1>5. CallsMet(f)
  <2>1. ASSUME NEW i \in 1..Len(f), NEW k \in 1..Len(f[i].calls)
        PROVE  i + k <= Len(f) /\ f[i + k].role = "tool" /\ f[i + k].answers = f[i].calls[k]
    <3>1. i = 1
      <4> SUFFICES ASSUME i # 1 PROVE FALSE
        OBVIOUS
      <4>1. i \in 2..Len(f)
        BY <1>4
      <4>2. Len(f[i].calls) = 0
        <5>1. f[i].calls = <<>>
          BY <1>2, <4>1
        <5>2. f[i].calls = <<>> <=> Len(f[i].calls) = 0
          BY <1>2, MessagesSeq
        <5> QED BY <5>1, <5>2
      <4> QED BY <2>1, <4>2
    <3>2. PICK j : j = 1 + k
      OBVIOUS
    <3>5. k \in 1..Len(f[1].calls)
      BY <3>1
    <3>3. j \in 2..Len(f) /\ j - 1 = k
      BY <1>4, <3>2, <3>5
    <3>4. f[j].role = "tool" /\ f[j].answers = f[1].calls[j - 1]
      BY <1>2, <3>3
    <3> QED BY <1>4, <3>1, <3>2, <3>3, <3>4, <3>5
  <2> QED BY <2>1 DEF CallsMet
<1>6. \A j \in 1..Len(f) : f[j].role = "tool" => Due(f, j)
  <2> SUFFICES ASSUME NEW j \in 1..Len(f), f[j].role = "tool"
               PROVE  Due(f, j)
    OBVIOUS
  <2>1. j # 1
    BY <1>3
  <2>2. 1 \in 1..(j - 1) /\ j - 1 <= Len(f[1].calls)
    BY <1>4, <2>1
  <2> QED BY <2>2 DEF Due
<1>7. \A i \in 1..Len(f) : f[i].calls # <<>> => f[i].role = "assistant"
  <2>1. \A i \in 1..Len(f) : i = 1 \/ i \in 2..Len(f)
    BY <1>4
  <2> QED BY <1>2, <1>3, <2>1
<1>8. Whole(f)
  BY <1>2, <1>5, <1>6, <1>7 DEF Whole
<1> QED BY <1>1, <1>2, <1>3, <1>4, <1>8 DEF Iteration
-----------------------------------------------------------------------------
(* One run of the model and its tools.                                     *)

RunOK(t, run) ==
    /\ run \in Run
    /\ OwnTurn(t, run.current) /\ Whole(run.current)
    /\ Request(run.messages)
    /\ Len(run.messages) > Len(run.current)
    /\ Copied(run.current, run.messages, Len(run.messages) - Len(run.current))
    /\ Fits(run.messages, Len(run.current))

Collected(run) == run.current \o run.fresh

\* The request and the turn get the same messages: the request still ends with the turn.
LEMMA BothGrow ==
    ASSUME NEW own, NEW q, NEW d, Copied(own, q, d), d + Len(own) = Len(q),
           NEW f \in Seq(Message)
    PROVE  Copied(own \o f, q \o f, d) /\ d + Len(own \o f) = Len(q \o f)
<1>1. own \in Seq(Message) /\ q \in Seq(Message) /\ d \in Nat
  BY DEF Copied
<1>2. PICK a : a = own \o f
  OBVIOUS
<1>3. /\ a \in Seq(Message) /\ Len(own) \in Nat /\ Len(f) \in Nat
      /\ Len(a) = Len(own) + Len(f)
      /\ \A i \in 1..Len(own) : a[i] = own[i]
      /\ \A i \in 1..Len(f) : a[Len(own) + i] = f[i]
      /\ \A i \in 1..Len(a) : i \in 1..Len(own) \/ \E k \in 1..Len(f) : i = Len(own) + k
  BY <1>1, <1>2, ConcatFacts
<1>4. PICK b : b = q \o f
  OBVIOUS
<1>5. /\ b \in Seq(Message) /\ Len(q) \in Nat
      /\ Len(b) = Len(q) + Len(f)
      /\ \A i \in 1..Len(q) : b[i] = q[i]
      /\ \A i \in 1..Len(f) : b[Len(q) + i] = f[i]
  BY <1>1, <1>4, ConcatFacts
<1>6. d + Len(a) = Len(b)
  <2>1. d \in Nat /\ Len(own) \in Nat /\ Len(q) \in Nat /\ Len(f) \in Nat
    BY <1>1, <1>3, <1>5
  <2>2. Len(a) = Len(own) + Len(f) /\ Len(b) = Len(q) + Len(f)
    BY <1>3, <1>5
  <2>3. d + Len(own) = Len(q)
    OBVIOUS
  <2> QED BY <2>1, <2>2, <2>3
<1>7. ASSUME NEW i \in 1..Len(own)
      PROVE  CompactContent(a[i]) = CompactContent(b[d + i])
  <2>1. d + i \in 1..Len(q)
    BY <1>1, <1>3, <1>5
  <2>2. CompactContent(own[i]) = CompactContent(q[d + i])
    BY DEF Copied
  <2> QED BY <1>3, <1>5, <2>1, <2>2
<1>8. ASSUME NEW k \in 1..Len(f)
      PROVE  CompactContent(a[Len(own) + k]) = CompactContent(b[d + (Len(own) + k)])
  <2>1. d + (Len(own) + k) = Len(q) + k
    <3>1. d \in Nat /\ Len(own) \in Nat /\ Len(q) \in Nat /\ k \in Nat
      BY <1>1, <1>3, <1>5
    <3>2. d + Len(own) = Len(q)
      OBVIOUS
    <3> QED BY <3>1, <3>2
  <2> QED BY <1>3, <1>5, <2>1
<1>9. \A i \in 1..Len(a) : CompactContent(a[i]) = CompactContent(b[d + i])
  <2> SUFFICES ASSUME NEW i \in 1..Len(a)
               PROVE  CompactContent(a[i]) = CompactContent(b[d + i])
    OBVIOUS
  <2>1. i \in 1..Len(own) \/ \E k \in 1..Len(f) : i = Len(own) + k
    BY <1>3
  <2> QED BY <1>7, <1>8, <2>1
<1>10. Copied(a, b, d)
  <2>1. d + Len(a) <= Len(b)
    BY <1>3, <1>5, <1>6
  <2> QED BY <1>1, <1>3, <1>5, <1>9, <2>1 DEF Copied
<1> QED BY <1>2, <1>4, <1>6, <1>10

LEMMA RequestGrows ==
    ASSUME NEW q, Request(q), NEW f, Whole(f), NoSystem(f)
    PROVE  Request(q \o f)
<1>1. q \in Seq(Message) /\ f \in Seq(Message) /\ Len(q) >= 1 /\ q[1].role = "system"
  BY DEF Request, Whole
<1>2. PICK r : r = q \o f
  OBVIOUS
<1>3. /\ Len(q) \in Nat /\ Len(f) \in Nat /\ Len(r) = Len(q) + Len(f)
      /\ \A i \in 1..Len(q) : r[i] = q[i]
      /\ \A i \in 1..Len(f) : r[Len(q) + i] = f[i]
      /\ \A i \in 1..Len(r) : i \in 1..Len(q) \/ \E k \in 1..Len(f) : i = Len(q) + k
  BY <1>1, <1>2, ConcatFacts
<1>4. Whole(r)
  BY <1>2, ConcatWhole DEF Request
<1>5. r[1].role = "system" /\ Len(r) >= 1
  BY <1>1, <1>3
<1>6. ASSUME NEW i \in 2..Len(r)
      PROVE  r[i].role # "system"
  <2>1. CASE i \in 1..Len(q)
    <3>1. i \in 2..Len(q)
      BY <2>1
    <3> QED BY <1>3, <2>1, <3>1 DEF Request
  <2>2. ASSUME NEW k \in 1..Len(f), i = Len(q) + k
        PROVE  r[i].role # "system"
    BY <1>3, <2>2 DEF NoSystem
  <2>3. i \in 1..Len(r)
    BY <1>3
  <2> QED BY <1>3, <2>1, <2>2, <2>3
<1> QED BY <1>2, <1>4, <1>5, <1>6 DEF Request

\* A turn goes on: the assistant's messages and the results it gets.
LEMMA TurnGrows ==
    ASSUME NEW t, NEW own, OwnTurn(t, own), NEW f \in Seq(Message),
           \A i \in 1..Len(f) : f[i].turn = t /\ f[i].role \in {"assistant", "tool"}
    PROVE  OwnTurn(t, own \o f)
<1>1. own \in Seq(Message) /\ Len(own) >= 1 /\ own[1].role = "user"
  BY DEF OwnTurn
<1>2. PICK r : r = own \o f
  OBVIOUS
<1>3. /\ r \in Seq(Message) /\ Len(own) \in Nat /\ Len(f) \in Nat
      /\ Len(r) = Len(own) + Len(f)
      /\ \A i \in 1..Len(own) : r[i] = own[i]
      /\ \A i \in 1..Len(f) : r[Len(own) + i] = f[i]
      /\ \A i \in 1..Len(r) : i \in 1..Len(own) \/ \E k \in 1..Len(f) : i = Len(own) + k
  BY <1>1, <1>2, ConcatFacts
<1>4. r[1].role = "user" /\ Len(r) >= 1
  BY <1>1, <1>3
<1>5. ASSUME NEW i \in 1..Len(r)
      PROVE  r[i].turn = t /\ (i >= 2 => r[i].role \in {"assistant", "tool"})
  <2>1. CASE i \in 1..Len(own)
    <3>1. i >= 2 => i \in 2..Len(own)
      BY <2>1
    <3> QED BY <1>3, <2>1, <3>1 DEF OwnTurn
  <2>2. ASSUME NEW k \in 1..Len(f), i = Len(own) + k
        PROVE  r[i].turn = t /\ (i >= 2 => r[i].role \in {"assistant", "tool"})
    BY <1>3, <2>2
  <2> QED BY <1>3, <2>1, <2>2
<1>6. \A i \in 2..Len(r) : i \in 1..Len(r) /\ i >= 2
  BY <1>3
<1> QED BY <1>2, <1>3, <1>4, <1>5, <1>6 DEF OwnTurn

\* A run begins with the system prompt, history and the user's message.
LEMMA NewRunOK ==
    ASSUME NEW t \in Turns, NEW size \in Sizes, NEW q, Whole(q), NoSystem(q),
           NEW history, Ends(history, q), NEW limit \in Nat, NEW skills \in BOOLEAN
    PROVE  LET run == NewRun(User(t, size), history, limit, skills)
           IN  RunOK(t, run) /\ run.fresh = <<>> /\ Collected(run) = <<User(t, size)>>
<1>1. PICK u : u = User(t, size)
  OBVIOUS
<1>2. u \in Message /\ u.role = "user" /\ u.calls = <<>> /\ u.turn = t
  <2>1. <<>> \in Seq(CallIds) /\ size \in Nat \ {0}
    BY EmptySeq, ConversationAssumption
  <2> QED BY <1>1, <2>1 DEF User, Plain, Message
<1>3. PICK r : r = Assemble(u, history)
  OBVIOUS
<1>4. Whole(<<u>>) /\ Len(<<u>>) = 1 /\ <<u>>[1] = u /\ <<u>> \in Seq(Message)
  BY <1>2, OneWhole
<1>5. /\ Request(r) /\ Len(r) > Len(<<u>>)
      /\ Copied(<<u>>, r, Len(r) - Len(<<u>>))
      /\ Fits(r, 1)
  BY <1>2, <1>3, AssembleRequest
<1>6. r \in Seq(Message)
  BY <1>5 DEF Request, Whole
<1>7. OwnTurn(t, <<u>>)
  BY <1>2, <1>4 DEF OwnTurn
<1>8. PICK run : run = NewRun(u, history, limit, skills)
  OBVIOUS
<1>9. /\ run.messages = r /\ run.current = <<u>> /\ run.fresh = <<>>
      /\ run.pending = <<>> /\ run \in Run
  <2>1. <<>> \in Seq(Message) /\ <<>> \in Seq(CallIds)
    BY EmptySeq
  <2> QED BY <1>3, <1>4, <1>6, <1>8, <2>1 DEF NewRun, Run
<1>10. RunOK(t, run)
  BY <1>4, <1>5, <1>7, <1>9 DEF RunOK
<1>11. Collected(run) = <<u>>
  BY <1>4, <1>9, ConcatEmptySeq DEF Collected
<1> QED BY <1>1, <1>8, <1>9, <1>10, <1>11

\* After the last result of an iteration, as Answered has it.
NextIteration(run, f) ==
    [run EXCEPT !.messages  = CompactMessages(@ \o f),
                !.current   = @ \o f,
                !.fresh     = <<>>,
                !.pending   = <<>>,
                !.iteration = @ + 1]

LEMMA AnsweredLast ==
    ASSUME NEW t \in Turns, NEW run, RunOK(t, run),
           NEW f, Iteration(t, f)
    PROVE  LET r == NextIteration(run, f)
           IN  RunOK(t, r) /\ r.fresh = <<>> /\ r.current = run.current \o f
<1>0. /\ Whole(f) /\ Len(f) >= 2 /\ f[1].role = "assistant"
      /\ \A i \in 2..Len(f) : f[i].role = "tool"
      /\ \A i \in 1..Len(f) : f[i].turn = t
  BY DEF Iteration
<1>1. PICK q : q = run.messages
  OBVIOUS
<1>2. PICK own : own = run.current
  OBVIOUS
<1>3. /\ run \in Run /\ OwnTurn(t, own) /\ Whole(own) /\ Request(q)
      /\ Len(q) > Len(own) /\ Copied(own, q, Len(q) - Len(own))
  BY <1>1, <1>2 DEF RunOK
<1>4. /\ q \in Seq(Message) /\ own \in Seq(Message) /\ f \in Seq(Message)
      /\ Len(own) >= 1 /\ own[1].role = "user"
  BY <1>0, <1>3 DEF Request, Whole, OwnTurn
<1>5. Len(q) \in Nat /\ Len(own) \in Nat /\ Len(f) \in Nat
  BY <1>4, MessagesSeq
<1>6. PICK d \in Nat : d = Len(q) - Len(own)
  <2>1. Len(q) > Len(own)
    BY <1>3
  <2>2. Len(q) - Len(own) \in Nat
    BY <1>5, <2>1
  <2> QED BY <2>2
<1>7. 1 <= d /\ d + Len(own) = Len(q) /\ Copied(own, q, d)
  BY <1>3, <1>5, <1>6
<1>8. \A i \in 1..Len(f) : i = 1 \/ i \in 2..Len(f)
  BY <1>5
<1>9. NoSystem(f) /\ \A i \in 1..Len(f) : f[i].turn = t /\ f[i].role \in {"assistant", "tool"}
  BY <1>0, <1>8 DEF NoSystem
<1>10. PICK both : both = q \o f
  OBVIOUS
<1>11. PICK mine : mine = own \o f
  OBVIOUS
<1>12. Copied(mine, both, d) /\ d + Len(mine) = Len(both)
  <2>1. Copied(own \o f, q \o f, d) /\ d + Len(own \o f) = Len(q \o f)
    BY <1>4, <1>7, BothGrow
  <2> QED BY <1>10, <1>11, <2>1
<1>13. Request(both)
  BY <1>0, <1>3, <1>9, <1>10, RequestGrows
<1>14. Whole(mine) /\ OwnTurn(t, mine)
  BY <1>0, <1>3, <1>4, <1>9, <1>11, ConcatWhole, TurnGrows
<1>15. /\ mine \in Seq(Message) /\ Len(mine) = Len(own) + Len(f)
       /\ \A i \in 1..Len(own) : mine[i] = own[i]
       /\ \A i \in 1..Len(f) : mine[Len(own) + i] = f[i]
       /\ \A i \in 1..Len(mine) : i \in 1..Len(own) \/ \E k \in 1..Len(f) : i = Len(own) + k
  BY <1>4, <1>11, ConcatFacts
<1>16. PICK g \in Nat : g = Len(own) + 1
  BY <1>5
<1>17. 1 < g /\ g < Len(mine)
  BY <1>0, <1>4, <1>5, <1>15, <1>16
<1>18. mine[g].role = "assistant"
  <2>1. 1 \in 1..Len(f)
    BY <1>0, <1>5
  <2> QED BY <1>0, <1>15, <1>16, <2>1
<1>19. mine[1].role = "user" /\ \A i \in 2..Len(mine) : mine[i].role # "user"
  BY <1>14 DEF OwnTurn
<1>20. \A i \in (g + 1)..Len(mine) : mine[i].role = "tool"
  <2> SUFFICES ASSUME NEW i \in (g + 1)..Len(mine)
               PROVE  mine[i].role = "tool"
    OBVIOUS
  <2>1. PICK k : k = i - Len(own)
    OBVIOUS
  <2>0. Len(mine) = Len(own) + Len(f)
    BY <1>15
  <2>5. i \in Int /\ i >= Len(own) + 2 /\ i <= Len(own) + Len(f)
    BY <1>5, <1>16, <2>0
  <2>2. k \in 2..Len(f) /\ i = Len(own) + k
    BY <1>5, <2>1, <2>5
  <2>3. k \in 1..Len(f)
    BY <1>5, <2>2
  <2>4. mine[i] = f[k]
    BY <1>15, <2>2, <2>3
  <2> QED BY <1>0, <2>2, <2>4
<1>21. PICK all : all = CompactMessages(both)
  OBVIOUS
<1>22. /\ Request(all) /\ Len(all) > Len(mine) /\ Copied(mine, all, Len(all) - Len(mine))
       /\ Fits(all, Len(mine))
  BY <1>7, <1>12, <1>13, <1>17, <1>18, <1>19, <1>20, <1>21, CompactRequest
<1>23. all \in Seq(Message)
  BY <1>22 DEF Request, Whole
<1>24. PICK r : r = [run EXCEPT !.messages = all, !.current = mine, !.fresh = <<>>,
                                !.pending = <<>>, !.iteration = @ + 1]
  OBVIOUS
<1>25. r \in Run /\ r.messages = all /\ r.current = mine /\ r.fresh = <<>>
  <2>1. <<>> \in Seq(Message) /\ <<>> \in Seq(CallIds)
    BY EmptySeq
  <2>2. run \in Run /\ mine \in Seq(Message)
    BY <1>3, <1>15
  <2>3. PICK n \in Nat : n = run.iteration + 1
    BY <2>2 DEF Run
  <2>4. r = [run EXCEPT !.messages = all, !.current = mine, !.fresh = <<>>,
                        !.pending = <<>>, !.iteration = n]
    BY <1>24, <2>3
  <2> QED BY <1>23, <2>1, <2>2, <2>4 DEF Run
<1>26. RunOK(t, r)
  BY <1>14, <1>22, <1>25 DEF RunOK
<1>27. r = NextIteration(run, f)
  BY <1>1, <1>2, <1>10, <1>11, <1>21, <1>24 DEF NextIteration
<1> QED BY <1>2, <1>11, <1>25, <1>26, <1>27

\* Each answer is collected, and the run goes on or begins its next iteration.
LEMMA AnsweredRun ==
    ASSUME NEW t \in Turns, NEW run, RunOK(t, run),
           Answering(t, run.fresh, run.pending),
           NEW m \in Message, m.role = "tool", m.turn = t, m.calls = <<>>,
           m.answers = Head(run.pending)
    PROVE  LET r == Answered(run, m)
           IN  /\ RunOK(t, r)
               /\ Collected(r) = Append(Collected(run), m)
               /\ Len(run.pending) > 1 => Answering(t, r.fresh, r.pending)
               /\ ~(Len(run.pending) > 1) => r.fresh = <<>>
<1>1. PICK f : f = Append(run.fresh, m)
  OBVIOUS
<1>2. run \in Run /\ run.current \in Seq(Message) /\ run.fresh \in Seq(Message)
  BY DEF RunOK, Run
<1>3. f \in Seq(Message)
  BY <1>1, <1>2, AppendProperties
<1>4. run.current \o f = Append(Collected(run), m)
  <2>1. <<m>> \in Seq(Message) /\ Collected(run) \in Seq(Message)
    BY <1>2, ConcatFacts DEF Collected
  <2>2. f = run.fresh \o <<m>>
    BY <1>1, <1>2, AppendIsConcat
  <2>3. Append(Collected(run), m) = (run.current \o run.fresh) \o <<m>>
    BY <2>1, AppendIsConcat DEF Collected
  <2>4. (run.current \o run.fresh) \o <<m>> = run.current \o (run.fresh \o <<m>>)
    <3>1. \A a, b, c \in Seq(Message) : (a \o b) \o c = a \o (b \o c)
      BY ConcatAssociative
    <3> QED BY <1>2, <2>1, <3>1
  <2> QED BY <2>2, <2>3, <2>4, Zenon
<1>5. CASE Len(run.pending) > 1
  <2>1. PICK p : p = Tail(run.pending)
    OBVIOUS
  <2>2. Answering(t, f, p)
    BY <1>1, <1>5, <2>1, AnsweringGoesOn
  <2>3. p \in Seq(CallIds)
    BY <2>2 DEF Answering
  <2>4. PICK r : r = [run EXCEPT !.fresh = f, !.pending = p]
    OBVIOUS
  <2>5. /\ r \in Run /\ r.messages = run.messages /\ r.current = run.current
        /\ r.fresh = f /\ r.pending = p
    BY <1>2, <1>3, <2>3, <2>4 DEF Run
  <2>6. RunOK(t, r)
    BY <2>5 DEF RunOK
  <2>7. Answered(run, m) = r
    BY <1>1, <1>5, <2>1, <2>4 DEF Answered
  <2>8. Collected(r) = Append(Collected(run), m)
    BY <1>4, <2>5 DEF Collected
  <2> QED BY <1>5, <2>2, <2>5, <2>6, <2>7, <2>8
<1>6. CASE ~(Len(run.pending) > 1)
  <2>1. Iteration(t, f)
    BY <1>1, <1>6, AnsweringEnds
  <2>2. PICK r : r = NextIteration(run, f)
    OBVIOUS
  <2>3. RunOK(t, r) /\ r.fresh = <<>> /\ r.current = run.current \o f
    BY <2>1, <2>2, AnsweredLast
  <2>4. Answered(run, m) = r
    BY <1>1, <1>6, <2>2 DEF Answered, NextIteration
  <2>5. Collected(r) = Append(Collected(run), m)
    <3>1. r.current \in Seq(Message)
      BY <2>3 DEF RunOK, Run
    <3> QED BY <1>4, <2>3, <3>1, ConcatEmptySeq DEF Collected
  <2> QED BY <1>6, <2>3, <2>4, <2>5
<1> QED BY <1>5, <1>6
-----------------------------------------------------------------------------
(* The results a turn remembers.                                           *)

ToolsIn(q) == { i \in 1..Len(q) : q[i].role = "tool" }

UpTo(S, i) == { j \in S : j <= i }

Remembers(q, res) ==
    /\ q \in Seq(Message) /\ res \in Seq(Message)
    /\ Cardinality(ToolsIn(q)) = Len(res)
    /\ \A i \in ToolsIn(q) : q[i] = res[Cardinality(UpTo(ToolsIn(q), i))]

LEMMA ToolsFinite ==
    ASSUME NEW q \in Seq(Message), NEW i
    PROVE  /\ Len(q) \in Nat /\ ToolsIn(q) \in SUBSET (1..Len(q))
           /\ IsFiniteSet(ToolsIn(q)) /\ Cardinality(ToolsIn(q)) \in Nat
           /\ IsFiniteSet(UpTo(ToolsIn(q), i)) /\ Cardinality(UpTo(ToolsIn(q), i)) \in Nat
           /\ Cardinality(UpTo(ToolsIn(q), i)) <= Cardinality(ToolsIn(q))
<1>1. Len(q) \in Nat
  BY MessagesSeq
<1>2. IsFiniteSet(1..Len(q))
  BY <1>1, FS_Interval
<1>3. ToolsIn(q) \in SUBSET (1..Len(q))
  BY DEF ToolsIn
<1>4. IsFiniteSet(ToolsIn(q))
  BY <1>2, <1>3, FS_Subset
<1>5. UpTo(ToolsIn(q), i) \in SUBSET ToolsIn(q)
  BY DEF UpTo
<1> QED BY <1>1, <1>3, <1>4, <1>5, FS_Subset, FS_CardinalityType

LEMMA RemembersNoTool ==
    ASSUME NEW q, NEW res, Remembers(q, res), NEW m \in Message, m.role # "tool"
    PROVE  Remembers(Append(q, m), res)
<1>1. PICK r : r = Append(q, m)
  OBVIOUS
<1>2. q \in Seq(Message) /\ Len(q) \in Nat
  BY MessagesSeq DEF Remembers
<1>3. /\ r \in Seq(Message) /\ Len(r) = Len(q) + 1
      /\ \A i \in 1..Len(q) : r[i] = q[i]
      /\ r[Len(q) + 1] = m
  BY <1>1, <1>2, AppendProperties
<1>4. ToolsIn(r) = ToolsIn(q)
  <2>1. \A i \in 1..Len(r) : i \in 1..Len(q) \/ i = Len(q) + 1
    BY <1>2, <1>3
  <2>2. \A i \in 1..Len(q) : i \in 1..Len(r)
    BY <1>2, <1>3
  <2> QED BY <1>3, <2>1, <2>2 DEF ToolsIn
<1>5. \A i \in ToolsIn(q) : r[i] = q[i]
  BY <1>3 DEF ToolsIn
<1> QED BY <1>1, <1>3, <1>4, <1>5 DEF Remembers

LEMMA RemembersTool ==
    ASSUME NEW q, NEW res, Remembers(q, res), NEW m \in Message, m.role = "tool"
    PROVE  Remembers(Append(q, m), Append(res, m))
<1>1. PICK r : r = Append(q, m)
  OBVIOUS
<1>2. PICK s : s = Append(res, m)
  OBVIOUS
<1>3. q \in Seq(Message) /\ res \in Seq(Message) /\ Len(q) \in Nat /\ Len(res) \in Nat
  BY MessagesSeq DEF Remembers
<1>4. /\ r \in Seq(Message) /\ Len(r) = Len(q) + 1
      /\ \A i \in 1..Len(q) : r[i] = q[i]
      /\ r[Len(q) + 1] = m
  BY <1>1, <1>3, AppendProperties
<1>5. /\ s \in Seq(Message) /\ Len(s) = Len(res) + 1
      /\ \A i \in 1..Len(res) : s[i] = res[i]
      /\ s[Len(res) + 1] = m
  BY <1>2, <1>3, AppendProperties
<1>6. PICK n : n = Len(q) + 1
  OBVIOUS
<1>7. n \in Nat /\ n \notin ToolsIn(q)
  BY <1>3, <1>6 DEF ToolsIn
<1>8. ToolsIn(r) = ToolsIn(q) \cup {n}
  <2>1. \A i : i \in 1..Len(r) <=> i \in 1..Len(q) \/ i = n
    BY <1>3, <1>4, <1>6
  <2>2. r[n] = m
    BY <1>4, <1>6
  <2> QED BY <1>4, <2>1, <2>2 DEF ToolsIn
<1>9. IsFiniteSet(ToolsIn(q)) /\ Cardinality(ToolsIn(q)) = Len(res)
  BY <1>3, ToolsFinite DEF Remembers
<1>10. Cardinality(ToolsIn(r)) = Len(s)
  BY <1>5, <1>7, <1>8, <1>9, FS_AddElement
<1>11. ASSUME NEW i \in ToolsIn(q)
       PROVE  r[i] = s[Cardinality(UpTo(ToolsIn(r), i))]
  <2>1. i \in 1..Len(q) /\ i < n
    BY <1>3, <1>6 DEF ToolsIn
  <2>2. UpTo(ToolsIn(r), i) = UpTo(ToolsIn(q), i)
    BY <1>7, <1>8, <2>1 DEF UpTo
  <2>3. PICK c : c = Cardinality(UpTo(ToolsIn(q), i))
    OBVIOUS
  <2>4. c \in 1..Len(res)
    <3>1. c \in Nat /\ c <= Len(res)
      BY <1>3, <1>9, <2>3, ToolsFinite
    <3>2. c # 0
      <4>1. i \in UpTo(ToolsIn(q), i)
        BY <2>1 DEF UpTo
      <4>2. IsFiniteSet(UpTo(ToolsIn(q), i))
        BY <1>3, ToolsFinite
      <4> QED BY <2>3, <4>1, <4>2, FS_EmptySet
    <3> QED BY <1>3, <3>1, <3>2
  <2>5. q[i] = res[c]
    BY <2>3 DEF Remembers
  <2> QED BY <1>4, <1>5, <2>1, <2>2, <2>3, <2>4, <2>5
<1>12. r[n] = s[Cardinality(UpTo(ToolsIn(r), n))]
  <2>1. UpTo(ToolsIn(r), n) = ToolsIn(r)
    <3>1. \A j \in ToolsIn(r) : j <= n
      BY <1>3, <1>4, <1>6 DEF ToolsIn
    <3> QED BY <3>1 DEF UpTo
  <2> QED BY <1>4, <1>5, <1>6, <1>10, <2>1
<1>13. \A i \in ToolsIn(r) : r[i] = s[Cardinality(UpTo(ToolsIn(r), i))]
  BY <1>8, <1>11, <1>12
<1> QED BY <1>1, <1>2, <1>4, <1>5, <1>10, <1>13 DEF Remembers

LEMMA RemembersUser ==
    ASSUME NEW m \in Message, m.role # "tool"
    PROVE  Remembers(<<m>>, <<>>)
<1>1. <<>> \in Seq(Message) /\ Len(<<>>) = 0
  BY EmptySeq
<1>2. ToolsIn(<<>>) = {}
  BY <1>1 DEF ToolsIn
<1>3. Remembers(<<>>, <<>>)
  BY <1>1, <1>2, FS_EmptySet DEF Remembers
<1>4. Append(<<>>, m) = <<m>>
  OBVIOUS
<1> QED BY <1>3, <1>4, RemembersNoTool
-----------------------------------------------------------------------------
(* The invariant: of every turn by itself, and of the store.               *)

FinalTurn(t, q, res) ==
    /\ Whole(q) /\ OwnTurn(t, q)
    /\ Len(q) >= 2 /\ q[Len(q)] = Reply(t)
    /\ Remembers(q, res)

\* The runs of a turn: all but the innermost wait for the answer of a skill.
Stack(t, stack, res) ==
    /\ stack \in Seq(Run) /\ Len(stack) >= 1
    /\ \A d \in 1..Len(stack) : RunOK(t, stack[d])
    /\ \A d \in 1..(Len(stack) - 1) : Answering(t, stack[d].fresh, stack[d].pending)
    /\ Remembers(Collected(stack[1]), res)

TurnOK(t, l, md, stack, res) ==
    /\ l = "new" => md = "agent" /\ res = <<>>
    /\ l = "model" => Stack(t, stack, res) /\ stack[Len(stack)].fresh = <<>>
    /\ l = "tools" =>
          /\ Stack(t, stack, res)
          /\ Answering(t, stack[Len(stack)].fresh, stack[Len(stack)].pending)
    /\ l = "persist" => md = "agent" /\ FinalTurn(t, stack[Len(stack)].current, res)

\* q is in s after its first a messages, and is all of t in it.
StoredAt(t, s, a, q) ==
    /\ a \in Nat /\ a + Len(q) <= Len(s)
    /\ \A i \in 1..Len(q) : s[a + i] = q[i]
    /\ \A i \in 1..Len(s) : s[i].turn = t => a < i /\ i <= a + Len(q)

Stored(t, l, md, res, s) ==
    IF l = "done" /\ md = "agent"
    THEN \E a, q : StoredAt(t, s, a, q) /\ FinalTurn(t, q, res)
    ELSE \A i \in 1..Len(s) : s[i].turn # t

Tables ==
    /\ pc = [t \in Turns |-> pc[t]] /\ mode = [t \in Turns |-> mode[t]]
    /\ runs = [t \in Turns |-> runs[t]] /\ results = [t \in Turns |-> results[t]]

StoreOK(s, p) ==
    /\ Whole(s) /\ NoSystem(s)
    /\ p \in Seq(Message) /\ Len(p) <= Len(s)
    /\ \A i \in 1..Len(p) : s[i] = p[i]

ConvInv ==
    /\ Tables
    /\ StoreOK(store, past)
    /\ \A t \in Turns : /\ TurnOK(t, pc[t], mode[t], runs[t], results[t])
                        /\ Stored(t, pc[t], mode[t], results[t], store)

LEMMA InitHolds == Init => ConvInv
<1> SUFFICES ASSUME Init
             PROVE  ConvInv
  OBVIOUS
<1>1. /\ Conversation(past) /\ store = past
      /\ \A i \in DOMAIN past : past[i].turn = Past
  BY ConversationAssumption DEF Init
<1>2. past \in Seq(Message) /\ Whole(past)
  BY <1>1, WholeIsPaired DEF Conversation
<1>3. DOMAIN past = 1..Len(past) /\ Len(past) \in Nat
  BY <1>2, MessagesSeq
<1>4. NoSystem(past)
  BY <1>1, <1>3 DEF Conversation, NoSystem
<1>5. StoreOK(store, past)
  BY <1>1, <1>2, <1>3, <1>4 DEF StoreOK
<1>6. Tables
  BY DEF Init, Tables
<1>7. ASSUME NEW t \in Turns
      PROVE  /\ TurnOK(t, pc[t], mode[t], runs[t], results[t])
             /\ Stored(t, pc[t], mode[t], results[t], store)
  <2>1. pc[t] = "new" /\ mode[t] = "agent" /\ results[t] = <<>>
    BY DEF Init
  <2>2. \A i \in 1..Len(store) : store[i].turn # t
    BY <1>1, <1>3, TurnAssumption
  <2> QED BY <2>1, <2>2 DEF TurnOK, Stored
<1> QED BY <1>5, <1>6, <1>7 DEF ConvInv

OthersKept(t) ==
    /\ mode' = [u \in Turns |-> mode'[u]] /\ results' = [u \in Turns |-> results'[u]]
    /\ \A u \in Turns \ {t} : mode'[u] = mode[u] /\ results'[u] = results[u]

\* One turn moves, and the store stays as it is.
LEMMA TurnMoves ==
    ASSUME ConvInv, NEW t \in Turns, NEW l, NEW stack, Goto(t, l, stack), OthersKept(t),
           store' = store, past' = past,
           ~(pc[t] = "done" /\ mode[t] = "agent"), ~(l = "done" /\ mode'[t] = "agent"),
           TurnOK(t, l, mode'[t], stack, results'[t])
    PROVE  ConvInv'
<1>1. Tables /\ StoreOK(store, past)
  BY DEF ConvInv
<1>2. /\ pc' = [pc EXCEPT ![t] = l] /\ runs' = [runs EXCEPT ![t] = stack]
  BY DEF Goto
<1>3. /\ pc'[t] = l /\ runs'[t] = stack
      /\ \A u \in Turns \ {t} : pc'[u] = pc[u] /\ runs'[u] = runs[u]
  BY <1>1, <1>2 DEF Tables
<1>4. Tables'
  BY <1>1, <1>2 DEF Tables, OthersKept
<1>5. StoreOK(store, past)'
  BY <1>1
<1>6. ASSUME NEW u \in Turns
      PROVE  /\ TurnOK(u, pc'[u], mode'[u], runs'[u], results'[u])
             /\ Stored(u, pc'[u], mode'[u], results'[u], store')
  <2>1. /\ TurnOK(u, pc[u], mode[u], runs[u], results[u])
        /\ Stored(u, pc[u], mode[u], results[u], store)
    BY DEF ConvInv
  <2>2. CASE u = t
    <3>1. \A i \in 1..Len(store) : store[i].turn # t
      BY <2>1, <2>2 DEF Stored
    <3>2. Stored(t, l, mode'[t], results'[t], store)
      BY <3>1 DEF Stored
    <3> QED BY <1>3, <2>2, <3>2
  <2>3. CASE u # t
    <3>1. /\ pc'[u] = pc[u] /\ runs'[u] = runs[u] /\ mode'[u] = mode[u]
          /\ results'[u] = results[u]
      BY <1>3, <2>3 DEF OthersKept
    <3> QED BY <2>1, <3>1
  <2> QED BY <2>2, <2>3
<1> QED BY <1>4, <1>5, <1>6 DEF ConvInv

LEMMA SameTables ==
    ASSUME ConvInv, NEW t \in Turns, UNCHANGED <<mode, results>>
    PROVE  OthersKept(t)
BY DEF ConvInv, Tables, OthersKept

LEMMA ModeSet ==
    ASSUME ConvInv, NEW t \in Turns, NEW md, mode' = [mode EXCEPT ![t] = md],
           results' = results
    PROVE  OthersKept(t) /\ mode'[t] = md
BY DEF ConvInv, Tables, OthersKept

LEMMA ResultRecorded ==
    ASSUME ConvInv, NEW t \in Turns, NEW depth, NEW m, Record(t, depth, m), mode' = mode
    PROVE  /\ OthersKept(t)
           /\ results'[t] = IF depth = 1 THEN Append(results[t], m) ELSE results[t]
<1>1. mode = [u \in Turns |-> mode[u]] /\ results = [u \in Turns |-> results[u]]
  BY DEF ConvInv, Tables
<1>2. CASE depth = 1
  BY <1>1, <1>2 DEF OthersKept, Record
<1>3. CASE depth # 1
  BY <1>1, <1>3 DEF OthersKept, Record
<1> QED BY <1>2, <1>3
-----------------------------------------------------------------------------
(* The steps of a turn.                                                    *)

LEMMA OneRun ==
    ASSUME NEW t, NEW run, RunOK(t, run), NEW res, Remembers(Collected(run), res)
    PROVE  Stack(t, <<run>>, res) /\ <<run>>[Len(<<run>>)] = run
<1>1. run \in Run
  BY DEF RunOK
<1>2. PICK s : s = <<run>>
  OBVIOUS
<1>3. s \in Seq(Run) /\ Len(s) = 1 /\ s[1] = run
  BY <1>1, <1>2
<1>4. Stack(t, s, res)
  BY <1>3 DEF Stack
<1> QED BY <1>2, <1>3, <1>4

LEMMA BeginHolds ==
    ASSUME ConvInv, NEW t \in Turns, Begin(t)
    PROVE  ConvInv'
<1>1. pc[t] = "new" /\ UNCHANGED <<store, past, mode, results>>
  BY DEF Begin
<1>2. PICK size \in Sizes :
         Goto(t, "model", <<NewRun(User(t, size), LoadMessages, MaxIterations, TRUE)>>)
  BY DEF Begin
<1>3. Whole(store) /\ NoSystem(store) /\ store \in Seq(Message)
  BY DEF ConvInv, StoreOK, Whole
<1>4. Ends(LoadMessages, store)
  <2>1. PICK S : S = { i \in DOMAIN store : Len(store) - i < MaxHistoryMessages }
    OBVIOUS
  <2>2. LoadMessages = From(store, S) /\ S \in SUBSET DOMAIN store
    BY <2>1 DEF LoadMessages, BoundHistory
  <2> QED BY <1>3, <2>2, FromEnds
<1>5. PICK run : run = NewRun(User(t, size), LoadMessages, MaxIterations, TRUE)
  OBVIOUS
<1>6. MaxIterations \in Nat
  BY ConversationAssumption
<1>7. RunOK(t, run) /\ run.fresh = <<>> /\ Collected(run) = <<User(t, size)>>
  BY <1>3, <1>4, <1>5, <1>6, NewRunOK
<1>8. results[t] = <<>>
  BY <1>1 DEF ConvInv, TurnOK
<1>9. Remembers(Collected(run), results'[t])
  <2>1. User(t, size) \in Message /\ User(t, size).role # "tool"
    <3>1. <<>> \in Seq(CallIds) /\ size \in Nat \ {0}
      BY EmptySeq, ConversationAssumption
    <3> QED BY <3>1 DEF User, Plain, Message
  <2> QED BY <1>1, <1>7, <1>8, <2>1, RemembersUser
<1>10. TurnOK(t, "model", mode'[t], <<run>>, results'[t])
  BY <1>7, <1>9, OneRun DEF TurnOK
<1> QED BY <1>1, <1>2, <1>5, <1>10, SameTables, TurnMoves

LEMMA BeginSkillHolds ==
    ASSUME ConvInv, NEW t \in Turns, BeginSkill(t)
    PROVE  ConvInv'
<1>1. /\ pc[t] = "new" /\ UNCHANGED <<store, past, results>>
      /\ mode' = [mode EXCEPT ![t] = "skill"]
  BY DEF BeginSkill
<1>2. PICK size \in Sizes :
         Goto(t, "model", <<NewRun(User(t, size), <<>>, SkillIterations, FALSE)>>)
  BY DEF BeginSkill
<1>3. Whole(store) /\ NoSystem(store) /\ store \in Seq(Message)
  BY DEF ConvInv, StoreOK, Whole
<1>4. Ends(<<>>, store)
  BY <1>3, NothingEnds
<1>5. PICK run : run = NewRun(User(t, size), <<>>, SkillIterations, FALSE)
  OBVIOUS
<1>6. SkillIterations \in Nat
  BY ConversationAssumption
<1>7. RunOK(t, run) /\ run.fresh = <<>> /\ Collected(run) = <<User(t, size)>>
  BY <1>3, <1>4, <1>5, <1>6, NewRunOK
<1>8. results[t] = <<>>
  BY <1>1 DEF ConvInv, TurnOK
<1>9. Remembers(Collected(run), results'[t])
  <2>1. User(t, size) \in Message /\ User(t, size).role # "tool"
    <3>1. <<>> \in Seq(CallIds) /\ size \in Nat \ {0}
      BY EmptySeq, ConversationAssumption
    <3> QED BY <3>1 DEF User, Plain, Message
  <2> QED BY <1>1, <1>7, <1>8, <2>1, RemembersUser
<1>10. TurnOK(t, "model", mode'[t], <<run>>, results'[t])
  BY <1>7, <1>9, OneRun DEF TurnOK
<1>11. OthersKept(t)
  BY <1>1, ModeSet
<1> QED BY <1>1, <1>2, <1>5, <1>10, <1>11, TurnMoves

LEMMA FailHolds ==
    ASSUME ConvInv, NEW t \in Turns, Fail(t), pc[t] # "done",
           UNCHANGED <<store, past, mode, results>>
    PROVE  ConvInv'
<1>1. Goto(t, "failed", <<>>)
  BY DEF Fail
<1>2. TurnOK(t, "failed", mode'[t], <<>>, results'[t])
  BY DEF TurnOK
<1> QED BY <1>1, <1>2, SameTables, TurnMoves

\* The innermost run gets an answer, of a tool or a skill.
LEMMA StackAnswered ==
    ASSUME NEW t \in Turns, NEW stack, NEW res, NEW md, Stack(t, stack, res),
           NEW run, run = stack[Len(stack)], Answering(t, run.fresh, run.pending),
           NEW m \in Message, m.role = "tool", m.turn = t, m.calls = <<>>,
           m.answers = Head(run.pending)
    PROVE  TurnOK(t, AfterAnswer(run), md, [stack EXCEPT ![Len(stack)] = Answered(run, m)],
                  IF Len(stack) = 1 THEN Append(res, m) ELSE res)
<1>1. stack \in Seq(Run) /\ Len(stack) >= 1 /\ Len(stack) \in Nat
  BY LenProperties DEF Stack
<1>2. PICK n \in Nat : n = Len(stack)
  BY <1>1
<1>3. RunOK(t, run)
  <2>1. Len(stack) \in 1..Len(stack)
    BY <1>1
  <2> QED BY <2>1 DEF Stack
<1>4. PICK r : r = Answered(run, m)
  OBVIOUS
<1>5. /\ RunOK(t, r)
      /\ Collected(r) = Append(Collected(run), m)
      /\ Len(run.pending) > 1 => Answering(t, r.fresh, r.pending)
      /\ ~(Len(run.pending) > 1) => r.fresh = <<>>
  BY <1>3, <1>4, AnsweredRun
<1>6. r \in Run
  BY <1>5 DEF RunOK
<1>7. PICK new : new = [stack EXCEPT ![n] = r]
  OBVIOUS
<1>8. /\ new \in Seq(Run) /\ Len(new) = n
      /\ \A d \in 1..n : new[d] = IF d = n THEN r ELSE stack[d]
  BY <1>1, <1>2, <1>6, <1>7, ExceptSeq
<1>9. new[n] = r /\ new[Len(new)] = r
  BY <1>1, <1>2, <1>8
<1>10. \A d \in 1..n : RunOK(t, new[d])
  BY <1>2, <1>5, <1>8 DEF Stack
<1>11. \A d \in 1..(n - 1) : Answering(t, new[d].fresh, new[d].pending)
  <2>1. \A d \in 1..(n - 1) : d \in 1..n /\ d # n
    OBVIOUS
  <2>2. \A d \in 1..(n - 1) : Answering(t, stack[d].fresh, stack[d].pending)
    BY <1>2 DEF Stack
  <2> QED BY <1>8, <2>1, <2>2
<1>12. PICK more : more = IF n = 1 THEN Append(res, m) ELSE res
  OBVIOUS
<1>13. Remembers(Collected(new[1]), more)
  <2>1. Remembers(Collected(stack[1]), res)
    BY DEF Stack
  <2>2. CASE n = 1
    <3>1. Remembers(Append(Collected(run), m), Append(res, m))
      BY <1>2, <2>1, <2>2, RemembersTool
    <3>2. Collected(new[1]) = Append(Collected(run), m)
      BY <1>5, <1>9, <2>2
    <3> QED BY <1>12, <2>2, <3>1, <3>2
  <2>3. CASE n # 1
    <3>1. 1 \in 1..n
      BY <1>1, <1>2
    <3> QED BY <1>8, <1>12, <2>1, <2>3, <3>1
  <2> QED BY <2>2, <2>3
<1>14. Stack(t, new, more)
  BY <1>1, <1>2, <1>8, <1>10, <1>11, <1>13 DEF Stack
<1>15. TurnOK(t, AfterAnswer(run), md, new, more)
  <2>1. CASE Len(run.pending) > 1
    BY <1>5, <1>9, <1>14, <2>1 DEF TurnOK, AfterAnswer
  <2>2. CASE ~(Len(run.pending) > 1)
    BY <1>5, <1>9, <1>14, <2>2 DEF TurnOK, AfterAnswer
  <2> QED BY <2>1, <2>2
<1> QED BY <1>2, <1>4, <1>7, <1>12, <1>15

LEMMA HeadPending ==
    ASSUME NEW t, NEW fresh, NEW pending, Answering(t, fresh, pending)
    PROVE  Head(pending) \in CallIds
<1>1. pending \in Seq(CallIds) /\ Len(pending) >= 1
  BY DEF Answering
<1>2. pending # <<>>
  BY <1>1, EmptySeq
<1> QED BY <1>1, <1>2, HeadTailProperties

LEMMA ExecuteToolHolds ==
    ASSUME ConvInv, NEW t \in Turns, ExecuteTool(t)
    PROVE  ConvInv'
<1>1. pc[t] = "tools" /\ UNCHANGED <<store, past, mode>>
  BY DEF ExecuteTool
<1>2. PICK run : run = runs[t][Len(runs[t])]
  OBVIOUS
<1>3. /\ Stack(t, runs[t], results[t])
      /\ Answering(t, run.fresh, run.pending)
  BY <1>1, <1>2 DEF ConvInv, TurnOK
<1>4. PICK size \in Sizes :
         /\ Goto(t, AfterAnswer(run),
                 [runs[t] EXCEPT ![Len(runs[t])]
                                  = Answered(run, Answer(t, Head(run.pending), size))])
         /\ Record(t, Len(runs[t]), Answer(t, Head(run.pending), size))
  BY <1>2 DEF ExecuteTool, Top, Depth
<1>5. PICK m : m = Answer(t, Head(run.pending), size)
  OBVIOUS
<1>6. /\ m \in Message /\ m.role = "tool" /\ m.turn = t /\ m.calls = <<>>
      /\ m.answers = Head(run.pending)
  BY <1>3, <1>5, HeadPending, AnswerFacts
<1>7. /\ OthersKept(t)
      /\ results'[t] = IF Len(runs[t]) = 1 THEN Append(results[t], m) ELSE results[t]
  BY <1>1, <1>4, <1>5, ResultRecorded
<1>8. PICK stack : stack = [runs[t] EXCEPT ![Len(runs[t])] = Answered(run, m)]
  OBVIOUS
<1>9. TurnOK(t, AfterAnswer(run), mode'[t], stack, results'[t])
  <2>1. PICK last : last = IF Len(runs[t]) = 1 THEN Append(results[t], m) ELSE results[t]
    OBVIOUS
  <2>2. TurnOK(t, AfterAnswer(run), mode'[t], stack, last)
    BY <1>2, <1>3, <1>6, <1>8, <2>1, StackAnswered
  <2> QED BY <1>7, <2>1, <2>2
<1>10. AfterAnswer(run) # "done"
  BY DEF AfterAnswer
<1>11. Goto(t, AfterAnswer(run), stack)
  BY <1>4, <1>5, <1>8
<1> QED BY <1>1, <1>7, <1>9, <1>10, <1>11, TurnMoves

\* What is collected of the outermost run is remembered.
Outermost(n, run, res) == n = 1 => Remembers(Collected(run), res)

RemembersSame(run, r) ==
    \A res : Remembers(Collected(run), res) => Remembers(Collected(r), res)

\* The calls of a run's message: they join nothing yet.
LEMMA RunCalls ==
    ASSUME NEW t \in Turns, NEW run, RunOK(t, run), run.fresh = <<>>,
           NEW calls \in CallLists,
           NEW r, r = [run EXCEPT !.fresh = <<Calling(t, calls)>>, !.pending = calls]
    PROVE  /\ RunOK(t, r) /\ Answering(t, r.fresh, r.pending)
           /\ RemembersSame(run, r)
<1>1. calls \in Seq(CallIds) /\ Answering(t, <<Calling(t, calls)>>, calls)
  BY CallingFacts
<1>2. PICK m : m = Calling(t, calls)
  OBVIOUS
<1>3. m \in Message /\ m.role = "assistant"
  BY <1>1, <1>2 DEF Calling, Reply, Plain, Message
<1>4. PICK f : f = <<m>>
  OBVIOUS
<1>5. f \in Seq(Message) /\ run \in Run
  BY <1>3, <1>4 DEF RunOK
<1>6. /\ r \in Run /\ r.messages = run.messages /\ r.current = run.current
      /\ r.fresh = f /\ r.pending = calls
  BY <1>1, <1>2, <1>4, <1>5 DEF Run
<1>7. RunOK(t, r)
  BY <1>6 DEF RunOK
<1>8. run.current \in Seq(Message)
  BY <1>5 DEF Run
<1>9. Collected(run) = run.current
  BY <1>8, ConcatEmptySeq DEF Collected
<1>10. Collected(r) = Append(run.current, m)
  BY <1>3, <1>4, <1>6, <1>8, AppendIsConcat DEF Collected
<1>11. \A res : Remembers(run.current, res) => Remembers(Append(run.current, m), res)
  BY <1>3, RemembersNoTool
<1> QED BY <1>1, <1>2, <1>4, <1>6, <1>7, <1>9, <1>10, <1>11 DEF RemembersSame

Changed(stack, n, r, new) == n = Len(stack) /\ new = [stack EXCEPT ![n] = r]

\* The innermost run changes, and nothing that is remembered.
LEMMA StackChanged ==
    ASSUME NEW t, NEW stack, NEW res, Stack(t, stack, res), NEW n \in Nat,
           NEW r, RunOK(t, r), Outermost(n, r, res), NEW new, Changed(stack, n, r, new)
    PROVE  Stack(t, new, res) /\ Len(new) = n /\ new[n] = r
<1>1. /\ stack \in Seq(Run) /\ n >= 1 /\ r \in Run
      /\ n = Len(stack) /\ new = [stack EXCEPT ![n] = r]
  BY DEF Stack, RunOK, Changed
<1>3. /\ new \in Seq(Run) /\ Len(new) = n
      /\ \A d \in 1..n : new[d] = IF d = n THEN r ELSE stack[d]
  BY <1>1, ExceptSeq
<1>4. new[n] = r
  BY <1>1, <1>3
<1>5. \A d \in 1..n : RunOK(t, new[d])
  BY <1>1, <1>3 DEF Stack
<1>6. \A d \in 1..(n - 1) : Answering(t, new[d].fresh, new[d].pending)
  <2>1. \A d \in 1..(n - 1) : d \in 1..n /\ d # n
    OBVIOUS
  <2>2. \A d \in 1..(n - 1) : Answering(t, stack[d].fresh, stack[d].pending)
    BY <1>1 DEF Stack
  <2> QED BY <1>3, <2>1, <2>2
<1>7. Remembers(Collected(new[1]), res)
  <2>1. CASE n = 1
    BY <1>4, <2>1 DEF Outermost
  <2>2. CASE n # 1
    <3>1. new[1] = stack[1]
      BY <1>1, <1>3, <2>2
    <3> QED BY <3>1 DEF Stack
  <2> QED BY <2>1, <2>2
<1>8. Stack(t, new, res)
  BY <1>1, <1>3, <1>5, <1>6, <1>7 DEF Stack
<1> QED BY <1>3, <1>4, <1>8

LEMMA ModelCallsHolds ==
    ASSUME ConvInv, NEW t \in Turns, ModelCalls(t)
    PROVE  ConvInv'
<1>1. pc[t] = "model" /\ UNCHANGED <<store, past, mode, results>>
  BY DEF ModelCalls
<1>2. PICK stack : stack = runs[t]
  OBVIOUS
<1>3. Stack(t, stack, results[t]) /\ stack[Len(stack)].fresh = <<>>
  BY <1>1, <1>2 DEF ConvInv, TurnOK
<1>4. stack \in Seq(Run) /\ Len(stack) \in Nat /\ Len(stack) >= 1
  BY <1>3, LenProperties DEF Stack
<1>5. PICK n \in Nat : n = Len(stack)
  BY <1>4
<1>6. PICK run : run = stack[n]
  OBVIOUS
<1>7. RunOK(t, run) /\ run.fresh = <<>> /\ run \in Run
  <2>1. n \in 1..Len(stack)
    BY <1>4, <1>5
  <2> QED BY <1>3, <1>5, <1>6, <2>1 DEF Stack, RunOK
<1>8. PICK calls \in CallLists :
         Goto(t, "tools", [stack EXCEPT ![n].fresh   = <<Calling(t, calls)>>,
                                        ![n].pending = calls])
  <2>1. PICK calls \in CallLists :
           Goto(t, "tools", [runs[t] EXCEPT ![Depth(t)].fresh   = <<Calling(t, calls)>>,
                                            ![Depth(t)].pending = calls])
    BY Zenon DEF ModelCalls
  <2>2. Depth(t) = n
    BY <1>2, <1>5 DEF Depth
  <2> QED BY <1>2, <2>1, <2>2, Zenon
<1>9. PICK r : r = [run EXCEPT !.fresh = <<Calling(t, calls)>>, !.pending = calls]
  OBVIOUS
<1>10. PICK new : new = [stack EXCEPT ![n] = r]
  OBVIOUS
<1>11. [stack EXCEPT ![n].fresh = <<Calling(t, calls)>>, ![n].pending = calls] = new
  <2>1. PICK f : f = <<Calling(t, calls)>>
    OBVIOUS
  <2>2. PICK a : a = [stack EXCEPT ![n].fresh = f]
    OBVIOUS
  <2>3. DOMAIN stack = 1..n /\ n \in DOMAIN stack
    BY <1>4, <1>5, LenProperties
  <2>4. stack = [d \in 1..n |-> stack[d]]
    BY <1>4, <1>5, IsASeq
  <2>5. [stack EXCEPT ![n].fresh = f, ![n].pending = calls] = [a EXCEPT ![n].pending = calls]
    BY <2>2
  <2>6. a = [d \in 1..n |-> IF d = n THEN [run EXCEPT !.fresh = f] ELSE stack[d]]
    BY <1>6, <2>2, <2>3, <2>4
  <2>7. [a EXCEPT ![n].pending = calls]
          = [d \in 1..n |-> IF d = n THEN [[run EXCEPT !.fresh = f] EXCEPT !.pending = calls]
                            ELSE stack[d]]
    BY <2>3, <2>6
  <2>8. new = [d \in 1..n |-> IF d = n THEN r ELSE stack[d]]
    BY <1>10, <2>3, <2>4
  <2>9. r = [[run EXCEPT !.fresh = f] EXCEPT !.pending = calls]
    BY <1>9, <2>1
  <2> QED BY <2>1, <2>5, <2>7, <2>8, <2>9
<1>12. /\ RunOK(t, r) /\ Answering(t, r.fresh, r.pending)
       /\ RemembersSame(run, r)
  BY <1>7, <1>9, RunCalls
<1>13. Outermost(n, r, results[t])
  <2>1. n = 1 => Remembers(Collected(run), results[t])
    BY <1>3, <1>6 DEF Stack
  <2> QED BY <1>12, <2>1 DEF Outermost, RemembersSame
<1>14. Stack(t, new, results[t]) /\ Len(new) = n /\ new[n] = r
  <2>1. PICK res : res = results[t]
    OBVIOUS
  <2>2. Stack(t, stack, res) /\ RunOK(t, r) /\ Outermost(n, r, res)
    BY <1>3, <1>12, <1>13, <2>1
  <2>3. Stack(t, new, res) /\ Len(new) = n /\ new[n] = r
    <3>1. Changed(stack, n, r, new)
      BY <1>5, <1>10 DEF Changed
    <3> QED BY <2>2, <3>1, StackChanged
  <2> QED BY <2>1, <2>3
<1>15. TurnOK(t, "tools", mode'[t], new, results'[t])
  BY <1>1, <1>12, <1>14 DEF TurnOK
<1>16. Goto(t, "tools", new)
  BY <1>8, <1>11
<1> QED BY <1>1, <1>15, <1>16, SameTables, TurnMoves

\* A run's reply ends the turn.
LEMMA ReplyEnds ==
    ASSUME NEW t \in Turns, NEW run, RunOK(t, run), run.fresh = <<>>,
           NEW res, Remembers(Collected(run), res)
    PROVE  FinalTurn(t, Append(run.current, Reply(t)), res)
<1>1. PICK m : m = Reply(t)
  OBVIOUS
<1>2. m \in Message /\ m.role = "assistant" /\ m.calls = <<>> /\ m.turn = t
  <2>1. <<>> \in Seq(CallIds)
    BY EmptySeq
  <2> QED BY <1>1, <2>1 DEF Reply, Plain, Message
<1>3. PICK own : own = run.current
  OBVIOUS
<1>4. /\ own \in Seq(Message) /\ OwnTurn(t, own) /\ Whole(own)
      /\ Len(own) \in Nat /\ Len(own) >= 1
  BY <1>3, MessagesSeq DEF RunOK, OwnTurn
<1>5. PICK f : f = <<m>>
  OBVIOUS
<1>6. Whole(f) /\ Len(f) = 1 /\ f[1] = m /\ f \in Seq(Message)
  BY <1>2, <1>5, OneWhole
<1>7. PICK q : q = Append(own, m)
  OBVIOUS
<1>8. q = own \o f
  BY <1>2, <1>4, <1>5, <1>7, AppendIsConcat
<1>9. Whole(q)
  BY <1>4, <1>6, <1>8, ConcatWhole
<1>10. OwnTurn(t, q)
  <2>1. \A i \in 1..Len(f) : f[i].turn = t /\ f[i].role \in {"assistant", "tool"}
    BY <1>2, <1>6
  <2> QED BY <1>4, <1>6, <1>8, <2>1, TurnGrows
<1>11. Len(q) = Len(own) + 1 /\ q[Len(own) + 1] = m
  BY <1>2, <1>4, <1>7, AppendProperties
<1>12. Collected(run) = own
  BY <1>3, <1>4, ConcatEmptySeq DEF Collected
<1>13. Remembers(q, res)
  BY <1>2, <1>7, <1>12, RemembersNoTool
<1>14. FinalTurn(t, q, res)
  <2>1. Len(q) >= 2 /\ q[Len(q)] = Reply(t)
    BY <1>1, <1>4, <1>11
  <2> QED BY <1>9, <1>10, <1>13, <2>1 DEF FinalTurn
<1> QED BY <1>1, <1>3, <1>7, <1>14

Pushed(stack, run, r, new) == run = stack[Len(stack)] /\ new = Append(stack, r)

\* A skill is entered: the run that called it waits.
LEMMA StackDeeper ==
    ASSUME NEW t, NEW stack, NEW res, Stack(t, stack, res),
           NEW run, Answering(t, run.fresh, run.pending),
           NEW r, RunOK(t, r), NEW new, Pushed(stack, run, r, new)
    PROVE  Stack(t, new, res) /\ new[Len(new)] = r
<1>1. /\ stack \in Seq(Run) /\ r \in Run /\ Len(stack) \in Nat /\ Len(stack) >= 1
      /\ run = stack[Len(stack)] /\ new = Append(stack, r)
  BY LenProperties DEF Stack, RunOK, Pushed
<1>2. /\ new \in Seq(Run) /\ Len(new) = Len(stack) + 1
      /\ \A d \in 1..Len(stack) : new[d] = stack[d]
      /\ new[Len(stack) + 1] = r
  BY <1>1, AppendProperties
<1>3. PICK n \in Nat : n = Len(stack)
  BY <1>1
<1>4. \A d \in 1..Len(new) : RunOK(t, new[d])
  <2>1. \A d \in 1..Len(new) : d \in 1..n \/ d = n + 1
    BY <1>2, <1>3
  <2>2. \A d \in 1..n : RunOK(t, new[d])
    BY <1>2, <1>3 DEF Stack
  <2>3. RunOK(t, new[n + 1])
    BY <1>2, <1>3
  <2> QED BY <2>1, <2>2, <2>3
<1>5. \A d \in 1..(Len(new) - 1) : Answering(t, new[d].fresh, new[d].pending)
  <2>1. \A d \in 1..(Len(new) - 1) : d \in 1..(n - 1) \/ d = n
    BY <1>2, <1>3
  <2>2. \A d \in 1..(n - 1) : new[d] = stack[d]
    BY <1>2, <1>3
  <2>3. \A d \in 1..(n - 1) : Answering(t, stack[d].fresh, stack[d].pending)
    BY <1>3 DEF Stack
  <2>4. new[n] = run
    BY <1>1, <1>2, <1>3
  <2> QED BY <2>1, <2>2, <2>3, <2>4
<1>6. Remembers(Collected(new[1]), res)
  <2>1. new[1] = stack[1]
    BY <1>1, <1>2
  <2> QED BY <2>1 DEF Stack
<1>7. Len(new) >= 1 /\ new[Len(new)] = r
  BY <1>1, <1>2
<1> QED BY <1>2, <1>4, <1>5, <1>6, <1>7 DEF Stack

LEMMA EnterSkillHolds ==
    ASSUME ConvInv, NEW t \in Turns, EnterSkill(t)
    PROVE  ConvInv'
<1>1. pc[t] = "tools" /\ UNCHANGED <<store, past, mode, results>>
  BY DEF EnterSkill
<1>2. PICK size \in Sizes :
         Goto(t, "model",
              Append(runs[t], NewRun(User(t, size), <<>>, SkillIterations, FALSE)))
  BY Zenon DEF EnterSkill
<1>3. Whole(store) /\ NoSystem(store) /\ store \in Seq(Message)
  BY DEF ConvInv, StoreOK, Whole
<1>4. Ends(<<>>, store)
  BY <1>3, NothingEnds
<1>5. PICK r : r = NewRun(User(t, size), <<>>, SkillIterations, FALSE)
  OBVIOUS
<1>6. SkillIterations \in Nat
  BY ConversationAssumption
<1>7. RunOK(t, r) /\ r.fresh = <<>>
  BY <1>3, <1>4, <1>5, <1>6, NewRunOK
<1>8. PICK stack : stack = runs[t]
  OBVIOUS
<1>9. PICK run : run = stack[Len(stack)]
  OBVIOUS
<1>10. PICK res : res = results[t]
  OBVIOUS
<1>11. Stack(t, stack, res) /\ Answering(t, run.fresh, run.pending)
  BY <1>1, <1>8, <1>9, <1>10 DEF ConvInv, TurnOK
<1>12. PICK new : new = Append(stack, r)
  OBVIOUS
<1>13. Stack(t, new, res) /\ new[Len(new)] = r
  <2>1. Pushed(stack, run, r, new)
    BY <1>9, <1>12 DEF Pushed
  <2> QED BY <1>7, <1>11, <2>1, StackDeeper
<1>14. TurnOK(t, "model", mode'[t], new, results'[t])
  BY <1>1, <1>7, <1>10, <1>13 DEF TurnOK
<1>15. Goto(t, "model", new)
  BY <1>2, <1>5, <1>8, <1>12
<1> QED BY <1>1, <1>14, <1>15, SameTables, TurnMoves

LEMMA RunRepliesHolds ==
    ASSUME ConvInv, NEW t \in Turns, RunReplies(t)
    PROVE  ConvInv'
<1>1. /\ pc[t] = "model" /\ Len(runs[t]) = 1
      /\ UNCHANGED <<store, past, mode, results>>
  BY DEF RunReplies, Depth
<1>2. PICK l : l = IF mode[t] = "agent" THEN "persist" ELSE "done"
  OBVIOUS
<1>3. PICK new : new = [runs[t] EXCEPT ![1].messages = Append(@, Reply(t)),
                                       ![1].current  = Append(@, Reply(t))]
  OBVIOUS
<1>4. Goto(t, l, new)
  BY <1>2, <1>3, Zenon DEF RunReplies
<1>5. PICK stack : stack = runs[t]
  OBVIOUS
<1>6. Stack(t, stack, results[t]) /\ stack[1].fresh = <<>>
  BY <1>1, <1>5 DEF ConvInv, TurnOK
<1>7. PICK run : run = stack[1]
  OBVIOUS
<1>8. /\ stack \in Seq(Run) /\ Len(stack) = 1 /\ run \in Run
      /\ RunOK(t, run) /\ Remembers(Collected(run), results[t])
  <2>1. 1 \in 1..Len(stack)
    BY <1>1, <1>5
  <2> QED BY <1>1, <1>5, <1>6, <1>7, <2>1 DEF Stack, RunOK
<1>9. FinalTurn(t, Append(run.current, Reply(t)), results[t])
  BY <1>6, <1>7, <1>8, ReplyEnds
<1>10. Len(new) = 1 /\ new[1].current = Append(run.current, Reply(t))
  <2>1. PICK a : a = [stack EXCEPT ![1].messages = Append(@, Reply(t))]
    OBVIOUS
  <2>2. DOMAIN stack = 1..1 /\ stack = [d \in 1..1 |-> run]
    <3>1. DOMAIN stack = 1..1
      BY <1>8, LenProperties
    <3>2. stack = [d \in 1..1 |-> stack[d]]
      BY <1>8, <3>1
    <3> QED BY <1>7, <3>1, <3>2
  <2>3. PICK run1 : run1 = [run EXCEPT !.messages = Append(@, Reply(t))]
    OBVIOUS
  <2>12. \A d \in 1..1 : d = 1
    OBVIOUS
  <2>13. 1 \in DOMAIN stack
    BY <2>2
  <2>4. a = [d \in 1..1 |-> run1]
    <3>1. a = [stack EXCEPT ![1] = run1]
      BY <1>7, <2>1, <2>3
    <3>2. a = [d \in 1..1 |-> IF d = 1 THEN run1 ELSE stack[d]]
      BY <2>2, <3>1
    <3> QED BY <2>12, <3>2
  <2>5. run1.current = run.current /\ DOMAIN run1 = DOMAIN run
    BY <1>8, <2>3 DEF Run
  <2>6. PICK run2 : run2 = [run1 EXCEPT !.current = Append(@, Reply(t))]
    OBVIOUS
  <2>7. run2.current = Append(run.current, Reply(t))
    <3>1. "current" \in DOMAIN run1
      BY <1>8, <2>5 DEF Run
    <3> QED BY <2>5, <2>6, <3>1
  <2>8. new = [a EXCEPT ![1].current = Append(@, Reply(t))]
    BY <1>3, <1>5, <2>1
  <2>9. new = [d \in 1..1 |-> run2]
    <3>1. a[1] = run1 /\ DOMAIN a = 1..1
      BY <2>4
    <3>2. new = [a EXCEPT ![1] = run2]
      BY <2>6, <2>8, <3>1
    <3>3. new = [d \in 1..1 |-> IF d = 1 THEN run2 ELSE a[d]]
      BY <2>4, <3>2
    <3> QED BY <2>12, <3>3
  <2>10. new[1] = run2 /\ DOMAIN new = 1..1
    BY <2>9
  <2>11. Len(new) = 1
    BY <2>9, <2>10
  <2> QED BY <2>7, <2>10, <2>11
<1>11. TurnOK(t, l, mode'[t], new, results'[t])
  <2>1. FinalTurn(t, new[Len(new)].current, results[t])
    BY <1>9, <1>10
  <2> QED BY <1>1, <1>2, <2>1 DEF TurnOK
<1>12. ~(l = "done" /\ mode'[t] = "agent")
  BY <1>1, <1>2
<1> QED BY <1>1, <1>4, <1>11, <1>12, SameTables, TurnMoves

\* Without its innermost run, a stack waits for that run's answer.
LEMMA StackOuter ==
    ASSUME NEW t, NEW stack, NEW res, Stack(t, stack, res), Len(stack) > 1,
           NEW outer, outer = SubSeq(stack, 1, Len(stack) - 1)
    PROVE  /\ Stack(t, outer, res) /\ Len(outer) = Len(stack) - 1
           /\ Answering(t, outer[Len(outer)].fresh, outer[Len(outer)].pending)
<1>1. stack \in Seq(Run) /\ Len(stack) \in Nat
  BY LenProperties DEF Stack
<1>2. PICK n \in Nat : n = Len(stack) - 1
  BY <1>1
<1>3. n >= 1 /\ \A d \in 1..n : d \in 1..Len(stack) /\ d \in 1..(Len(stack) - 1)
  BY <1>1, <1>2
<1>4. \A d \in 1..n : stack[d] \in Run
  BY <1>1, <1>3, ElementOfSeq
<1>5. /\ outer \in Seq(Run) /\ Len(outer) = n
      /\ \A d \in 1..n : outer[d] = stack[d]
  <2>1. outer = SubSeq(stack, 1, n) /\ 1 \in Int /\ n \in Int
    BY <1>2
  <2>2. /\ outer \in Seq(Run) /\ Len(outer) = IF 1 <= n THEN n - 1 + 1 ELSE 0
        /\ \A d \in 1..(n - 1 + 1) : outer[d] = stack[1 + d - 1]
    BY <1>4, <2>1, SubSeqProperties
  <2>3. n - 1 + 1 = n /\ \A d \in 1..n : 1 + d - 1 = d
    OBVIOUS
  <2> QED BY <1>3, <2>2, <2>3
<1>6. \A d \in 1..n : RunOK(t, outer[d]) /\ Answering(t, outer[d].fresh, outer[d].pending)
  BY <1>3, <1>5 DEF Stack
<1>7. n \in 1..n /\ 1 \in 1..n /\ \A d \in 1..(n - 1) : d \in 1..n
  BY <1>3
<1>8. Remembers(Collected(outer[1]), res)
  BY <1>5, <1>7 DEF Stack
<1>9. Stack(t, outer, res)
  BY <1>3, <1>5, <1>6, <1>7, <1>8 DEF Stack
<1> QED BY <1>2, <1>5, <1>6, <1>7, <1>9

LEMMA SkillRepliesHolds ==
    ASSUME ConvInv, NEW t \in Turns, SkillReplies(t)
    PROVE  ConvInv'
<1>1. pc[t] = "model" /\ Len(runs[t]) > 1 /\ UNCHANGED <<store, past, mode>>
  BY DEF SkillReplies, Depth
<1>2. PICK n : n = Len(runs[t]) - 1
  OBVIOUS
<1>3. PICK outer : outer = SubSeq(runs[t], 1, n)
  OBVIOUS
<1>4. /\ Stack(t, outer, results[t]) /\ Len(outer) = n
      /\ Answering(t, outer[n].fresh, outer[n].pending)
  <2>1. Stack(t, runs[t], results[t])
    BY <1>1 DEF ConvInv, TurnOK
  <2>2. /\ Stack(t, outer, results[t]) /\ Len(outer) = Len(runs[t]) - 1
        /\ Answering(t, outer[Len(outer)].fresh, outer[Len(outer)].pending)
    <3>1. PICK stack : stack = runs[t]
      OBVIOUS
    <3>2. PICK res : res = results[t]
      OBVIOUS
    <3>3. /\ Stack(t, stack, res) /\ Len(stack) > 1
          /\ outer = SubSeq(stack, 1, Len(stack) - 1)
      BY <1>1, <1>2, <1>3, <2>1, <3>1, <3>2
    <3>4. /\ Stack(t, outer, res) /\ Len(outer) = Len(stack) - 1
          /\ Answering(t, outer[Len(outer)].fresh, outer[Len(outer)].pending)
      BY <3>3, StackOuter
    <3> QED BY <3>1, <3>2, <3>4
  <2> QED BY <1>2, <2>2
<1>5. PICK run : run = outer[n]
  OBVIOUS
<1>6. PICK size \in Sizes :
         /\ Goto(t, AfterAnswer(run),
                 [outer EXCEPT ![n] = Answered(run, Answer(t, Head(run.pending), size))])
         /\ Record(t, n, Answer(t, Head(run.pending), size))
  <2>1. Depth(t) - 1 = n
    BY <1>2 DEF Depth
  <2>2. SubSeq(runs[t], 1, Depth(t) - 1) = outer
    BY <1>3, <2>1
  <2> QED BY <1>5, <2>1, <2>2 DEF SkillReplies
<1>7. PICK m : m = Answer(t, Head(run.pending), size)
  OBVIOUS
<1>8. /\ m \in Message /\ m.role = "tool" /\ m.turn = t /\ m.calls = <<>>
      /\ m.answers = Head(run.pending)
  BY <1>4, <1>5, <1>7, HeadPending, AnswerFacts
<1>9. /\ OthersKept(t)
      /\ results'[t] = IF n = 1 THEN Append(results[t], m) ELSE results[t]
  BY <1>1, <1>6, <1>7, ResultRecorded
<1>10. PICK stack : stack = [outer EXCEPT ![n] = Answered(run, m)]
  OBVIOUS
<1>11. TurnOK(t, AfterAnswer(run), mode'[t], stack, results'[t])
  <2>1. PICK last : last = IF n = 1 THEN Append(results[t], m) ELSE results[t]
    OBVIOUS
  <2>2. PICK res : res = results[t]
    OBVIOUS
  <2>3. /\ Stack(t, outer, res) /\ run = outer[Len(outer)]
        /\ Answering(t, run.fresh, run.pending)
    BY <1>4, <1>5, <2>2
  <2>4. TurnOK(t, AfterAnswer(run), mode'[t],
               [outer EXCEPT ![Len(outer)] = Answered(run, m)],
               IF Len(outer) = 1 THEN Append(res, m) ELSE res)
    BY <1>8, <2>3, StackAnswered
  <2> QED BY <1>4, <1>9, <1>10, <2>2, <2>4
<1>12. AfterAnswer(run) # "done"
  BY DEF AfterAnswer
<1>13. Goto(t, AfterAnswer(run), stack)
  BY <1>6, <1>7, <1>10
<1> QED BY <1>1, <1>9, <1>11, <1>12, <1>13, TurnMoves

\* What is stored of a turn stays where it is when another is appended.
LEMMA StoredKept ==
    ASSUME NEW u, NEW t, u # t, NEW s \in Seq(Message), NEW q \in Seq(Message),
           \A i \in 1..Len(q) : q[i].turn = t,
           NEW l, NEW md, NEW res, Stored(u, l, md, res, s)
    PROVE  Stored(u, l, md, res, s \o q)
<1>1. PICK r : r = s \o q
  OBVIOUS
<1>2. /\ Len(s) \in Nat /\ Len(q) \in Nat /\ Len(r) = Len(s) + Len(q)
      /\ \A i \in 1..Len(s) : r[i] = s[i]
      /\ \A i \in 1..Len(q) : r[Len(s) + i] = q[i]
      /\ \A i \in 1..Len(r) : i \in 1..Len(s) \/ \E k \in 1..Len(q) : i = Len(s) + k
  BY <1>1, ConcatFacts
<1>3. \A i \in 1..Len(r) : r[i].turn = u => i \in 1..Len(s) /\ s[i].turn = u
  <2> SUFFICES ASSUME NEW i \in 1..Len(r), r[i].turn = u
               PROVE  i \in 1..Len(s) /\ s[i].turn = u
    OBVIOUS
  <2>1. CASE i \in 1..Len(s)
    BY <1>2, <2>1
  <2>2. ASSUME NEW k \in 1..Len(q), i = Len(s) + k
        PROVE  FALSE
    <3>1. r[i] = q[k]
      BY <1>2, <2>2
    <3> QED BY <3>1
  <2> QED BY <1>2, <2>1, <2>2
<1>4. CASE l = "done" /\ md = "agent"
  <2>1. PICK a, p : StoredAt(u, s, a, p) /\ FinalTurn(u, p, res)
    BY <1>4 DEF Stored
  <2>2. p \in Seq(Message) /\ Len(p) \in Nat
    BY <2>1, MessagesSeq DEF FinalTurn, OwnTurn
  <2>3. a \in Nat /\ a + Len(p) <= Len(s)
    BY <2>1 DEF StoredAt
  <2>4. a + Len(p) <= Len(r) /\ \A i \in 1..Len(p) : a + i \in 1..Len(s)
    BY <1>2, <2>2, <2>3
  <2>5. \A i \in 1..Len(p) : r[a + i] = p[i]
    BY <1>2, <2>1, <2>4 DEF StoredAt
  <2>6. \A i \in 1..Len(r) : r[i].turn = u => a < i /\ i <= a + Len(p)
    BY <1>3, <2>1 DEF StoredAt
  <2>7. StoredAt(u, r, a, p)
    BY <2>3, <2>4, <2>5, <2>6 DEF StoredAt
  <2> QED BY <1>1, <1>4, <2>1, <2>7 DEF Stored
<1>5. CASE ~(l = "done" /\ md = "agent")
  <2>1. \A i \in 1..Len(s) : s[i].turn # u
    BY <1>5 DEF Stored
  <2>2. \A i \in 1..Len(r) : r[i].turn # u
    BY <1>3, <2>1
  <2> QED BY <1>1, <1>5, <2>2 DEF Stored
<1> QED BY <1>4, <1>5

LEMMA TurnStored ==
    ASSUME NEW t, NEW s, NEW p, StoreOK(s, p), \A i \in 1..Len(s) : s[i].turn # t,
           NEW q, NEW res, FinalTurn(t, q, res)
    PROVE  StoreOK(s \o q, p) /\ Stored(t, "done", "agent", res, s \o q)
<1>1. /\ s \in Seq(Message) /\ q \in Seq(Message) /\ Whole(s) /\ Whole(q)
      /\ p \in Seq(Message) /\ OwnTurn(t, q) /\ Len(p) \in Nat
  BY MessagesSeq DEF StoreOK, FinalTurn, Whole
<1>2. PICK r : r = s \o q
  OBVIOUS
<1>3. /\ Len(s) \in Nat /\ Len(q) \in Nat /\ Len(r) = Len(s) + Len(q)
      /\ \A i \in 1..Len(s) : r[i] = s[i]
      /\ \A i \in 1..Len(q) : r[Len(s) + i] = q[i]
      /\ \A i \in 1..Len(r) : i \in 1..Len(s) \/ \E k \in 1..Len(q) : i = Len(s) + k
  BY <1>1, <1>2, ConcatFacts
<1>4. Whole(r)
  BY <1>1, <1>2, ConcatWhole
<1>5. \A i \in 1..Len(q) : q[i].role # "system"
  <2>1. \A i \in 1..Len(q) : i = 1 \/ i \in 2..Len(q)
    BY <1>3
  <2> QED BY <1>1, <2>1 DEF OwnTurn
<1>6. NoSystem(r)
  <2>1. \A i \in 1..Len(s) : s[i].role # "system"
    BY DEF StoreOK, NoSystem
  <2>2. ASSUME NEW i \in 1..Len(r)
        PROVE  r[i].role # "system"
    <3>1. i \in 1..Len(s) \/ \E k \in 1..Len(q) : i = Len(s) + k
      BY <1>3
    <3> QED BY <1>3, <1>5, <2>1, <3>1
  <2> QED BY <2>2 DEF NoSystem
<1>7. Len(p) <= Len(r) /\ \A i \in 1..Len(p) : r[i] = p[i]
  <2>1. Len(p) <= Len(s) /\ \A i \in 1..Len(p) : s[i] = p[i]
    BY DEF StoreOK
  <2>2. \A i \in 1..Len(p) : i \in 1..Len(s)
    BY <1>1, <1>3, <2>1
  <2>3. Len(p) <= Len(r)
    BY <1>1, <1>3, <2>1
  <2> QED BY <1>3, <2>1, <2>2, <2>3
<1>8. StoreOK(r, p)
  BY <1>1, <1>4, <1>6, <1>7 DEF StoreOK
<1>9. PICK a \in Nat : a = Len(s)
  BY <1>3
<1>10. \A i \in 1..Len(r) : r[i].turn = t => a < i /\ i <= a + Len(q)
  <2> SUFFICES ASSUME NEW i \in 1..Len(r), r[i].turn = t
               PROVE  a < i /\ i <= a + Len(q)
    OBVIOUS
  <2>1. i \notin 1..Len(s)
    BY <1>3
  <2> QED BY <1>3, <1>9, <2>1
<1>11. StoredAt(t, r, a, q)
  <2>1. a + Len(q) <= Len(r)
    BY <1>3, <1>9
  <2> QED BY <1>3, <1>9, <1>10, <2>1 DEF StoredAt
<1>12. Stored(t, "done", "agent", res, r)
  BY <1>11 DEF Stored
<1> QED BY <1>2, <1>8, <1>12

LEMMA PersistHolds ==
    ASSUME ConvInv, NEW t \in Turns, Persist(t)
    PROVE  ConvInv'
<1>1. pc[t] = "persist" /\ UNCHANGED <<past, mode, results>>
  BY DEF Persist
<1>2. PICK q : q = runs[t][Len(runs[t])].current
  OBVIOUS
<1>3. store' = store \o q
  BY <1>2 DEF Persist, Top, Depth
<1>4. Goto(t, "done", <<>>)
  BY DEF Persist
<1>5. mode[t] = "agent" /\ FinalTurn(t, q, results[t])
  BY <1>1, <1>2 DEF ConvInv, TurnOK
<1>6. Tables /\ StoreOK(store, past)
  BY DEF ConvInv
<1>7. \A i \in 1..Len(store) : store[i].turn # t
  BY <1>1 DEF ConvInv, Stored
<1>8. StoreOK(store', past') /\ Stored(t, "done", "agent", results[t], store')
  BY <1>1, <1>3, <1>5, <1>6, <1>7, TurnStored
<1>9. /\ pc' = [pc EXCEPT ![t] = "done"] /\ runs' = [runs EXCEPT ![t] = <<>>]
  BY <1>4 DEF Goto
<1>10. /\ pc'[t] = "done" /\ runs'[t] = <<>>
       /\ \A u \in Turns \ {t} : pc'[u] = pc[u] /\ runs'[u] = runs[u]
  BY <1>6, <1>9 DEF Tables
<1>11. Tables'
  BY <1>1, <1>6, <1>9 DEF Tables
<1>12. /\ store \in Seq(Message) /\ q \in Seq(Message)
       /\ \A i \in 1..Len(q) : q[i].turn = t
  BY <1>5, <1>6 DEF StoreOK, FinalTurn, Whole, OwnTurn
<1>13. ASSUME NEW u \in Turns
       PROVE  /\ TurnOK(u, pc'[u], mode'[u], runs'[u], results'[u])
              /\ Stored(u, pc'[u], mode'[u], results'[u], store')
  <2>1. CASE u = t
    <3>1. TurnOK(t, "done", mode'[t], <<>>, results'[t])
      BY DEF TurnOK
    <3> QED BY <1>1, <1>5, <1>8, <1>10, <2>1, <3>1
  <2>2. CASE u # t
    <3>1. /\ TurnOK(u, pc[u], mode[u], runs[u], results[u])
          /\ Stored(u, pc[u], mode[u], results[u], store)
      BY DEF ConvInv
    <3>2. Stored(u, pc[u], mode[u], results[u], store \o q)
      BY <1>12, <2>2, <3>1, StoredKept
    <3> QED BY <1>1, <1>3, <1>10, <2>2, <3>1, <3>2
  <2> QED BY <2>1, <2>2
<1> QED BY <1>8, <1>11, <1>13 DEF ConvInv

LEMMA NextHolds ==
    ASSUME ConvInv, [Next]_vars
    PROVE  ConvInv'
<1>1. CASE UNCHANGED vars
  BY <1>1 DEF vars, ConvInv, Tables
<1>2. ASSUME NEW t \in Turns, Begin(t) \/ BeginSkill(t) \/ BeginFails(t) \/ Step(t)
      PROVE  ConvInv'
  <2>1. CASE Begin(t)
    BY <2>1, BeginHolds
  <2>2. CASE BeginSkill(t)
    BY <2>2, BeginSkillHolds
  <2>3. CASE BeginFails(t)
    BY <2>3, FailHolds DEF BeginFails
  <2>4. CASE ModelFails(t)
    BY <2>4, FailHolds DEF ModelFails
  <2>5. CASE ModelCalls(t)
    BY <2>5, ModelCallsHolds
  <2>6. CASE RunReplies(t)
    BY <2>6, RunRepliesHolds
  <2>7. CASE SkillReplies(t)
    BY <2>7, SkillRepliesHolds
  <2>8. CASE CallFails(t)
    BY <2>8, FailHolds DEF CallFails
  <2>9. CASE EnterSkill(t)
    BY <2>9, EnterSkillHolds
  <2>10. CASE ExecuteTool(t)
    BY <2>10, ExecuteToolHolds
  <2>11. CASE PersistFails(t)
    BY <2>11, FailHolds DEF PersistFails
  <2>12. CASE Persist(t)
    BY <2>12, PersistHolds
  <2> QED BY <1>2, <2>1, <2>2, <2>3, <2>4, <2>5, <2>6, <2>7, <2>8, <2>9, <2>10, <2>11,
             <2>12 DEF Step
<1> QED BY <1>1, <1>2 DEF Next

LEMMA ConvInvAlways == Spec => []ConvInv
<1>1. Init => ConvInv
  BY InitHolds
<1>2. ConvInv /\ [Next]_vars => ConvInv'
  BY NextHolds
<1> QED BY <1>1, <1>2, PTL DEF Spec
-----------------------------------------------------------------------------
\* Every request to the model is paired, wherever the limits cut the history and whatever
\* compaction dropped of it (assembler.go Assemble and CompactMessages, called by
\* executePromptToolRun).
THEOREM RequestsPairedHolds == Spec => []RequestsPaired
<1>1. ConvInv => RequestsPaired
  <2> SUFFICES ASSUME ConvInv, NEW t \in Turns, pc[t] = "model"
               PROVE  Paired(Top(t).messages)
    BY DEF RequestsPaired
  <2>1. Stack(t, runs[t], results[t])
    BY DEF ConvInv, TurnOK
  <2>2. RunOK(t, Top(t))
    <3>1. Len(runs[t]) \in 1..Len(runs[t])
      BY <2>1, LenProperties DEF Stack
    <3> QED BY <2>1, <3>1 DEF Stack, Top, Depth
  <2>3. Whole(Top(t).messages) /\ Top(t).messages \in Seq(Message)
    BY <2>2 DEF RunOK, Request, Whole
  <2> QED BY <2>3, WholeIsPaired
<1> QED BY <1>1, ConvInvAlways, PTL

\* Every request is within the budget, or nothing but the system prompt and the turn
\* itself: what is selected of the history never goes over what Assemble, and after
\* the tools CompactMessages, have left for it.
THEOREM HistoryWithinBudgetHolds == Spec => []HistoryWithinBudget
<1>1. ConvInv => HistoryWithinBudget
  <2> SUFFICES ASSUME ConvInv, NEW t \in Turns, pc[t] = "model"
               PROVE  \/ EstimateTokens(Top(t).messages) <= MaxTokens
                      \/ Len(Top(t).messages) = Len(Top(t).current) + 1
    BY DEF HistoryWithinBudget
  <2>1. Stack(t, runs[t], results[t])
    BY DEF ConvInv, TurnOK
  <2>2. RunOK(t, Top(t))
    <3>1. Len(runs[t]) \in 1..Len(runs[t])
      BY <2>1, LenProperties DEF Stack
    <3> QED BY <2>1, <3>1 DEF Stack, Top, Depth
  <2> QED BY <2>2 DEF RunOK, Fits
<1> QED BY <1>1, ConvInvAlways, PTL

LEMMA CopiedCompacts ==
    ASSUME NEW s, NEW q, Copied(s, q, Len(q) - Len(s))
    PROVE  CompactHistory(SubSeq(q, Len(q) - Len(s) + 1, Len(q))) = CompactHistory(s)
<1>1. /\ s \in Seq(Message) /\ q \in Seq(Message)
      /\ Len(s) \in Nat /\ Len(q) \in Nat
  BY MessagesSeq DEF Copied
<1>2. PICK c \in Nat : c = Len(q) - Len(s)
  BY DEF Copied
<1>3. PICK a \in Nat : a = Len(q) - Len(s) + 1
  BY <1>2
<1>4. 1 <= a /\ a <= Len(q) + 1 /\ Len(q) + 1 - a = Len(s) /\ a - 1 = c
  BY <1>1, <1>2, <1>3
<1>5. PICK b : b = SubSeq(q, a, Len(q))
  OBVIOUS
<1>6. /\ b \in Seq(Message) /\ Len(b) = Len(s)
      /\ \A i \in 1..Len(s) : b[i] = q[c + i]
  <2>1. PICK n \in Nat : n = Len(q)
    BY <1>1
  <2>2. /\ SubSeq(q, a, n) \in Seq(Message)
        /\ Len(SubSeq(q, a, n)) = n + 1 - a
        /\ \A i \in 1..(n + 1 - a) : SubSeq(q, a, n)[i] = q[a - 1 + i]
    BY <1>1, <1>4, <2>1, SubSeqCopied
  <2> QED BY <1>4, <1>5, <2>1, <2>2
<1>7. /\ CompactHistory(b) \in Seq(Message) /\ Len(CompactHistory(b)) = Len(s)
      /\ \A i \in 1..Len(s) : CompactHistory(b)[i] = CompactContent(b[i])
  BY <1>6, CompactCopies
<1>8. /\ CompactHistory(s) \in Seq(Message) /\ Len(CompactHistory(s)) = Len(s)
      /\ \A i \in 1..Len(s) : CompactHistory(s)[i] = CompactContent(s[i])
  BY <1>1, CompactCopies
<1>9. \A i \in 1..Len(s) : CompactContent(s[i]) = CompactContent(q[c + i])
  BY <1>2 DEF Copied
<1>10. \A i \in 1..Len(s) : CompactHistory(b)[i] = CompactHistory(s)[i]
  BY <1>6, <1>7, <1>8, <1>9
<1>11. CompactHistory(b) = CompactHistory(s)
  BY <1>7, <1>8, <1>10, SeqEqual
<1> QED BY <1>3, <1>5, <1>11

\* Every request is the system prompt first and the whole turn so far last, text cut or not:
\* CompactMessages never drops what is being worked on.
THEOREM CurrentTurnSentHolds == Spec => []CurrentTurnSent
<1>1. ConvInv => CurrentTurnSent
  <2> SUFFICES ASSUME ConvInv, NEW t \in Turns, pc[t] = "model"
               PROVE  LET q == Top(t).messages
                          n == Len(Top(t).current)
                      IN  /\ Len(q) > n
                          /\ q[1].role = "system"
                          /\ \A i \in 2..Len(q) : q[i].role # "system"
                          /\ CompactHistory(SubSeq(q, Len(q) - n + 1, Len(q)))
                               = CompactHistory(Top(t).current)
    BY DEF CurrentTurnSent
  <2>1. Stack(t, runs[t], results[t])
    BY DEF ConvInv, TurnOK
  <2>2. RunOK(t, Top(t))
    <3>1. Len(runs[t]) \in 1..Len(runs[t])
      BY <2>1, LenProperties DEF Stack
    <3> QED BY <2>1, <3>1 DEF Stack, Top, Depth
  <2>3. PICK q : q = Top(t).messages
    OBVIOUS
  <2>4. PICK own : own = Top(t).current
    OBVIOUS
  <2>5. Request(q) /\ Len(q) > Len(own) /\ Copied(own, q, Len(q) - Len(own))
    BY <2>2, <2>3, <2>4 DEF RunOK
  <2>6. CompactHistory(SubSeq(q, Len(q) - Len(own) + 1, Len(q))) = CompactHistory(own)
    BY <2>5, CopiedCompacts
  <2>7. q[1].role = "system" /\ \A i \in 2..Len(q) : q[i].role # "system"
    BY <2>5 DEF Request
  <2> QED BY <2>3, <2>4, <2>5, <2>6, <2>7
<1> QED BY <1>1, ConvInvAlways, PTL

OfTurn(s, t) == { i \in DOMAIN s : s[i].turn = t }

InOnePiece(t, s, a, q) ==
    /\ a + 1 \in DOMAIN s /\ a + Len(q) \in DOMAIN s /\ a + 1 < a + Len(q)
    /\ OfTurn(s, t) = (a + 1)..(a + Len(q))
    /\ s[a + 1].role = "user" /\ s[a + Len(q)] = Reply(t)
    /\ SubSeq(s, a + 1, a + Len(q)) = q

\* Where a stored turn is found again.
LEMMA StoredPlace ==
    ASSUME NEW t, NEW s \in Seq(Message), NEW a, NEW q, NEW res,
           StoredAt(t, s, a, q), FinalTurn(t, q, res)
    PROVE  InOnePiece(t, s, a, q)
<1>1. /\ q \in Seq(Message) /\ Len(q) \in Nat /\ Len(s) \in Nat /\ DOMAIN s = 1..Len(s)
      /\ Len(q) >= 2 /\ q[Len(q)] = Reply(t) /\ q[1].role = "user"
      /\ \A i \in 1..Len(q) : q[i].turn = t
  BY MessagesSeq DEF FinalTurn, OwnTurn
<1>2. /\ a \in Nat /\ a + Len(q) <= Len(s)
      /\ \A i \in 1..Len(q) : s[a + i] = q[i]
      /\ \A i \in 1..Len(s) : s[i].turn = t => a < i /\ i <= a + Len(q)
  BY DEF StoredAt
<1>3. a + 1 \in DOMAIN s /\ a + Len(q) \in DOMAIN s /\ a + 1 < a + Len(q)
  BY <1>1, <1>2
<1>4. ASSUME NEW i \in (a + 1)..(a + Len(q))
      PROVE  i \in DOMAIN s /\ s[i].turn = t
  <2>1. PICK k : k = i - a
    OBVIOUS
  <2>2. k \in 1..Len(q) /\ i = a + k /\ i \in 1..Len(s)
    BY <1>1, <1>2, <2>1
  <2> QED BY <1>1, <1>2, <2>2
<1>5. ASSUME NEW i \in DOMAIN s, s[i].turn = t
      PROVE  i \in (a + 1)..(a + Len(q))
  <2>1. i \in 1..Len(s)
    BY <1>1
  <2>2. a < i /\ i <= a + Len(q)
    BY <1>2, <1>5, <2>1
  <2> QED BY <1>1, <1>2, <2>1, <2>2
<1>6. OfTurn(s, t) = (a + 1)..(a + Len(q))
  BY <1>4, <1>5 DEF OfTurn
<1>7. s[a + 1].role = "user" /\ s[a + Len(q)] = Reply(t)
  <2>1. 1 \in 1..Len(q) /\ Len(q) \in 1..Len(q)
    BY <1>1
  <2> QED BY <1>1, <1>2, <2>1
<1>8. SubSeq(s, a + 1, a + Len(q)) = q
  <2>1. PICK b \in Nat : b = a + 1
    BY <1>2
  <2>2. PICK e \in Nat : e = a + Len(q)
    BY <1>1, <1>2
  <2>3. 1 <= b /\ b <= e + 1 /\ e <= Len(s) /\ e + 1 - b = Len(q) /\ b - 1 = a
    BY <1>1, <1>2, <2>1, <2>2
  <2>4. PICK p : p = SubSeq(s, b, e)
    OBVIOUS
  <2>5. /\ p \in Seq(Message) /\ Len(p) = e + 1 - b
        /\ \A i \in 1..(e + 1 - b) : p[i] = s[b - 1 + i]
    BY <2>3, <2>4, SubSeqCopied
  <2>6. Len(p) = Len(q) /\ \A i \in 1..Len(p) : p[i] = q[i]
    BY <1>2, <2>3, <2>5
  <2>7. p = q
    BY <1>1, <2>5, <2>6, SeqEqual
  <2> QED BY <2>1, <2>2, <2>4, <2>7
<1> QED BY <1>3, <1>6, <1>7, <1>8 DEF InOnePiece

\* The store keeps what was there, and gets each answered turn once and in one piece,
\* from the user's message to the reply, however turns overlap (persistCurrentTurn appends
\* under the lock of MemoryConversationStore); no failed one and no skill run alone.
THEOREM TurnsStoredWholeHolds == Spec => []TurnsStoredWhole
<1>1. ConvInv => TurnsStoredWhole
  <2> SUFFICES ASSUME ConvInv
               PROVE  TurnsStoredWhole
    OBVIOUS
  <2>1. /\ store \in Seq(Message) /\ past \in Seq(Message) /\ Len(past) <= Len(store)
        /\ \A i \in 1..Len(past) : store[i] = past[i]
    BY DEF ConvInv, StoreOK, Whole
  <2>2. Len(store) \in Nat /\ Len(past) \in Nat /\ DOMAIN store = 1..Len(store)
    BY <2>1, MessagesSeq
  <2>3. SubSeq(store, 1, Len(past)) = past
    <3>1. PICK n \in Nat : n = Len(past)
      BY <2>2
    <3>2. 1 \in Nat /\ 1 <= 1 /\ 1 <= n + 1 /\ n <= Len(store) /\ n + 1 - 1 = n
      BY <2>1, <2>2, <3>1
    <3>3. PICK p : p = SubSeq(store, 1, n)
      OBVIOUS
    <3>4. /\ p \in Seq(Message) /\ Len(p) = n + 1 - 1
          /\ \A i \in 1..(n + 1 - 1) : p[i] = store[1 - 1 + i]
      BY <2>1, <3>2, <3>3, SubSeqCopied
    <3>5. Len(p) = n /\ \A i \in 1..n : p[i] = store[i]
      <4>1. \A i \in 1..n : 1 - 1 + i = i
        OBVIOUS
      <4> QED BY <3>2, <3>4, <4>1
    <3>6. \A i \in 1..Len(p) : p[i] = past[i]
      BY <2>1, <3>1, <3>5
    <3> QED BY <2>1, <3>1, <3>3, <3>4, <3>5, <3>6, SeqEqual
  <2>4. ASSUME NEW t \in Turns
        PROVE  IF pc[t] = "done" /\ mode[t] = "agent"
               THEN \E first, last \in DOMAIN store :
                       /\ first < last
                       /\ At(t) = first..last
                       /\ store[first].role = "user"
                       /\ store[last] = Reply(t)
                       /\ Paired(SubSeq(store, first, last))
               ELSE At(t) = {}
    <3>1. Stored(t, pc[t], mode[t], results[t], store)
      BY DEF ConvInv
    <3>2. CASE pc[t] = "done" /\ mode[t] = "agent"
      <4>1. PICK a, q : StoredAt(t, store, a, q) /\ FinalTurn(t, q, results[t])
        BY <3>1, <3>2 DEF Stored
      <4>2. InOnePiece(t, store, a, q)
        BY <2>1, <4>1, StoredPlace
      <4>3. Paired(q)
        BY <4>1, WholeIsPaired DEF FinalTurn, Whole
      <4>4. PICK first, last : first = a + 1 /\ last = a + Len(q)
        OBVIOUS
      <4>5. /\ first \in DOMAIN store /\ last \in DOMAIN store /\ first < last
            /\ At(t) = first..last /\ store[first].role = "user"
            /\ store[last] = Reply(t) /\ Paired(SubSeq(store, first, last))
        BY <4>2, <4>3, <4>4 DEF At, OfTurn, InOnePiece
      <4> QED BY <3>2, <4>5
    <3>3. CASE ~(pc[t] = "done" /\ mode[t] = "agent")
      <4>1. At(t) = {}
        BY <2>2, <3>1, <3>3 DEF Stored, At
      <4> QED BY <3>3, <4>1
    <3> QED BY <3>2, <3>3
  <2> QED BY <2>1, <2>2, <2>3, <2>4 DEF TurnsStoredWhole
<1> QED BY <1>1, ConvInvAlways, PTL

Shifted(a, S) == { a + k : k \in S }

LEMMA ShiftedCard ==
    ASSUME NEW a \in Nat, NEW S \in SUBSET Nat, IsFiniteSet(S)
    PROVE  Cardinality(Shifted(a, S)) = Cardinality(S)
<1>1. PICK f : f = [k \in S |-> a + k]
  OBVIOUS
<1>2. f \in [S -> Shifted(a, S)]
  BY <1>1 DEF Shifted
<1>3. \A k, l \in S : f[k] = f[l] => k = l
  BY <1>1
<1>4. \A i \in Shifted(a, S) : \E k \in S : f[k] = i
  BY <1>1 DEF Shifted
<1>5. f \in Bijection(S, Shifted(a, S))
  BY <1>2, <1>3, <1>4 DEF Bijection, Injection, Surjection, IsInjective
<1>6. ExistsBijection(S, Shifted(a, S))
  BY <1>5 DEF ExistsBijection
<1> QED BY <1>6, FS_Bijection

\* The conversation remembers each result the agent's run got, in order and as it was: what
\* CompactContent truncates is truncated in requests only.
THEOREM ResultsRememberedHolds == Spec => []ResultsRemembered
<1>1. ConvInv => ResultsRemembered
  <2> SUFFICES ASSUME ConvInv, NEW t \in Turns, pc[t] = "done", mode[t] = "agent"
               PROVE  LET kept == { i \in At(t) : store[i].role = "tool" }
                      IN  /\ Cardinality(kept) = Len(results[t])
                          /\ \A i \in kept :
                                store[i]
                                  = results[t][Cardinality({ j \in kept : j <= i })]
    BY DEF ResultsRemembered
  <2>1. store \in Seq(Message)
    BY DEF ConvInv, StoreOK, Whole
  <2>2. PICK a, q : StoredAt(t, store, a, q) /\ FinalTurn(t, q, results[t])
    BY DEF ConvInv, Stored
  <2>3. At(t) = (a + 1)..(a + Len(q))
    <3>1. InOnePiece(t, store, a, q)
      BY <2>1, <2>2, StoredPlace
    <3> QED BY <3>1 DEF At, OfTurn, InOnePiece
  <2>4. /\ a \in Nat /\ q \in Seq(Message) /\ Len(q) \in Nat
        /\ \A k \in 1..Len(q) : store[a + k] = q[k]
        /\ Cardinality(ToolsIn(q)) = Len(results[t])
        /\ \A k \in ToolsIn(q) : q[k] = results[t][Cardinality(UpTo(ToolsIn(q), k))]
    BY <2>2, MessagesSeq DEF StoredAt, FinalTurn, Remembers
  <2>5. PICK S : S = ToolsIn(q)
    OBVIOUS
  <2>6. S \in SUBSET Nat /\ IsFiniteSet(S) /\ \A k \in S : k \in 1..Len(q)
    <3>1. IsFiniteSet(ToolsIn(q)) /\ ToolsIn(q) \in SUBSET (1..Len(q))
      BY <2>4, ToolsFinite
    <3> QED BY <2>4, <2>5, <3>1
  <2>7. PICK kept : kept = { i \in At(t) : store[i].role = "tool" }
    OBVIOUS
  <2>8. kept = Shifted(a, S)
    <3>1. ASSUME NEW i \in kept
          PROVE  i \in Shifted(a, S)
      <4>1. PICK k : k = i - a
        OBVIOUS
      <4>2. k \in 1..Len(q) /\ i = a + k
        BY <2>3, <2>4, <2>7, <4>1
      <4>3. k \in S
        BY <2>4, <2>5, <2>7, <4>2 DEF ToolsIn
      <4> QED BY <4>2, <4>3 DEF Shifted
    <3>2. ASSUME NEW k \in S
          PROVE  a + k \in kept
      <4>1. k \in 1..Len(q) /\ q[k].role = "tool"
        BY <2>5 DEF ToolsIn
      <4>2. a + k \in (a + 1)..(a + Len(q))
        BY <2>4, <4>1
      <4> QED BY <2>3, <2>4, <2>7, <4>1, <4>2
    <3> QED BY <3>1, <3>2 DEF Shifted
  <2>9. Cardinality(kept) = Len(results[t])
    BY <2>4, <2>5, <2>6, <2>8, ShiftedCard
  <2>10. ASSUME NEW i \in kept
         PROVE  store[i] = results[t][Cardinality({ j \in kept : j <= i })]
    <3>1. PICK k \in S : i = a + k
      BY <2>8 DEF Shifted
    <3>2. PICK U : U = UpTo(S, k)
      OBVIOUS
    <3>3. U \in SUBSET Nat /\ IsFiniteSet(U)
      BY <2>4, <2>5, <2>6, <3>2, ToolsFinite DEF UpTo
    <3>4. { j \in kept : j <= i } = Shifted(a, U)
      <4>1. \A l \in S : a + l <= i <=> l <= k
        BY <2>4, <2>6, <3>1
      <4> QED BY <2>8, <3>2, <4>1 DEF Shifted, UpTo
    <3>5. Cardinality({ j \in kept : j <= i }) = Cardinality(U)
      BY <2>4, <3>3, <3>4, ShiftedCard
    <3>6. store[i] = q[k]
      BY <2>4, <2>6, <3>1
    <3>7. q[k] = results[t][Cardinality(U)]
      BY <2>4, <2>5, <3>2
    <3> QED BY <3>5, <3>6, <3>7
  <2> QED BY <2>7, <2>9, <2>10
<1> QED BY <1>1, ConvInvAlways, PTL
=============================================================================
