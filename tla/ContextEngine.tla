---------------------------- MODULE ContextEngine ----------------------------
(***************************************************************************)
(* The messages of a conversation and the functions that fit them into a   *)
(* model's context (internal/contextengine/assembler.go).                  *)
(*                                                                         *)
(* A message's text is its estimated cost in tokens. Call ids are what the *)
(* model made up: the same id may come back in a later message.            *)
(***************************************************************************)
EXTENDS Integers, Sequences, FiniteSets, FiniteSetsExt

CONSTANTS CallIds,             \* the ids of tool calls
          NoCall,              \* a message that answers no call
          Turns,               \* the user turns (events) that are handled
          Past,                \* the turn of messages that were stored before
          SystemSize,          \* the cost of the system prompt
          MaxHistoryMessages, MaxTokens, MaxToolResult, MaxText,  \* Policy
          Marker               \* the cost of the note that text was truncated

ASSUME CallAssumption == NoCall \notin CallIds
ASSUME TurnAssumption == Past \notin Turns
ASSUME PolicyAssumption ==
    /\ SystemSize \in Nat \ {0} /\ Marker \in Nat
    /\ {MaxHistoryMessages, MaxTokens, MaxToolResult, MaxText} \subseteq Nat \ {0}

\* turn is no field of the code's message: the properties tell turns apart by it.
Message == [ role    : {"system", "user", "assistant", "tool"},
             turn    : Turns \cup {Past},
             calls   : Seq(CallIds),
             answers : CallIds \cup {NoCall},
             size    : Nat \ {0} ]

Plain(role, t, size) ==
    [role |-> role, turn |-> t, calls |-> <<>>, answers |-> NoCall, size |-> size]

System             == Plain("system", Past, SystemSize)
User(t, size)      == Plain("user", t, size)
Reply(t)           == Plain("assistant", t, 1)
Calling(t, calls)  == [Reply(t) EXCEPT !.calls = calls]
Answer(t, c, size) == [Plain("tool", t, size) EXCEPT !.answers = c]
-----------------------------------------------------------------------------
Cost(m) == m.size + Len(m.calls)

EstimateTokens(q) ==
    LET total[i \in 0..Len(q)] == IF i = 0 THEN 0 ELSE total[i - 1] + Cost(q[i])
    IN  total[Len(q)]

\* The suffix of q from the lowest of a set of positions; empty when there is none.
From(q, S) == SubSeq(q, Min(S \cup {Len(q) + 1}), Len(q))

BoundHistory(q) == From(q, { i \in DOMAIN q : Len(q) - i < MaxHistoryMessages })

\* What was truncated is over the limit again: the next time it is cut to the
\* same size, the note on top.
CompactContent(m) ==
    LET limit == IF m.role = "tool" THEN MaxToolResult ELSE MaxText
    IN  IF m.size > limit THEN [m EXCEPT !.size = limit + Marker] ELSE m

CompactHistory(q) == [ i \in DOMAIN q |-> CompactContent(q[i]) ]

DropLeadingToolMessages(q) == From(q, { i \in DOMAIN q : q[i].role # "tool" })

\* Mutation of SelectHistoryWithinBudget: tool results may come first.
SelectAnyWithinBudget(q, budget) ==
    IF budget <= 0 THEN <<>>
    ELSE From(q, { i \in DOMAIN q : EstimateTokens(SubSeq(q, i, Len(q))) <= budget })

\* Whole messages from the newest back, while they fit.
SelectHistoryWithinBudget(q, budget) ==
    IF budget <= 0 THEN <<>>
    ELSE DropLeadingToolMessages(
           From(q, { i \in DOMAIN q : EstimateTokens(SubSeq(q, i, Len(q))) <= budget }))

\* Mutation of Assemble: the history gets the whole budget.
AssembleWithoutFixed(user, history) ==
    LET h == CompactHistory(BoundHistory(history))
    IN  <<System>> \o SelectHistoryWithinBudget(h, MaxTokens) \o <<user>>

Assemble(user, history) ==
    LET h      == CompactHistory(BoundHistory(history))
        budget == MaxTokens - EstimateTokens(<<System, user>>)
    IN  <<System>> \o SelectHistoryWithinBudget(h, budget) \o <<user>>
-----------------------------------------------------------------------------
(* CompactMessages: after tools were called, the request so far is reduced *)
(* to the system prompt, what still fits of the history, and a tail that   *)
(* is kept whole: the latest user message and all that follows it.         *)

RuntimeTailStart(q) ==
    LET n     == Len(q)
        tools == { i \in DOMAIN q : \A j \in i..n : q[j].role = "tool" }
        first == Min(tools)
    IN  IF tools = {} THEN n
        ELSE IF first > 1 /\ q[first - 1].role = "assistant" THEN first - 1
        ELSE first

\* Mutation of TailStart: no user message anchors the tail.
TailUnanchored(q) == RuntimeTailStart(q)

TailStart(q) ==
    LET users == { i \in 2..(RuntimeTailStart(q) - 1) : q[i].role = "user" }
    IN  IF users # {} THEN Max(users) ELSE RuntimeTailStart(q)

CompactMessages(messages) ==
    LET q      == CompactHistory(messages)
        tail   == SubSeq(q, TailStart(q), Len(q))
        middle == SubSeq(q, 2, TailStart(q) - 1)
        budget == MaxTokens - EstimateTokens(<<q[1]>> \o tail)
    IN  IF Len(q) <= 2 THEN q
        ELSE <<q[1]>> \o SelectHistoryWithinBudget(middle, budget) \o tail
=============================================================================
