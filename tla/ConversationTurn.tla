-------------------------- MODULE ConversationTurn --------------------------
(***************************************************************************)
(* The turns of one conversation in the AI orchestrator                    *)
(* (internal/aiorchestrator/application): service.go HandleEvent and       *)
(* generateReply, the loop of model and tool calls                         *)
(* (prompt_tool_executor.go), skills called as tools (skill_execution.go)  *)
(* and the conversation store (memory_conversation_store.go).              *)
(*                                                                         *)
(* Each event is handled by a goroutine of its own, and nothing orders two *)
(* events of one session: a turn reads the conversation when it begins,    *)
(* and appends to it, under the store's lock, when it has succeeded.       *)
(*                                                                         *)
(* The model is a choice: it replies, or calls some of the functions, and  *)
(* it may call one that does not exist. Without tools (the final answer)   *)
(* it replies, as the tool choice "none" asks of it.                       *)
(***************************************************************************)
EXTENDS ContextEngine

CONSTANTS Histories,     \* what earlier turns may have left in the store
          Tools, Skills, \* the calls the agent's tools and skills take
          CallLists,     \* the lists of calls a model's message may hold
          Sizes,         \* what user texts and tool results may cost
          MaxIterations, \* iterations of model and tools, for the agent's run
          SkillIterations \* and for a skill's

\* Providers refuse a request in which a call has no result or a result no call:
\* a message with calls is followed by one result for each, in their order, and a
\* result comes nowhere else.
Paired(q) ==
    /\ \A i \in DOMAIN q :
          \A k \in DOMAIN q[i].calls :
             /\ i + k <= Len(q)
             /\ q[i + k].role = "tool"
             /\ q[i + k].answers = q[i].calls[k]
    /\ \A j \in DOMAIN q :
          q[j].role = "tool" =>
             \E i \in 1..(j - 1) : j - i <= Len(q[i].calls)

\* What the store holds when nothing but whole turns was ever appended to it: a call is
\* made by the assistant, and AppendMessages leaves system messages out.
Conversation(q) ==
    /\ q \in Seq(Message)
    /\ Paired(q)
    /\ \A i \in DOMAIN q : q[i].role # "system"
    /\ \A i \in DOMAIN q : q[i].calls # <<>> => q[i].role = "assistant"

ASSUME ConversationAssumption ==
    /\ \A h \in Histories : Conversation(h) /\ \A i \in DOMAIN h : h[i].turn = Past
    /\ Tools \subseteq CallIds /\ Skills \subseteq CallIds /\ Tools \cap Skills = {}
    /\ CallLists \subseteq Seq(CallIds) \ {<<>>}
    /\ Sizes \subseteq Nat \ {0}
    /\ MaxIterations \in Nat \ {0} /\ SkillIterations \in Nat \ {0}

VARIABLES store,  \* MemoryConversationStore.messages of the session
          past,   \* history: what the store held before
          pc,     \* where each turn is
          mode,   \* whether it runs the agent, or one skill of it
          runs,   \* the executePromptToolRun calls it is in, innermost last
          results \* history: the results each agent run got for its calls

vars == <<store, past, pc, mode, runs, results>>

(***************************************************************************)
(* One executePromptToolRun. fresh is what executeToolCalls has appended   *)
(* in this iteration, pending the calls it has not made yet.               *)
(***************************************************************************)
Run == [ messages  : Seq(Message),
         current   : Seq(Message),
         fresh     : Seq(Message),
         pending   : Seq(CallIds),
         iteration : Nat,
         limit     : Nat,
         skills    : BOOLEAN ]

NewRun(user, history, limit, skills) ==
    [ messages  |-> Assemble(user, history),
      current   |-> <<user>>,
      fresh     |-> <<>>,
      pending   |-> <<>>,
      iteration |-> 0,
      limit     |-> limit,
      skills    |-> skills ]

PC == {"new", "model", "tools", "persist", "done", "failed"}

Init ==
    /\ past \in Histories
    /\ store = past
    /\ pc = [t \in Turns |-> "new"]
    /\ mode = [t \in Turns |-> "agent"]
    /\ runs = [t \in Turns |-> <<>>]
    /\ results = [t \in Turns |-> <<>>]

Depth(t) == Len(runs[t])
Top(t)   == runs[t][Depth(t)]

Goto(t, l, stack) ==
    /\ pc' = [pc EXCEPT ![t] = l]
    /\ runs' = [runs EXCEPT ![t] = stack]

\* An error ends the turn: it is answered with the error and not stored.
Fail(t) == Goto(t, "failed", <<>>)
-----------------------------------------------------------------------------
(* generateReply. An event that asks for one skill gets no history, is not *)
(* stored, and can call the skill's tools but no skill.                    *)

LoadMessages == BoundHistory(store)

Begin(t) ==
    /\ pc[t] = "new"
    /\ \E size \in Sizes :
          Goto(t, "model", <<NewRun(User(t, size), LoadMessages, MaxIterations, TRUE)>>)
    /\ UNCHANGED <<store, past, mode, results>>

BeginSkill(t) ==
    /\ pc[t] = "new"
    /\ mode' = [mode EXCEPT ![t] = "skill"]
    /\ \E size \in Sizes :
          Goto(t, "model", <<NewRun(User(t, size), <<>>, SkillIterations, FALSE)>>)
    /\ UNCHANGED <<store, past, results>>

\* The agent's configuration or the conversation cannot be loaded.
BeginFails(t) ==
    /\ pc[t] = "new"
    /\ Fail(t)
    /\ UNCHANGED <<store, past, mode, results>>
-----------------------------------------------------------------------------
(* executeToolCalls: one call after the other.                             *)

\* Mutation of Answered: the turn is collected after compaction.
AnsweredCompacted(run, m) ==
    LET fresh    == Append(run.fresh, m)
        messages == CompactMessages(run.messages \o fresh)
    IN  IF Len(run.pending) > 1
        THEN [run EXCEPT !.fresh = fresh, !.pending = Tail(@)]
        ELSE [run EXCEPT !.messages  = messages,
                         !.current   = @ \o SubSeq(messages, Len(messages) - Len(fresh) + 1,
                                                   Len(messages)),
                         !.fresh     = <<>>,
                         !.pending   = <<>>,
                         !.iteration = @ + 1]

\* The answer to the first pending call. After the last one the new messages
\* join the turn, and the request is compacted.
Answered(run, m) ==
    LET fresh == Append(run.fresh, m)
    IN  IF Len(run.pending) > 1
        THEN [run EXCEPT !.fresh = fresh, !.pending = Tail(@)]
        ELSE [run EXCEPT !.messages  = CompactMessages(@ \o fresh),
                         !.current   = @ \o fresh,
                         !.fresh     = <<>>,
                         !.pending   = <<>>,
                         !.iteration = @ + 1]

AfterAnswer(run) == IF Len(run.pending) > 1 THEN "tools" ELSE "model"

\* The history variable only follows the agent's run.
Record(t, depth, m) ==
    results' = IF depth = 1 THEN [results EXCEPT ![t] = Append(@, m)] ELSE results

ExecuteTool(t) ==
    /\ pc[t] = "tools"
    /\ LET run == Top(t)
           c   == Head(run.pending)
       IN  /\ c \in Tools
           /\ \E size \in Sizes :
                 LET m == Answer(t, c, size)
                 IN  /\ Goto(t, AfterAnswer(run),
                             [runs[t] EXCEPT ![Depth(t)] = Answered(run, m)])
                     /\ Record(t, Depth(t), m)
    /\ UNCHANGED <<store, past, mode>>

EnterSkill(t) ==
    /\ pc[t] = "tools"
    /\ Head(Top(t).pending) \in Skills
    /\ Top(t).skills
    /\ \E size \in Sizes :
          Goto(t, "model",
               Append(runs[t], NewRun(User(t, size), <<>>, SkillIterations, FALSE)))
    /\ UNCHANGED <<store, past, mode, results>>

\* Mutation of CallFails: a function that does not exist is not an error.
CallFailsKnown(t) ==
    /\ pc[t] = "tools"
    /\ Head(Top(t).pending) \in Tools
    /\ Fail(t)
    /\ UNCHANGED <<store, past, mode, results>>

\* The function does not exist, or the tool runtime returns an error: the calls
\* before it, and perhaps the one that failed, have acted.
CallFails(t) ==
    /\ pc[t] = "tools"
    /\ \/ Head(Top(t).pending) \in Tools
       \/ ~(Head(Top(t).pending) \in Skills /\ Top(t).skills)
    /\ Fail(t)
    /\ UNCHANGED <<store, past, mode, results>>
-----------------------------------------------------------------------------
(* executePromptToolRun: the model's answers.                              *)

ModelCalls(t) ==
    /\ pc[t] = "model"
    /\ Top(t).iteration < Top(t).limit
    /\ \E calls \in CallLists :
          Goto(t, "tools",
               [runs[t] EXCEPT ![Depth(t)].fresh   = <<Calling(t, calls)>>,
                               ![Depth(t)].pending = calls])
    /\ UNCHANGED <<store, past, mode, results>>

\* Without a call, or after the last iteration, the run returns its reply. A
\* skill's reply is the answer to the call that entered the skill.
RunReplies(t) ==
    /\ pc[t] = "model"
    /\ Depth(t) = 1
    /\ Goto(t, IF mode[t] = "agent" THEN "persist" ELSE "done",
            [runs[t] EXCEPT ![1].messages = Append(@, Reply(t)),
                            ![1].current  = Append(@, Reply(t))])
    /\ UNCHANGED <<store, past, mode, results>>

SkillReplies(t) ==
    /\ pc[t] = "model"
    /\ Depth(t) > 1
    /\ LET outer == SubSeq(runs[t], 1, Depth(t) - 1)
           run   == outer[Depth(t) - 1]
       IN  \E size \in Sizes :
              LET m == Answer(t, Head(run.pending), size)
              IN  /\ Goto(t, AfterAnswer(run),
                          [outer EXCEPT ![Depth(t) - 1] = Answered(run, m)])
                  /\ Record(t, Depth(t) - 1, m)
    /\ UNCHANGED <<store, past, mode>>

ModelFails(t) ==
    /\ pc[t] = "model"
    /\ Fail(t)
    /\ UNCHANGED <<store, past, mode, results>>
-----------------------------------------------------------------------------
(* persistCurrentTurn.                                                     *)

\* Mutation of Persist: the store is set to the history the turn began with,
\* and the turn.
PersistFromRequest(t) ==
    /\ pc[t] = "persist"
    /\ store' = SelectSeq(Top(t).messages, LAMBDA m : m.role # "system" /\ m.turn # t)
                  \o Top(t).current
    /\ Goto(t, "done", <<>>)
    /\ UNCHANGED <<past, mode, results>>

Persist(t) ==
    /\ pc[t] = "persist"
    /\ store' = store \o Top(t).current
    /\ Goto(t, "done", <<>>)
    /\ UNCHANGED <<past, mode, results>>

PersistFails(t) ==
    /\ pc[t] = "persist"
    /\ Fail(t)
    /\ UNCHANGED <<store, past, mode, results>>
-----------------------------------------------------------------------------
Step(t) ==
    \/ ModelFails(t) \/ ModelCalls(t) \/ RunReplies(t) \/ SkillReplies(t)
    \/ CallFails(t) \/ EnterSkill(t) \/ ExecuteTool(t)
    \/ PersistFails(t) \/ Persist(t)

Next == \E t \in Turns : Begin(t) \/ BeginSkill(t) \/ BeginFails(t) \/ Step(t)

Spec == Init /\ [][Next]_vars

\* The HTTP clients of the model and of the tools have timeouts: a call returns.
FairSpec == Spec /\ \A t \in Turns : WF_vars(Step(t))
-----------------------------------------------------------------------------
\* Every request to the model is paired, wherever the limits on messages and
\* tokens cut the history, and whatever the compaction of the run dropped.
RequestsPaired ==
    \A t \in Turns : pc[t] = "model" => Paired(Top(t).messages)

\* Every request begins with the system prompt and ends with the whole turn so
\* far, the user's message first: compaction never drops what is being worked on.
CurrentTurnSent ==
    \A t \in Turns : pc[t] = "model" =>
       LET q == Top(t).messages
           n == Len(Top(t).current)
       IN  /\ Len(q) > n
           /\ q[1].role = "system"
           /\ \A i \in 2..Len(q) : q[i].role # "system"
           /\ CompactHistory(SubSeq(q, Len(q) - n + 1, Len(q)))
                = CompactHistory(Top(t).current)

\* A request is within the budget, or has no history left to drop: only the
\* system prompt and the turn itself may overrun it.
HistoryWithinBudget ==
    \A t \in Turns : pc[t] = "model" =>
       \/ EstimateTokens(Top(t).messages) <= MaxTokens
       \/ Len(Top(t).messages) = Len(Top(t).current) + 1

At(t) == { i \in DOMAIN store : store[i].turn = t }

\* The stored conversation is what was there and whole turns: one of a turn that
\* was answered is there once, in one piece, from the user's message to the reply,
\* however turns overlapped; one that failed, or ran a skill alone, is not.
TurnsStoredWhole ==
    /\ Len(store) >= Len(past)
    /\ SubSeq(store, 1, Len(past)) = past
    /\ \A t \in Turns :
          IF pc[t] = "done" /\ mode[t] = "agent"
          THEN \E first, last \in DOMAIN store :
                  /\ first < last
                  /\ At(t) = first..last
                  /\ store[first].role = "user"
                  /\ store[last] = Reply(t)
                  /\ Paired(SubSeq(store, first, last))
          ELSE At(t) = {}

\* The conversation remembers each result the agent's run got from its tools and
\* skills, in order and as it was: what is truncated is truncated in requests only.
ResultsRemembered ==
    \A t \in Turns : pc[t] = "done" /\ mode[t] = "agent" =>
       LET kept == { i \in At(t) : store[i].role = "tool" }
       IN  /\ Cardinality(kept) = Len(results[t])
           /\ \A i \in kept :
                 store[i] = results[t][Cardinality({ j \in kept : j <= i })]

\* Every turn ends, however often the model asks for tools: the iterations of a
\* run are counted, and a skill cannot call a skill.
TurnsEnd == \A t \in Turns : pc[t] # "new" ~> pc[t] \in {"done", "failed"}
=============================================================================
