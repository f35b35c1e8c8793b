--------------------------- MODULE AgentServices ---------------------------
(***************************************************************************)
(* Three services at work together: a supervisor run (agent flow runtime), *)
(* tool calls (agent runtime) and the operations they invoke (connector    *)
(* service), each in a process of its own, over HTTP.                      *)
(*                                                                         *)
(* A call comes from an event of its own, or from the agent that executes  *)
(* a tool or skill action of the run: planning and final answers disable   *)
(* tools. The agent's answer may come after its calls have returned, or    *)
(* be given up while they go on.                                           *)
(***************************************************************************)
EXTENDS Supervisor, ToolExecution

CONSTANTS Loads,     \* the flow that is executed, if any, and the calls that are made
          FromRun    \* the calls an agent of the run makes

ASSUME LoadsAssumption ==
    \A load \in Loads :
       /\ load.calls \subseteq Calls
       /\ load.flow # NoFlow => /\ IsGraph(load.flow.graph)
                               /\ load.flow.maxDepth \in Int /\ load.flow.maxCalls \in Int

vars == <<faults, supervisorVars, invokerVars, executionVars>>

Init ==
    /\ FaultsInit /\ InvokerInit
    /\ \E load \in Loads : SupervisorInit(load.flow) /\ ExecutionInit(load.calls)

\* The invoker is asked by tools, whose steps name what they change of it.
Start(c) ==
    /\ c \in FromRun => phase = "running" /\ Top.at \in {"tool", "skill"}
    /\ ExecuteTool(c) /\ UNCHANGED <<supervisorVars, invokerVars>>

ToolStep(c) ==
    \/ ResolveTool(c) /\ UNCHANGED supervisorVars
    \/ (RunWorkflow(c) \/ RunPython(c) \/ CallMCP(c) \/ Retrieve(c)) /\ UNCHANGED supervisorVars
    \/ AdapterReturns(c) /\ UNCHANGED supervisorVars
    \/ Finish(c) /\ UNCHANGED <<supervisorVars, invokerVars>>

ConnectorStep(c) == InvocationStep(c) /\ NoFault /\ UNCHANGED <<supervisorVars, executionVars>>

\* An agent answers when the calls it made have returned; a failure needs not wait.
Quiet == \A c \in FromRun : progress[c] \in {"absent", "idle", "returned"}

RunStep ==
    /\ SupervisorStep \/ StepFails \/ (Quiet /\ AgentAnswers)
    /\ UNCHANGED <<invokerVars, executionVars>>

Next == RunStep \/ \E c \in Calls : Start(c) \/ ToolStep(c) \/ ConnectorStep(c)

(***************************************************************************)
(* Fairness: a service that can go on does. Every request ends: it is      *)
(* answered, or its client's timeout ends it (operation.TimeoutMillis or   *)
(* 10 s, the clients of agents and catalogs 60 s and 10 s). The client of  *)
(* a connector tool has no timeout: without one of the tool's, the request *)
(* ends because the connector service answers, whose own requests end. A   *)
(* lock that is free is handed to a waiter; that calls are finitely many   *)
(* keeps anyone from waiting for ever. An invocation is a process of its   *)
(* own: it goes on when its caller has given up, and its wait for a lock   *)
(* has no limit. No fairness is assumed of calls being made.               *)
(***************************************************************************)
Spec ==
    /\ Init /\ [][Next]_vars
    /\ WF_vars(RunStep)
    /\ \A c \in Calls : WF_vars(ToolStep(c)) /\ WF_vars(ConnectorStep(c))

-----------------------------------------------------------------------------
(***************************************************************************)
(* Properties                                                              *)
(***************************************************************************)
\* The business systems carry a call out at most once: an operation is sent again only
\* when its token was refused, and whatever else fails, a timeout included, no service
\* asks again. And no call is answered as done that was not, mock operations aside.
EffectsOnce ==
    \A c \in Calls :
       /\ effects[c] <= 1
       /\ given[c] = "ok" => \/ effects[c] = 1
                             \/ operation[c] # NoToken /\ operation[c].mode = "mock"

\* Once a call has returned, the record at its id says what its caller was told, unless it
\* could not be stored or another call came with the same id; and no record says
\* "started" of a call that is over.
CallsAccounted ==
    /\ \A c \in Calls : progress[c] = "returned" /\ c \notin unstored =>
          LET record == records[Id(c)]
          IN IF record.call = c
             THEN record.status = IF given[c] = "ok" THEN "succeeded" ELSE "failed"
             ELSE Id(record.call) = Id(c)
    /\ \A i \in Ids : records[i] # NoRecord /\ records[i].status = "started"
          => progress[records[i].call] # "returned" \/ records[i].call \in unstored

\* What the shared token providers hand out stays with its credential. A request carries
\* a token of its own operation's credential. And as long as some refresh token or code of
\* a credential is good, what is presented to the authorization server is that one, not
\* one that was used up already, unless the provider was made to forget: by another
\* credential, a reset, or an answer that was lost. Nothing is good any more once the
\* server has answered a code without a refresh token: the code, which the provider's
\* comment says is exchanged once, is then presented at every expiry.
CredentialsKept ==
    \A c \in Calls :
       /\ at[c] = "send" /\ operation[c].auth # "none" => token[c].credential = Credential(c)
       /\ at[c] \in {"app", "exchange"} =>
             /\ mutex[Ours(c)] = c
             /\ presents[c].credential = Credential(c)
             /\ Ours(c) = "user" /\ live[Credential(c)] # NoToken =>
                   presents[c].number = live[Credential(c)] \/ Credential(c) \in forgot

\* The steps an execution makes at most when d levels are below it, within these limits.
StepsAtMost(limits) ==
    LET steps[d \in 0..limits.maxDepth] ==
            2 + limits.maxCalls * (IF d = 0 THEN 1 ELSE MaxOf({1, steps[d - 1]}))
    IN steps

\* A graph that was accepted is executed without meeting a limit: the checks of depth and
\* recursion inside the recursion never fail, whatever the configured depth and whatever
\* the models plan. And a run makes no more steps than its caps allow: an execution has
\* two steps of its own and at most maxCalls actions, and the depth is bounded.
WithinLimits ==
    /\ err # "limit"
    /\ config # NoFlow /\ config.maxCalls > 0 =>
          Len(nodeRuns) <= StepsAtMost(config)[config.maxDepth]

\* What is stored of a run is what happened to it: it is stored as succeeded exactly when
\* its caller was told so, and then each of its steps is, too; and a step is left as
\* running only if it is the last, where a write failed and the caller got an error.
RunTellsSteps ==
    /\ phase = "returned" => (run = "succeeded") = (err = "none")
    /\ run = "succeeded" => \A i \in DOMAIN nodeRuns : nodeRuns[i].status = "succeeded"
    /\ \A i \in DOMAIN nodeRuns : nodeRuns[i].status = "running" =>
          /\ i = Len(nodeRuns)
          /\ IF phase = "running" THEN Top.at \in Steps
             ELSE faults > 0 /\ err \in {"agent", "store"}

\* Whatever is lost, refused or late, each run and each call that was started comes back
\* to its caller; and so does each invocation, though nobody may wait for it any more: no
\* lock of a token provider is left behind, at which it would wait for ever.
AllReturn ==
    /\ phase = "running" ~> phase = "returned"
    /\ \A c \in Calls : progress[c] = "started"
          ~> progress[c] = "returned" /\ at[c] \in {"idle", "backend", "answered"}
=============================================================================
