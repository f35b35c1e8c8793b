# Flow Anything: formal models

TLA+ models of the parts of Flow Anything in which order, concurrency and
failure matter: the engines that run flows, workflows and agent flows; the
supervisor that lets agents plan for each other; the services that carry their
tool calls out and hold the tokens these are sent with; the registry all of them
are configured in; the turns of a conversation with its model and tools; and the
broker that streams what happens to consoles. The models are translated from the
Go code, checked with TLC on small instances and, for the main properties, proved
with TLAPS for every instance. Paths below are relative to `src/`.

 1. The system
 2. Components: state, operations, hard behaviours, properties
 3. Modules and how they correspond to the code
 4. Runs, bounds and what they show
 5. Fairness
 6. Proofs
 7. Findings and observations
 8. What is not modelled
 9. Plan

## 1. The system

Seven services and a mock talk HTTP and JSON (`cmd/*`); within a process they
are layered into `domain`, `application`, `infrastructure` and `interfaces`.

    client/channel -> ai-orchestrator -> model-gateway -> model providers
                          |  |   \-> knowledge-service
                          |  \-> agent-flow-runtime (agent flows, supervisor)
                          \-> agent-runtime (tools) -> connector-service -> APIs
    console <-SSE- live events of ai-orchestrator
    console -> platform-api (SQLite registry: agents, skills, tools, flows)
    agent-runtime and platform-api -> workflow runtime -> internal/flowengine

`core/` is a second generation of the runtime (`core/flowengine`,
`core/workflow`, `core/agentcore`, `core/tools`, `core/trace`) that nothing in
`cmd/` or `internal/` imports yet. Its stateful flow engine is the only part of
the repository with durable execution state.

All shared state is in memory behind one mutex per store (instances,
conversations, traces, execution records, live events, documents, tokens), except
the registry, which is SQL. A store's method is atomic; a read followed by a write
is not, and that is where most of the hazards are. The token providers of the
connector service are the exception: they hold their lock across HTTP requests.

## 2. Components

The list with its source files is in `PROJECT.json`; this is what each keeps and
what makes it correct.

**Core stateful flow engine** (`core/flowengine/stateful_executor.go`,
`instance.go`, `store.go`). *State:* the stored `FlowInstance` of an instance
id (status, tokens, node states, joins, wait conditions) and the clone each call
in progress works on. *Operations:* `Start`, `RunUntilBlocked`, `Resume`; the
store's `Create`, `Get`, `Save`. *Hard:* concurrent calls on one instance (nothing
compares `Version`), a call that dies between a node's effect and the save, an event
of the log that could not be appended, an event that matches several tokens and fails half-way, tokens that reach a join
twice, in any order or after it fired. *Correct when:* every copy of an instance is
consistent (no stuck token, the status tells the tokens, a join waits for all its
sources and fires once), an effect happens once per token unless a call died,
applied events stay applied, calls return.

**Core stateless flow executor** (`core/flowengine/executor.go`). A queue over one
flow; a node runs when it is first reached; `MaxNodeExecutions` bounds it.
*Correct when:* it visits each reachable node, not more than the limit.

**Workflow wave engine** (`internal/flowengine`). *State:* the maps `scheduled`,
`started`, `completed` and the context of a run; the run store. *Operations:*
`Execute`; a goroutine per node of a wave. *Hard:* the interleaving of a wave's
goroutines, the merge order, conditions read in the middle of a merge, errors
while siblings still run, step limits that are compared between waves, store
writes that fail. *Correct when:* each scheduled node runs once, a join waits for
the branches that lead to it, the run never sticks, a finished run is quiet and
its records tell the truth.

**Agent flow executor** (`internal/agentflow/application/executor.go`). The engine
the wave engine was extracted from, with the same loop; it accepts cycles, does not
check the next nodes an agent names against the edges, and has fewer executors.
**Agent flow adapter and agent nodes** (`flowengine_adapter.go`,
`agent_node_executor.go`) choose the engine of an agent flow, convert its graph, and
turn an agent's text into next nodes and context writes. *Hard:* a model decides
where the run goes, and may name anything; a routing key that is present but empty.
*Correct when:* a run leaves along the drawn edges only, and its end tells where it
has been.

**Supervisor runner and action plans** (`supervisor_runner.go`,
`agentorchestration/action.go`). *State:* the recursion's frames, the run and its
node runs. *Operations:* `Execute`; planning, tool and skill actions, child agents,
final answers. *Hard:* a plan is whatever the model wrote; limits are checked before
the run, on the graph, and again within it; children multiply; a run store that
fails between an answer and its record. *Correct when:* an accepted graph never meets
a limit, the steps are bounded, and the stored run says what was done.

**Agent runtime** (`internal/agentruntime`). *State:* execution records by call
id. *Operations:* `ExecuteTool` with its lookup, checks, five adapters, deadline and
recorder. *Hard:* a timeout that races the answer, two calls with one id, a recorder
that fails. *Correct when:* a record's final status is the one reported to the
caller, and nothing is done twice.

**Connector service** (`internal/connector`). *State:* the single slot of each of the
two token providers, under the provider's lock. *Operations:* `Invoke`, taking,
refreshing and exchanging tokens, the reset and retry after a refused token. *Hard:*
several credentials over one slot, refresh tokens that are used up by an exchange
whose answer is lost, a retry of what was already done, a lock left behind.
*Correct when:* a request carries a token of its own credential, what is presented is
good as long as something is, unless the provider was made to forget, a request is
repeated only if it was refused.

**Platform API** (`internal/platformapi`). *State:* seven tables of the registry.
*Operations:* create, update and set the status of agents, agent flows, workflows,
tools, skills, connectors and operations; import of operations as tools; dependency
reports. *Hard:* a call is several statements without a transaction, others save
between them, and a call that dies keeps what it saved; defaults are inherited from a
row that may have changed. *Correct when:* what is stored is valid and leads
somewhere, an enabled supervisor is bounded, imports make one tool per operation (they
do not always: section 7).

**Live event broker** (`internal/platform/kernel/runtimeevents`). *State:* per
trace a bounded history and a set of channels. *Operations:* `Publish`,
`Subscribe` with a replay goroutine, cancel; the SSE handler. *Hard:* a
subscription during publication, sends after the unlock, full channels, clients
that leave. *Correct when:* no event is sent twice or lost without one of the
two allowed reasons, each source is in order, publishers never wait, nothing leaks.

**AI orchestrator** (`internal/aiorchestrator`) with the **context engine**
(`internal/contextengine`). *State:* the conversation store and the trace store.
*Operations:* `HandleEvent`: load, assemble, loop over model and tools, append the
turn. *Hard:* two events of one session, tool calls and results cut apart by the
history budget or by compaction, the tool-iteration cap, a turn that fails after
its tools acted. *Correct when:* every model request pairs each tool call with its
result and keeps the turn in progress, the history gives way to the budget, turns
are stored whole and once with the results as the tools gave them.

**Workflow runtime** (`internal/workflowruntime`). Loads a workflow, runs it in the
wave engine with executors for its node types, replays runs; transform functions.

**Knowledge service, model gateway, core agent strategies, core tools, core trace,
kernel**: pure conversions or sequential strategies around external calls; see
section 8.

## 3. Modules

| Module | Models | Kind |
|---|---|---|
| `FlowInstance` | a flow, a `FlowInstance` and the functions of `StatefulExecutor` on one copy of it | operators |
| `StatefulFlow` | callers, store and copies: the three calls as steps, with aborts | state machine |
| `TokenNet` | what a flow promises: how many tokens live at each place of it | abstract specification |
| `FlowNet` | the stored instance of `StatefulFlow` as a `TokenNet` | refinement mapping |
| `StatefulFlow_proofs` | theorems about `StatefulFlow` | proofs |
| `MCStatefulFlow` | five flows | TLC |
| `WaveFlow` | one run of `internal/flowengine`, or of the agent flow executor | state machine |
| `FlowNodes` | the flows people draw: engine, checks, executors and what each node type may return | operators over `WaveFlow` |
| `WaveFlow_proofs` | theorems about `WaveFlow` | proofs |
| `MCWaveFlow` | nine flows, and every flow over four nodes | TLC |
| `AgentGraph` | a supervisor's graph: its checks, its depth, the plan of actions and its filtering | operators |
| `Supervisor` | one run of `SupervisorRunner` with its run store | state machine |
| `ServiceFaults` | the store writes that fail | shared by three |
| `OperationInvoker` | invocations of operations and the two token providers they share | state machine |
| `ToolExecution` | `ExecuteTool` calls, adapters and the recorder | state machine over `OperationInvoker` |
| `AgentServices` | composition of `Supervisor`, `ToolExecution` and `OperationInvoker` | specification, properties |
| `AgentServices_proofs`, `SupervisorRun_proofs` | theorems about `AgentServices` | proofs |
| `FiniteRecursion` | least and greatest numbers, loops written as functions on 0..n | proofs, used by three |
| `MCAgentServices` | graphs, plans, tools and credentials | TLC |
| `RegistryData` | the registry's records, defaults, validations, graph checks and reports | operators |
| `Registry` | clients whose calls are sequences of statements | state machine |
| `Registry_proofs` | theorems about `Registry` | proofs |
| `MCRegistry` | a registry with rows of each kind, and request bodies | TLC |
| `ContextEngine` | messages, and the functions that fit them into a model's context | operators |
| `ConversationTurn` | the turns of one session over the conversation store | state machine |
| `ConversationTurn_proofs` | theorems about `ConversationTurn` and `ContextEngine` | proofs |
| `MCConversationTurn` | histories and lists of calls | TLC |
| `RuntimeEvents` | the broker of one trace, its publishers and SSE clients | state machine |
| `RuntimeEvents_proofs` | theorems about `RuntimeEvents` | proofs |

### FlowInstance and StatefulFlow

A flow is a constant record: its nodes, each one's kind (`task` is any node run
by `executor.Execute`), its outgoing edges, the next-node lists an execution may
select, the events a wait accepts, and the nodes that can fail. The data context,
the inputs and the outputs are abstracted to those choices: the engine looks at
data only through a node's result and through success or failure. A condition's
branches are not checked against the flow by the code, so `routes` may name a
node that does not exist, and a token may sit on it.

| TLA+ | Code |
|---|---|
| `store` | `MemoryInstanceStore.instances[instanceID]` |
| `local[c]`, `pc[c]` | the clone a call works on; where in it the call is |
| `event[c]` | the event `Resume` was given |
| `Start`, `RunUntilBlocked`, `Resume` | the beginning of the three calls, with their checks and the store read |
| `Load` | `Get` at the head of `RunUntilBlocked`, and its early return |
| `ExecuteToken` | one iteration up to the save: pick the first ready token, `executeReadyToken` in all its outcomes |
| `Block` | nothing ready: `finalizeBlockedInstance` |
| `MatchNext`, `MatchError` | an iteration of `Resume`'s loop, and its early return |
| `Save` | `Save` of the clone, and what each call does after it |
| `Abort` | the store fails, or the process dies, anywhere in a call |
| `EmitCompleted` | `emit` of `node.completed`: the store appends the event, or fails and the error is dropped |
| `effects` | history: calls of `executor.Execute` |
| `audited`, `lost` | history: `node.completed` events appended; those that could not be |

`Load`, `ExecuteToken`, `MatchNext` and `Save` are separate steps because other
callers run between them: `Get` and `Save` take the store's mutex one at a time
and no call holds it. `Resume`'s loop is one step per matched token so that a call
may die in the middle. `Version`, `UpdatedAt` and ids are left out: they are
written and read by nothing. Of the events only `node.completed` is modelled, the one
that says what was done. `WaitConditions` follow from the waiting tokens, so
they are not a variable; `TimeoutAt` is read by nothing. The statuses `cancelled`
and `skipped` are assigned by no code.

`TokenNet` has no copies, indexes, saves or order: it counts the tokens at each place
(node, source, ready or waiting), and a step moves one token, delivers one event to
every token that waits for it, fails the instance or settles it. `FlowNet!Net` maps the *stored* instance to it, so
the refinement says that each save is exactly one such step, also when calls are
cut short: no half-delivered event and no token moved twice is ever stored. A join
fires once in the net as it does in the code, and no flow of the runs has a join inside a
loop: that such a join fires in the first round only is in the model, and no property is
about it.

### WaveFlow and FlowNodes

A graph is a constant record: nodes, edges, entry, the engine that runs it, the nodes
without an executor, the results a node may return, the nodes that can fail and the
policy. An edge carries a key of the context and the set of writers whose value
satisfies its condition: a context value is known by who wrote it, which is all that
the order of merging can change.

| TLA+ | Code |
|---|---|
| `phase` | where `Execute` is: `executeGraph`'s loop, in a wave, merging, before `UpdateRun` |
| `scheduled`, `started`, `completed`, `ctx` | `executionState` |
| `run`, `nodeRuns` | the run store |
| `work[n]`, `results` | a goroutine of `executeReadyNodes`; the channel of results |
| `StartWave` | `readyNodes` (in map order), the cut at `MaxParallelism`, `markStarted` |
| `BeginNode`, `BeginFails`, `NodeSucceeds`, `NodeFails` | `executeNode` |
| `Wait` | `wg.Wait` and the first error |
| `Merge`, `Allowed`, `Schedule` | `complete`, `nextNodes`, the edge check (the newer engine's only) and `schedule` for one result |
| `Stop`, `NextWave`, `CreateRun`, `UpdateRun` | the loop's exits and `Execute`'s frame |

A `CreateRun` or `ValidateGraph` that fails leaves no run and is not a step.

`FlowNodes` computes such a graph from a flow as it is drawn. `Engine` is
`canExecuteWithFlowEngine`, `Accepted` the checks of the agent flow and of the chosen
engine, `Registered` the executors that are there, `NodeResults` what each of them
may return: the built-in ones, the workflow runtime's and the agent nodes'. What a
model answers is left open in its words but not in its shape: `ExtractNextNodeIDs`
reads the routing keys in the code's order, where a key that is present decides even
when it says nothing. `ConditionResults` keeps the order of the branches and leaves
open which rules match.

### Supervisor, ToolExecution, OperationInvoker and AgentServices

The recursion of `executeAgentGraphNode` is a stack of frames, one per node being
executed; a step is one invocation of an agent. Prompts, tasks and outputs are text
and left out, but for the names in an action, which `FilterActionPlan` and
`FindToolAction` and its siblings resolve as the code does: agents, tools and skills may share a name.

| TLA+ | Code |
|---|---|
| `ValidateRuntimeAgentGraph`, `NormalizedSupervisorConfig`, ... | the functions of `supervisor_runner.go` with those names; `Ways` stands for the two recursive ones |
| `Execute`, `FinishRun` | the frame of `SupervisorRunner.Execute` |
| `EnterNode`, `NextStep`, `CallChild`, `ReturnFrame` | `executeAgentGraphNode` |
| `InvokeAgentStep`, `PlanAnswered`, `StepAnswered`, `StepFails` | `invokeAgentStep` before and after the agent is called |
| `ExecuteTool`, `ResolveTool`, `Finish` | `Service.ExecuteTool`: start record; lookup, policy, arguments, adapter; end record |
| `AdapterReturns` | `executeWithTimeout` |
| `RunWorkflow`, `RunPython`, `CallMCP`, `Retrieve` | the adapters other than the connector's |
| `Invoke`, `DoRequest`, `ResetOAuth2TokenCache` | `HTTPOperationInvoker.Invoke` and its retry |
| `slot[p]`, `mutex[p]` | a token provider's fields and its lock |
| `LockUserProvider`, `FetchAppToken`, `RefreshUserAccessToken`, `ExchangeAuthorizationCode`; `LockTenantProvider`, `FetchTenantAccessToken` | `Token` of the two providers |
| `live[k]`, `issued[k]`, `withdrawn` | external: the authorization server's and the business systems' view of tokens |
| `effects[c]`, `forgot` | history: requests carried out; credentials whose newest token is not remembered |

A token is a credential and a number. The code a credential is configured with is its
token 0. An exchange may be answered with a refresh token or without one: a refresh token
that was used stays good in the second case, a code does not, and then nothing of the
credential is good any more (`live[k] = NoToken`). Requests and answers may be lost, a service may
act and then fail, and an access token may be refused at any time. The invocation
goes on when its caller has given up: the connector service is another process.
`AgentServices` composes the three: an agent that executes a tool or skill action of
the run makes calls (`FromRun`), and other calls come from events of their own. A
supervisor's agent answers after its calls returned, or fails without waiting.

### RegistryData and Registry

A client's call is a sequence of accesses to the registry, each one statement and one
step; `call[c]` holds what the Go function holds in its variables between them.
Between two of them other clients save, and `Abort` ends a call anywhere. Records keep
the fields the service decides on; every default is applied by `Inherit`, which takes
the stored row's value where the request has none. A client may send an import any list
of entries, with ids or without, an operation in it twice; `place` keeps their order.

| TLA+ | Code |
|---|---|
| `db` | the tables of `sqlite_registry.go` |
| `Apply...Defaults`, `Validate...`, `NormalizeForStorage`, `NormalizeSupervisor` | the functions of those names |
| `CreateX`, `UpdateX`, `SetXStatus`, `XSaved` | the read, with the decision that follows it; the save |
| `EnsureBoundWorkflowEnabled`, `SyncWorkflow` | the workflow a tool runs is enabled with it |
| `MaterializeLocalAgents`, `LocalAgentSaved`, `AgentFlowSaved` | agents that belong to a flow, then the flow |
| `ImportConnectorTools`, `ImportListsTools`, `ImportSavesTool` | the import |
| `CheckBinding` | `ValidateWorkflowForPublish`'s lookups, node by node |
| `...Dependencies` | the reports |
| `everEnabled` | history: workflows that have been enabled |
| `made[t]`, `crowded` | history: the operation an import made tool `t` for; operations the code may make a second tool of (`MakesSecond`, and overlaps) |

### ContextEngine and ConversationTurn

A text is its estimated cost in tokens: that is all `EstimateTokens`, the budget and
the truncation look at. `Marker` is the cost of the note that text was truncated: a
truncated text costs more than the limit it was cut to, and cut again it costs the same. A message's
`turn` is no field of the code's: it tells the properties whose message it is.
`MaxHistoryMessages` is one constant because the orchestrator gives the same number
to the store's `LoadMessages` and to the assembler. The model of a request answers
with a reply or a list of calls, chosen freely, an unknown function included; in the
final request, whose tool choice is "none", it is assumed to reply. What the store holds
at the start (`Histories`) is a `Conversation`: calls and results paired, no system
message, calls made by the assistant only. `MemoryConversationStore` starts empty and
`AppendMessages`, which leaves system messages out, is its only writer, so earlier turns
can have left nothing else.

| TLA+ | Code |
|---|---|
| `Assemble`, `SelectHistoryWithinBudget`, `CompactMessages`, ... | the functions of `assembler.go` with those names |
| `store` | `MemoryConversationStore.messages` of the session |
| `runs[t]` | the calls of `executePromptToolRun` a turn is in; a second one is a skill called as a tool |
| `fresh`, `pending` | `executeToolCalls`: messages it has appended, calls it has not made |
| `current` | the turn's own messages, as they will be stored |
| `Begin`, `BeginSkill`, `BeginFails` | `generateReply` up to the first request |
| `ModelCalls`, `RunReplies`, `ModelFails` | a model's answer in the loop, its exit, its error |
| `ExecuteTool`, `EnterSkill`, `SkillReplies`, `CallFails` | one call of `executeToolCalls` |
| `Persist`, `PersistFails` | `persistCurrentTurn` |
| `results` | history: the answers the agent's run got |

Loading and appending are steps of their own, each under the store's lock: other
turns of the session run between them. An event that asks for a tool directly
neither reads nor writes the conversation and is left out, as are traces.

### RuntimeEvents

One trace of one tenant (the broker's maps are disjoint per key). The two critical
sections are single steps (`Publish`, `Subscribe`); every send is a step of its own.
`cancelled` publishers are those whose request context is done: `select` may then
take either ready branch but not `default`. `Receive` takes one event from the
channel and writes it. Heartbeats and the `connected` frame carry no events.

## 4. Runs

"Pass" runs are exhaustive over their instance. `CHECK_DEADLOCK FALSE` is set in
every one because the systems stop: clients make a bounded number of calls, a run
ends, and a trace has a bounded number of events.

**stateful_sequential** (`MCStatefulFlow_one.cfg`): one caller, five flows, four
calls, two aborts. Shows `TypeOK`, `InductiveInvariant`, `EffectsAccounted` (a
task's effects are its consumed tokens plus at most one per aborted call),
`ConsumedIsFinal` and `ImplementsTokenNet`. The flows are the smallest with a
feature each: `ForkJoin` a failing task and a wait joined; `TwoWaits` one event for
two tokens, one of which can fail to take it; `WaitLoop` a loop through a wait and
a branch that names no node; `Merge` two tokens at a plain node, so that a join is
reached after it fired; `DoubleEdge` a join with one edge, a join reached by
parallel edges of one source. Four calls are a start and enough resumptions to go
round the loop twice; two aborts are one that repeats an effect and one more in
the repetition.

**stateful_concurrent** (`MCStatefulFlow_two.cfg`): two callers, `ForkJoin` and
`Merge`, three calls, one abort, one append to the log that fails. Shows `CopiesOK`, `AuditMissesNothing`,
`SettledWhenIdle`, `CallsReturn`: saves of stale copies are in it, and what they
cannot break is exactly this. `AuditMissesNothing` is exact: of the completions a node
has in the store, the log lacks no more than failed appends lost of that node. Three calls are enough for a start that is still
running, a second runner and a `Resume`.

**wave_run** (`MCWaveFlow.cfg`): one store error. `Fan` has more branches than a wave
holds, `ShortFan` also overruns its steps, in `Directed` a supervisor names branches,
none, or an edge it does not have, `Race` has a condition that reads what a sibling
writes, `Uneven` has branches of different lengths, `Older` has the cycle only the
older engine accepts and a node without executor, `NullBranch` a condition that leads
to a null; two more are refused. Beside these, every flow over four nodes, in both
engines, with an agent that may name any subset of the nodes. Shows `StaysOnEdges`
(whatever next nodes are returned, the newer engine schedules along edges from what
completed), `NeverStuck` (the newer engine), `ExecutesOnce`, `SucceededIsComplete`,
`QuietWhenFinished`, `StepsBounded` (the limit may be overrun, by less than a wave),
`RecordsFollowEffects`, `RunEnds`, and the `InductiveInvariant` of the proofs.

**services** (`MCAgentServices.cfg`): three calls, two with one call id and one made by
an agent of the run; six credentials, two of which share the user provider with
different secrets; seven implementations and the ways a tool or an operation can be
refused; graphs `Team`, `Chain`, and the refused `Loop` and `NotLeaf`; depths and caps
at, above and below their limits; one failing write. Shows `EffectsOnce`,
`CallsAccounted`, `CredentialsKept`, `WithinLimits`, `RunTellsSteps`, `AllReturn`. Two
calls meet at a lock, at a slot and at a record; two tokens per credential are one
and its rotation, so a token that was used up can be presented, and a code that was
answered without a refresh token can be presented again. `RunTellsSteps` allows a step
left `running` only as the last, after a failed write, of a run that ended with an error.
The loads combine the
run with the calls only where they interact (the run's own call), because the
invariants of the others speak of one part each.

**registry** (`MCRegistry.cfg`): two clients, three calls, one abort, a depth limit of
two. The seed has a connector with two operations, a tool that is not enabled yet over
a workflow that could be published, an agent and a skill, so that three calls reach
what else would take eight. Three calls are one that is under way, one that changes
what it read, and one that relies on the result. The lists of imports name an operation
twice, then one that is not the connector's (the import ends there, with two tools made),
and an existing tool of another kind by its id. `OneToolPerOperation` is about the
operations that are not in `crowded`: those whose imports come one after the other or die
half-way, whose tools are disabled, rewritten or bound elsewhere in between, and
those of which a list names the tool by its own id. Clients are symmetric: no property names one, and
none is temporal. Shows `TypeOK`, `BindingsResolve`,
`LocalAgentsSaved`, `EnabledSupervisorsBounded`, `OneToolPerOperation`.

**live_events** (`MCRuntimeEvents.cfg`): two publishers, one subscriber, four
events, a history of two and a channel of two (the code's are larger; full and
overfull are what matters, and both are reached). One subscriber is enough for the
safety properties, which each speak of one subscriber and whose channels share no
state but the history; a publisher that is stuck on one of several would be stuck on
one. Shows `HistoryIsLatest`, `EveryEventAccounted`, `InOrderPerSource`,
`PublishReturns`, `NothingLeaks`.

**one_turn** (`MCConversationTurn.cfg`): one turn after no history, after a turn with
two results and after that and one without calls. Four messages of history and nine
tokens with texts cut at two are chosen so that each limit cuts inside a block of
a call and its results, with texts of one and four tokens so that some are truncated
and some are not; two iterations make the second request a compacted one and the
third the final answer. Shows `RequestsPaired`, `CurrentTurnSent`,
`HistoryWithinBudget`, `ResultsRemembered`, `TurnsEnd`.

**overlapping_turns** (`MCConversationTurn_overlap.cfg`): three turns of one session,
two lists of calls, one size. Shows `TurnsStoredWhole`: three are enough for one
that begins and ends around another, beside one that fails.

**lost_event**, **audit_divergence**, **wave_join** and **import_twice** are violated:
section 7. Each is the smallest instance that has the case: one caller or client where
nothing overlaps, two where it does, one list.

Each property of a passing run has a mutant: an operator just before the definition
it replaces, named in its comment as a mutation, that breaks the property. They are
plausible slips, such as a join that fires at the first arrival, a wave that ends at
its first error, a `Publish` without its `default`, an error that returns with the
provider's lock held, or a flow saved before its agents.

## 5. Fairness

`StatefulFlow!FairSpec`: weak fairness of each caller's steps inside a call. A call
runs on its client's goroutine and waits for no other call. Nothing makes a client
call, and aborts are not fair. The flows of the runs have no cycle of tasks: in one
the code loops for ever, having no limit, and `CallsReturn` would be false of it.

`WaveFlow!FairSpec`: weak fairness of `Execute`'s own steps and of each node's
goroutine. A node's executor returns: where the node has no timeout its HTTP calls have
one, except a workflow's connector and tool nodes (`internal/workflowruntime/infrastructure.go:37-57`),
which then wait until the service they ask has answered.

`AgentServices!Spec`: weak fairness of the run, of each call in the agent runtime and
of each invocation in the connector service, separately, as each is in a process of
its own. Every request ends, because it is answered or because its client's timeout ends
it. The client of a connector tool has none
(`internal/agentruntime/infrastructure/http_connector_invoker.go:17-20`): when the tool has
no timeout either, its request ends because the connector service answers, whose own
requests do have timeouts. The lock of a provider is held for a bounded time and handed to a waiter. An
invocation waits for that lock without a limit, so `AllReturn` depends on every exit
of the exchange releasing it. Calls being made and faults are not fair.

`ConversationTurn!FairSpec`: weak fairness of each turn's steps: a turn waits for the
model and the tools only, and the HTTP clients of both have timeouts, after which the
call has failed.

`RuntimeEvents!FairSpec`: weak fairness of a publisher's sends (a `select` with a
`default` does not block), of a replay goroutine, and of a handler whose client
has left. *Not* of `Receive`: a client that does not read blocks its handler's
write, and the properties must hold with such a client.

`Registry!Spec` states none: a client that stops half-way is a case it is about.

## 6. Proofs

`StatefulFlow_proofs` proves, for every set of flows, callers, events and every
bound:

  - `TypeCorrect == Spec => []TypeOK`
  - `CopiesConsistent == Spec => []CopiesOK`

The argument is the invariant `InductiveInvariant`. `CopiesOK` alone is not
inductive in two places. That a join which fires has consumed a token from every
source does not follow from its `arrived` set unless that set is itself backed by
consumed tokens (`ArrivalsBacked`). And a call that goes on working on its copy
would make `completed` a lie by appending a ready token, if its first act
were not to mark the copy `running`; the third conjunct says so. The rest of the
strengthening is that *every* copy satisfies it, the stored one and each caller's:
that is why a save of a stale copy cannot break it, and why no fact about the order
of calls is needed.

The proof follows the code: lemmas about the updates every outcome is made of
(`MarkMoves`, `AppendMoves`, `CompleteMoves`), about one outcome each (`MoveOK`,
`CompleteOK`, `MarkOK`, `InputErrorOK`, `JoinOK` with `ArriveFacts`, `ExecuteOK`,
`ApplyEventOK`, `FinalizeOK`, `NewInstanceOK`), two about a caller's place in the
array of copies (`CallerMoves`, `CallerCopy`), then `InitInvariant` and
`StepInvariant`, with one step per action.

It rests on four assumptions: flows are validated and have a source node
(`FlowsAssumption`), and the three "nothing" constants are distinct from what they
stand beside (`NoSourceAssumption`, `NoEventAssumption`, `NoInstanceAssumption`).
`Callers` may be infinite, and the bounds on calls, aborts and failing appends play no part.

More is proved from `InvariantHolds`:

  - `SettledWhenIdleHolds`, for any callers, from `SettledInv`: while the stored instance
    is `running` and no call was cut short, some caller is *committed*, that is, at a
    place from which it saves a settled copy or finds the instance settled.
    Callers hand this over: one that overwrites a settled instance is itself committed.
  - `AuditMissesNothingHolds`, for any callers and any number of appends that fail, from
    `AuditInv`: the log and what it lost (`Emitted`) cover *every* copy, the stored one and
    those in hand. It is the same idea as in `CopiesOK`; of the
    stored instance alone the statement is not inductive, as a caller may save any copy.
  - `EffectsAccountedHolds` and `ConsumedIsFinalHolds`, for a single caller (the
    hypothesis `Callers = {u}`, which the run `stateful_sequential` satisfies): two
    callers break both, as the run `lost_event` shows. Its copy is ahead of the store by
    the one step it is about to save and by no more (`Follows` in `OneInv`), so a call
    cut short repeats one effect at most and a save takes nothing back.
  - `ImplementsTokenNetHolds`, for a single caller again: `StatefulFlow` implements
    `TokenNet`. The invariant (`NetInv`, with `Ahead`) says how far the caller's copy is
    from the stored instance at each place of a call: not at all, one outcome of one ready
    token (`Passes`, `Reaches` or `Breaks`, from `ExecuteTicks`), the settling, or an event
    some of whose tokens have been applied (`Applied`). An update of the list of tokens is
    turned into counts once (`ReplacesCounts`). An event in delivery is the difficult step:
    the loop of `Resume` applies its tokens one at a time and the net in one step, so
    `Applied` counts what the tokens applied so far have sent (`SendsMore`), and when none
    is left `SendsCounted` pairs these sends with the net's, which know a token only by
    its number at its place. Then a save is one step of the net (`NetSaves`), and any
    other step but the creation (`NetCreates`) leaves the store alone.

What a step consumes is said once, by `Consumes` and the lemma `ExecuteConsumes`, and
`ConsumedCounts` turns it into the numbers the three properties count.

`WaveFlow_proofs` proves, for every set of graphs that are accepted, in either engine,
every policy and any number of failing writes:

  - `RunInvariant == Spec => []InductiveInvariant`, and from it
  - `RunTypeCorrect`, `RunsNeverStick`, `NodesExecuteOnce`, `FinishedIsQuiet`,
    `StepsAreBounded` and `RecordsAreTrue`;
  - `SuccessIsComplete`, from `RunInvariant` and a second invariant, `WentEverywhere`:
    what was merged has scheduled all its results lead to, and what is scheduled was
    led to;
  - `RunsStayOnEdges`, which is inductive by itself.

`RunsNeverStick` is the theorem that needs an argument. At the head of the loop nothing
that started is incomplete: every node of the last wave is complete or has its result
in the channel (`Accounted`), the channel is empty (`PhaseOK`) and no goroutine is left.
So the scheduled and incomplete nodes have not started; as the graph is acyclic, one of
them has no upstream among them, and that node is ready (`SomeNodeReady`). It says so of
the newer engine only: the older one accepts cycles, and a run may stick in one. The
other strengthening is for `StepsBounded`: the number of complete nodes grows in
`Merge`, long after the limit was compared, so the invariant bounds the nodes that are
*settling*, which only `StartWave` adds to, by at most `MaxParallelism` and only below
`MaxSteps`. `NodeOK` ties a goroutine's place to its record and its executions, node by
node. There is one lemma per action; `GoroutineFacts` is what the four of a goroutine
share. It rests on `GraphsAssumption` (the graphs are finite and valid) alone.

`AgentServices_proofs` proves, for every set of calls, operations, credentials and
flows, and any number of faults:

  - `EffectsOnceHolds`: from `EffectsInv`, whose core is `SentOnce`: nothing was
    carried out of what may still be sent, because only a refused request is sent again.
  - `CallsAccountedHolds`: from `CallsInv`. While a call is under way the record at its
    id is its own or that of another call of that id (`CallRecorded`), and a record tells
    of its call what the code does (`RecordTold`).
  - `CredentialsKeptHolds`: from `CredentialsInv`. Whoever is between the look at a slot
    and the end of its exchange holds the provider's lock (`HoldsOwn`), so what it looked
    at is still so; a slot holds tokens of the credential it remembers (`SlotOwn`); and
    the refresh token there is the good one, if there is a good one, unless the credential
    is among `forgot` (`GoodKnown`). The lock alone is not enough and neither is the credential in the
    slot: `KeptWhenReset` and `KeptWhenExchanged` are where the two meet.

They rest on `NothingAssumption`, `OperationsAssumption` and `RecordAssumption`: what
stands for nothing is not a value, and operations have their fields.

`SupervisorRun_proofs` proves two invariants of a run, for every flow and plan:

  - `RunTellsStepsHolds`: the invariant `RunInv` says that only the last node run may be
    open, and only while its agent is at work (`NodeRunsTold`), and what the store holds
    when the recursion has unwound (`EndTold`). The stack and the node runs are known to be
    sequences and no more, so the facts about sequences at the head of the module are
    stated for sequences of whatever they hold; `FrameReturned` and `UnwindStep` are what
    most steps end in. It needs no assumption.
  - `WithinLimitsHolds`, from `RunInv` and `LimitsInv`. The stack is a way down the graph,
    each frame in it at the depth of its place and calling the next as its child
    (`WayDown`); the ways of an accepted graph are no longer than the configured depth and
    pass no node twice (`Accepted`), so neither check inside the recursion can fail. The
    bound on the steps is divided among the frames (`Budgeted`): each owes what it may still
    do itself, by its place and the actions left in its plan (`Owed`), and leaves the rest
    to those above it. An invocation, the call of a child and a return each move a share
    and create none (`Moves`, `BudgetPush`, `BudgetPop`). What the loops
    of the code return (`ChildrenAreNodes`, `FilteredPlan`) and that the bound is defined
    (`StepsAtMostKnown`) come from `FiniteRecursion`. It rests on `GraphAssumption`, `PlansAssumption`
    (agents answer with sequences of actions over this registry) and `LoadsAssumption`.

`RuntimeEvents_proofs` proves, for any limit and any number of publishers and
subscribers, from `LimitAssumption`:

  - `HistoryIsLatestHolds`, from `TrimKeepsLatest`;
  - `InOrderPerSourceHolds` and `EveryEventAccountedHolds`, from `EventsInv`. Per
    subscriber it says where each event is: `DeliveredInv` that an event that reached the client
    was replayed or is later than the snapshot, `PendingInv` that what a publisher
    still sends is nowhere else and follows what it sent before, `LostInv` the same of
    what was dropped, and `CompleteInv` that the three and the rest of the replay are
    all there is. Publishers send an event in no order among subscribers and replays run
    beside live sends, so the order across sources is not kept, and the proof claims it
    only per publisher.

`Registry_proofs` proves, for any clients, bodies, seeds and number of calls, and
wherever a call dies:

  - `RegistryInvariant`, and from it `TypeCorrect`, `BindingsHold` and
    `LocalAgentsAreSaved`. `RegistryInv` has a part per table (`TablesInv`) and a part per
    call (`Held`): at each of its places a call holds what makes its next save fit,
    whatever others save meanwhile. That is so because rows are never deleted and
    `everEnabled` only grows (`Grows`): the references a call looked up stay good, though
    the rows may have changed since. A flow is saved after its local agents, which is why
    its row may promise them.
  - `OneToolPerOperationHolds`, from `OneToolInv`: an import that has yet to make a tool of
    an operation outside `crowded` has found the only one imports made of it, or there is
    none and it will make one (`Knows`), and it is alone at the operation. It has no hypothesis: which operations are crowded is decided when an
    import has read the tools (`ImportListsTools`), from its list and from the imports that
    are saving, and `crowded` only grows. `ImportSavesMade` is the step that makes a tool.
  - `SupervisorsAreBounded`. A stored flow is a table's invariant again (`Bounded` in
    `FlowsInv`); the work is that a save makes it so. The recursion of `agentGraphDepth`
    is a function of the nodes being visited, and there is one such function only because
    fewer nodes are left to visit at every call, on cyclic graphs too (`DepthsExist`,
    `DepthsUnique`). What it returns is no less than the length of any path up to the
    limit, and more than the limit when there is a longer one (`PathsWithinDepth`), because
    a node met again is worth more than any limit. `NormalizeSupervisor` raises the
    configured depth to it and `ValidateSupervisor` then compares it with `MaxGraphDepth`.

They rest on `RegistryDataAssumption` and `RegistryAssumption`: the bodies are of the
shape the handlers decode, identifiers are distinct from their absence, and every seed
is `Sound`. `FreshIsSound` shows that the registry the migrations leave is.

`ConversationTurn_proofs` proves, for any turns, tools, skills, lists of calls, texts and
limits: `RequestsPairedHolds`, `CurrentTurnSentHolds`, `HistoryWithinBudgetHolds`,
`TurnsStoredWholeHolds` and `ResultsRememberedHolds`. Its first half is about the functions of the assembler, for all
conversations:

  - `StretchWhole`: a stretch of a paired conversation that does not begin or end among
    results is paired. The two backward searches of `assembler.go`, one for the limit on
    messages and one for the budget, both end in such a stretch;
  - `CompactRequest`: compacting a request keeps it a request that ends with a copy of
    the turn (`Copied`: the same messages, up to the truncation of their texts);
  - `SelectFits`: what is selected fits the budget it is given. The cost of a request is
    that of its parts (`EstimateTokens` is a loop over the messages), so a request fits, or
    the budget left after the system prompt and the turn was none and nothing was selected
    (`Fits`).

The second half is the invariant `ConvInv`. Each `executePromptToolRun` a turn is in has a
paired request that ends with a copy of what the run has said (`RunOK`); each but the
innermost is in the middle of an answer, with the first calls answered and the rest
pending in order (`Answering`); what the outermost has collected is what `results` tells
(`Remembers`); the store is the past followed by whole turns, each in one piece
(`StoreOK`, `Stored`). Pairing of the request alone is not inductive: a result that is
appended keeps it paired only because it answers the first call that is open. It rests
on `ConversationAssumption`, `PolicyAssumption`, `CallAssumption` and `TurnAssumption`.

`FiniteRecursion` holds what the provers do not know of loops. The models write a loop of
the code as a function on 0..n, each value from the one before; `IterationExists` shows
that there is such a function, by the least bound for which there is none, and `Reaches`
that what every round preserves holds at the end.

Every safety invariant, every action property and the refinement of the passing runs have
a theorem. Model-checked only is liveness under fairness (`CallsReturn`, `RunEnds`,
`AllReturn`, `TurnsEnd`, `PublishReturns`, `NothingLeaks`), which is beyond the prover and
stays with TLC.

## 7. Findings and observations

 1. *lost_event.* Two calls on one instance: one has loaded its copy, `Resume`
    applies an event and saves, the first saves its older copy over it. The wait
    token waits again and the event is gone. `Version` is counted and stored
    but `Save` does not compare it.
 2. *audit_divergence.* `Resume` emits `node.completed` for each matched token as it
    goes and returns without a save when a later one fails: the log has a completion
    that the store has not.
 3. *wave_join.* A node's upstreams are looked up one edge back. A longer branch has
    not scheduled its last node when the shorter is done, so the meeting point starts
    early and only once, without the longer branch's values. The console describes a
    join node with "Wait for upstream branches before continuing."
 4. *import_twice.* An import of a list that names an operation twice makes two tools of
    it: the tools were read before the loop that saves
    (`internal/platformapi/application/service.go:584-617`). Its comment (lines 543-545)
    promises one tool per operation and no duplicates. Two more ways lead to a second
    tool: an entry with an id of its own is saved under that id beside the tool that the
    operation has (line 599), and two imports of one connector that overlap have both
    read the tools before either saved one. `OneToolPerOperation` allows a second tool in
    these three cases (`crowded`) and no other.

Three more places differ from a comment. They have no run of their own, because a
property of a passing run says exactly how far the comment is kept.

  - *A late token.* `executeReadyToken` marks the node running before it knows that the
    join has fired (`core/flowengine/stateful_executor.go:310`); the later token is
    swallowed without setting the node's state again. The instance completes with a node
    that is `running`, though `instance.go:68` calls the state the node's latest.
    `CopiesOK` has what is kept: a join fires once, when all its sources have arrived.
  - *A lost append.* `emit` drops the error of `AppendEvent` (`stateful_executor.go:428`).
    An event that could not be appended is missing for good, while the call goes on and
    the instance is saved; `instance.go:104` calls these events an append-only log for
    audit and replay. `AuditMissesNothing` counts such appends (`lost`): no completion is
    missing but these.
  - *A code presented again.* The authorization server may answer a code without a refresh
    token; the provider accepts it and remembers none. When the access token expires it
    presents the code again, which was used up, although its comment says that it
    exchanges a code once
    (`internal/connector/infrastructure/http_operation_invoker.go:378-380`). The
    credential fails until it is authorized anew. `CredentialsKept` claims nothing of a
    credential of which nothing is good any more, and everything else.

The models also do what follows. No document of the repository says otherwise, so no run
claims it as a disagreement; a maintainer may want to know.

*Flows.*
  - A branch of a condition whose `next_node_id` is null leads to a node named `<nil>`.
  - An agent that names a node without an edge to it fails the run in the newer engine.
    A key of the answer that is present and empty decides, too: no node follows, while
    the routing metadata says the edges were used.
  - A skill node passes validation and has no executor. A workflow's agent nodes have one
    only after an agent flow ran in the same process.
  - `canExecuteWithFlowEngine` accepts operations, which the profile then refuses.

*Supervisor and tools.*
  - `FindAgentAction` takes the first child whose node id, agent id, id or name matches;
    tools and skills are looked up again by name when they are executed, so that the first
    of two with one name is the one that runs.
  - A negative maximum depth is raised to the graph's before it is checked, so it is never
    refused; a negative maximum of sub-agent calls is no limit.
  - After an `UpdateRun` that fails, the stored run stays `running`.
  - Two clients that send one call id share a record; the last to finish has it.

*Tokens.*
  - Another credential in a provider's slot, or a reset after a refused token, makes the
    provider forget a rotated refresh token, while the configured one is used up. The
    credential then needs a new authorization. `CredentialsKept` excepts these, as it does
    a code answered without a refresh token.

*Registry.*
  - An update and a status change of one row at the same time lose one of the two.
  - A draft supervisor flow with a cycle keeps a maximum depth above the limit, and
    is refused when it is enabled, although its graph was mended, until a client sends
    another depth.
  - Created or updated with status `enabled`, a workflow skips the checks of publishing.
  - The report on an operation's dependants leaves out agents that have its tool directly.
  - A flow that is refused after its local agents were saved leaves them changed.

## 8. What is not modelled

Payloads, mappings, transforms, prompts and HTTP bodies: data the properties do
not look at. Of the platform API, trials and test invocations, which call other services
and store nothing, names and descriptions, and the migrations; of the workflow runtime,
loading, replays and transform functions (pure functions on data). The knowledge service
(scoring over one store), the model gateway (stateless conversion), the core agent
strategies (a loop of model and tools like the orchestrator's), `core/workflow`'s
compiler, and the console have no protocol of their own. Traces, of the orchestrator and
of `core/trace`, are records for people on which nothing decides (there, a late `waiting`
or `running` event opens a finished span again, `core/trace/store.go:86`). `timeoutAt` has no
handler. A cycle of tasks in `StatefulFlow` never ends and is not run. The stateless
executor of `core` keeps nothing between calls.

## 9. Plan

Done, in this order: `FlowInstance`, `StatefulFlow`, `TokenNet`, the first proofs,
`WaveFlow`, `RuntimeEvents`, `ContextEngine`, `ConversationTurn`, the proofs of
`WaveFlow`; then `Registry`, `Supervisor`, `ToolExecution`, `OperationInvoker` and their
composition, the older engine and `FlowNodes`, and the proofs of these; then the proofs of
`RuntimeEvents`, `Registry` and `ConversationTurn`, the rest of `StatefulFlow`, and the
limits: the history's budget, the supervisor's depth and steps; and the steps of
`TokenNet`. Next:

 1. `QueueFlow`: `core`'s stateless executor, compared with `StatefulFlow` on flows
    without waits.
 2. Replays of the workflow runtime composed over `WaveFlow`, with a context that tells
    the start of a run from its end.
 3. The merge of `core/trace`, and the orchestrator's trace store under concurrent turns.
