----------------------------- MODULE Supervisor -----------------------------
(***************************************************************************)
(* One supervisor run of an agent flow: SupervisorRunner.Execute and the   *)
(* recursion of executeAgentGraphNode (supervisor_runner.go), with the run *)
(* store it reports to.                                                    *)
(*                                                                         *)
(* The recursion is a stack of frames, one per node being executed. A step *)
(* is one invocation of an agent: the node's plan, one of its tool or      *)
(* skill actions, or its final answer. What the model answers is any plan  *)
(* of Plans, or no plan at all; what it says is left out.                  *)
(***************************************************************************)
EXTENDS AgentGraph, ServiceFaults

CONSTANTS Profiles,      \* the tools and skills of each agent, in order
          SkillSpecs,    \* of each skill: is it enabled, and its tools, in order
          Plans,         \* the sequences of actions a model may plan
          NoFlow

ASSUME PlansAssumption ==
    \A actions \in Plans :
       /\ DOMAIN actions = 1..Len(actions) /\ Len(actions) \in Nat
       /\ \A i \in DOMAIN actions : IsAction(actions[i])

VARIABLES flow,       \* the flow being executed, or NoFlow
          config,     \* its normalized configuration
          phase,      \* "idle", "running", "unwinding" or "returned"
          stack,      \* the frames of executeAgentGraphNode, the root first
          nodeRuns,   \* the run's stored node runs: step and status
          run,        \* the stored run's status, or "none"
          err         \* the error Execute has or will return, or "none"

supervisorVars == <<flow, config, phase, stack, nodeRuns, run, err>>

Steps == {"planning", "tool", "skill", "final"}

SupervisorInit(f) ==
    /\ flow = f
    /\ config = NoFlow /\ phase = "idle" /\ stack = <<>>
    /\ nodeRuns = <<>> /\ run = "none" /\ err = "none"

Top   == stack[Len(stack)]
Graph == flow.graph

\* at: "enter", "between" two steps, or the step that is being invoked.
Frame(node, depth) ==
    [node |-> node, depth |-> depth, at |-> "enter", plan |-> <<>>, planned |-> FALSE, next |-> 1]

WithTop(frame) == [stack EXCEPT ![Len(stack)] = frame]

Goto(at) == stack' = WithTop([Top EXCEPT !.at = at])

\* The top frame goes on with its next action.
GoOn(frame) == [frame EXCEPT !.at = "between", !.next = @ + 1]

\* An error ends every frame, and Execute stores the run as failed.
Unwind(why) ==
    phase' = "unwinding" /\ err' = why /\ stack' = <<>> /\ UNCHANGED <<flow, config, nodeRuns, run>>

-----------------------------------------------------------------------------
(***************************************************************************)
(* Execute                                                                 *)
(***************************************************************************)
Refuse(why) == phase' = "returned" /\ err' = why /\ UNCHANGED <<flow, config, stack, nodeRuns, run>>

Execute ==
    LET normal == NormalizedSupervisorConfig(flow)
    IN /\ phase = "idle" /\ flow # NoFlow
       /\ \/ ~ValidateRuntimeAgentGraph(flow.graph) /\ Refuse("graph") /\ NoFault
          \/ /\ ValidateRuntimeAgentGraph(flow.graph)
             /\ \/ ~ValidateRuntimeSupervisorConfig(normal) /\ Refuse("config") /\ NoFault
                \/ /\ ValidateRuntimeSupervisorConfig(normal)
                   /\ \/ Fault /\ Refuse("store")
                      \/ /\ NoFault
                         /\ config' = normal /\ phase' = "running" /\ run' = "running"
                         /\ stack' = <<Frame(RuntimeSupervisorNodeID(flow.graph), 0)>>
                         /\ UNCHANGED <<flow, nodeRuns, err>>

\* The end of Execute: UpdateRun, whose failure is returned if nothing else failed.
FinishRun ==
    /\ phase = "unwinding" /\ phase' = "returned"
    /\ \/ NoFault /\ run' = (IF err = "none" THEN "succeeded" ELSE "failed") /\ UNCHANGED err
       \/ Fault /\ err' = (IF err = "none" THEN "store" ELSE err) /\ UNCHANGED run
    /\ UNCHANGED <<flow, config, stack, nodeRuns>>

-----------------------------------------------------------------------------
(***************************************************************************)
(* executeAgentGraphNode                                                   *)
(***************************************************************************)
\* Up to the plan: the node's own agent and then its children's are loaded, and any of
\* them may be gone or disabled by now.
EnterNode ==
    LET children == ChildrenOf(Graph, Top.node)
    IN /\ phase = "running" /\ Top.at = "enter"
       /\ IF \/ Top.depth > config.maxDepth
             \/ \E i \in 1..(Len(stack) - 1) : stack[i].node = Top.node
          THEN Unwind("limit")
          ELSE \/ Unwind("agent")
               \/ /\ children # <<>> /\ Top.depth >= config.maxDepth
                  /\ Unwind("limit")
               \/ /\ children = <<>> \/ Top.depth < config.maxDepth
                  /\ Goto("between") /\ UNCHANGED <<flow, config, phase, nodeRuns, run, err>>
       /\ NoFault

\* An agent's enabled skills, and its tools with those of its enabled skills.
LoadAgentCapabilityConfig(agent) ==
    LET Enabled(s) == SkillSpecs[s].enabled
        skills     == SelectSeq(Profiles[agent].skills, Enabled)
        tools[i \in 0..Len(skills)] ==
            IF i = 0 THEN Profiles[agent].tools ELSE tools[i - 1] \o SkillSpecs[skills[i]].tools
    IN [tools |-> tools[Len(skills)], skills |-> skills]

Registry ==
    LET loaded == LoadAgentCapabilityConfig(Graph.nodes[Top.node].agent)
    IN [children |-> ChildrenOf(Graph, Top.node), tools |-> loaded.tools, skills |-> loaded.skills]

\* invokeAgentStep, to where the agent is called: the node run is recorded first.
InvokeAgentStep(step) ==
    \/ Fault /\ Unwind("store")
    \/ /\ NoFault
       /\ nodeRuns' = Append(nodeRuns, [node |-> Top.node, step |-> step, status |-> "running"])
       /\ Goto(step) /\ UNCHANGED <<flow, config, phase, run, err>>

Action == Top.plan[Top.next]

\* What comes next in the top frame: planning, an action in the plan's order, the answer.
NextStep ==
    /\ phase = "running" /\ Top.at = "between"
    /\ \/ ~Top.planned /\ InvokeAgentStep("planning")
       \/ Top.planned /\ Top.next > Len(Top.plan) /\ InvokeAgentStep("final")
       \/ /\ Top.planned /\ Top.next <= Len(Top.plan)
          /\ \/ /\ Action.type = "tool"
                /\ IF FindToolAction(Registry.tools, Action) = Nothing
                   THEN Unwind("unknown") /\ NoFault ELSE InvokeAgentStep("tool")
             \/ /\ Action.type = "skill"
                /\ IF FindSkillAction(Registry.skills, Action) = Nothing
                   THEN Unwind("unknown") /\ NoFault ELSE InvokeAgentStep("skill")

\* An agent action calls executeAgentGraphNode for the child.
CallChild ==
    /\ phase = "running" /\ Top.at = "between"
    /\ Top.planned /\ Top.next <= Len(Top.plan) /\ Action.type = "agent"
    /\ IF \E i \in DOMAIN Registry.children : Registry.children[i] = Action.node
       THEN /\ stack' = Append(WithTop([Top EXCEPT !.at = "child"]),
                               Frame(Action.node, Top.depth + 1))
            /\ UNCHANGED <<flow, config, phase, nodeRuns, run, err>>
       ELSE Unwind("unknown")
    /\ NoFault

\* The top frame returns: to the parent's loop over its actions, or from the root.
ReturnFrame ==
    IF Len(stack) = 1
    THEN stack' = <<>> /\ phase' = "unwinding"
    ELSE /\ stack' = [i \in 1..(Len(stack) - 1) |->
                        IF i = Len(stack) - 1 THEN GoOn(stack[i]) ELSE stack[i]]
         /\ UNCHANGED phase

Finished(status) ==
    [nodeRuns EXCEPT ![Len(nodeRuns)] = [@ EXCEPT !.status = status]]

\* The agent failed: so does its node run, if that can be stored, and so does everything.
StepFails ==
    /\ phase = "running" /\ Top.at \in Steps
    /\ phase' = "unwinding" /\ err' = "agent" /\ stack' = <<>> /\ UNCHANGED <<flow, config, run>>
    /\ \/ NoFault /\ nodeRuns' = Finished("failed")
       \/ Fault /\ UNCHANGED nodeRuns

\* Mutation of StepAnswered: an answer counts though it could not be stored.
StepAnsweredUnrecorded ==
    /\ phase = "running" /\ Top.at \in Steps \ {"planning"}
    /\ \/ NoFault /\ nodeRuns' = Finished("succeeded")
       \/ Fault /\ UNCHANGED nodeRuns
    /\ \/ /\ Top.at \in {"tool", "skill"}
          /\ stack' = WithTop(GoOn(Top))
          /\ UNCHANGED phase
       \/ Top.at = "final" /\ ReturnFrame
    /\ UNCHANGED <<flow, config, run, err>>

\* The agent answered a tool or skill action, or gave the final answer.
StepAnswered ==
    /\ phase = "running" /\ Top.at \in Steps \ {"planning"}
    /\ \/ Fault /\ Unwind("store")
       \/ /\ NoFault /\ nodeRuns' = Finished("succeeded")
          /\ \/ /\ Top.at \in {"tool", "skill"}
                /\ stack' = WithTop(GoOn(Top))
                /\ UNCHANGED phase
             \/ Top.at = "final" /\ ReturnFrame
          /\ UNCHANGED <<flow, config, run, err>>

\* The agent answered with a plan. One with nothing to do may hold the answer; one that
\* is no JSON, or neither, is an error.
PlanAnswered ==
    /\ phase = "running" /\ Top.at = "planning"
    /\ \/ Fault /\ Unwind("store")
       \/ /\ NoFault /\ nodeRuns' = Finished("succeeded")
          /\ \/ /\ phase' = "unwinding" /\ err' = "plan" /\ stack' = <<>>
             \/ \E actions \in Plans :
                  LET plan == FilterActionPlan(Graph, actions, Registry, config.maxCalls)
                  IN /\ IF plan = <<>> THEN ReturnFrame
                        ELSE /\ stack' = WithTop([Top EXCEPT !.at = "between", !.plan = plan,
                                                             !.planned = TRUE])
                             /\ UNCHANGED phase
                     /\ UNCHANGED err
          /\ UNCHANGED <<flow, config, run>>

\* What the agent decides, and what the runner does by itself.
AgentAnswers   == PlanAnswered \/ StepAnswered
SupervisorStep == Execute \/ EnterNode \/ NextStep \/ CallChild \/ FinishRun
=============================================================================
