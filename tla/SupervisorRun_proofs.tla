------------------------ MODULE SupervisorRun_proofs ------------------------
(***************************************************************************)
(* What is stored of a supervisor run is what happened to it, and the run  *)
(* keeps within its limits, for every flow, every plan and any number of   *)
(* faults.                                                                 *)
(***************************************************************************)
EXTENDS AgentServices, SequenceTheorems, FiniteRecursion, TLAPS

-----------------------------------------------------------------------------
(* Sequences, of whatever they are.                                        *)

IsSeq(s) == \E S : s \in Seq(S)

LEMMA SeqLength ==
    ASSUME NEW s, IsSeq(s)
    PROVE  Len(s) \in Nat /\ DOMAIN s = 1..Len(s)
BY LenProperties DEF IsSeq

LEMMA SeqAppend ==
    ASSUME NEW s, IsSeq(s), NEW e
    PROVE  LET t == Append(s, e)
           IN /\ IsSeq(t) /\ Len(t) = Len(s) + 1 /\ t[Len(t)] = e
              /\ \A i \in 1..Len(s) : t[i] = s[i]
<1>1. PICK S : s \in Seq(S)
  BY DEF IsSeq
<1>2. s \in Seq(S \cup {e})
  BY <1>1, SeqMonotonic, ElementOfSeq
<1> QED BY <1>2, AppendProperties DEF IsSeq

LEMMA SeqExcept ==
    ASSUME NEW s, IsSeq(s), NEW e, NEW i \in 1..Len(s)
    PROVE  LET t == [s EXCEPT ![i] = e]
           IN /\ IsSeq(t) /\ Len(t) = Len(s) /\ t[i] = e
              /\ \A j \in 1..Len(s) : j # i => t[j] = s[j]
<1>1. PICK S : s \in Seq(S)
  BY DEF IsSeq
<1>2. s \in Seq(S \cup {e})
  BY <1>1, SeqMonotonic, ElementOfSeq
<1> QED BY <1>2, ExceptSeq DEF IsSeq

LEMMA SeqTable ==
    ASSUME NEW n \in Nat, NEW s, s = [i \in 1..n |-> s[i]]
    PROVE  IsSeq(s) /\ Len(s) = n
<1>1. s \in Seq({s[i] : i \in 1..n})
  BY IsASeq
<1> QED BY <1>1, LenProperties DEF IsSeq

-----------------------------------------------------------------------------
(* The invariant: what the recursion and the store know of each other.     *)

Phases == {"idle", "running", "unwinding", "returned"}

RunType ==
    /\ faults \in Nat /\ phase \in Phases
    /\ IsSeq(stack) /\ \A i \in DOMAIN stack : "at" \in DOMAIN stack[i]
    /\ IsSeq(nodeRuns) /\ \A i \in DOMAIN nodeRuns : "status" \in DOMAIN nodeRuns[i]

AllSucceeded == \A i \in DOMAIN nodeRuns : nodeRuns[i].status = "succeeded"

\* Only the last node run may be open, and only while its agent is at work.
NodeRunsTold ==
    phase = "running" =>
       /\ stack # <<>> /\ run = "running" /\ err = "none"
       /\ Top.at \notin Steps => AllSucceeded
       /\ Top.at \in Steps =>
             /\ nodeRuns # <<>> /\ nodeRuns[Len(nodeRuns)].status = "running"
             /\ \A i \in DOMAIN nodeRuns : i # Len(nodeRuns) => nodeRuns[i].status = "succeeded"

EndTold ==
    /\ phase = "idle" => run = "none" /\ nodeRuns = <<>> /\ err = "none"
    /\ phase = "unwinding" => run = "running" /\ (err = "none" => AllSucceeded)
    /\ phase \in {"unwinding", "returned"} =>
          \A i \in DOMAIN nodeRuns : nodeRuns[i].status = "running" =>
             i = Len(nodeRuns) /\ faults > 0 /\ err \in {"agent", "store"}
    /\ phase = "returned" => (run = "succeeded") = (err = "none")
    /\ run = "succeeded" => phase = "returned" /\ AllSucceeded

RunInv == RunType /\ NodeRunsTold /\ EndTold

LEMMA RunStart == Init => RunInv
<1> SUFFICES ASSUME Init
             PROVE  RunInv
  OBVIOUS
<1>1. /\ faults = 0 /\ phase = "idle" /\ stack = <<>> /\ nodeRuns = <<>> /\ run = "none"
      /\ err = "none"
  BY DEF Init, FaultsInit, SupervisorInit
<1>2. IsSeq(<<>>) /\ DOMAIN <<>> = {}
  BY EmptySeq, LenProperties DEF IsSeq
<1> QED BY <1>1, <1>2 DEF RunInv, RunType, NodeRunsTold, EndTold, Phases, AllSucceeded

\* Faults are only counted up.
LEMMA FaultsCounted ==
    ASSUME faults \in Nat, NoFault \/ Fault
    PROVE  faults' \in Nat /\ faults' >= faults /\ (Fault => faults' > 0)
BY DEF NoFault, Fault

LEMMA OthersStep ==
    ASSUME RunInv, UNCHANGED supervisorVars, NoFault \/ Fault
    PROVE  RunInv'
<1>1. faults' \in Nat /\ faults' >= faults
  BY FaultsCounted DEF RunInv, RunType
<1> QED BY <1>1 DEF RunInv, RunType, NodeRunsTold, EndTold, AllSucceeded, Top, supervisorVars

\* An error ends the run, whose open node run, if any, was left by a fault.
LEMMA UnwindStep ==
    ASSUME RunInv, phase = "running", NEW why, why # "none", Unwind(why),
           (Fault /\ why = "store") \/ (NoFault /\ Top.at \notin Steps)
    PROVE  RunInv'
<1>1. /\ faults' \in Nat /\ (Top.at \in Steps => faults' > 0 /\ why = "store")
  BY FaultsCounted DEF RunInv, RunType
<1>2. /\ stack' = <<>> /\ phase' = "unwinding" /\ err' = why /\ UNCHANGED <<nodeRuns, run>>
      /\ run = "running"
  BY DEF Unwind, RunInv, NodeRunsTold
<1>3. IsSeq(<<>>) /\ DOMAIN <<>> = {}
  BY EmptySeq, LenProperties DEF IsSeq
<1> QED BY <1>1, <1>2, <1>3
        DEF RunInv, RunType, NodeRunsTold, EndTold, AllSucceeded, Phases

-----------------------------------------------------------------------------
(* Steps of the recursion.                                                 *)

Stacked(s) == IsSeq(s) /\ s # <<>> /\ \A i \in DOMAIN s : "at" \in DOMAIN s[i]

LEMMA NonEmpty ==
    ASSUME NEW s, IsSeq(s), s # <<>>
    PROVE  Len(s) \in 1..Len(s) /\ Len(s) \in Nat /\ DOMAIN s = 1..Len(s)
<1>1. Len(s) # 0
  BY EmptySeq DEF IsSeq
<1> QED BY <1>1, SeqLength

LEMMA RunningStack ==
    ASSUME RunInv, phase = "running"
    PROVE  Stacked(stack) /\ "at" \in DOMAIN Top
<1>1. IsSeq(stack) /\ stack # <<>> /\ \A i \in DOMAIN stack : "at" \in DOMAIN stack[i]
  BY DEF RunInv, RunType, NodeRunsTold
<1> QED BY <1>1, NonEmpty DEF Stacked, Top

LEMMA TopReplaced ==
    ASSUME RunInv, phase = "running", NEW frame, "at" \in DOMAIN frame
    PROVE  LET s == WithTop(frame) IN Stacked(s) /\ s[Len(s)] = frame
<1>1. Stacked(stack) /\ Len(stack) \in 1..Len(stack) /\ DOMAIN stack = 1..Len(stack)
  BY RunningStack, NonEmpty DEF Stacked
<1> DEFINE s == [stack EXCEPT ![Len(stack)] = frame]
<1>2. /\ IsSeq(s) /\ Len(s) = Len(stack) /\ s[Len(stack)] = frame
      /\ \A j \in 1..Len(stack) : j # Len(stack) => s[j] = stack[j]
  BY <1>1, SeqExcept DEF Stacked
<1>3. DOMAIN s = 1..Len(stack)
  BY <1>2, SeqLength
<1>4. s # <<>>
  BY <1>1, <1>3, EmptySeq, LenProperties
<1> HIDE DEF s
<1>5. \A i \in DOMAIN s : "at" \in DOMAIN s[i]
  BY <1>1, <1>2, <1>3 DEF Stacked
<1> QED BY <1>2, <1>4, <1>5 DEF Stacked, WithTop, s

\* A step that goes on between two agent steps.
LEMMA BetweenStep ==
    ASSUME RunInv, phase = "running", NoFault, Stacked(stack'), Top'.at \notin Steps,
           UNCHANGED <<phase, run, err, nodeRuns>>, Top.at \notin Steps
    PROVE  RunInv'
<1>1. faults' \in Nat /\ faults' = faults
  BY FaultsCounted DEF RunInv, RunType, NoFault
<1> QED BY <1>1 DEF RunInv, RunType, NodeRunsTold, EndTold, AllSucceeded, Stacked

LEMMA ExecuteStep ==
    ASSUME RunInv, Execute
    PROVE  RunInv'
<1>1. faults' \in Nat /\ phase = "idle" /\ run = "none" /\ nodeRuns = <<>> /\ err = "none"
  BY FaultsCounted DEF Execute, RunInv, RunType, EndTold
<1>2. IsSeq(<<>>) /\ DOMAIN <<>> = {}
  BY EmptySeq, LenProperties DEF IsSeq
<1>3. ASSUME NEW why, why # "none", Refuse(why)
      PROVE  RunInv'
  BY <1>1, <1>2, <1>3 DEF Refuse, RunInv, RunType, NodeRunsTold, EndTold, AllSucceeded, Phases
<1>4. ASSUME NEW node, stack' = <<Frame(node, 0)>>, phase' = "running", run' = "running",
             UNCHANGED <<nodeRuns, err>>
      PROVE  RunInv'
  <2>1. /\ IsSeq(<<Frame(node, 0)>>) /\ Len(<<Frame(node, 0)>>) = 1 /\ <<Frame(node, 0)>> # <<>>
        /\ <<Frame(node, 0)>>[1] = Frame(node, 0) /\ DOMAIN <<Frame(node, 0)>> = {1}
    <3>1. <<Frame(node, 0)>> \in Seq({Frame(node, 0)})
      OBVIOUS
    <3>2. IsSeq(<<Frame(node, 0)>>)
      BY <3>1 DEF IsSeq
    <3> QED BY <3>2
  <2>2. "at" \in DOMAIN Frame(node, 0) /\ Frame(node, 0).at = "enter"
    BY DEF Frame
  <2>3. Top'.at \notin Steps
    BY <1>4, <2>1, <2>2 DEF Top, Steps
  <2> QED BY <1>1, <1>2, <1>4, <2>1, <2>2, <2>3
          DEF RunInv, RunType, NodeRunsTold, EndTold, AllSucceeded, Phases
<1> QED BY <1>3, <1>4 DEF Execute

LEMMA FinishStep ==
    ASSUME RunInv, FinishRun
    PROVE  RunInv'
<1>1. /\ faults' \in Nat /\ faults' >= faults /\ faults \in Nat
      /\ phase = "unwinding" /\ phase' = "returned" /\ UNCHANGED <<stack, nodeRuns>>
      /\ run = "running"
  BY FaultsCounted DEF FinishRun, RunInv, RunType, EndTold
<1>2. \/ run' = (IF err = "none" THEN "succeeded" ELSE "failed") /\ UNCHANGED err
      \/ err' = (IF err = "none" THEN "store" ELSE err) /\ UNCHANGED run
  BY DEF FinishRun
<1> QED BY <1>1, <1>2 DEF RunInv, RunType, NodeRunsTold, EndTold, AllSucceeded, Phases

LEMMA InvokeStep ==
    ASSUME RunInv, phase = "running", Top.at = "between", NEW step \in Steps, InvokeAgentStep(step)
    PROVE  RunInv'
<1>1. Top.at \notin Steps
  BY DEF Steps
<1>2. CASE Fault /\ Unwind("store")
  BY <1>2, UnwindStep
<1>3. CASE NoFault /\ ~(Fault /\ Unwind("store"))
  <2> DEFINE r == [node |-> Top.node, step |-> step, status |-> "running"]
             s == Append(nodeRuns, r)
  <2>1. /\ nodeRuns' = s /\ stack' = WithTop([Top EXCEPT !.at = step])
        /\ UNCHANGED <<phase, run, err>> /\ faults' = faults
    BY <1>3 DEF InvokeAgentStep, Goto, NoFault
  <2>2. /\ IsSeq(s) /\ Len(s) = Len(nodeRuns) + 1 /\ s[Len(s)] = r
        /\ \A i \in 1..Len(nodeRuns) : s[i] = nodeRuns[i]
        /\ Len(nodeRuns) \in Nat /\ DOMAIN nodeRuns = 1..Len(nodeRuns)
    BY SeqAppend, SeqLength DEF RunInv, RunType
  <2>3. r.status = "running" /\ "status" \in DOMAIN r
    OBVIOUS
  <2>4. DOMAIN s = 1..(Len(nodeRuns) + 1)
    BY <2>2, SeqLength
  <2>5. s # <<>>
    <3>1. Len(s) # 0
      BY <2>2
    <3> QED BY <3>1
  <2> HIDE DEF s, r
  <2>6. Stacked(stack') /\ Top' = [Top EXCEPT !.at = step] /\ Top'.at = step
    BY <2>1, RunningStack, TopReplaced DEF Top
  <2>7. AllSucceeded /\ run = "running" /\ err = "none"
    BY <1>1 DEF RunInv, NodeRunsTold
  <2>8. \A i \in DOMAIN s : "status" \in DOMAIN s[i]
    BY <2>2, <2>3, <2>4 DEF RunInv, RunType
  <2>9. \A i \in DOMAIN s : i # Len(s) => s[i].status = "succeeded"
    BY <2>2, <2>4, <2>7 DEF AllSucceeded
  <2> QED BY <2>1, <2>2, <2>3, <2>5, <2>6, <2>7, <2>8, <2>9
          DEF RunInv, RunType, NodeRunsTold, EndTold, Stacked
<1> QED BY <1>2, <1>3 DEF InvokeAgentStep

LEMMA NextStepKept ==
    ASSUME RunInv, NextStep
    PROVE  RunInv'
<1>1. phase = "running" /\ Top.at = "between" /\ Top.at \notin Steps
  BY DEF NextStep, Steps
<1>2. CASE \E step \in Steps : InvokeAgentStep(step)
  BY <1>1, <1>2, InvokeStep
<1>3. CASE Unwind("unknown") /\ NoFault
  BY <1>1, <1>3, UnwindStep
<1> QED BY <1>2, <1>3 DEF NextStep, Steps

LEMMA EnterKept ==
    ASSUME RunInv, EnterNode
    PROVE  RunInv'
<1>1. phase = "running" /\ Top.at = "enter" /\ Top.at \notin Steps /\ NoFault
  BY DEF EnterNode, Steps
<1>2. CASE Unwind("limit") \/ Unwind("agent")
  BY <1>1, <1>2, UnwindStep
<1>3. CASE Goto("between") /\ UNCHANGED <<flow, config, phase, nodeRuns, run, err>>
  <2>1. "at" \in DOMAIN [Top EXCEPT !.at = "between"] /\ [Top EXCEPT !.at = "between"].at = "between"
    BY <1>1, RunningStack
  <2>2. Stacked(stack') /\ Top' = [Top EXCEPT !.at = "between"]
    BY <1>1, <1>3, <2>1, TopReplaced DEF Goto, Top
  <2> QED BY <1>1, <1>3, <2>1, <2>2, BetweenStep DEF Steps
<1> QED BY <1>2, <1>3 DEF EnterNode

LEMMA CallKept ==
    ASSUME RunInv, CallChild
    PROVE  RunInv'
<1>1. phase = "running" /\ Top.at = "between" /\ Top.at \notin Steps /\ NoFault
  BY DEF CallChild, Steps
<1>2. CASE Unwind("unknown")
  BY <1>1, <1>2, UnwindStep
<1>3. CASE /\ stack' = Append(WithTop([Top EXCEPT !.at = "child"]), Frame(Action.node, Top.depth + 1))
           /\ UNCHANGED <<flow, config, phase, nodeRuns, run, err>>
  <2> DEFINE s == WithTop([Top EXCEPT !.at = "child"])
             f == Frame(Action.node, Top.depth + 1)
             t == Append(s, f)
  <2>1. "at" \in DOMAIN [Top EXCEPT !.at = "child"]
    BY <1>1, RunningStack
  <2>2. Stacked(s)
    BY <1>1, <2>1, TopReplaced
  <2>3. "at" \in DOMAIN f /\ f.at = "enter"
    BY DEF Frame
  <2> HIDE DEF s, f
  <2>4. /\ IsSeq(t) /\ Len(t) = Len(s) + 1 /\ t[Len(t)] = f
        /\ \A j \in 1..Len(s) : t[j] = s[j]
    BY <2>2, SeqAppend DEF Stacked
  <2>5. Len(s) \in Nat /\ DOMAIN s = 1..Len(s) /\ DOMAIN t = 1..(Len(s) + 1)
    BY <2>2, <2>4, SeqLength DEF Stacked
  <2>6. t # <<>>
    <3>1. Len(t) # 0
      BY <2>4, <2>5
    <3> QED BY <3>1
  <2> HIDE DEF t
  <2>7. \A j \in DOMAIN t : "at" \in DOMAIN t[j]
    <3>1. \A j \in DOMAIN t : j \in DOMAIN s \/ j = Len(t)
      BY <2>4, <2>5
    <3> QED BY <2>2, <2>3, <2>4, <2>5, <3>1 DEF Stacked
  <2>8. stack' = t
    BY <1>3 DEF s, f, t
  <2> QED BY <1>1, <1>3, <2>3, <2>4, <2>6, <2>7, <2>8, BetweenStep DEF Stacked, Top, Steps
<1> QED BY <1>2, <1>3 DEF CallChild

-----------------------------------------------------------------------------
(* Answers.                                                                *)

\* The node run of the step that is answered is closed.
LEMMA RunClosed ==
    ASSUME RunInv, phase = "running", Top.at \in Steps, NEW status
    PROVE  LET s == Finished(status)
           IN /\ IsSeq(s) /\ \A i \in DOMAIN s : "status" \in DOMAIN s[i]
              /\ \A i \in DOMAIN s : s[i].status \in {status, "succeeded"}
<1>1. /\ IsSeq(nodeRuns) /\ nodeRuns # <<>> /\ run = "running"
      /\ \A i \in DOMAIN nodeRuns : "status" \in DOMAIN nodeRuns[i]
      /\ \A i \in DOMAIN nodeRuns : i # Len(nodeRuns) => nodeRuns[i].status = "succeeded"
  BY DEF RunInv, RunType, NodeRunsTold
<1>2. Len(nodeRuns) \in 1..Len(nodeRuns) /\ DOMAIN nodeRuns = 1..Len(nodeRuns)
  BY <1>1, NonEmpty
<1> DEFINE r == [nodeRuns[Len(nodeRuns)] EXCEPT !.status = status]
           s == [nodeRuns EXCEPT ![Len(nodeRuns)] = r]
<1>3. "status" \in DOMAIN r /\ r.status = status
  BY <1>1, <1>2
<1>4. Finished(status) = s
  BY <1>2 DEF Finished
<1> HIDE DEF r
<1>5. /\ IsSeq(s) /\ Len(s) = Len(nodeRuns) /\ s[Len(nodeRuns)] = r
      /\ \A j \in 1..Len(nodeRuns) : j # Len(nodeRuns) => s[j] = nodeRuns[j]
  BY <1>1, <1>2, SeqExcept
<1>6. DOMAIN s = DOMAIN nodeRuns
  BY <1>2, <1>5, SeqLength
<1> HIDE DEF s
<1> QED BY <1>1, <1>2, <1>3, <1>4, <1>5, <1>6

LEMMA FrameReturned ==
    ASSUME RunInv, phase = "running", ReturnFrame
    PROVE  \/ stack' = <<>> /\ phase' = "unwinding"
           \/ Stacked(stack') /\ Top'.at = "between" /\ phase' = phase
<1>1. Stacked(stack) /\ Len(stack) \in 1..Len(stack) /\ Len(stack) \in Nat /\ DOMAIN stack = 1..Len(stack)
  BY RunningStack, NonEmpty DEF Stacked
<1>2. CASE Len(stack) # 1
  <2> DEFINE n == Len(stack) - 1
             s == [i \in 1..n |-> IF i = n THEN GoOn(stack[i]) ELSE stack[i]]
  <2>1. n \in Nat /\ n \in 1..n /\ \A i \in 1..n : i \in DOMAIN stack
    BY <1>1, <1>2
  <2>2. \A i \in 1..n : "at" \in DOMAIN stack[i]
    BY <1>1, <2>1 DEF Stacked
  <2>3. "at" \in DOMAIN GoOn(stack[n]) /\ GoOn(stack[n]).at = "between"
    BY <2>1, <2>2 DEF GoOn
  <2>4. stack' = s /\ phase' = phase
    BY <1>2 DEF ReturnFrame
  <2> HIDE DEF n
  <2>5. s[n] = GoOn(stack[n]) /\ \A i \in 1..n : i # n => s[i] = stack[i]
    BY <2>1
  <2>6. DOMAIN s = 1..n /\ s = [i \in 1..n |-> s[i]]
    OBVIOUS
  <2> HIDE DEF s
  <2>7. IsSeq(s) /\ Len(s) = n
    BY <2>1, <2>6, SeqTable
  <2>8. s # <<>>
    <3>1. Len(s) # 0
      BY <2>1, <2>7
    <3> QED BY <3>1
  <2>9. \A i \in DOMAIN s : "at" \in DOMAIN s[i]
    BY <2>2, <2>3, <2>5, <2>6
  <2> QED BY <2>3, <2>4, <2>5, <2>7, <2>8, <2>9 DEF Stacked, Top
<1> QED BY <1>2 DEF ReturnFrame

LEMMA AnswerKept ==
    ASSUME RunInv, phase = "running", Top.at \in Steps, NoFault, UNCHANGED run,
           nodeRuns' = Finished("succeeded"),
           \/ stack' = <<>> /\ phase' = "unwinding"
           \/ Stacked(stack') /\ Top'.at = "between" /\ phase' = phase /\ UNCHANGED err
    PROVE  RunInv'
<1>1. faults' \in Nat /\ run = "running" /\ err = "none"
  BY FaultsCounted DEF RunInv, RunType, NodeRunsTold
<1>2. /\ IsSeq(nodeRuns') /\ \A i \in DOMAIN nodeRuns' : "status" \in DOMAIN nodeRuns'[i]
      /\ AllSucceeded'
  BY RunClosed DEF AllSucceeded
<1>3. IsSeq(<<>>) /\ DOMAIN <<>> = {}
  BY EmptySeq, LenProperties DEF IsSeq
<1>4. CASE stack' = <<>> /\ phase' = "unwinding"
  BY <1>1, <1>2, <1>3, <1>4 DEF RunInv, RunType, NodeRunsTold, EndTold, AllSucceeded, Phases
<1>5. CASE Stacked(stack') /\ Top'.at = "between" /\ phase' = phase /\ UNCHANGED err
  BY <1>1, <1>2, <1>5
     DEF RunInv, RunType, NodeRunsTold, EndTold, AllSucceeded, Phases, Stacked, Steps
<1> QED BY <1>4, <1>5

LEMMA StepAnsweredKept ==
    ASSUME RunInv, StepAnswered
    PROVE  RunInv'
<1>1. phase = "running" /\ Top.at \in Steps
  BY DEF StepAnswered
<1>2. CASE Fault /\ Unwind("store")
  BY <1>1, <1>2, UnwindStep
<1>3. CASE NoFault /\ nodeRuns' = Finished("succeeded") /\ UNCHANGED <<run, err>>
  <2>1. CASE stack' = WithTop(GoOn(Top)) /\ UNCHANGED phase
    <3>1. "at" \in DOMAIN GoOn(Top) /\ GoOn(Top).at = "between"
      BY <1>1, RunningStack DEF GoOn
    <3>2. Stacked(stack') /\ Top' = GoOn(Top)
      BY <1>1, <2>1, <3>1, TopReplaced DEF Top
    <3> QED BY <1>1, <1>3, <2>1, <3>1, <3>2, AnswerKept
  <2>2. CASE ReturnFrame
    BY <1>1, <1>3, <2>2, FrameReturned, AnswerKept
  <2> QED BY <1>2, <1>3, <2>1, <2>2 DEF StepAnswered
<1> QED BY <1>2, <1>3 DEF StepAnswered

LEMMA PlanAnsweredKept ==
    ASSUME RunInv, PlanAnswered
    PROVE  RunInv'
<1>1. phase = "running" /\ Top.at \in Steps
  BY DEF PlanAnswered, Steps
<1>2. CASE Fault /\ Unwind("store")
  BY <1>1, <1>2, UnwindStep
<1>3. CASE NoFault /\ nodeRuns' = Finished("succeeded") /\ UNCHANGED run
  <2>1. ASSUME NEW plan, UNCHANGED phase, UNCHANGED err,
               stack' = WithTop([Top EXCEPT !.at = "between", !.plan = plan, !.planned = TRUE])
        PROVE  RunInv'
    <3> DEFINE f == [Top EXCEPT !.at = "between", !.plan = plan, !.planned = TRUE]
    <3>1. "at" \in DOMAIN f /\ f.at = "between"
      BY <1>1, RunningStack
    <3> HIDE DEF f
    <3>2. Stacked(stack') /\ Top' = f
      BY <1>1, <2>1, <3>1, TopReplaced DEF Top, f
    <3> QED BY <1>1, <1>3, <2>1, <3>1, <3>2, AnswerKept
  <2>2. CASE ReturnFrame /\ UNCHANGED err
    BY <1>1, <1>3, <2>2, FrameReturned, AnswerKept
  <2>3. CASE phase' = "unwinding" /\ stack' = <<>>
    BY <1>1, <1>3, <2>3, AnswerKept
  <2> QED BY <1>2, <2>1, <2>2, <2>3 DEF PlanAnswered
<1> QED BY <1>2, <1>3 DEF PlanAnswered

LEMMA StepFailsKept ==
    ASSUME RunInv, StepFails
    PROVE  RunInv'
<1>1. /\ phase = "running" /\ Top.at \in Steps /\ phase' = "unwinding" /\ err' = "agent"
      /\ stack' = <<>> /\ UNCHANGED run /\ run = "running"
  BY DEF StepFails, RunInv, NodeRunsTold
<1>2. IsSeq(<<>>) /\ DOMAIN <<>> = {}
  BY EmptySeq, LenProperties DEF IsSeq
<1>3. CASE NoFault /\ nodeRuns' = Finished("failed")
  <2>1. /\ IsSeq(nodeRuns') /\ \A i \in DOMAIN nodeRuns' : "status" \in DOMAIN nodeRuns'[i]
        /\ \A i \in DOMAIN nodeRuns' : nodeRuns'[i].status # "running"
    BY <1>1, <1>3, RunClosed
  <2>2. faults' \in Nat
    BY <1>3, FaultsCounted DEF RunInv, RunType
  <2> QED BY <1>1, <1>2, <2>1, <2>2 DEF RunInv, RunType, NodeRunsTold, EndTold, Phases
<1>4. CASE Fault /\ UNCHANGED nodeRuns
  <2>1. faults' \in Nat /\ faults' > 0
    BY <1>4, FaultsCounted DEF RunInv, RunType
  <2>2. \A i \in DOMAIN nodeRuns : i # Len(nodeRuns) => nodeRuns[i].status = "succeeded"
    BY <1>1 DEF RunInv, NodeRunsTold
  <2> QED BY <1>1, <1>2, <1>4, <2>1, <2>2 DEF RunInv, RunType, NodeRunsTold, EndTold, Phases
<1> QED BY <1>3, <1>4 DEF StepFails

LEMMA RunKept == RunInv /\ [Next]_vars => RunInv'
<1> SUFFICES ASSUME RunInv, [Next]_vars
             PROVE  RunInv'
  OBVIOUS
<1>1. CASE RunStep
  BY <1>1, ExecuteStep, EnterKept, NextStepKept, CallKept, FinishStep, StepFailsKept,
     PlanAnsweredKept, StepAnsweredKept DEF RunStep, SupervisorStep, AgentAnswers
<1>2. CASE UNCHANGED vars
  BY <1>2, OthersStep DEF vars, NoFault, supervisorVars
<1>3. ASSUME NEW c \in Calls, Start(c) \/ ToolStep(c) \/ ConnectorStep(c)
      PROVE  UNCHANGED supervisorVars /\ (NoFault \/ Fault)
  BY <1>3 DEF Start, ExecuteTool, ToolStep, ResolveTool, RunWorkflow, RunPython, CallMCP,
              Retrieve, BackendAnswers, AdapterReturns, Finish, ConnectorStep
<1> QED BY <1>1, <1>2, <1>3, OthersStep DEF Next

\* What is stored of a run is what happened to it: succeeded exactly when its caller was
\* told so, each of its steps then, too; and only the last may be left open, where a write
\* failed and the caller got an error.
THEOREM RunTellsStepsHolds == Spec => []RunTellsSteps
<1>1. RunInv => RunTellsSteps
  <2> SUFFICES ASSUME RunInv
               PROVE  RunTellsSteps
    OBVIOUS
  <2>1. ASSUME NEW i \in DOMAIN nodeRuns, nodeRuns[i].status = "running"
        PROVE  /\ i = Len(nodeRuns)
               /\ IF phase = "running" THEN Top.at \in Steps
                  ELSE faults > 0 /\ err \in {"agent", "store"}
    <3>1. phase # "idle"
      <4>1. DOMAIN <<>> = {}
        BY EmptySeq, LenProperties
      <4> QED BY <2>1, <4>1 DEF RunInv, EndTold
    <3> QED BY <2>1, <3>1 DEF RunInv, RunType, NodeRunsTold, EndTold, AllSucceeded, Phases
  <2> QED BY <2>1 DEF RunInv, RunType, EndTold, AllSucceeded, RunTellsSteps
<1> QED BY RunStart, RunKept, <1>1, PTL DEF Spec

-----------------------------------------------------------------------------
(* What the loops over the edges of an agent graph and over the actions of *)
(* a plan make.                                                            *)

\* What the loop of ChildrenOf makes of a function of its rounds.
Targets(edges, n, f) ==
    [i \in 0..Len(edges) |->
        IF i = 0 THEN <<>>
        ELSE IF edges[i][1] = n /\ n # Entry THEN Append(f[i - 1], edges[i][2])
        ELSE f[i - 1]]

LEMMA TargetsExist ==
    ASSUME NEW D, NEW edges \in Seq(D \X D), NEW n
    PROVE  \E f : f = Targets(edges, n, f)
<1> DEFINE N == Len(edges)
           T == Seq(D)
           Round(i, t) == IF edges[i][1] = n /\ n # Entry THEN Append(t, edges[i][2]) ELSE t
           step == [i \in 1..N |-> [t \in T |-> Round(i, t)]]
<1>1. N \in Nat /\ \A i \in 1..N : edges[i] \in D \X D
  BY LenProperties, ElementOfSeq
<1>2. \A i \in 1..N, t \in T : Round(i, t) \in T
  <2> SUFFICES ASSUME NEW i \in 1..N, NEW t \in T
               PROVE  Round(i, t) \in T
    OBVIOUS
  <2>1. PICK e : e = edges[i]
    OBVIOUS
  <2>2. e[2] \in D
    BY <1>1, <2>1
  <2> QED BY <2>1, <2>2, AppendProperties
<1>3. <<>> \in T
  OBVIOUS
<1> HIDE DEF N, T, Round
<1>4. step \in Rounds(N, T)
  BY <1>2 DEF Rounds
<1>5. \A i \in 1..N, t \in T : step[i][t] = Round(i, t)
  OBVIOUS
<1> HIDE DEF step
<1>6. PICK f : Iterates(f, N, T, <<>>, step)
  BY <1>1, <1>3, <1>4, IterationExists
<1>7. \A i \in 1..N : f[i] = Round(i, f[i - 1])
  <2>1. \A i \in 1..N : i - 1 \in 0..N
    BY <1>1
  <2> QED BY <1>5, <1>6, <2>1 DEF Iterates
<1>8. f = [i \in 0..N |-> IF i = 0 THEN <<>> ELSE Round(i, f[i - 1])]
  BY <1>1, <1>6, <1>7 DEF Iterates
<1>9. f = Targets(edges, n, f)
  BY <1>8, Zenon DEF Targets, N, Round
<1> QED BY <1>9

\* ChildrenOf adds the target of one edge after the other.
LEMMA ChildrenAreNodes ==
    ASSUME NEW graph, IsGraph(graph), NEW n
    PROVE  ChildrenOf(graph, n) \in Seq(DOMAIN graph.nodes)
<1>1. PICK D : D = DOMAIN graph.nodes
  OBVIOUS
<1>2. PICK edges : edges = graph.edges
  OBVIOUS
<1>3. PICK kept : kept = CHOOSE f : f = Targets(edges, n, f)
  OBVIOUS
<1>4. edges \in Seq(D \X D)
  BY <1>1, <1>2 DEF IsGraph
<1>5. kept = Targets(edges, n, kept)
  BY <1>3, <1>4, TargetsExist
<1>6. ChildrenOf(graph, n) = kept[Len(edges)]
  BY <1>2, <1>3, Zenon DEF ChildrenOf, Targets
<1>7. Len(edges) \in Nat /\ \A i \in 1..Len(edges) : edges[i] \in D \X D
  BY <1>4, LenProperties, ElementOfSeq
<1>8. \A i \in 0..Len(edges) : kept[i] \in Seq(D)
  <2> DEFINE S == {i \in 0..Len(edges) : kept[i] \in Seq(D)}
  <2>1. 0 \in S
    BY <1>5, <1>7 DEF Targets
  <2>2. ASSUME NEW i \in 1..Len(edges), i - 1 \in S
        PROVE  i \in S
    <3>1. PICK e, t : e = edges[i] /\ t = kept[i - 1]
      OBVIOUS
    <3>2. e[2] \in D /\ t \in Seq(D) /\ i # 0 /\ i \in 0..Len(edges)
      BY <1>7, <2>2, <3>1
    <3>3. kept[i] = t \/ kept[i] = Append(t, e[2])
      BY <1>5, <3>1, <3>2 DEF Targets
    <3>4. Append(t, e[2]) \in Seq(D)
      BY <3>2, AppendProperties
    <3>5. kept[i] \in Seq(D)
      BY <3>2, <3>3, <3>4
    <3> QED BY <3>1, <3>2, <3>5
  <2> HIDE DEF S
  <2>3. \A i \in 0..Len(edges) : i \in S
    BY <1>7, <2>1, <2>2, Reaches
  <2> QED BY <2>3 DEF S
<1> QED BY <1>1, <1>6, <1>7, <1>8

\* What the loop of FilterActionPlan makes of a function of its rounds.
Kept(resolved, n, max, f) ==
    [i \in 0..n |->
        IF i = 0 THEN <<>>
        ELSE IF resolved[i] = Nothing \/ (max > 0 /\ Len(f[i - 1]) >= max)
        THEN f[i - 1]
        ELSE Append(f[i - 1], resolved[i])]

\* Sequences of R, as long as the cap allows.
Capped(R, max) == {t \in Seq(R) : max > 0 => Len(t) <= max}

LEMMA RoundCapped ==
    ASSUME NEW R, NEW max \in Int, NEW t \in Capped(R, max), NEW r \in R
    PROVE  (IF r = Nothing \/ (max > 0 /\ Len(t) >= max) THEN t ELSE Append(t, r)) \in Capped(R, max)
<1>1. t \in Seq(R) /\ Len(t) \in Nat /\ (max > 0 => Len(t) <= max)
  BY LenProperties DEF Capped
<1>2. Append(t, r) \in Seq(R) /\ Len(Append(t, r)) = Len(t) + 1
  BY <1>1, AppendProperties
<1> QED BY <1>1, <1>2 DEF Capped

LEMMA KeptExist ==
    ASSUME NEW n \in Nat, NEW resolved, NEW max \in Int
    PROVE  \E f : /\ f = Kept(resolved, n, max, f)
                  /\ \A i \in 0..n : f[i] \in Capped({resolved[j] : j \in 1..n}, max)
<1> DEFINE R == {resolved[i] : i \in 1..n}
           T == Capped(R, max)
           Round(i, t) == IF resolved[i] = Nothing \/ (max > 0 /\ Len(t) >= max) THEN t
                          ELSE Append(t, resolved[i])
           step == [i \in 1..n |-> [t \in T |-> Round(i, t)]]
<1>1. \A i \in 1..n, t \in T : Round(i, t) \in T
  BY RoundCapped
<1>2. <<>> \in T
  BY EmptySeq DEF Capped
<1> HIDE DEF T, Round
<1>3. step \in Rounds(n, T)
  BY <1>1 DEF Rounds
<1>4. \A i \in 1..n, t \in T : step[i][t] = Round(i, t)
  OBVIOUS
<1> HIDE DEF step
<1>5. PICK f : Iterates(f, n, T, <<>>, step)
  BY <1>2, <1>3, IterationExists
<1>6. \A i \in 1..n : f[i] = Round(i, f[i - 1])
  <2>1. \A i \in 1..n : i - 1 \in 0..n
    OBVIOUS
  <2> QED BY <1>4, <1>5, <2>1 DEF Iterates
<1>7. f = [i \in 0..n |-> IF i = 0 THEN <<>> ELSE Round(i, f[i - 1])]
  BY <1>5, <1>6 DEF Iterates
<1>8. f = Kept(resolved, n, max, f)
  BY <1>7, Zenon DEF Kept, Round
<1>9. \A i \in 0..n : f[i] \in T
  BY <1>5 DEF Iterates
<1> QED BY <1>8, <1>9 DEF T

\* Two functions of the same rounds are the same.
LEMMA KeptUnique ==
    ASSUME NEW n \in Nat, NEW resolved, NEW max, NEW f, NEW g,
           f = Kept(resolved, n, max, f), g = Kept(resolved, n, max, g)
    PROVE  f = g
<1> DEFINE S == {i \in 0..n : f[i] = g[i]}
<1>1. 0 \in S
  BY DEF Kept
<1>2. ASSUME NEW i \in 1..n, i - 1 \in S
      PROVE  i \in S
  <2>1. i \in 0..n /\ i # 0 /\ f[i - 1] = g[i - 1]
    BY <1>2
  <2> QED BY <2>1 DEF Kept
<1> HIDE DEF S
<1>3. \A i \in 0..n : f[i] = g[i]
  <2>1. \A i \in 0..n : i \in S
    BY <1>1, <1>2, Reaches
  <2> QED BY <2>1 DEF S
<1> QED BY <1>3 DEF Kept

\* What is left of a plan is a sequence no longer than the cap.
LEMMA FilteredPlan ==
    ASSUME NEW graph, NEW actions, DOMAIN actions = 1..Len(actions), Len(actions) \in Nat,
           NEW registry, NEW max \in Int
    PROVE  LET plan == FilterActionPlan(graph, actions, registry, max)
           IN /\ IsSeq(plan) /\ Len(plan) \in Nat
              /\ max > 0 => Len(plan) <= max
<1>1. PICK n : n = Len(actions)
  OBVIOUS
<1>2. PICK resolved : resolved = [i \in DOMAIN actions |-> Resolve(graph, registry, actions[i])]
  OBVIOUS
<1>3. PICK kept : kept = CHOOSE f : f = Kept(resolved, n, max, f)
  OBVIOUS
<1>4. n \in Nat
  BY <1>1
<1>5. PICK g : /\ g = Kept(resolved, n, max, g)
               /\ \A i \in 0..n : g[i] \in Capped({resolved[j] : j \in 1..n}, max)
  BY <1>4, KeptExist
<1>6. kept = g
  <2> DEFINE R(f) == f = Kept(resolved, n, max, f)
  <2>1. kept = CHOOSE f : R(f)
    BY <1>3
  <2>2. R(g)
    BY <1>5
  <2>3. \A f : R(f) => f = g
    BY <1>4, <2>2, KeptUnique
  <2> HIDE DEF R
  <2> QED BY <2>1, <2>2, <2>3
<1>7. FilterActionPlan(graph, actions, registry, max) = kept[n]
  <2>1. FilterActionPlan(graph, actions, registry, max)
          = (CHOOSE f : f = Kept([i \in DOMAIN actions |-> Resolve(graph, registry, actions[i])],
                                Len(actions), max, f))[Len(actions)]
    BY Zenon DEF FilterActionPlan, Kept
  <2> QED BY <1>1, <1>2, <1>3, <2>1, Zenon
<1>8. n \in 0..n
  BY <1>4
<1>9. kept[n] \in Capped({resolved[j] : j \in 1..n}, max)
  BY <1>5, <1>6, <1>8
<1> QED BY <1>7, <1>9, LenProperties DEF Capped, IsSeq

-----------------------------------------------------------------------------
(* Bounds.                                                                 *)

LEMMA MaxOfPair ==
    ASSUME NEW a \in Int, NEW b \in Int
    PROVE  LET m == MaxOf({a, b}) IN m \in {a, b} /\ a <= m /\ b <= m
<1>1. \E m \in {a, b} : \A k \in {a, b} : k <= m
  OBVIOUS
<1>2. PICK m : m = CHOOSE z \in {a, b} : \A k \in {a, b} : k <= z
  OBVIOUS
<1>3. m \in {a, b} /\ \A k \in {a, b} : k <= m
  BY <1>1, <1>2, Zenon
<1>4. MaxOf({a, b}) = m
  BY <1>2, Zenon DEF MaxOf
<1> QED BY <1>3, <1>4

LEMMA MaxOfBounded ==
    ASSUME NEW S, NEW n \in Nat, S \in SUBSET (0..n), S # {}
    PROVE  MaxOf(S) \in S /\ \A k \in S : k <= MaxOf(S)
<1>1. PICK m \in S : \A k \in S : k <= m
  BY GreatestNumber
<1>2. PICK x : x = CHOOSE z \in S : \A k \in S : k <= z
  OBVIOUS
<1>3. x \in S /\ \A k \in S : k <= x
  BY <1>1, <1>2, Zenon
<1>4. MaxOf(S) = x
  BY <1>2, Zenon DEF MaxOf
<1> QED BY <1>3, <1>4

\* What an action at most costs l levels above the deepest.
Cost(steps, l) == IF l = 0 THEN 1 ELSE MaxOf({1, steps[l - 1]})

Levels(steps, n, calls) == [l \in 0..n |-> 2 + calls * Cost(steps, l)]

\* What k actions and the final answer cost.
Price(k, cost) == k * cost + 1

LEMMA PriceNat ==
    ASSUME NEW k \in Nat, NEW cost \in Nat
    PROVE  Price(k, cost) \in Nat /\ Price(k, cost) > 0
<1>1. k * cost \in Nat
  OBVIOUS
<1> QED BY <1>1 DEF Price

StepsKnown(steps, n, calls) ==
    /\ \A l \in 0..n : /\ steps[l] \in Nat /\ Cost(steps, l) \in Nat \ {0}
                       /\ steps[l] = 1 + Price(calls, Cost(steps, l))
    /\ \A l \in 1..n : steps[l - 1] <= Cost(steps, l)

LEMMA CostOfNat ==
    ASSUME NEW calls \in Nat, NEW s \in Nat
    PROVE  LET m == MaxOf({1, s}) IN m \in Nat \ {0} /\ s <= m /\ 2 + calls * m \in Nat
<1>1. PICK m : m = MaxOf({1, s})
  OBVIOUS
<1>2. m \in {1, s} /\ 1 <= m /\ s <= m
  BY <1>1, MaxOfPair
<1>3. calls * m \in Nat
  BY <1>2
<1> QED BY <1>1, <1>2, <1>3

LEMMA LevelsExist ==
    ASSUME NEW n \in Nat, NEW calls \in Nat
    PROVE  \E f : f = Levels(f, n, calls)
<1> DEFINE Round(i, s) == 2 + calls * MaxOf({1, s})
           step == [i \in 1..n |-> [s \in Nat |-> Round(i, s)]]
<1>1. \A i \in 1..n, s \in Nat : Round(i, s) \in Nat
  BY CostOfNat
<1>2. 2 + calls * 1 \in Nat
  OBVIOUS
<1> HIDE DEF Round
<1>3. step \in Rounds(n, Nat)
  BY <1>1 DEF Rounds
<1>4. \A i \in 1..n, s \in Nat : step[i][s] = Round(i, s)
  OBVIOUS
<1> HIDE DEF step
<1>5. PICK f : Iterates(f, n, Nat, 2 + calls * 1, step)
  BY <1>2, <1>3, IterationExists
<1>6. \A i \in 1..n : f[i] = Round(i, f[i - 1])
  <2>1. \A i \in 1..n : i - 1 \in 0..n
    OBVIOUS
  <2> QED BY <1>4, <1>5, <2>1 DEF Iterates
<1>7. f = [i \in 0..n |-> IF i = 0 THEN 2 + calls * 1 ELSE Round(i, f[i - 1])]
  BY <1>5, <1>6 DEF Iterates
<1>8. \A i \in 0..n : (IF i = 0 THEN 2 + calls * 1 ELSE Round(i, f[i - 1])) = 2 + calls * Cost(f, i)
  BY Zenon DEF Round, Cost
<1>9. f = Levels(f, n, calls)
  BY <1>7, <1>8, Zenon DEF Levels
<1> QED BY <1>9

LEMMA StepsAtMostKnown ==
    ASSUME NEW limits, limits.maxDepth \in Nat, limits.maxCalls \in Nat
    PROVE  StepsKnown(StepsAtMost(limits), limits.maxDepth, limits.maxCalls)
<1>1. PICK n, calls : n = limits.maxDepth /\ calls = limits.maxCalls
  OBVIOUS
<1>2. n \in Nat /\ calls \in Nat
  BY <1>1
<1>3. PICK f : f = CHOOSE g : g = Levels(g, n, calls)
  OBVIOUS
<1>4. f = Levels(f, n, calls)
  BY <1>2, <1>3, LevelsExist
<1>5. StepsAtMost(limits) = f
  BY <1>1, <1>3, Zenon DEF StepsAtMost, Levels, Cost
<1>6. \A l \in 0..n : f[l] = 2 + calls * Cost(f, l)
  BY <1>4 DEF Levels
<1>7. Cost(f, 0) = 1 /\ \A l \in 1..n : Cost(f, l) = MaxOf({1, f[l - 1]})
  BY <1>2 DEF Cost
<1>8. \A l \in 0..n : f[l] \in Nat
  <2> DEFINE S == {l \in 0..n : f[l] \in Nat}
  <2>1. 0 \in S
    BY <1>2, <1>6, <1>7
  <2>2. ASSUME NEW l \in 1..n, l - 1 \in S
        PROVE  l \in S
    <3>1. PICK s : s = f[l - 1]
      OBVIOUS
    <3>2. s \in Nat /\ l \in 0..n /\ Cost(f, l) = MaxOf({1, s})
      BY <1>2, <1>7, <2>2, <3>1
    <3>3. f[l] = 2 + calls * MaxOf({1, s})
      BY <1>6, <3>2
    <3> QED BY <1>2, <3>2, <3>3, CostOfNat
  <2> HIDE DEF S
  <2>3. \A l \in 0..n : l \in S
    BY <1>2, <2>1, <2>2, Reaches
  <2> QED BY <2>3 DEF S
<1>9. ASSUME NEW l \in 1..n
      PROVE  Cost(f, l) \in Nat \ {0} /\ f[l - 1] <= Cost(f, l)
  <2>1. PICK s : s = f[l - 1]
    OBVIOUS
  <2>2. s \in Nat
    BY <1>2, <1>8, <2>1
  <2> QED BY <1>2, <1>7, <2>1, <2>2, CostOfNat
<1>10. StepsKnown(f, n, calls)
  <2>1. ASSUME NEW l \in 0..n
        PROVE  /\ f[l] \in Nat /\ Cost(f, l) \in Nat \ {0}
               /\ f[l] = 1 + Price(calls, Cost(f, l))
    <3>1. PICK cost : cost = Cost(f, l)
      OBVIOUS
    <3>2. cost \in Nat \ {0}
      BY <1>2, <1>7, <1>9, <3>1
    <3>3. f[l] = 2 + calls * cost /\ calls * cost \in Nat
      BY <1>2, <1>6, <3>1, <3>2
    <3>4. 2 + calls * cost = 1 + Price(calls, cost)
      BY <3>3 DEF Price
    <3> QED BY <1>8, <3>1, <3>2, <3>3, <3>4
  <2> QED BY <1>9, <2>1 DEF StepsKnown
<1> QED BY <1>1, <1>5, <1>10

-----------------------------------------------------------------------------
(* The way the recursion took, and what its steps may still cost.          *)

Positions == Steps \cup {"enter", "between", "child"}

\* A frame within limits c: its plan is as long as the cap allows, and what it calls is of
\* its plan.
FrameWithin(f, c) ==
    /\ DOMAIN f = {"node", "depth", "at", "plan", "planned", "next"}
    /\ f.at \in Positions /\ f.planned \in BOOLEAN /\ f.next \in Nat /\ Len(f.plan) \in Nat
    /\ IF f.planned THEN f.next \in 1..(Len(f.plan) + 1) ELSE f.next = 1
    /\ f.planned /\ c.maxCalls > 0 => Len(f.plan) <= c.maxCalls
    /\ f.at \in {"enter", "planning"} => ~f.planned
    /\ f.at \in {"tool", "skill", "child"} => f.planned /\ f.next <= Len(f.plan)

IsChild(graph, n, m) == \E k \in DOMAIN ChildrenOf(graph, n) : m = ChildrenOf(graph, n)[k]

\* The frames of s are a way down from the root, each waiting for the one below.
WayDown(s, graph, c) ==
    /\ IsSeq(s) /\ s # <<>> /\ Len(s) <= c.maxDepth + 1
    /\ s[1].node = RuntimeSupervisorNodeID(graph)
    /\ \A i \in 1..Len(s) :
          s[i].node \in DOMAIN graph.nodes /\ s[i].depth = i - 1 /\ FrameWithin(s[i], c)
    /\ \A i \in 1..(Len(s) - 1) :
          s[i].at = "child" /\ IsChild(graph, s[i].node, s[i + 1].node)
    /\ s[Len(s)].at # "child"

FlowTyped(f) == IsGraph(f.graph) /\ f.maxDepth \in Int /\ f.maxCalls \in Int

\* The configuration is the one Execute accepted.
ConfigOf(f, c) ==
    /\ f # NoFlow /\ ValidateRuntimeAgentGraph(f.graph)
    /\ c = NormalizedSupervisorConfig(f) /\ ValidateRuntimeSupervisorConfig(c)

\* The actions after the frame's next one, and with it.
After(f)  == Len(f.plan) - f.next
Coming(f) == Len(f.plan) - f.next + 1

\* What a frame may still cost, itself and all it calls.
Owed(f, steps, n) ==
    LET l == n - f.depth
        cost == Cost(steps, l)
    IN IF f.at = "final" THEN 0
       ELSE IF f.at = "planning" THEN steps[l] - 1
       ELSE IF f.at \in {"tool", "skill", "child"} THEN Price(After(f), cost)
       ELSE IF f.planned THEN Price(Coming(f), cost)
       ELSE steps[l]

\* The bound is divided among the frames: at each level b is what is left for those above.
Budgeted(s, runs, steps, n) ==
    \E b \in [0..Len(s) -> Int] :
       /\ b[0] = steps[n]
       /\ \A i \in 1..Len(s) : b[i] + Owed(s[i], steps, n) <= b[i - 1]
       /\ runs <= b[Len(s)]

\* The stack is within limits c of the graph, and so are the steps it may still make.
Within(s, runs, graph, c) ==
    /\ WayDown(s, graph, c)
    /\ c.maxCalls > 0 => Budgeted(s, runs, StepsAtMost(c), c.maxDepth)

LimitsInv ==
    /\ flow # NoFlow => FlowTyped(flow)
    /\ config # NoFlow \/ phase = "running" => ConfigOf(flow, config)
    /\ err # "limit"
    /\ phase = "running" => Within(stack, Len(nodeRuns), flow.graph, config)
    /\ config # NoFlow /\ config.maxCalls > 0
          => Len(nodeRuns) <= StepsAtMost(config)[config.maxDepth]

\* What an accepted graph and its configuration mean for the ways down.
Accepted(graph, c) ==
    /\ IsGraph(graph) /\ c.maxDepth \in 0..HardDepth /\ c.maxCalls \in Int
    /\ RuntimeSupervisorNodeID(graph) \in DOMAIN graph.nodes
    /\ \A w \in Ways(graph) : /\ Len(w) - 1 <= c.maxDepth
                              /\ \A i, j \in DOMAIN w : w[i] = w[j] => i = j

LEMMA WayOf ==
    ASSUME NEW graph, NEW k \in 1..(HardDepth + 2), NEW w \in [1..k -> DOMAIN graph.nodes],
           w[1] = RuntimeSupervisorNodeID(graph),
           \A i \in 1..(k - 1) : IsChild(graph, w[i], w[i + 1])
    PROVE  w \in Ways(graph) /\ Len(w) = k
<1>1. k \in Nat /\ HardDepth \in Nat
  BY GraphAssumption
<1>2. Len(w) = k
  <2>1. w \in Seq(DOMAIN graph.nodes)
    BY <1>1, IsASeq
  <2> QED BY <1>1, <2>1, LenProperties
<1>3. IsWay(graph, w)
  <2>1. Len(w) > 0
    BY <1>1, <1>2
  <2>2. \A i \in 1..(Len(w) - 1) : IsChild(graph, w[i], w[i + 1])
    BY <1>2
  <2> QED BY <2>1, <2>2, Zenon DEF IsWay, IsChild
<1>4. w \in UNION {[1..m -> DOMAIN graph.nodes] : m \in 1..(HardDepth + 2)}
  OBVIOUS
<1> QED BY <1>2, <1>3, <1>4, Zenon DEF Ways

LEMMA WaysShort ==
    ASSUME NEW graph, NEW w \in Ways(graph)
    PROVE  Len(w) \in 1..(HardDepth + 2) /\ DOMAIN w = 1..Len(w)
<1>1. PICK k \in 1..(HardDepth + 2) : w \in [1..k -> DOMAIN graph.nodes]
  BY Zenon DEF Ways
<1>2. k \in Nat /\ HardDepth \in Nat
  BY GraphAssumption
<1>3. w \in Seq(DOMAIN graph.nodes)
  BY <1>1, <1>2, IsASeq
<1> QED BY <1>1, <1>2, <1>3, LenProperties

LEMMA ConfigAccepted ==
    ASSUME NEW f, NEW c, FlowTyped(f), ConfigOf(f, c)
    PROVE  Accepted(f.graph, c)
<1>1. PICK graph : graph = f.graph
  OBVIOUS
<1>2. PICK root, deep : root = RuntimeSupervisorNodeID(graph) /\ deep = RuntimeAgentGraphDepth(graph)
  OBVIOUS
<1>3. /\ root \in DOMAIN graph.nodes /\ ValidateAcyclicAgentGraph(graph) /\ IsGraph(graph)
      /\ c.maxDepth \in 0..HardDepth
  BY <1>1, <1>2 DEF FlowTyped, ConfigOf, ValidateRuntimeAgentGraph, BuildRuntimeAgentGraph,
                    ValidateRuntimeSupervisorConfig
<1>4. root # Nothing /\ HardDepth \in Nat /\ DefaultDepth \in Int /\ DefaultCalls \in Int
  BY <1>3, GraphAssumption DEF IsGraph
<1> DEFINE S == {0} \cup {Len(w) - 1 : w \in Ways(graph)}
<1>5. deep = MaxOf(S)
  BY <1>2, <1>4, Zenon DEF RuntimeAgentGraphDepth
<1>6. S \in SUBSET (0..(HardDepth + 1)) /\ S # {} /\ HardDepth + 1 \in Nat
  BY <1>4, WaysShort
<1>7. \A w \in Ways(graph) : Len(w) - 1 \in S
  OBVIOUS
<1> HIDE DEF S
<1>8. deep \in 0..(HardDepth + 1) /\ \A k \in S : k <= deep
  BY <1>5, <1>6, MaxOfBounded
<1>9. PICK depth : depth = IF f.maxDepth = 0 THEN DefaultDepth ELSE f.maxDepth
  OBVIOUS
<1>10. c.maxDepth = MaxOf({depth, deep})
  BY <1>1, <1>2, <1>9 DEF ConfigOf, NormalizedSupervisorConfig
<1>11. depth \in Int /\ deep \in Int
  BY <1>4, <1>8, <1>9 DEF FlowTyped
<1>12. deep <= c.maxDepth
  BY <1>10, <1>11, MaxOfPair
<1>13. c.maxCalls \in Int
  BY <1>4 DEF ConfigOf, NormalizedSupervisorConfig, FlowTyped
<1>14. \A w \in Ways(graph) : Len(w) - 1 <= c.maxDepth
  <2> TAKE w \in Ways(graph)
  <2>1. PICK k : k = Len(w) - 1
    OBVIOUS
  <2>2. k \in S /\ k \in 0..(HardDepth + 1)
    BY <1>6, <1>7, <2>1
  <2>3. k <= deep
    BY <1>8, <2>2
  <2> QED BY <1>3, <1>4, <1>11, <1>12, <2>1, <2>2, <2>3
<1> QED BY <1>1, <1>2, <1>3, <1>13, <1>14 DEF Accepted, ValidateAcyclicAgentGraph

LEMMA FrameAt ==
    ASSUME NEW s, NEW graph, NEW c, WayDown(s, graph, c)
    PROVE  /\ Len(s) \in Nat \ {0} /\ DOMAIN s = 1..Len(s) /\ Len(s) \in 1..Len(s)
           /\ Len(s) <= c.maxDepth + 1
           /\ s[Len(s)].depth = Len(s) - 1 /\ FrameWithin(s[Len(s)], c)
           /\ s[Len(s)].node \in DOMAIN graph.nodes
BY NonEmpty DEF WayDown

\* The frames of the stack are one of the ways.
LEMMA StackIsWay ==
    ASSUME NEW s, NEW graph, NEW c, WayDown(s, graph, c), Accepted(graph, c)
    PROVE  \A i, j \in 1..Len(s) : s[i].node = s[j].node => i = j
<1>1. PICK k : k = Len(s)
  OBVIOUS
<1>2. k \in Nat \ {0} /\ k <= c.maxDepth + 1 /\ c.maxDepth \in 0..HardDepth /\ HardDepth \in Nat
  BY <1>1, FrameAt, GraphAssumption DEF Accepted
<1>3. k \in 1..(HardDepth + 2)
  BY <1>2
<1>4. PICK w : w = [i \in 1..k |-> s[i].node]
  OBVIOUS
<1>5. w \in [1..k -> DOMAIN graph.nodes] /\ w[1] = RuntimeSupervisorNodeID(graph)
  BY <1>1, <1>2, <1>4 DEF WayDown
<1>6. \A i \in 1..(k - 1) : IsChild(graph, w[i], w[i + 1])
  <2> TAKE i \in 1..(k - 1)
  <2>1. i \in 1..k /\ i + 1 \in 1..k
    BY <1>2
  <2>2. w[i] = s[i].node /\ w[i + 1] = s[i + 1].node
    BY <1>4, <2>1
  <2>3. IsChild(graph, s[i].node, s[i + 1].node)
    BY <1>1 DEF WayDown
  <2> QED BY <2>2, <2>3
<1>7. w \in Ways(graph)
  BY <1>3, <1>5, <1>6, WayOf
<1>8. \A i, j \in DOMAIN w : w[i] = w[j] => i = j
  BY <1>7 DEF Accepted
<1> QED BY <1>1, <1>4, <1>8

\* Where there is a child, the way goes on, and so the limit is not reached yet.
LEMMA RoomForChildren ==
    ASSUME NEW s, NEW graph, NEW c, WayDown(s, graph, c), Accepted(graph, c),
           ChildrenOf(graph, s[Len(s)].node) # <<>>
    PROVE  s[Len(s)].depth < c.maxDepth
<1>1. PICK k, top : k = Len(s) /\ top = s[k].node
  OBVIOUS
<1>2. /\ k \in Nat \ {0} /\ k <= c.maxDepth + 1 /\ c.maxDepth \in 0..HardDepth /\ HardDepth \in Nat
      /\ s[k].depth = k - 1
  BY <1>1, FrameAt, GraphAssumption DEF Accepted
<1>3. k + 1 \in 1..(HardDepth + 2)
  BY <1>2
<1>4. PICK q : q = ChildrenOf(graph, top)
  OBVIOUS
<1>5. q \in Seq(DOMAIN graph.nodes) /\ q # <<>>
  BY <1>1, <1>4, ChildrenAreNodes DEF Accepted
<1>6. 1 \in DOMAIN q /\ q[1] \in DOMAIN graph.nodes
  <2>1. Len(q) \in 1..Len(q) /\ DOMAIN q = 1..Len(q) /\ Len(q) \in Nat
    BY <1>5, NonEmpty DEF IsSeq
  <2> QED BY <1>5, <2>1, ElementOfSeq
<1>7. PICK w : w = [i \in 1..(k + 1) |-> IF i = k + 1 THEN q[1] ELSE s[i].node]
  OBVIOUS
<1>8. w \in [1..(k + 1) -> DOMAIN graph.nodes] /\ w[1] = RuntimeSupervisorNodeID(graph)
  BY <1>1, <1>2, <1>6, <1>7 DEF WayDown
<1>9. \A i \in 1..((k + 1) - 1) : IsChild(graph, w[i], w[i + 1])
  <2> TAKE i \in 1..((k + 1) - 1)
  <2>1. CASE i = k
    <3>1. w[i] = top /\ w[i + 1] = q[1]
      BY <1>1, <1>2, <1>7, <2>1
    <3> QED BY <1>4, <1>6, <3>1 DEF IsChild
  <2>2. CASE i # k
    <3>1. i \in 1..(k - 1) /\ i \in 1..(k + 1) /\ i + 1 \in 1..(k + 1) /\ i # k + 1 /\ i + 1 # k + 1
      BY <1>2, <2>2
    <3>2. w[i] = s[i].node /\ w[i + 1] = s[i + 1].node
      BY <1>7, <3>1
    <3>3. IsChild(graph, s[i].node, s[i + 1].node)
      BY <1>1, <3>1 DEF WayDown
    <3> QED BY <3>2, <3>3
  <2> QED BY <2>1, <2>2
<1>10. w \in Ways(graph) /\ Len(w) = k + 1
  BY <1>3, <1>8, <1>9, WayOf
<1>11. Len(w) - 1 <= c.maxDepth
  BY <1>10 DEF Accepted
<1> QED BY <1>1, <1>2, <1>10, <1>11

\* t is s with e at i; and s with e after it.
Puts(t, s, i, e) == t = [s EXCEPT ![i] = e]

IsPut(t, s, n, i, e) ==
    IsSeq(t) /\ Len(t) = n /\ t[i] = e /\ \A j \in 1..n : j # i => t[j] = s[j]

IsAdded(t, s, n, e) ==
    IsSeq(t) /\ Len(t) = n + 1 /\ t[n + 1] = e /\ \A j \in 1..n : t[j] = s[j]

LEMMA SeqPut ==
    ASSUME NEW s, IsSeq(s), NEW e, NEW i \in 1..Len(s), NEW t, Puts(t, s, i, e)
    PROVE  IsPut(t, s, Len(s), i, e)
<1>1. PICK S : s \in Seq(S)
  BY DEF IsSeq
<1>2. s \in Seq(S \cup {e})
  BY <1>1, SeqMonotonic, ElementOfSeq
<1> QED BY <1>2, ExceptSeq DEF IsSeq, Puts, IsPut

LEMMA SeqAdd ==
    ASSUME NEW s, IsSeq(s), NEW e, NEW t, t = Append(s, e)
    PROVE  IsAdded(t, s, Len(s), e)
BY SeqAppend DEF IsAdded

\* The frame goes on where it is.
Same(f, g) == f.node = g.node /\ f.depth = g.depth

LEMMA WayTop ==
    ASSUME NEW s, NEW graph, NEW c, WayDown(s, graph, c),
           NEW f, Same(f, s[Len(s)]), f.at # "child", FrameWithin(f, c),
           NEW t, Puts(t, s, Len(s), f)
    PROVE  WayDown(t, graph, c)
<1>1. PICK n : n = Len(s)
  OBVIOUS
<1>2. IsSeq(s) /\ n \in Nat \ {0} /\ n \in 1..n
  BY <1>1, FrameAt DEF WayDown
<1>3. /\ IsSeq(t) /\ Len(t) = n /\ t[n] = f
      /\ \A j \in 1..n : j # n => t[j] = s[j]
  <2>1. IsPut(t, s, n, n, f)
    BY <1>1, <1>2, SeqPut
  <2> QED BY <2>1 DEF IsPut
<1>4. t # <<>>
  <2>1. Len(t) # 0
    BY <1>2, <1>3
  <2> QED BY <2>1
<1>5. \A j \in 1..n : Same(t[j], s[j])
  BY <1>1, <1>3 DEF Same
<1>6. \A j \in 1..n : FrameWithin(t[j], c)
  BY <1>1, <1>3 DEF WayDown
<1>7. \A i \in 1..(n - 1) : t[i] = s[i] /\ i \in 1..n /\ i + 1 \in 1..n
  BY <1>2, <1>3
<1>8. \A i \in 1..(n - 1) : t[i].at = "child" /\ IsChild(graph, t[i].node, t[i + 1].node)
  BY <1>1, <1>5, <1>7 DEF WayDown, Same
<1>9. 1 \in 1..n
  BY <1>2
<1> QED BY <1>1, <1>3, <1>4, <1>5, <1>6, <1>8, <1>9 DEF WayDown, Same

LEMMA WayPush ==
    ASSUME NEW s, NEW graph, NEW c, WayDown(s, graph, c), c.maxDepth \in Int,
           s[Len(s)].depth < c.maxDepth,
           NEW p, Same(p, s[Len(s)]), p.at = "child", FrameWithin(p, c),
           NEW f, f.node \in DOMAIN graph.nodes, IsChild(graph, p.node, f.node),
           f.depth = Len(s), f.at # "child", FrameWithin(f, c),
           NEW u, Puts(u, s, Len(s), p), NEW t, t = Append(u, f)
    PROVE  WayDown(t, graph, c)
<1>1. PICK n : n = Len(s)
  OBVIOUS
<1>2. IsSeq(s) /\ n \in Nat \ {0} /\ n \in 1..n /\ s[n].depth = n - 1
  BY <1>1, FrameAt DEF WayDown
<1>3. Puts(u, s, n, p)
  BY <1>1
<1>4. /\ IsSeq(u) /\ Len(u) = n /\ u[n] = p
      /\ \A j \in 1..n : j # n => u[j] = s[j]
  <2>1. IsPut(u, s, n, n, p)
    BY <1>1, <1>2, <1>3, SeqPut
  <2> QED BY <2>1 DEF IsPut
<1>5. /\ IsSeq(t) /\ Len(t) = n + 1 /\ t[n + 1] = f
      /\ \A j \in 1..n : t[j] = u[j]
  <2>1. IsAdded(t, u, n, f)
    BY <1>4, SeqAdd
  <2> QED BY <2>1 DEF IsAdded
<1>6. t # <<>>
  <2>1. Len(t) # 0
    BY <1>2, <1>5
  <2> QED BY <2>1
<1>7. \A j \in 1..n : Same(t[j], s[j]) /\ FrameWithin(t[j], c)
  BY <1>1, <1>4, <1>5 DEF Same, WayDown
<1>8. \A j \in 1..(n + 1) : j \in 1..n \/ j = n + 1
  BY <1>2
<1>9. \A j \in 1..(n + 1) :
         t[j].node \in DOMAIN graph.nodes /\ t[j].depth = j - 1 /\ FrameWithin(t[j], c)
  <2>1. f.depth = (n + 1) - 1
    BY <1>1, <1>2
  <2> QED BY <1>1, <1>5, <1>7, <1>8, <2>1 DEF WayDown, Same
<1>10. ASSUME NEW i \in 1..n
       PROVE  t[i].at = "child" /\ IsChild(graph, t[i].node, t[i + 1].node)
  <2>1. CASE i = n
    BY <1>4, <1>5, <2>1
  <2>2. CASE i # n
    <3>1. i \in 1..(n - 1) /\ i + 1 \in 1..n
      BY <1>2, <2>2
    <3>2. s[i].at = "child" /\ IsChild(graph, s[i].node, s[i + 1].node)
      BY <1>1, <3>1 DEF WayDown
    <3>3. t[i] = s[i] /\ t[i + 1].node = s[i + 1].node
      BY <1>4, <1>5, <1>7, <2>2, <3>1 DEF Same
    <3> QED BY <3>2, <3>3
  <2> QED BY <2>1, <2>2
<1>11. 1 \in 1..n /\ (n + 1) - 1 = n /\ n + 1 <= c.maxDepth + 1
  BY <1>1, <1>2
<1> QED BY <1>1, <1>5, <1>6, <1>7, <1>9, <1>10, <1>11 DEF WayDown, Same

\* t is s up to n, with f there.
Cut(t, s, n, f) == t = [i \in 1..n |-> IF i = n THEN f ELSE s[i]]

LEMMA WayPop ==
    ASSUME NEW s, NEW graph, NEW c, WayDown(s, graph, c), c.maxDepth \in Int, NEW n, n = Len(s) - 1, n # 0,
           NEW f, Same(f, s[n]), f.at # "child", FrameWithin(f, c),
           NEW t, Cut(t, s, n, f)
    PROVE  WayDown(t, graph, c)
<1>1. n \in Nat \ {0} /\ n + 1 = Len(s) /\ n + 1 <= c.maxDepth + 1
  BY FrameAt
<1>2. t = [i \in 1..n |-> t[i]] /\ t[n] = f /\ \A j \in 1..n : j # n => t[j] = s[j]
  BY <1>1 DEF Cut
<1>3. IsSeq(t) /\ Len(t) = n
  BY <1>1, <1>2, SeqTable
<1>4. t # <<>>
  <2>1. Len(t) # 0
    BY <1>1, <1>3
  <2> QED BY <2>1
<1>5. \A j \in 1..n : j \in 1..Len(s)
  BY <1>1
<1>6. \A j \in 1..n : Same(t[j], s[j]) /\ FrameWithin(t[j], c)
  BY <1>2, <1>5 DEF Same, WayDown
<1>7. \A j \in 1..n :
         t[j].node \in DOMAIN graph.nodes /\ t[j].depth = j - 1 /\ FrameWithin(t[j], c)
  BY <1>5, <1>6 DEF WayDown, Same
<1>8. ASSUME NEW i \in 1..(n - 1)
      PROVE  t[i].at = "child" /\ IsChild(graph, t[i].node, t[i + 1].node)
  <2>1. i \in 1..n /\ i # n /\ i + 1 \in 1..n /\ i \in 1..(Len(s) - 1)
    BY <1>1
  <2>2. s[i].at = "child" /\ IsChild(graph, s[i].node, s[i + 1].node)
    BY <2>1 DEF WayDown
  <2> QED BY <1>2, <1>6, <2>1, <2>2 DEF Same
<1>9. 1 \in 1..n /\ n <= c.maxDepth + 1
  BY <1>1
<1> QED BY <1>2, <1>3, <1>4, <1>6, <1>7, <1>8, <1>9 DEF WayDown, Same

\* Every frame owes a number of steps.
LEMMA OwedNat ==
    ASSUME NEW f, NEW c, FrameWithin(f, c), NEW n \in Nat, NEW calls \in Nat,
           f.depth \in 0..n, NEW steps, StepsKnown(steps, n, calls)
    PROVE  Owed(f, steps, n) \in Nat
<1>1. PICK l, cost, k, i : l = n - f.depth /\ cost = Cost(steps, l) /\ k = Len(f.plan) /\ i = f.next
  OBVIOUS
<1>2. l \in 0..n /\ k \in Nat /\ i \in Nat
  BY <1>1 DEF FrameWithin
<1>3. cost \in Nat /\ steps[l] \in Nat /\ steps[l] = 1 + Price(calls, cost)
  BY <1>1, <1>2 DEF StepsKnown
<1>4. steps[l] - 1 \in Nat
  <2>1. PICK x, y : x = steps[l] /\ y = Price(calls, cost)
    OBVIOUS
  <2>2. y \in Nat /\ x = 1 + y
    BY <1>3, <2>1, PriceNat
  <2> QED BY <2>1, <2>2
<1>5. /\ f.planned \in BOOLEAN /\ (f.planned => Coming(f) \in Nat)
      /\ f.at \in {"tool", "skill", "child"} => After(f) \in Nat
  BY <1>1, <1>2 DEF FrameWithin, After, Coming
<1>6. /\ f.planned => Price(Coming(f), cost) \in Nat
      /\ f.at \in {"tool", "skill", "child"} => Price(After(f), cost) \in Nat
  BY <1>3, <1>5, PriceNat
<1> QED BY <1>1, <1>3, <1>4, <1>5, <1>6 DEF Owed

\* What is spent and what is owed is never more than the whole.
LEMMA BudgetHeld ==
    ASSUME NEW s, NEW runs \in Int, NEW steps, NEW n, Len(s) \in Nat, steps[n] \in Int,
           Budgeted(s, runs, steps, n),
           \A i \in 1..Len(s) : Owed(s[i], steps, n) \in Nat
    PROVE  runs <= steps[n]
<1>1. PICK b \in [0..Len(s) -> Int] :
         /\ b[0] = steps[n]
         /\ \A i \in 1..Len(s) : b[i] + Owed(s[i], steps, n) <= b[i - 1]
         /\ runs <= b[Len(s)]
  BY DEF Budgeted
<1> DEFINE S == {i \in 0..Len(s) : b[i] <= steps[n]}
<1>2. 0 \in S
  BY <1>1
<1>3. ASSUME NEW i \in 1..Len(s), i - 1 \in S
      PROVE  i \in S
  <2>1. PICK x, y, z : x = b[i] /\ y = b[i - 1] /\ z = Owed(s[i], steps, n)
    OBVIOUS
  <2>2. x + z <= y /\ x \in Int /\ y \in Int /\ z \in Nat /\ y <= steps[n] /\ i \in 0..Len(s)
    BY <1>1, <1>3, <2>1
  <2>3. x <= steps[n]
    BY <2>2
  <2> QED BY <2>1, <2>2, <2>3
<1> HIDE DEF S
<1>4. Len(s) \in S
  <2>1. \A i \in 0..Len(s) : i \in S
    BY <1>2, <1>3, Reaches
  <2> QED BY <2>1
<1>5. b[Len(s)] <= steps[n] /\ b[Len(s)] \in Int
  BY <1>1, <1>4 DEF S
<1> QED BY <1>1, <1>5

\* g is f with other values in these fields.
FrameIs(g, f, pos, plan, planned, next) ==
    /\ DOMAIN g = {"node", "depth", "at", "plan", "planned", "next"}
    /\ Same(g, f) /\ g.at = pos /\ g.plan = plan /\ g.planned = planned /\ g.next = next

LEMMA FramesMove ==
    ASSUME NEW f, NEW c, FrameWithin(f, c)
    PROVE  /\ \A pos : FrameIs([f EXCEPT !.at = pos], f, pos, f.plan, f.planned, f.next)
           /\ FrameIs(GoOn(f), f, "between", f.plan, f.planned, f.next + 1)
           /\ \A plan : FrameIs([f EXCEPT !.at = "between", !.plan = plan, !.planned = TRUE], f,
                                "between", plan, TRUE, f.next)
BY DEF FrameWithin, FrameIs, Same, GoOn

\* The frame may go on as g, when k more steps were made.
Moves(f, g, k, c) ==
    /\ Same(g, f) /\ FrameWithin(g, c)
    /\ \A steps : c.maxCalls > 0 /\ StepsKnown(steps, c.maxDepth, c.maxCalls)
                     => Owed(g, steps, c.maxDepth) + k <= Owed(f, steps, c.maxDepth)

LEMMA MoveOpens ==
    ASSUME NEW f, NEW c, FrameWithin(f, c), c.maxDepth \in Nat, c.maxCalls \in Int,
           f.depth \in 0..c.maxDepth, f.at = "enter",
           NEW g, FrameIs(g, f, "between", f.plan, f.planned, f.next)
    PROVE  Moves(f, g, 0, c)
<1>1. Same(g, f) /\ FrameWithin(g, c)
  BY DEF FrameWithin, FrameIs, Same, Positions
<1>2. ASSUME NEW steps, c.maxCalls > 0, StepsKnown(steps, c.maxDepth, c.maxCalls)
      PROVE  Owed(g, steps, c.maxDepth) + 0 <= Owed(f, steps, c.maxDepth)
  <2>1. PICK n, l, cost : n = c.maxDepth /\ l = n - f.depth /\ cost = Cost(steps, l)
    OBVIOUS
  <2>2. l = n - g.depth /\ l \in 0..n /\ steps[l] \in Nat
    BY <1>1, <1>2, <2>1 DEF Same, StepsKnown
  <2>3. PICK x, y : x = Owed(g, steps, n) /\ y = Owed(f, steps, n)
    OBVIOUS
  <2>4. ~f.planned /\ ~g.planned /\ g.at = "between"
    BY DEF FrameWithin, FrameIs
  <2>5. x = steps[l]
    BY <1>1, <2>1, <2>2, <2>3, <2>4 DEF FrameWithin, Owed
  <2>6. y = steps[l]
    BY <2>1, <2>3, <2>4 DEF FrameWithin, Owed
  <2> QED BY <2>1, <2>2, <2>3, <2>5, <2>6
<1> QED BY <1>1, <1>2 DEF Moves

LEMMA Distributes ==
    ASSUME NEW a \in Int, NEW b \in Int
    PROVE  (a + 1) * b = a * b + b
OBVIOUS

LEMMA ProductGrows ==
    ASSUME NEW a \in Nat, NEW m \in Nat, a <= m, NEW b \in Nat
    PROVE  a * b <= m * b /\ a * b \in Nat /\ m * b \in Nat
<1>1. PICK d \in Nat : m = a + d
  <2>1. m - a \in Nat /\ m = a + (m - a)
    OBVIOUS
  <2> QED BY <2>1
<1>2. m * b = a * b + d * b
  BY <1>1
<1>3. d * b \in Nat /\ a * b \in Nat
  OBVIOUS
<1> QED BY <1>2, <1>3

\* The action that g has begun was paid for in f.
Pays(f, g, steps, n) ==
    LET cost == Cost(steps, n - f.depth)
    IN cost \in Nat \ {0} /\ Owed(g, steps, n) + cost = Owed(f, steps, n)

LEMMA ActionPaid ==
    ASSUME NEW f, NEW c, FrameWithin(f, c), c.maxDepth \in Nat, c.maxCalls \in Int,
           f.depth \in 0..c.maxDepth, f.at = "between", f.planned, f.next <= Len(f.plan),
           NEW pos \in {"tool", "skill", "child"},
           NEW g, FrameIs(g, f, pos, f.plan, f.planned, f.next),
           NEW steps, c.maxCalls > 0, StepsKnown(steps, c.maxDepth, c.maxCalls)
    PROVE  Pays(f, g, steps, c.maxDepth)
<1>1. PICK n, l, cost : n = c.maxDepth /\ l = n - f.depth /\ cost = Cost(steps, l)
  OBVIOUS
<1>2. l = n - g.depth /\ l \in 0..n /\ cost \in Nat \ {0}
  BY <1>1 DEF Same, StepsKnown, FrameIs
<1>3. PICK x, y : x = Owed(g, steps, n) /\ y = Owed(f, steps, n)
  OBVIOUS
<1>4. PICK k, i : k = Len(f.plan) /\ i = f.next
  OBVIOUS
<1>5. k \in Nat /\ i \in Nat /\ Len(g.plan) = k /\ g.next = i
  BY <1>4 DEF FrameWithin, FrameIs
<1>6. /\ g.at \in Positions /\ g.planned \in BOOLEAN /\ f.at \in Positions
      /\ g.at \in {"tool", "skill", "child"}
  BY DEF FrameWithin, FrameIs, Positions, Steps
<1>7. x = Price(After(g), cost)
  BY <1>1, <1>2, <1>3, <1>6 DEF Owed
<1>8. y = Price(Coming(f), cost)
  BY <1>1, <1>3, <1>6 DEF Owed
<1>9. PICK a : a = k - i
  OBVIOUS
<1>10. a \in Int /\ After(g) = a /\ Coming(f) = a + 1
  BY <1>4, <1>5, <1>9 DEF After, Coming
<1>11. x + cost = y
  <2>1. (a + 1) * cost = a * cost + cost /\ a * cost \in Int
    BY <1>2, <1>10, Distributes
  <2> QED BY <1>2, <1>7, <1>8, <1>10, <2>1 DEF Price
<1> QED BY <1>1, <1>2, <1>3, <1>11 DEF Pays

LEMMA MoveInvokes ==
    ASSUME NEW f, NEW c, FrameWithin(f, c), c.maxDepth \in Nat, c.maxCalls \in Int,
           f.depth \in 0..c.maxDepth, f.at = "between",
           NEW step \in Steps,
           \/ step = "planning" /\ ~f.planned
           \/ step = "final" /\ f.planned /\ f.next > Len(f.plan)
           \/ step \in {"tool", "skill"} /\ f.planned /\ f.next <= Len(f.plan),
           NEW g, FrameIs(g, f, step, f.plan, f.planned, f.next)
    PROVE  Moves(f, g, 1, c)
<1>1. Same(g, f) /\ FrameWithin(g, c)
  BY DEF FrameWithin, FrameIs, Same, Positions, Steps
<1>2. ASSUME NEW steps, c.maxCalls > 0, StepsKnown(steps, c.maxDepth, c.maxCalls)
      PROVE  Owed(g, steps, c.maxDepth) + 1 <= Owed(f, steps, c.maxDepth)
  <2>1. PICK n, l, cost : n = c.maxDepth /\ l = n - f.depth /\ cost = Cost(steps, l)
    OBVIOUS
  <2>2. l = n - g.depth /\ l \in 0..n /\ steps[l] \in Nat /\ cost \in Nat \ {0}
    BY <1>1, <1>2, <2>1 DEF Same, StepsKnown
  <2>3. PICK x, y : x = Owed(g, steps, n) /\ y = Owed(f, steps, n)
    OBVIOUS
  <2>4. f.at \in Positions /\ g.at \in Positions /\ f.planned \in BOOLEAN /\ g.planned \in BOOLEAN
        /\ g.at = step
    BY <1>1 DEF FrameWithin, FrameIs
  <2>5. CASE step = "planning" /\ ~f.planned
    <3>1. x = steps[l] - 1
      BY <2>1, <2>2, <2>3, <2>4, <2>5 DEF Owed
    <3>2. y = steps[l]
      BY <2>1, <2>3, <2>4, <2>5 DEF Owed
    <3> QED BY <2>1, <2>2, <2>3, <3>1, <3>2
  <2>6. CASE step = "final" /\ f.planned /\ f.next > Len(f.plan)
    <3>1. x = 0
      BY <2>1, <2>2, <2>3, <2>4, <2>6 DEF Owed
    <3>2. y = Price(Coming(f), cost)
      BY <2>1, <2>3, <2>4, <2>6 DEF Owed
    <3>3. Coming(f) = 0
      BY <2>6 DEF FrameWithin, Coming
    <3>4. Price(0, cost) = 1
      BY <2>2 DEF Price
    <3> QED BY <2>1, <2>3, <3>1, <3>2, <3>3, <3>4
  <2>7. CASE step \in {"tool", "skill"} /\ f.planned /\ f.next <= Len(f.plan)
    <3>1. cost \in Nat \ {0} /\ x + cost = y
      <4>1. Pays(f, g, steps, n)
        BY <1>2, <2>1, <2>7, ActionPaid
      <4> QED BY <2>1, <2>3, <4>1 DEF Pays
    <3>2. x \in Nat
      <4>1. g.depth \in 0..n /\ c.maxCalls \in Nat
        BY <1>1, <1>2, <2>1 DEF Same
      <4> QED BY <1>1, <1>2, <2>1, <2>3, <4>1, OwedNat
    <3> QED BY <2>1, <2>3, <3>1, <3>2
  <2> QED BY <2>5, <2>6, <2>7
<1> QED BY <1>1, <1>2 DEF Moves

LEMMA MovePlans ==
    ASSUME NEW f, NEW c, FrameWithin(f, c), c.maxDepth \in Nat, c.maxCalls \in Int,
           f.depth \in 0..c.maxDepth, f.at = "planning",
           NEW plan, Len(plan) \in Nat, c.maxCalls > 0 => Len(plan) <= c.maxCalls,
           NEW g, FrameIs(g, f, "between", plan, TRUE, f.next)
    PROVE  Moves(f, g, 0, c)
<1>1. Same(g, f) /\ FrameWithin(g, c) /\ g.next = 1
  <2>1. f.next = 1
    BY DEF FrameWithin
  <2>2. /\ DOMAIN g = {"node", "depth", "at", "plan", "planned", "next"}
        /\ g.at = "between" /\ g.plan = plan /\ g.planned = TRUE /\ g.next = 1
        /\ g.node = f.node /\ g.depth = f.depth
    BY <2>1 DEF FrameIs, Same
  <2>3. g.at \in Positions /\ g.at \notin {"enter", "planning", "tool", "skill", "child"}
    BY <2>2 DEF Positions
  <2>4. Len(g.plan) \in Nat /\ (c.maxCalls > 0 => Len(g.plan) <= c.maxCalls)
    BY <2>2
  <2>5. g.next \in Nat /\ g.next \in 1..(Len(g.plan) + 1)
    BY <2>2, <2>4
  <2> QED BY <2>1, <2>2, <2>3, <2>4, <2>5 DEF FrameWithin, Same
<1>2. ASSUME NEW steps, c.maxCalls > 0, StepsKnown(steps, c.maxDepth, c.maxCalls)
      PROVE  Owed(g, steps, c.maxDepth) + 0 <= Owed(f, steps, c.maxDepth)
  <2>1. PICK n, l, cost : n = c.maxDepth /\ l = n - f.depth /\ cost = Cost(steps, l)
    OBVIOUS
  <2>2. PICK calls, k : calls = c.maxCalls /\ k = Len(plan)
    OBVIOUS
  <2>3. l = n - g.depth /\ l \in 0..n /\ calls \in Nat /\ k \in Nat /\ k <= calls
    BY <1>1, <1>2, <2>1, <2>2 DEF Same
  <2>4. cost \in Nat /\ steps[l] = 1 + Price(calls, cost)
    BY <1>2, <2>1, <2>2, <2>3 DEF StepsKnown
  <2>5. PICK x, y : x = Owed(g, steps, n) /\ y = Owed(f, steps, n)
    OBVIOUS
  <2>6. /\ f.at \in Positions /\ g.at = "between" /\ f.planned \in BOOLEAN /\ g.planned = TRUE
        /\ Len(g.plan) = k /\ g.next = 1 /\ g.at \in Positions
    BY <1>1, <2>2 DEF FrameWithin, FrameIs
  <2>7. x = Price(k, cost)
    <3>1. Coming(g) = k
      BY <2>3, <2>6 DEF Coming
    <3>2. x = Price(Coming(g), cost)
      BY <2>1, <2>3, <2>5, <2>6 DEF Owed
    <3> QED BY <3>1, <3>2
  <2>8. y = steps[l] - 1
    BY <2>1, <2>5, <2>6 DEF Owed
  <2>9. Price(k, cost) <= Price(calls, cost) /\ Price(k, cost) \in Nat /\ Price(calls, cost) \in Nat
    <3>1. k * cost <= calls * cost /\ k * cost \in Nat /\ calls * cost \in Nat
      BY <2>3, <2>4, ProductGrows
    <3> QED BY <3>1 DEF Price
  <2> QED BY <2>1, <2>4, <2>5, <2>7, <2>8, <2>9
<1> QED BY <1>1, <1>2 DEF Moves

LEMMA MoveGoesOn ==
    ASSUME NEW f, NEW c, FrameWithin(f, c), c.maxDepth \in Nat, c.maxCalls \in Int,
           f.depth \in 0..c.maxDepth, f.at \in {"tool", "skill", "child"},
           NEW g, FrameIs(g, f, "between", f.plan, f.planned, f.next + 1)
    PROVE  Moves(f, g, 0, c)
<1>1. Same(g, f) /\ FrameWithin(g, c)
  BY DEF FrameWithin, FrameIs, Same, Positions
<1>2. ASSUME NEW steps, c.maxCalls > 0, StepsKnown(steps, c.maxDepth, c.maxCalls)
      PROVE  Owed(g, steps, c.maxDepth) + 0 <= Owed(f, steps, c.maxDepth)
  <2>1. PICK n, l, cost : n = c.maxDepth /\ l = n - f.depth /\ cost = Cost(steps, l)
    OBVIOUS
  <2>2. l = n - g.depth
    BY <1>1, <2>1 DEF Same
  <2>3. PICK x, y : x = Owed(g, steps, n) /\ y = Owed(f, steps, n)
    OBVIOUS
  <2>4. /\ f.at \in Positions /\ g.at = "between" /\ f.planned /\ g.planned /\ f.planned \in BOOLEAN
        /\ g.planned \in BOOLEAN /\ g.at \in Positions
    BY <1>1 DEF FrameWithin, FrameIs
  <2>5. Coming(g) = After(f)
    BY DEF FrameWithin, FrameIs, After, Coming
  <2>6. x = Price(Coming(g), cost)
    BY <2>1, <2>2, <2>3, <2>4 DEF Owed
  <2>7. y = Price(After(f), cost)
    BY <2>1, <2>3, <2>4 DEF Owed
  <2>8. y \in Nat
    <3>1. c.maxCalls \in Nat
      BY <1>2
    <3> QED BY <1>2, <2>1, <2>3, <3>1, OwedNat
  <2> QED BY <2>1, <2>3, <2>5, <2>6, <2>7, <2>8
<1> QED BY <1>1, <1>2 DEF Moves

-----------------------------------------------------------------------------
(* The budget, as the stack grows and shrinks.                             *)

Bounds(c) == c.maxDepth \in Nat /\ c.maxCalls \in Int

LEMMA TableKnown ==
    ASSUME NEW c, Bounds(c), c.maxCalls > 0
    PROVE  StepsKnown(StepsAtMost(c), c.maxDepth, c.maxCalls)
BY StepsAtMostKnown DEF Bounds

LEMMA StackOwes ==
    ASSUME NEW s, NEW graph, NEW c, WayDown(s, graph, c), Bounds(c), c.maxCalls > 0
    PROVE  \A i \in 1..Len(s) : Owed(s[i], StepsAtMost(c), c.maxDepth) \in Nat
<1>1. Len(s) \in Nat \ {0} /\ Len(s) <= c.maxDepth + 1 /\ c.maxDepth \in Nat /\ c.maxCalls \in Nat
  BY FrameAt DEF Bounds
<1>2. TAKE i \in 1..Len(s)
<1>3. FrameWithin(s[i], c) /\ s[i].depth = i - 1
  BY DEF WayDown
<1>4. s[i].depth \in 0..c.maxDepth
  BY <1>1, <1>3
<1> QED BY <1>1, <1>3, <1>4, TableKnown, OwedNat

LEMMA BudgetTop ==
    ASSUME NEW s, NEW runs \in Int, NEW k \in Int, NEW steps, NEW n, NEW m \in Nat \ {0}, m = Len(s),
           Budgeted(s, runs, steps, n), NEW g, NEW t, IsPut(t, s, m, m, g),
           Owed(s[m], steps, n) \in Nat, Owed(g, steps, n) \in Nat,
           Owed(g, steps, n) + k <= Owed(s[m], steps, n)
    PROVE  Budgeted(t, runs + k, steps, n)
<1>1. PICK b \in [0..m -> Int] :
         /\ b[0] = steps[n]
         /\ \A i \in 1..m : b[i] + Owed(s[i], steps, n) <= b[i - 1]
         /\ runs <= b[m]
  BY DEF Budgeted
<1>2. PICK d : d = [i \in 0..m |-> IF i = m THEN b[m] + k ELSE b[i]]
  OBVIOUS
<1>3. m \in 0..m /\ 0 \in 0..m /\ 0 # m /\ b[m] \in Int
  BY <1>1
<1>4. /\ d \in [0..m -> Int] /\ d[m] = b[m] + k /\ d[0] = b[0]
      /\ \A i \in 0..m : i # m => d[i] = b[i]
  BY <1>1, <1>2, <1>3
<1>5. ASSUME NEW i \in 1..m
      PROVE  d[i] + Owed(t[i], steps, n) <= d[i - 1]
  <2>1. i \in 0..m /\ i - 1 \in 0..m /\ i - 1 # m
    OBVIOUS
  <2>2. d[i - 1] = b[i - 1] /\ b[i] + Owed(s[i], steps, n) <= b[i - 1]
    BY <1>1, <1>4, <2>1
  <2>3. CASE i = m
    <3>1. PICK x, y, p, q :
             x = b[m] /\ y = b[i - 1] /\ p = Owed(s[m], steps, n) /\ q = Owed(g, steps, n)
      OBVIOUS
    <3>2. x \in Int /\ y \in Int /\ p \in Nat /\ q \in Nat /\ q + k <= p /\ x + p <= y
      BY <1>1, <1>3, <2>1, <2>2, <2>3, <3>1
    <3>3. x + k + q <= y
      BY <3>2
    <3>4. t[i] = g /\ d[i] = x + k
      BY <1>4, <2>3, <3>1 DEF IsPut
    <3> QED BY <2>2, <3>1, <3>3, <3>4
  <2>4. CASE i # m
    <3>1. t[i] = s[i] /\ d[i] = b[i]
      BY <1>4, <2>1, <2>4 DEF IsPut
    <3> QED BY <2>2, <3>1
  <2> QED BY <2>3, <2>4
<1>6. runs + k <= d[m]
  BY <1>1, <1>3, <1>4
<1>7. Len(t) = m
  BY DEF IsPut
<1> QED BY <1>1, <1>4, <1>5, <1>6, <1>7 DEF Budgeted

\* What the parent has left for it pays for a child.
LEMMA BudgetPush ==
    ASSUME NEW s, NEW runs \in Int, NEW k \in Int, NEW steps, NEW n, NEW m \in Nat \ {0}, m = Len(s),
           Budgeted(s, runs + k, steps, n), NEW f, NEW t, IsAdded(t, s, m, f),
           Owed(f, steps, n) \in Nat, Owed(f, steps, n) <= k
    PROVE  Budgeted(t, runs, steps, n)
<1>1. PICK b \in [0..m -> Int] :
         /\ b[0] = steps[n]
         /\ \A i \in 1..m : b[i] + Owed(s[i], steps, n) <= b[i - 1]
         /\ runs + k <= b[m]
  BY DEF Budgeted
<1>2. PICK o : o = Owed(f, steps, n)
  OBVIOUS
<1>3. PICK d : d = [i \in 0..(m + 1) |-> IF i = m + 1 THEN b[m] - o ELSE b[i]]
  OBVIOUS
<1>4. m \in 0..m /\ 0 \in 0..(m + 1) /\ 0 # m + 1 /\ b[m] \in Int /\ o \in Nat /\ o <= k
  BY <1>1, <1>2
<1>5. \A i \in 0..(m + 1) : i # m + 1 => i \in 0..m
  OBVIOUS
<1>6. /\ d \in [0..(m + 1) -> Int] /\ d[m + 1] = b[m] - o /\ d[0] = b[0]
      /\ \A i \in 0..m : d[i] = b[i]
  <2>1. \A i \in 0..m : i \in 0..(m + 1) /\ i # m + 1
    OBVIOUS
  <2>2. m + 1 \in 0..(m + 1)
    OBVIOUS
  <2> QED BY <1>1, <1>3, <1>4, <1>5, <2>1, <2>2
<1>7. ASSUME NEW i \in 1..(m + 1)
      PROVE  d[i] + Owed(t[i], steps, n) <= d[i - 1]
  <2>1. CASE i = m + 1
    <3>1. i - 1 = m /\ t[i] = f
      BY <2>1 DEF IsAdded
    <3>2. d[i] = b[m] - o /\ d[i - 1] = b[m]
      BY <1>4, <1>6, <2>1, <3>1
    <3> QED BY <1>2, <1>4, <3>1, <3>2
  <2>2. CASE i # m + 1
    <3>1. i \in 1..m /\ i \in 0..m /\ i - 1 \in 0..m
      BY <2>2
    <3>2. t[i] = s[i] /\ d[i] = b[i] /\ d[i - 1] = b[i - 1]
      BY <1>6, <3>1 DEF IsAdded
    <3> QED BY <1>1, <3>1, <3>2
  <2> QED BY <2>1, <2>2
<1>8. runs <= d[m + 1]
  BY <1>1, <1>4, <1>6
<1>9. Len(t) = m + 1
  BY DEF IsAdded
<1> QED BY <1>1, <1>6, <1>7, <1>8, <1>9 DEF Budgeted

\* A frame that returns leaves what it did not need.
LEMMA BudgetPop ==
    ASSUME NEW s, NEW runs \in Int, NEW steps, NEW n, NEW m \in Nat \ {0}, m + 1 = Len(s),
           Budgeted(s, runs, steps, n), Owed(s[m + 1], steps, n) \in Nat,
           NEW t, Len(t) = m, \A i \in 1..m : t[i] = s[i]
    PROVE  Budgeted(t, runs, steps, n)
<1>1. PICK b \in [0..(m + 1) -> Int] :
         /\ b[0] = steps[n]
         /\ \A i \in 1..(m + 1) : b[i] + Owed(s[i], steps, n) <= b[i - 1]
         /\ runs <= b[m + 1]
  BY DEF Budgeted
<1>2. PICK d : d = [i \in 0..m |-> b[i]]
  OBVIOUS
<1>3. \A i \in 0..m : i \in 0..(m + 1)
  OBVIOUS
<1>4. d \in [0..m -> Int] /\ \A i \in 0..m : d[i] = b[i]
  BY <1>1, <1>2, <1>3
<1>5. 0 \in 0..m /\ m \in 0..m
  OBVIOUS
<1>6. ASSUME NEW i \in 1..m
      PROVE  d[i] + Owed(t[i], steps, n) <= d[i - 1]
  <2>1. i \in 1..(m + 1) /\ i \in 0..m /\ i - 1 \in 0..m
    OBVIOUS
  <2>2. t[i] = s[i] /\ d[i] = b[i] /\ d[i - 1] = b[i - 1]
    BY <1>4, <2>1
  <2> QED BY <1>1, <2>1, <2>2
<1>7. runs <= d[m]
  <2>1. PICK x, y, o : x = b[m + 1] /\ y = b[m] /\ o = Owed(s[m + 1], steps, n)
    OBVIOUS
  <2>2. m + 1 \in 1..(m + 1) /\ m + 1 \in 0..(m + 1) /\ m \in 0..(m + 1) /\ (m + 1) - 1 = m
    OBVIOUS
  <2>3. x \in Int /\ y \in Int /\ o \in Nat /\ x + o <= y /\ runs <= x
    BY <1>1, <2>1, <2>2
  <2>4. runs <= y
    BY <2>3
  <2> QED BY <1>4, <1>5, <2>1, <2>4
<1> QED BY <1>1, <1>4, <1>5, <1>6, <1>7 DEF Budgeted

\* The three ways the stack changes, and what they leave within the limits.
LEMMA WithinTop ==
    ASSUME NEW s, NEW runs \in Int, NEW graph, NEW c, Within(s, runs, graph, c), Bounds(c),
           NEW k \in Int, NEW g, Moves(s[Len(s)], g, k, c), g.at # "child",
           NEW t, Puts(t, s, Len(s), g)
    PROVE  Within(t, runs + k, graph, c)
<1>1. PICK m : m = Len(s)
  OBVIOUS
<1>2. /\ WayDown(s, graph, c) /\ m \in Nat \ {0} /\ m \in 1..m /\ IsSeq(s)
      /\ Same(g, s[Len(s)]) /\ FrameWithin(g, c)
  BY <1>1, FrameAt DEF Within, WayDown, Moves
<1>3. WayDown(t, graph, c)
  BY <1>2, WayTop
<1>4. ASSUME c.maxCalls > 0
      PROVE  Budgeted(t, runs + k, StepsAtMost(c), c.maxDepth)
  <2>1. PICK steps, n : steps = StepsAtMost(c) /\ n = c.maxDepth
    OBVIOUS
  <2>2. StepsKnown(steps, n, c.maxCalls) /\ Budgeted(s, runs, steps, n)
    BY <1>4, <2>1, TableKnown DEF Within
  <2>3. IsPut(t, s, m, m, g) /\ Len(t) = m /\ t[m] = g
    <3>1. IsPut(t, s, m, m, g)
      BY <1>1, <1>2, SeqPut
    <3> QED BY <3>1 DEF IsPut
  <2>4. Owed(s[m], steps, n) \in Nat
    BY <1>1, <1>2, <1>4, <2>1, StackOwes
  <2>5. Owed(g, steps, n) \in Nat
    <3>1. \A i \in 1..m : Owed(t[i], steps, n) \in Nat
      BY <1>3, <1>4, <2>1, <2>3, StackOwes
    <3> QED BY <1>2, <2>3, <3>1
  <2>6. Owed(g, steps, n) + k <= Owed(s[m], steps, n)
    BY <1>1, <1>4, <2>1, <2>2 DEF Moves
  <2> QED BY <1>1, <1>2, <2>1, <2>2, <2>3, <2>4, <2>5, <2>6, BudgetTop
<1> QED BY <1>3, <1>4 DEF Within

LEMMA WithinPop ==
    ASSUME NEW s, NEW runs \in Int, NEW graph, NEW c, Within(s, runs, graph, c), Bounds(c),
           NEW m, m = Len(s) - 1, m # 0, NEW g, Moves(s[m], g, 0, c), g.at # "child",
           NEW t, Cut(t, s, m, g)
    PROVE  Within(t, runs, graph, c)
<1>1. WayDown(s, graph, c) /\ m \in Nat \ {0} /\ m + 1 = Len(s) /\ m \in 1..m
  BY FrameAt DEF Within
<1>2. WayDown(t, graph, c)
  <2>1. Same(g, s[m]) /\ FrameWithin(g, c) /\ c.maxDepth \in Int
    BY DEF Moves, Bounds
  <2> QED BY <1>1, <2>1, WayPop
<1>3. ASSUME c.maxCalls > 0
      PROVE  Budgeted(t, runs, StepsAtMost(c), c.maxDepth)
  <2>1. PICK steps, n : steps = StepsAtMost(c) /\ n = c.maxDepth
    OBVIOUS
  <2>2. StepsKnown(steps, n, c.maxCalls) /\ Budgeted(s, runs, steps, n)
    BY <1>3, <2>1, TableKnown DEF Within
  <2>3. PICK u : u = [i \in 1..m |-> s[i]]
    OBVIOUS
  <2>4. IsSeq(u) /\ Len(u) = m /\ \A i \in 1..m : u[i] = s[i]
    <3>1. u = [i \in 1..m |-> u[i]]
      BY <2>3
    <3> QED BY <1>1, <2>3, <3>1, SeqTable
  <2>5. IsPut(t, u, m, m, g) /\ t[m] = g /\ Len(t) = m
    <3>1. t = [i \in 1..m |-> t[i]] /\ t[m] = g /\ \A i \in 1..m : i # m => t[i] = u[i]
      BY <1>1, <2>4 DEF Cut
    <3>2. IsSeq(t) /\ Len(t) = m
      BY <1>1, <3>1, SeqTable
    <3> QED BY <3>1, <3>2 DEF IsPut
  <2>6. \A i \in 1..(m + 1) : Owed(s[i], steps, n) \in Nat
    BY <1>1, <1>3, <2>1, StackOwes
  <2>7. Owed(s[m + 1], steps, n) \in Nat /\ Owed(u[m], steps, n) \in Nat /\ u[m] = s[m]
    BY <1>1, <2>4, <2>6
  <2>8. Budgeted(u, runs, steps, n)
    BY <1>1, <2>2, <2>4, <2>7, BudgetPop
  <2>9. Owed(g, steps, n) \in Nat
    <3>1. \A i \in 1..m : Owed(t[i], steps, n) \in Nat
      BY <1>2, <1>3, <2>1, <2>5, StackOwes
    <3> QED BY <1>1, <2>5, <3>1
  <2>10. Owed(g, steps, n) + 0 <= Owed(u[m], steps, n)
    BY <1>3, <2>1, <2>2, <2>7 DEF Moves
  <2>11. Budgeted(t, runs + 0, steps, n)
    BY <1>1, <2>4, <2>5, <2>7, <2>8, <2>9, <2>10, BudgetTop
  <2>12. runs + 0 = runs
    OBVIOUS
  <2> QED BY <2>1, <2>11, <2>12
<1> QED BY <1>2, <1>3 DEF Within

LEMMA WithinPush ==
    ASSUME NEW s, NEW runs \in Int, NEW graph, NEW c, Within(s, runs, graph, c), Bounds(c),
           NEW f, f = s[Len(s)], f.at = "between", f.planned, f.next <= Len(f.plan),
           f.depth < c.maxDepth,
           NEW p, FrameIs(p, f, "child", f.plan, f.planned, f.next),
           NEW node \in DOMAIN graph.nodes, IsChild(graph, f.node, node),
           NEW u, Puts(u, s, Len(s), p), NEW t, t = Append(u, Frame(node, f.depth + 1))
    PROVE  Within(t, runs, graph, c)
<1>1. PICK m, g : m = Len(s) /\ g = Frame(node, f.depth + 1)
  OBVIOUS
<1>2. /\ WayDown(s, graph, c) /\ m \in Nat \ {0} /\ m \in 1..m /\ IsSeq(s) /\ FrameWithin(f, c)
      /\ f.depth = m - 1 /\ f.depth \in 0..c.maxDepth /\ c.maxDepth \in Nat
  BY <1>1, FrameAt DEF Within, WayDown, Bounds
<1>3. Same(p, f) /\ FrameWithin(p, c) /\ p.at = "child"
  BY <1>2 DEF FrameIs, FrameWithin, Positions, Same
<1>4. /\ FrameWithin(g, c) /\ g.at = "enter" /\ g.node = node /\ g.depth = f.depth + 1
      /\ ~g.planned
  BY <1>1, <1>2, EmptySeq DEF Frame, FrameWithin, Positions
<1>5. IsPut(u, s, m, m, p) /\ IsSeq(u) /\ Len(u) = m
  <2>1. IsPut(u, s, m, m, p)
    BY <1>1, <1>2, SeqPut
  <2> QED BY <2>1 DEF IsPut
<1>6. IsAdded(t, u, m, g) /\ Len(t) = m + 1 /\ t[m + 1] = g /\ t[m] = p
  <2>1. IsAdded(t, u, m, g)
    BY <1>1, <1>5, SeqAdd
  <2> QED BY <1>2, <1>5, <2>1 DEF IsAdded, IsPut
<1>7. WayDown(t, graph, c)
  <2>1. IsChild(graph, p.node, g.node) /\ g.depth = Len(s) /\ g.at # "child" /\ p.at = "child"
    BY <1>1, <1>2, <1>3, <1>4 DEF Same
  <2>2. t = Append(u, g) /\ c.maxDepth \in Int /\ s[Len(s)].depth < c.maxDepth
        /\ Same(p, s[Len(s)]) /\ g.node \in DOMAIN graph.nodes
    BY <1>1, <1>2, <1>3, <1>4
  <2> QED BY <1>2, <1>3, <1>4, <2>1, <2>2, WayPush
<1>8. ASSUME c.maxCalls > 0
      PROVE  Budgeted(t, runs, StepsAtMost(c), c.maxDepth)
  <2>1. PICK steps, n, l, cost :
           steps = StepsAtMost(c) /\ n = c.maxDepth /\ l = n - f.depth /\ cost = Cost(steps, l)
    OBVIOUS
  <2>2. StepsKnown(steps, n, c.maxCalls) /\ Budgeted(s, runs, steps, n)
    BY <1>8, <2>1, TableKnown DEF Within
  <2>3. cost \in Nat \ {0} /\ Owed(p, steps, n) + cost = Owed(f, steps, n)
    <3>1. c.maxCalls \in Int /\ "child" \in {"tool", "skill", "child"}
      BY DEF Bounds
    <3>2. Pays(f, p, steps, n)
      BY <1>2, <1>8, <2>1, <2>2, <3>1, ActionPaid
    <3> QED BY <2>1, <3>2 DEF Pays
  <2>4. Owed(f, steps, n) \in Nat
    BY <1>1, <1>2, <1>8, <2>1, StackOwes
  <2>5. Owed(p, steps, n) \in Nat /\ Owed(g, steps, n) \in Nat
    <3>1. \A i \in 1..(m + 1) : Owed(t[i], steps, n) \in Nat
      BY <1>6, <1>7, <1>8, <2>1, StackOwes
    <3>2. m \in 1..(m + 1) /\ m + 1 \in 1..(m + 1)
      BY <1>2
    <3> QED BY <1>6, <3>1, <3>2
  <2>6. Budgeted(u, runs + cost, steps, n)
    <3>1. Owed(p, steps, n) + cost <= Owed(s[m], steps, n)
      BY <1>1, <2>3, <2>4
    <3>2. cost \in Int /\ s[m] = f
      BY <1>1, <2>3
    <3> QED BY <1>1, <1>2, <1>5, <2>2, <2>4, <2>5, <3>1, <3>2, BudgetTop
  <2>7. Owed(g, steps, n) <= cost
    <3>1. l \in 1..n /\ l - 1 = n - g.depth /\ l - 1 \in 0..n
      BY <1>2, <1>4, <2>1
    <3>2. Owed(g, steps, n) = steps[l - 1]
      BY <1>4, <3>1 DEF Owed
    <3> QED BY <2>1, <2>2, <3>1, <3>2 DEF StepsKnown
  <2>8. cost \in Int
    BY <2>3
  <2> QED BY <1>2, <1>5, <1>6, <2>1, <2>5, <2>6, <2>7, <2>8, BudgetPush
<1> QED BY <1>7, <1>8 DEF Within

-----------------------------------------------------------------------------
(* Every step leaves the run within its limits.                            *)

LEMMA WithinBound ==
    ASSUME NEW s, NEW runs \in Int, NEW graph, NEW c, Within(s, runs, graph, c), Bounds(c), c.maxCalls > 0
    PROVE  runs <= StepsAtMost(c)[c.maxDepth]
<1>1. PICK steps, n : steps = StepsAtMost(c) /\ n = c.maxDepth
  OBVIOUS
<1>2. Budgeted(s, runs, steps, n) /\ WayDown(s, graph, c) /\ Len(s) \in Nat
  BY <1>1, FrameAt DEF Within
<1>3. \A i \in 1..Len(s) : Owed(s[i], steps, n) \in Nat
  BY <1>1, <1>2, StackOwes
<1>4. steps[n] \in Int
  <2>1. n \in 0..n
    BY <1>1 DEF Bounds
  <2> QED BY <1>1, <2>1, TableKnown DEF StepsKnown
<1> QED BY <1>1, <1>2, <1>3, <1>4, BudgetHeld

Running ==
    /\ Within(stack, Len(nodeRuns), flow.graph, config) /\ Accepted(flow.graph, config)
    /\ Bounds(config) /\ Len(nodeRuns) \in Nat /\ IsSeq(nodeRuns) /\ IsSeq(stack)
    /\ Len(stack) \in 1..Len(stack) /\ FrameWithin(Top, config)
    /\ Top.depth \in 0..config.maxDepth

LEMMA IsRunning ==
    ASSUME RunInv, LimitsInv, phase = "running"
    PROVE  Running
<1>1. Within(stack, Len(nodeRuns), flow.graph, config) /\ ConfigOf(flow, config) /\ FlowTyped(flow)
  BY DEF LimitsInv, ConfigOf
<1>2. Accepted(flow.graph, config)
  BY <1>1, ConfigAccepted
<1>3. Bounds(config)
  BY <1>2, GraphAssumption DEF Accepted, Bounds
<1>4. Len(nodeRuns) \in Nat /\ IsSeq(nodeRuns) /\ IsSeq(stack)
  BY SeqLength DEF RunInv, RunType
<1>5. /\ Len(stack) \in 1..Len(stack) /\ FrameWithin(Top, config) /\ Top.depth = Len(stack) - 1
      /\ Len(stack) <= config.maxDepth + 1 /\ Len(stack) \in Nat \ {0}
  BY <1>1, FrameAt DEF Within, Top
<1>6. Top.depth \in 0..config.maxDepth
  BY <1>3, <1>5 DEF Bounds
<1> QED BY <1>1, <1>2, <1>3, <1>4, <1>5, <1>6 DEF Running

\* What a step of a run has to leave.
LEMMA LimitsLeft ==
    ASSUME LimitsInv, UNCHANGED <<flow, config>>, err' # "limit", Bounds(config),
           phase' = "running" => phase = "running" /\ Len(nodeRuns') \in Int
                                 /\ Within(stack', Len(nodeRuns'), flow.graph, config),
           Len(nodeRuns') = Len(nodeRuns) \/ phase' = "running"
    PROVE  LimitsInv'
<1>1. /\ flow' # NoFlow => FlowTyped(flow')
      /\ config' # NoFlow \/ phase' = "running" => ConfigOf(flow', config')
  BY DEF LimitsInv
<1>2. config' # NoFlow /\ config'.maxCalls > 0
         => Len(nodeRuns') <= StepsAtMost(config')[config'.maxDepth]
  <2>1. CASE phase' = "running"
    BY <2>1, WithinBound
  <2>2. CASE Len(nodeRuns') = Len(nodeRuns)
    BY <2>2 DEF LimitsInv
  <2> QED BY <2>1, <2>2
<1> QED BY <1>1, <1>2 DEF LimitsInv

LEMMA UnwindLimits ==
    ASSUME RunInv, LimitsInv, phase = "running", NEW why, why # "limit", Unwind(why)
    PROVE  LimitsInv'
<1>1. Bounds(config)
  BY IsRunning DEF Running
<1> QED BY <1>1, LimitsLeft DEF Unwind

\* The top frame goes on as g.
LEMMA TopLimits ==
    ASSUME RunInv, LimitsInv, phase = "running", UNCHANGED <<flow, config, phase, err>>,
           NEW k \in Nat, IsSeq(nodeRuns'), Len(nodeRuns') = Len(nodeRuns) + k,
           NEW g, Moves(Top, g, k, config), g.at # "child", stack' = WithTop(g)
    PROVE  LimitsInv'
<1>1. /\ Within(stack, Len(nodeRuns), flow.graph, config) /\ Bounds(config) /\ Len(nodeRuns) \in Nat
  BY IsRunning DEF Running
<1>2. Puts(stack', stack, Len(stack), g) /\ Moves(stack[Len(stack)], g, k, config)
  BY DEF Puts, WithTop, Top
<1>3. PICK n : n = Len(nodeRuns)
  OBVIOUS
<1>4. n \in Int /\ k \in Int /\ n + k \in Int /\ Len(nodeRuns') = n + k
  BY <1>1, <1>3
<1>5. Within(stack', n + k, flow.graph, config)
  BY <1>1, <1>2, <1>3, <1>4, WithinTop
<1>6. err' # "limit"
  BY DEF LimitsInv
<1> QED BY <1>1, <1>4, <1>5, <1>6, LimitsLeft

LEMMA EnterLimits ==
    ASSUME RunInv, LimitsInv, EnterNode
    PROVE  LimitsInv'
<1>1. phase = "running" /\ Top.at = "enter" /\ Running
  BY IsRunning DEF EnterNode
<1>2. /\ WayDown(stack, flow.graph, config) /\ Accepted(flow.graph, config) /\ FrameWithin(Top, config)
      /\ Bounds(config) /\ IsSeq(nodeRuns) /\ Len(nodeRuns) \in Nat /\ Top.depth \in 0..config.maxDepth
  BY <1>1 DEF Running, Within
<1>3. ~(Top.depth > config.maxDepth)
  BY <1>2 DEF Bounds
<1>4. ~(\E i \in 1..(Len(stack) - 1) : stack[i].node = Top.node)
  <2>1. \A i, j \in 1..Len(stack) : stack[i].node = stack[j].node => i = j
    BY <1>2, StackIsWay
  <2>2. Len(stack) \in Nat \ {0} /\ Len(stack) \in 1..Len(stack)
    BY <1>2, FrameAt
  <2>3. \A i \in 1..(Len(stack) - 1) : i \in 1..Len(stack) /\ i # Len(stack)
    BY <2>2
  <2> QED BY <2>1, <2>2, <2>3 DEF Top
<1>5. ChildrenOf(Graph, Top.node) # <<>> => ~(Top.depth >= config.maxDepth)
  <2>1. ChildrenOf(Graph, Top.node) # <<>> => Top.depth < config.maxDepth
    BY <1>2, RoomForChildren DEF Graph, Top
  <2> QED BY <1>2, <2>1 DEF Bounds
<1>6. \/ Unwind("agent")
      \/ Goto("between") /\ UNCHANGED <<flow, config, phase, nodeRuns, run, err>>
  BY <1>3, <1>4, <1>5 DEF EnterNode
<1>7. CASE Unwind("agent")
  BY <1>1, <1>7, UnwindLimits
<1>8. CASE Goto("between") /\ UNCHANGED <<flow, config, phase, nodeRuns, run, err>>
  <2>1. PICK g : g = [Top EXCEPT !.at = "between"]
    OBVIOUS
  <2>2. FrameIs(g, Top, "between", Top.plan, Top.planned, Top.next) /\ g.at # "child"
    <3>1. FrameIs(g, Top, "between", Top.plan, Top.planned, Top.next)
      BY <1>2, <2>1, FramesMove
    <3> QED BY <3>1 DEF FrameIs
  <2>3. Moves(Top, g, 0, config)
    BY <1>1, <1>2, <2>2, MoveOpens DEF Bounds
  <2>4. stack' = WithTop(g) /\ Len(nodeRuns') = Len(nodeRuns) + 0 /\ IsSeq(nodeRuns')
    BY <1>2, <1>8, <2>1 DEF Goto
  <2> QED BY <1>1, <1>8, <2>2, <2>3, <2>4, TopLimits
<1> QED BY <1>6, <1>7, <1>8

LEMMA InvokeLimits ==
    ASSUME RunInv, LimitsInv, phase = "running", Top.at = "between", NEW step \in Steps,
           \/ step = "planning" /\ ~Top.planned
           \/ step = "final" /\ Top.planned /\ Top.next > Len(Top.plan)
           \/ step \in {"tool", "skill"} /\ Top.planned /\ Top.next <= Len(Top.plan),
           InvokeAgentStep(step)
    PROVE  LimitsInv'
<1>1. /\ FrameWithin(Top, config) /\ Bounds(config) /\ IsSeq(nodeRuns) /\ Len(nodeRuns) \in Nat
      /\ Top.depth \in 0..config.maxDepth
  BY IsRunning DEF Running
<1>2. CASE Unwind("store")
  BY <1>2, UnwindLimits
<1>3. CASE ~Unwind("store")
  <2>1. PICK g, r : g = [Top EXCEPT !.at = step]
                    /\ r = [node |-> Top.node, step |-> step, status |-> "running"]
    OBVIOUS
  <2>2. FrameIs(g, Top, step, Top.plan, Top.planned, Top.next) /\ g.at # "child"
    <3>1. FrameIs(g, Top, step, Top.plan, Top.planned, Top.next)
      BY <1>1, <2>1, FramesMove
    <3> QED BY <3>1 DEF FrameIs, Steps
  <2>3. Moves(Top, g, 1, config)
    BY <1>1, <2>2, MoveInvokes DEF Bounds
  <2>4. nodeRuns' = Append(nodeRuns, r) /\ stack' = WithTop(g) /\ UNCHANGED <<flow, config, phase, err>>
    BY <1>3, <2>1 DEF InvokeAgentStep, Goto
  <2>5. IsSeq(nodeRuns') /\ Len(nodeRuns') = Len(nodeRuns) + 1
    <3>1. IsAdded(nodeRuns', nodeRuns, Len(nodeRuns), r)
      BY <1>1, <2>4, SeqAdd
    <3> QED BY <3>1 DEF IsAdded
  <2> QED BY <2>2, <2>3, <2>4, <2>5, TopLimits
<1> QED BY <1>2, <1>3

LEMMA NextLimits ==
    ASSUME RunInv, LimitsInv, NextStep
    PROVE  LimitsInv'
<1>1. phase = "running" /\ Top.at = "between"
  BY DEF NextStep
<1>2. CASE Unwind("unknown")
  BY <1>1, <1>2, UnwindLimits
<1>3. CASE ~Top.planned /\ InvokeAgentStep("planning")
  BY <1>1, <1>3, InvokeLimits DEF Steps
<1>4. CASE Top.planned /\ Top.next > Len(Top.plan) /\ InvokeAgentStep("final")
  BY <1>1, <1>4, InvokeLimits DEF Steps
<1>5. ASSUME NEW step \in {"tool", "skill"}, Top.planned, Top.next <= Len(Top.plan),
             InvokeAgentStep(step)
      PROVE  LimitsInv'
  BY <1>1, <1>5, InvokeLimits DEF Steps
<1> QED BY <1>2, <1>3, <1>4, <1>5 DEF NextStep

LEMMA CallLimits ==
    ASSUME RunInv, LimitsInv, CallChild
    PROVE  LimitsInv'
<1>1. phase = "running" /\ Top.at = "between" /\ Top.planned /\ Top.next <= Len(Top.plan)
  BY DEF CallChild
<1>2. /\ Within(stack, Len(nodeRuns), flow.graph, config) /\ Accepted(flow.graph, config)
      /\ FrameWithin(Top, config) /\ Bounds(config) /\ Len(nodeRuns) \in Nat
  BY <1>1, IsRunning DEF Running
<1>3. CASE Unwind("unknown")
  BY <1>1, <1>3, UnwindLimits
<1>4. CASE /\ \E i \in DOMAIN Registry.children : Registry.children[i] = Action.node
           /\ stack' = Append(WithTop([Top EXCEPT !.at = "child"]), Frame(Action.node, Top.depth + 1))
           /\ UNCHANGED <<flow, config, phase, nodeRuns, run, err>>
  <2>1. PICK g, u, node, q :
           /\ g = [Top EXCEPT !.at = "child"] /\ u = WithTop(g) /\ node = Action.node
           /\ q = ChildrenOf(flow.graph, Top.node)
    OBVIOUS
  <2>2. FrameIs(g, Top, "child", Top.plan, Top.planned, Top.next)
    BY <1>2, <2>1, FramesMove
  <2>3. Registry.children = q
    BY <2>1 DEF Registry, Graph
  <2>4. PICK i \in DOMAIN q : q[i] = node
    BY <1>4, <2>1, <2>3
  <2>5. q \in Seq(DOMAIN flow.graph.nodes)
    BY <1>2, <2>1, ChildrenAreNodes DEF Accepted
  <2>6. node \in DOMAIN flow.graph.nodes /\ q # <<>>
    <3>1. DOMAIN q = 1..Len(q) /\ DOMAIN <<>> = {}
      BY <2>5, LenProperties
    <3> QED BY <2>4, <2>5, <3>1, ElementOfSeq
  <2>7. IsChild(flow.graph, Top.node, node)
    BY <2>1, <2>4 DEF IsChild
  <2>8. Top.depth < config.maxDepth
    <3>1. WayDown(stack, flow.graph, config) /\ ChildrenOf(flow.graph, stack[Len(stack)].node) # <<>>
      BY <1>2, <2>1, <2>6 DEF Within, Top
    <3> QED BY <1>2, <3>1, RoomForChildren DEF Top
  <2>9. Puts(u, stack, Len(stack), g)
    BY <2>1 DEF Puts, WithTop
  <2>10. stack' = Append(u, Frame(node, Top.depth + 1))
    BY <1>4, <2>1
  <2>11. PICK f, n, graph : f = Top /\ n = Len(nodeRuns) /\ graph = flow.graph
    OBVIOUS
  <2>12. f = stack[Len(stack)] /\ n \in Int
    BY <1>2, <2>11 DEF Top
  <2>13. Within(stack', n, graph, config)
    BY <1>1, <1>2, <2>2, <2>6, <2>7, <2>8, <2>9, <2>10, <2>11, <2>12, WithinPush
  <2>14. err' # "limit"
    BY <1>4 DEF LimitsInv
  <2> QED BY <1>1, <1>2, <1>4, <2>11, <2>12, <2>13, <2>14, LimitsLeft
<1> QED BY <1>3, <1>4 DEF CallChild

\* A closed node run is still one.
LEMMA ClosedLength ==
    ASSUME RunInv, phase = "running", Top.at \in Steps, NEW status, nodeRuns' = Finished(status)
    PROVE  IsSeq(nodeRuns') /\ Len(nodeRuns') = Len(nodeRuns)
<1>1. IsSeq(nodeRuns) /\ nodeRuns # <<>>
  BY DEF RunInv, RunType, NodeRunsTold
<1>2. Len(nodeRuns) \in 1..Len(nodeRuns) /\ DOMAIN nodeRuns = 1..Len(nodeRuns)
  BY <1>1, NonEmpty
<1>3. PICK r : r = [nodeRuns[Len(nodeRuns)] EXCEPT !.status = status]
  OBVIOUS
<1>4. Puts(nodeRuns', nodeRuns, Len(nodeRuns), r)
  BY <1>2, <1>3 DEF Finished, Puts
<1>5. IsPut(nodeRuns', nodeRuns, Len(nodeRuns), Len(nodeRuns), r)
  BY <1>1, <1>2, <1>4, SeqPut
<1> QED BY <1>5 DEF IsPut

LEMMA ReturnLimits ==
    ASSUME RunInv, LimitsInv, phase = "running", Top.at \in Steps, ReturnFrame,
           nodeRuns' = Finished("succeeded"), UNCHANGED <<flow, config, err>>
    PROVE  LimitsInv'
<1>1. /\ Within(stack, Len(nodeRuns), flow.graph, config) /\ Bounds(config)
      /\ Len(nodeRuns) \in Nat
  BY IsRunning DEF Running
<1>2. IsSeq(nodeRuns') /\ Len(nodeRuns') = Len(nodeRuns) /\ err' # "limit"
  BY ClosedLength DEF LimitsInv
<1>3. CASE Len(stack) = 1
  BY <1>1, <1>2, <1>3, LimitsLeft DEF ReturnFrame
<1>4. CASE Len(stack) # 1
  <2>1. PICK m : m = Len(stack) - 1
    OBVIOUS
  <2>2. WayDown(stack, flow.graph, config) /\ Len(stack) \in Nat \ {0}
    BY <1>1, FrameAt DEF Within
  <2>3. m # 0 /\ m \in 1..m /\ m \in 1..Len(stack) /\ m \in Nat
    BY <1>4, <2>1, <2>2
  <2>4. PICK f, g : f = stack[m] /\ g = GoOn(f)
    OBVIOUS
  <2>5. FrameWithin(f, config) /\ f.depth = m - 1 /\ f.at = "child"
    BY <2>1, <2>2, <2>3, <2>4 DEF WayDown
  <2>6. f.depth \in 0..config.maxDepth
    <3>1. Len(stack) <= config.maxDepth + 1
      BY <2>2 DEF WayDown
    <3> QED BY <1>1, <2>1, <2>2, <2>3, <2>5, <3>1 DEF Bounds
  <2>7. FrameIs(g, f, "between", f.plan, f.planned, f.next + 1) /\ g.at # "child"
    <3>1. FrameIs(g, f, "between", f.plan, f.planned, f.next + 1)
      BY <2>4, <2>5, FramesMove
    <3> QED BY <3>1 DEF FrameIs
  <2>8. Moves(stack[m], g, 0, config)
    BY <1>1, <2>4, <2>5, <2>6, <2>7, MoveGoesOn DEF Bounds
  <2>9. Cut(stack', stack, m, g) /\ phase' = phase
    <3>1. stack' = [i \in 1..m |-> IF i = m THEN GoOn(stack[i]) ELSE stack[i]] /\ phase' = phase
      BY <1>4, <2>1 DEF ReturnFrame
    <3> QED BY <2>4, <3>1 DEF Cut
  <2>10. PICK n, graph : n = Len(nodeRuns) /\ graph = flow.graph
    OBVIOUS
  <2>11. Within(stack', n, graph, config)
    <3>1. n \in Int /\ Within(stack, n, graph, config)
      BY <1>1, <2>10
    <3> QED BY <1>1, <2>1, <2>3, <2>7, <2>8, <2>9, <3>1, WithinPop
  <2> QED BY <1>1, <1>2, <2>9, <2>10, <2>11, LimitsLeft
<1> QED BY <1>3, <1>4

LEMMA StepAnsweredLimits ==
    ASSUME RunInv, LimitsInv, StepAnswered
    PROVE  LimitsInv'
<1>1. phase = "running" /\ Top.at \in Steps
  BY DEF StepAnswered
<1>2. FrameWithin(Top, config) /\ Bounds(config) /\ Top.depth \in 0..config.maxDepth
  BY <1>1, IsRunning DEF Running
<1>3. CASE Unwind("store")
  BY <1>1, <1>3, UnwindLimits
<1>4. CASE nodeRuns' = Finished("succeeded") /\ UNCHANGED <<flow, config, run, err>>
  <2>1. CASE Top.at \in {"tool", "skill"} /\ stack' = WithTop(GoOn(Top)) /\ UNCHANGED phase
    <3>1. PICK g : g = GoOn(Top)
      OBVIOUS
    <3>2. FrameIs(g, Top, "between", Top.plan, Top.planned, Top.next + 1) /\ g.at # "child"
      <4>1. FrameIs(g, Top, "between", Top.plan, Top.planned, Top.next + 1)
        BY <1>2, <3>1, FramesMove
      <4> QED BY <4>1 DEF FrameIs
    <3>3. Moves(Top, g, 0, config)
      BY <1>2, <2>1, <3>2, MoveGoesOn DEF Bounds
    <3>4. IsSeq(nodeRuns') /\ Len(nodeRuns') = Len(nodeRuns) + 0
      <4>1. IsSeq(nodeRuns') /\ Len(nodeRuns') = Len(nodeRuns) /\ Len(nodeRuns) \in Nat
        BY <1>1, <1>4, ClosedLength, IsRunning DEF Running
      <4> QED BY <4>1
    <3> QED BY <1>1, <1>4, <2>1, <3>1, <3>2, <3>3, <3>4, TopLimits
  <2>2. CASE ReturnFrame
    BY <1>1, <1>4, <2>2, ReturnLimits
  <2> QED BY <1>3, <1>4, <2>1, <2>2 DEF StepAnswered
<1> QED BY <1>3, <1>4 DEF StepAnswered

LEMMA PlanAnsweredLimits ==
    ASSUME RunInv, LimitsInv, PlanAnswered
    PROVE  LimitsInv'
<1>1. phase = "running" /\ Top.at = "planning" /\ Top.at \in Steps
  BY DEF PlanAnswered, Steps
<1>2. FrameWithin(Top, config) /\ Bounds(config) /\ Top.depth \in 0..config.maxDepth
  BY <1>1, IsRunning DEF Running
<1>3. CASE Unwind("store")
  BY <1>1, <1>3, UnwindLimits
<1>4. CASE /\ nodeRuns' = Finished("succeeded") /\ UNCHANGED <<flow, config, run>>
           /\ phase' = "unwinding" /\ err' = "plan"
  <2>1. Len(nodeRuns') = Len(nodeRuns)
    BY <1>1, <1>4, ClosedLength
  <2> QED BY <1>2, <1>4, <2>1, LimitsLeft
<1>5. ASSUME NEW actions \in Plans, NEW plan,
             plan = FilterActionPlan(Graph, actions, Registry, config.maxCalls),
             nodeRuns' = Finished("succeeded"), UNCHANGED <<flow, config, run, err>>,
             stack' = WithTop([Top EXCEPT !.at = "between", !.plan = plan, !.planned = TRUE]),
             UNCHANGED phase
      PROVE  LimitsInv'
  <2>1. PICK g : g = [Top EXCEPT !.at = "between", !.plan = plan, !.planned = TRUE]
    OBVIOUS
  <2>2. FrameIs(g, Top, "between", plan, TRUE, Top.next) /\ g.at # "child"
    <3>1. FrameIs(g, Top, "between", plan, TRUE, Top.next)
      BY <1>2, <2>1, FramesMove
    <3> QED BY <3>1 DEF FrameIs
  <2>3. Len(plan) \in Nat /\ (config.maxCalls > 0 => Len(plan) <= config.maxCalls)
    <3>1. DOMAIN actions = 1..Len(actions) /\ Len(actions) \in Nat
      BY PlansAssumption
    <3>2. PICK graph, registry, max : graph = Graph /\ registry = Registry /\ max = config.maxCalls
      OBVIOUS
    <3>3. max \in Int /\ plan = FilterActionPlan(graph, actions, registry, max)
      BY <1>2, <1>5, <3>2 DEF Bounds
    <3> QED BY <3>1, <3>2, <3>3, FilteredPlan
  <2>4. Moves(Top, g, 0, config)
    BY <1>1, <1>2, <2>2, <2>3, MovePlans DEF Bounds
  <2>5. IsSeq(nodeRuns') /\ Len(nodeRuns') = Len(nodeRuns) + 0
    <3>1. IsSeq(nodeRuns') /\ Len(nodeRuns') = Len(nodeRuns) /\ Len(nodeRuns) \in Nat
      BY <1>1, <1>5, ClosedLength, IsRunning DEF Running
    <3> QED BY <3>1
  <2> QED BY <1>1, <1>5, <2>1, <2>2, <2>4, <2>5, TopLimits
<1>6. CASE nodeRuns' = Finished("succeeded") /\ UNCHANGED <<flow, config, run, err>> /\ ReturnFrame
  BY <1>1, <1>6, ReturnLimits
<1> QED BY <1>3, <1>4, <1>5, <1>6 DEF PlanAnswered

LEMMA StepFailsLimits ==
    ASSUME RunInv, LimitsInv, StepFails
    PROVE  LimitsInv'
<1>1. phase = "running" /\ Top.at \in Steps /\ Bounds(config)
  BY IsRunning DEF StepFails, Running
<1>2. Len(nodeRuns') = Len(nodeRuns)
  BY <1>1, ClosedLength DEF StepFails
<1> QED BY <1>1, <1>2, LimitsLeft DEF StepFails

\* A run begins at the root with the whole of its budget.
LEMMA FirstFrame ==
    ASSUME NEW graph, NEW c, Accepted(graph, c), NEW s, s = <<Frame(RuntimeSupervisorNodeID(graph), 0)>>
    PROVE  Within(s, 0, graph, c)
<1>1. PICK f : f = Frame(RuntimeSupervisorNodeID(graph), 0)
  OBVIOUS
<1>2. s = <<f>> /\ IsSeq(s) /\ Len(s) = 1 /\ s[1] = f /\ s # <<>>
  <2>1. <<f>> \in Seq({f})
    OBVIOUS
  <2>2. IsSeq(<<f>>)
    BY <2>1 DEF IsSeq
  <2> QED BY <1>1, <2>2
<1>3. /\ FrameWithin(f, c) /\ f.at = "enter" /\ ~f.planned /\ f.depth = 0
      /\ f.node = RuntimeSupervisorNodeID(graph)
  BY <1>1, EmptySeq DEF Frame, FrameWithin, Positions
<1>4. Bounds(c) /\ RuntimeSupervisorNodeID(graph) \in DOMAIN graph.nodes
  BY GraphAssumption DEF Accepted, Bounds
<1>5. WayDown(s, graph, c)
  BY <1>2, <1>3, <1>4 DEF WayDown, Bounds
<1>6. ASSUME c.maxCalls > 0
      PROVE  Budgeted(s, 0, StepsAtMost(c), c.maxDepth)
  <2>1. PICK steps, n : steps = StepsAtMost(c) /\ n = c.maxDepth
    OBVIOUS
  <2>2. n - 0 = n /\ n \in 0..n
    BY <1>4, <2>1 DEF Bounds
  <2>3. steps[n] \in Nat
    BY <1>4, <1>6, <2>1, <2>2, TableKnown DEF StepsKnown
  <2>4. Owed(f, steps, n) = steps[n]
    BY <1>3, <2>2 DEF Owed
  <2>5. PICK b : b = [i \in 0..1 |-> IF i = 0 THEN steps[n] ELSE 0]
    OBVIOUS
  <2>6. b \in [0..1 -> Int] /\ b[0] = steps[n] /\ b[1] = 0
    BY <2>3, <2>5
  <2>7. \A i \in 1..1 : b[i] + Owed(s[i], steps, n) <= b[i - 1]
    BY <1>2, <2>3, <2>4, <2>6
  <2> QED BY <1>2, <2>1, <2>6, <2>7 DEF Budgeted
<1> QED BY <1>5, <1>6 DEF Within

LEMMA ExecuteLimits ==
    ASSUME RunInv, LimitsInv, Execute
    PROVE  LimitsInv'
<1>1. phase = "idle" /\ flow # NoFlow /\ FlowTyped(flow) /\ nodeRuns = <<>>
  BY DEF Execute, RunInv, EndTold, LimitsInv
<1>2. ASSUME NEW why \in {"graph", "config", "store"}, Refuse(why)
      PROVE  LimitsInv'
  BY <1>2 DEF Refuse, LimitsInv
<1>3. CASE /\ ValidateRuntimeAgentGraph(flow.graph)
           /\ ValidateRuntimeSupervisorConfig(NormalizedSupervisorConfig(flow))
           /\ config' = NormalizedSupervisorConfig(flow) /\ phase' = "running"
           /\ stack' = <<Frame(RuntimeSupervisorNodeID(flow.graph), 0)>>
           /\ UNCHANGED <<flow, nodeRuns, err>>
  <2>1. ConfigOf(flow, config') /\ FlowTyped(flow)
    BY <1>1, <1>3 DEF ConfigOf
  <2>2. Accepted(flow.graph, config')
    BY <2>1, ConfigAccepted
  <2>3. Within(stack', 0, flow.graph, config') /\ Bounds(config')
    <3>1. Bounds(config')
      BY <2>2, GraphAssumption DEF Accepted, Bounds
    <3>2. PICK s, graph, c : s = stack' /\ graph = flow.graph /\ c = config'
      OBVIOUS
    <3>3. Within(s, 0, graph, c)
      BY <1>3, <2>2, <3>2, FirstFrame
    <3> QED BY <3>1, <3>2, <3>3
  <2>4. Len(nodeRuns') = 0
    BY <1>1, <1>3, EmptySeq
  <2>5. config'.maxCalls > 0 => Len(nodeRuns') <= StepsAtMost(config')[config'.maxDepth]
    <3>1. PICK s, graph, c : s = stack' /\ graph = flow.graph /\ c = config'
      OBVIOUS
    <3>2. c.maxCalls > 0 => 0 <= StepsAtMost(c)[c.maxDepth]
      BY <2>3, <3>1, WithinBound
    <3> QED BY <2>4, <3>1, <3>2
  <2> QED BY <1>1, <1>3, <2>1, <2>3, <2>4, <2>5 DEF LimitsInv
<1> QED BY <1>2, <1>3 DEF Execute

LEMMA LimitsKept == RunInv /\ LimitsInv /\ [Next]_vars => LimitsInv'
<1> SUFFICES ASSUME RunInv, LimitsInv, [Next]_vars
             PROVE  LimitsInv'
  OBVIOUS
<1>1. CASE UNCHANGED supervisorVars
  BY <1>1 DEF supervisorVars, LimitsInv
<1>2. CASE FinishRun
  BY <1>2 DEF FinishRun, LimitsInv
<1>3. CASE RunStep
  BY <1>2, <1>3, ExecuteLimits, EnterLimits, NextLimits, CallLimits, StepFailsLimits,
     PlanAnsweredLimits, StepAnsweredLimits DEF RunStep, SupervisorStep, AgentAnswers
<1>4. ASSUME NEW c \in Calls, Start(c) \/ ToolStep(c) \/ ConnectorStep(c)
      PROVE  UNCHANGED supervisorVars
  BY <1>4 DEF Start, ToolStep, ConnectorStep
<1> QED BY <1>1, <1>3, <1>4 DEF Next, vars, supervisorVars

LEMMA LimitsStart == Init => LimitsInv
BY LoadsAssumption DEF Init, SupervisorInit, LimitsInv, FlowTyped

\* A graph that was accepted is executed without meeting a limit, and in no more steps
\* than its caps allow.
THEOREM WithinLimitsHolds == Spec => []WithinLimits
<1>1. LimitsInv => WithinLimits
  BY DEF LimitsInv, WithinLimits
<1> QED BY RunStart, RunKept, LimitsStart, LimitsKept, <1>1, PTL DEF Spec
=============================================================================
