--------------------------- MODULE ToolExecution ---------------------------
(***************************************************************************)
(* The agent runtime: Service.ExecuteTool (agentruntime/application/       *)
(* service.go), from the record that a call started to the record of what  *)
(* became of it, with the adapters that carry tools out. A connector tool  *)
(* invokes an operation of the connector service (OperationInvoker); the   *)
(* services behind the other adapters are external.                        *)
(***************************************************************************)
EXTENDS OperationInvoker

CONSTANTS IdOf,      \* the call id each call comes with; a call with none is given its own
          Specs,     \* for each call, the tools the catalog may answer with
          Args,      \* the arguments of each call, by field
          NoRecord

\* An execution record: whose it is, what became of the call, and the code of an error.
Codes  == { "none", "tool_not_found", "missing_implementation", "confirmation_required",
            "invalid_arguments", "no_adapter", "adapter_failed", "timeout" }
Record == [call : Calls, status : {"started", "succeeded", "failed"}, code : Codes]

ASSUME RecordAssumption == NoRecord \notin Record

VARIABLES progress,  \* where ExecuteTool is with each call
          spec,      \* the tool it read
          result,    \* what became of the call: success and an error code
          given,     \* what the caller got: "ok", "failed", "error", or "none" yet
          records,   \* the stored execution records, by call id
          unstored   \* calls whose record could not be stored

executionVars == <<progress, spec, result, given, records, unstored>>

-----------------------------------------------------------------------------
(***************************************************************************)
(* ValidateInputSchema (domain/input_schema.go). A value is known by its   *)
(* kind and by the text it prints as; JSON numbers are whole or not.       *)
(***************************************************************************)
MatchesType(value, expected) ==
    CASE expected \in {"string", "boolean", "object", "array"} -> value.kind = expected
      [] expected = "integer" -> value.kind = "whole"
      [] expected = "number"  -> value.kind \in {"whole", "fraction"}
      [] OTHER -> TRUE   \* a type the subset does not know blocks nothing

\* enum is empty when the property has none.
ValidateValue(value, property) ==
    /\ MatchesType(value, property.type)
    /\ property.enum # {} => value.text \in property.enum

Given(args) == {f \in DOMAIN args : args[f].kind # "null"}

ValidateInputSchema(args, schema) ==
    /\ schema.required \subseteq Given(args)
    /\ \A f \in DOMAIN schema.properties \cap Given(args) :
          ValidateValue(args[f], schema.properties[f])

-----------------------------------------------------------------------------
(***************************************************************************)
(* Tools: a specification as the catalog gives it.                         *)
(*   bound   the binding its adapter needs is there                        *)
(*   timed   it has a timeout                                              *)
(***************************************************************************)
ValidateExecutionPolicy(tool) == tool.status \in {"unset", "enabled"}

Fields(args) == {f \in Given(args) : args[f].kind = "string" /\ args[f].text # ""}

\* What an adapter asks for before it calls its service. Knowledge needs no binding: the
\* knowledge bases may come with the call, or be none.
ConnectorBound(tool) == tool.bound
WorkflowBound(tool)  == tool.bound
PythonBound(tool)    == tool.bound
MCPBound(tool)       == tool.bound
KnowledgeAsked(c)    == Fields(Args[c]) \cap {"query", "text"} # {}

\* The adapter would send the call on.
AdapterReady(c, tool) ==
    CASE tool.implementation = "connector" -> ConnectorBound(tool)
      [] tool.implementation = "workflow"  -> WorkflowBound(tool)
      [] tool.implementation = "python"    -> PythonBound(tool)
      [] tool.implementation = "mcp"       -> MCPBound(tool)
      [] tool.implementation = "knowledge" -> KnowledgeAsked(c)

HasAdapter(tool) == tool.implementation \in {"connector", "workflow", "python", "mcp", "knowledge"}

-----------------------------------------------------------------------------
Id(c) == IF IdOf[c] = NoRecord THEN c ELSE IdOf[c]
Ids   == {Id(c) : c \in Calls}

\* CompleteExecutionRecord: the status follows the result.
NewExecutionRecord(c)      == [call |-> c, status |-> "started", code |-> "none"]
CompleteExecutionRecord(c) == [ call |-> c, code |-> result[c].code,
                                status |-> IF result[c].success THEN "succeeded" ELSE "failed" ]

ExecutionInit(calls) ==
    /\ progress = [c \in Calls |-> IF c \in calls THEN "idle" ELSE "absent"]
    /\ spec = [c \in Calls |-> NoRecord]
    /\ result = [c \in Calls |-> NoRecord] /\ given = [c \in Calls |-> "none"]
    /\ records = [i \in Ids |-> NoRecord] /\ unstored = {}

Advance(c, to) == progress' = [progress EXCEPT ![c] = to]

\* The call goes to finish with this result.
Outcome(c, success, code, gives) ==
    /\ Advance(c, "finishing") /\ given' = [given EXCEPT ![c] = gives]
    /\ result' = [result EXCEPT ![c] = [success |-> success, code |-> code]]

Fails(c, code) == Outcome(c, FALSE, code, "error")

\* A call is recorded as started before anything is looked up, in place of what its id
\* recorded before.
ExecuteTool(c) ==
    /\ progress[c] = "idle"
    /\ \/ /\ NoFault /\ Advance(c, "started")
          /\ records' = [records EXCEPT ![Id(c)] = NewExecutionRecord(c)]
          /\ UNCHANGED <<given, unstored>>
       \/ /\ Fault /\ Advance(c, "returned")
          /\ given' = [given EXCEPT ![c] = "error"] /\ unstored' = unstored \cup {c}
          /\ UNCHANGED records
    /\ UNCHANGED <<spec, result>>

GetTool(c) == Specs[c]

\* The catalog's answer, and the checks that come before an adapter may act. The adapter
\* of a connector tool asks the connector service.
ResolveTool(c) ==
    /\ progress[c] = "started"
    /\ \/ Fails(c, "tool_not_found") /\ UNCHANGED <<spec, at>>
       \/ \E tool \in GetTool(c) :
            /\ spec' = [spec EXCEPT ![c] = tool]
            /\ IF tool.implementation = "unset" THEN Fails(c, "missing_implementation") /\ UNCHANGED at
               ELSE IF ~ValidateExecutionPolicy(tool)
                    THEN Fails(c, "confirmation_required") /\ UNCHANGED at
               ELSE IF ~ValidateInputSchema(Args[c], tool.schema)
                    THEN Fails(c, "invalid_arguments") /\ UNCHANGED at
               ELSE IF ~HasAdapter(tool) THEN Fails(c, "no_adapter") /\ UNCHANGED at
               ELSE IF ~AdapterReady(c, tool) THEN Fails(c, "adapter_failed") /\ UNCHANGED at
               ELSE /\ Advance(c, "running") /\ UNCHANGED <<result, given>>
                    /\ Move(c, IF tool.implementation = "connector" THEN "asked" ELSE "backend")
    /\ NoFault
    /\ UNCHANGED <<records, unstored, operation, token, presents, retried, answer, slot,
                   mutex, withdrawn, issued, live, forgot, effects>>

\* The service behind another adapter carries the call out, or not, and says what it did.
BackendAnswers(c, implementation, says) ==
    /\ at[c] = "backend" /\ spec[c].implementation = implementation
    /\ \E carriedOut \in BOOLEAN :
         /\ effects' = [effects EXCEPT ![c] = IF carriedOut THEN @ + 1 ELSE @]
         /\ \E what \in IF carriedOut THEN says ELSE says \ {"ok"} : Return(c, what)
    /\ NoFault
    /\ UNCHANGED <<operation, presents, slot, mutex, withdrawn, issued, live, forgot, executionVars>>

RunWorkflow(c) == BackendAnswers(c, "workflow", {"ok", "status", "error"})
RunPython(c)   == BackendAnswers(c, "python", {"ok", "status", "error"})
CallMCP(c)     == BackendAnswers(c, "mcp", {"ok", "status", "error"})
Retrieve(c)    == BackendAnswers(c, "knowledge", {"ok", "error"})   \* a search has no status

\* executeWithTimeout: past the deadline the call has timed out, whether the adapter was
\* interrupted, which its service may not notice, or has just succeeded. Before it, the
\* service's answer counts, or is lost.
AdapterReturns(c) ==
    /\ progress[c] = "running"
    /\ \/ spec[c].timed /\ Fails(c, "timeout")
       \/ Fails(c, "adapter_failed")
       \/ /\ answer[c] \in {"ok", "status"}
          /\ Outcome(c, answer[c] = "ok", "none", IF answer[c] = "ok" THEN "ok" ELSE "failed")
    /\ NoFault
    /\ UNCHANGED <<spec, records, unstored, invokerVars>>

\* Mutation of Finish: a call that timed out is not recorded as finished.
FinishUnlessLate(c) ==
    /\ progress[c] = "finishing" /\ Advance(c, "returned") /\ NoFault
    /\ records' = IF result[c].code = "timeout" THEN records
                  ELSE [records EXCEPT ![Id(c)] = CompleteExecutionRecord(c)]
    /\ UNCHANGED <<spec, result, given, unstored>>

\* The record is replaced by the finished one, and the caller gets its answer.
Finish(c) ==
    /\ progress[c] = "finishing" /\ Advance(c, "returned")
    /\ \/ /\ NoFault /\ records' = [records EXCEPT ![Id(c)] = CompleteExecutionRecord(c)]
          /\ UNCHANGED <<given, unstored>>
       \/ /\ Fault /\ given' = [given EXCEPT ![c] = "error"] /\ unstored' = unstored \cup {c}
          /\ UNCHANGED records
    /\ UNCHANGED <<spec, result>>
=============================================================================
