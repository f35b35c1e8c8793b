------------------------ MODULE AgentServices_proofs ------------------------
(***************************************************************************)
(* What the services keep true for every set of calls, credentials and     *)
(* flows, and any number of faults.                                        *)
(***************************************************************************)
EXTENDS AgentServices, TLAPS

Places   == {"idle", "asked", "backend", "token", "app", "exchange", "send", "reset", "answered"}
Progress == {"absent", "idle", "started", "running", "finishing", "returned"}
Answers  == {"ok", "status", "error"}

-----------------------------------------------------------------------------
(* Who takes a step.                                                       *)

\* The calls do not notice a step of the run.
LEMMA StepCases ==
    ASSUME [Next]_vars
    PROVE  \/ UNCHANGED <<invokerVars, executionVars>>
           \/ \E c \in Calls : \/ ExecuteTool(c) /\ UNCHANGED invokerVars
                               \/ ResolveTool(c)
                               \/ \E i : \E says \in SUBSET Answers : BackendAnswers(c, i, says)
                               \/ AdapterReturns(c)
                               \/ Finish(c) /\ UNCHANGED invokerVars
                               \/ InvocationStep(c) /\ UNCHANGED executionVars
<1>1. CASE UNCHANGED vars
  BY <1>1 DEF vars
<1>2. CASE RunStep
  BY <1>2 DEF RunStep
<1>3. ASSUME NEW c \in Calls, Start(c)
      PROVE  ExecuteTool(c) /\ UNCHANGED invokerVars
  BY <1>3 DEF Start
<1>4. ASSUME NEW c \in Calls, ToolStep(c)
      PROVE  \/ ResolveTool(c)
             \/ \E i : \E says \in SUBSET Answers : BackendAnswers(c, i, says)
             \/ AdapterReturns(c)
             \/ Finish(c) /\ UNCHANGED invokerVars
  BY <1>4 DEF ToolStep, RunWorkflow, RunPython, CallMCP, Retrieve, Answers
<1>5. ASSUME NEW c \in Calls, ConnectorStep(c)
      PROVE  InvocationStep(c) /\ UNCHANGED executionVars
  BY <1>5 DEF ConnectorStep
<1> QED BY <1>1, <1>2, <1>3, <1>4, <1>5 DEF Next

-----------------------------------------------------------------------------
(* A call is carried out once.                                             *)

\* Nothing is sent before the tool is resolved; nothing was carried out of what may still
\* be sent; and what is answered as done was done.
SentOnce(c) ==
    /\ progress[c] \in {"absent", "idle", "started"} => at[c] = "idle" /\ given[c] # "ok"
    /\ at[c] # "answered" => effects[c] = 0 /\ answer[c] = "none"
    /\ effects[c] \in {0, 1}
    /\ answer[c] = "ok" => \/ effects[c] = 1
                           \/ operation[c] \in Operation /\ operation[c].mode = "mock"
    /\ given[c] = "ok" => answer[c] = "ok"

EffectsInv ==
    /\ at \in [Calls -> Places] /\ progress \in [Calls -> Progress]
    /\ answer \in [Calls -> Answers \cup {"none"}]
    /\ effects \in [Calls -> Nat] /\ given \in [Calls -> {"none", "ok", "failed", "error"}]
    /\ operation \in [Calls -> Operation \cup {NoToken}]
    /\ \A c \in Calls : SentOnce(c)

LEMMA EffectsStart == Init => EffectsInv
BY DEF Init, EffectsInv, SentOnce, InvokerInit, ExecutionInit, Places, Progress, Answers

LEMMA EffectsKept == EffectsInv /\ [Next]_vars => EffectsInv'
<1> SUFFICES ASSUME EffectsInv, [Next]_vars
             PROVE  EffectsInv'
  OBVIOUS
<1> USE DEF EffectsInv, SentOnce, Places, Progress, Answers
<1>1. CASE UNCHANGED <<invokerVars, executionVars>>
  BY <1>1 DEF invokerVars, executionVars
<1>2. ASSUME NEW c \in Calls, ExecuteTool(c), UNCHANGED invokerVars
      PROVE  EffectsInv'
  BY <1>2 DEF ExecuteTool, Advance, invokerVars
<1>3. ASSUME NEW c \in Calls, ResolveTool(c)
      PROVE  EffectsInv'
  BY <1>3 DEF ResolveTool, Fails, Outcome, Advance, Move
<1>4. ASSUME NEW c \in Calls, NEW i, NEW says \in SUBSET Answers, BackendAnswers(c, i, says)
      PROVE  EffectsInv'
  BY <1>4 DEF BackendAnswers, Return, Move, executionVars
<1>5. ASSUME NEW c \in Calls, AdapterReturns(c)
      PROVE  EffectsInv'
  BY <1>5 DEF AdapterReturns, Fails, Outcome, Advance, invokerVars
<1>6. ASSUME NEW c \in Calls, Finish(c), UNCHANGED invokerVars
      PROVE  EffectsInv'
  BY <1>6 DEF Finish, Advance, invokerVars
<1>7. ASSUME NEW c \in Calls, InvocationStep(c), UNCHANGED executionVars
      PROVE  EffectsInv'
  <2> USE <1>7 DEF executionVars, Return, Continue, Move
  <2>1. CASE Invoke(c)
    <3>1. CASE Return(c, "error") /\ UNCHANGED operation
      BY <2>1, <3>1 DEF Invoke
    <3>2. ASSUME NEW o \in Operation, operation' = [operation EXCEPT ![c] = o],
                 \/ Return(c, "error")
                 \/ o.mode = "mock" /\ Return(c, "ok")
                 \/ Continue(c, "token")
                 \/ Continue(c, "send")
          PROVE  EffectsInv'
      BY <2>1, <3>2 DEF Invoke
    <3> QED BY <2>1, <3>1, <3>2, OperationsAssumption DEF Invoke, GetOperation
  <2>2. CASE DoRequest(c)
    BY <2>2 DEF DoRequest, ShouldRetryOAuth2Auth, Statuses
  <2>3. CASE ResetOAuth2TokenCache(c)
    BY <2>3 DEF ResetOAuth2TokenCache
  <2>4. CASE LockTenantProvider(c) \/ LockUserProvider(c)
    BY <2>4 DEF LockTenantProvider, LockUserProvider, LockProvider
  <2>5. CASE FetchAppToken(c)
    BY <2>5 DEF FetchAppToken, TokenFails, Unlock
  <2>6. CASE FetchTenantAccessToken(c) \/ RefreshUserAccessToken(c) \/ ExchangeAuthorizationCode(c)
    <3>1. PICK rotations : at[c] = "exchange" /\ Exchange(c, rotations)
      BY <2>6 DEF FetchTenantAccessToken, RefreshUserAccessToken, ExchangeAuthorizationCode
    <3>2. /\ Return(c, "error") \/ Continue(c, "send")
          /\ UNCHANGED <<operation, effects>>
      BY ONLY <3>1 DEF Exchange, TokenFails
    <3> QED BY <3>1, <3>2
  <2> QED BY <2>1, <2>2, <2>3, <2>4, <2>5, <2>6 DEF InvocationStep
<1> QED BY <1>1, <1>2, <1>3, <1>4, <1>5, <1>6, <1>7, StepCases

\* The business systems carry a call out at most once, whatever is lost, refused, late or
\* retried; and a call that was answered as done was done, mock operations aside.
THEOREM EffectsOnceHolds == Spec => []EffectsOnce
<1>1. EffectsInv => EffectsOnce
  BY NothingAssumption DEF EffectsInv, SentOnce, EffectsOnce
<1> QED BY EffectsStart, EffectsKept, <1>1, PTL DEF Spec

-----------------------------------------------------------------------------
(* Records say what callers were told.                                     *)

Result == [success : BOOLEAN, code : Codes]
Open   == {"started", "running", "finishing"}

\* A call that got as far as its first record has one at its id, perhaps not its own.
CallRecorded(c) ==
    /\ progress[c] \in Open \/ (progress[c] = "returned" /\ c \notin unstored)
          => records[Id(c)] \in Record
    /\ progress[c] = "finishing" => result[c] \in Result /\ result[c].success = (given[c] = "ok")
    /\ c \in unstored => progress[c] = "returned"

\* A record belongs to a call of its id, and says where that call is.
RecordTold(i) ==
    records[i] \in Record =>
       LET c == records[i].call
       IN /\ Id(c) = i /\ progress[c] \notin {"absent", "idle"}
          /\ progress[c] \in Open => records[i].status = "started"
          /\ progress[c] = "returned" /\ c \notin unstored
                => records[i].status = IF given[c] = "ok" THEN "succeeded" ELSE "failed"

CallsInv ==
    /\ progress \in [Calls -> Progress] /\ given \in [Calls -> {"none", "ok", "failed", "error"}]
    /\ records \in [Ids -> Record \cup {NoRecord}] /\ result \in [Calls -> Result \cup {NoRecord}]
    /\ \A c \in Calls : CallRecorded(c)
    /\ \A i \in Ids : RecordTold(i)

LEMMA CallsStart == Init => CallsInv
BY RecordAssumption
   DEF Init, ExecutionInit, CallsInv, CallRecorded, RecordTold, Record, Progress, Open

\* A step of one call touches nothing but that call and the record at its id.
LEMMA OthersKept ==
    ASSUME CallsInv, NEW c \in Calls, CallRecorded(c)', RecordTold(Id(c))',
           NEW to \in Progress, progress' = [progress EXCEPT ![c] = to],
           NEW gives \in {"none", "ok", "failed", "error"}, given' = [given EXCEPT ![c] = gives],
           NEW became \in Result \cup {NoRecord}, result' = [result EXCEPT ![c] = became],
           NEW record, records' = [records EXCEPT ![Id(c)] = record],
           record \in Record \/ record = records[Id(c)],
           unstored' \in {unstored, unstored \cup {c}}
    PROVE  CallsInv'
<1> USE DEF CallsInv
<1>1. \A d \in Calls : Id(d) \in Ids
  BY DEF Ids
<1>2. /\ progress' \in [Calls -> Progress] /\ result' \in [Calls -> Result \cup {NoRecord}]
      /\ given' \in [Calls -> {"none", "ok", "failed", "error"}]
      /\ records' \in [Ids -> Record \cup {NoRecord}]
  BY <1>1
<1>3. ASSUME NEW d \in Calls
      PROVE  CallRecorded(d)'
  <2>1. CASE d = c
    BY <2>1
  <2>2. CASE d # c
    BY <1>1, <2>2 DEF CallRecorded
  <2> QED BY <2>1, <2>2
<1>4. ASSUME NEW i \in Ids
      PROVE  RecordTold(i)'
  <2>1. CASE i = Id(c)
    BY <2>1
  <2>2. CASE i # Id(c)
    <3>1. records'[i] = records[i]
      BY <1>1, <2>2
    <3>2. records[i] \in Record => records[i].call \in Calls \ {c}
      BY <2>2 DEF RecordTold, Record
    <3> QED BY <3>1, <3>2 DEF RecordTold
  <2> QED BY <2>1, <2>2
<1> QED BY <1>2, <1>3, <1>4

LEMMA CallsKept == CallsInv /\ [Next]_vars => CallsInv'
<1> SUFFICES ASSUME CallsInv, [Next]_vars
             PROVE  CallsInv'
  OBVIOUS
<1>1. CASE UNCHANGED executionVars
  BY <1>1 DEF executionVars, CallsInv, CallRecorded, RecordTold
<1>2. ASSUME NEW c \in Calls, ExecuteTool(c)
      PROVE  CallsInv'
  <2>1. Id(c) \in Ids
    BY DEF Ids
  <2>2. CASE unstored' = unstored
    <3>1. /\ progress' = [progress EXCEPT ![c] = "started"]
          /\ records' = [records EXCEPT ![Id(c)] = NewExecutionRecord(c)]
          /\ UNCHANGED <<given, result>> /\ progress[c] = "idle"
      BY <1>2, <2>2 DEF ExecuteTool, Advance, CallsInv, CallRecorded
    <3>2. NewExecutionRecord(c) \in Record
      BY DEF NewExecutionRecord, Record, Codes
    <3>3. CallRecorded(c)' /\ RecordTold(Id(c))'
      BY <2>1, <2>2, <3>1, <3>2
         DEF CallsInv, CallRecorded, RecordTold, NewExecutionRecord, Open
    <3>4. /\ given' = [given EXCEPT ![c] = given[c]] /\ result' = [result EXCEPT ![c] = result[c]]
          /\ given[c] \in {"none", "ok", "failed", "error"} /\ result[c] \in Result \cup {NoRecord}
      BY <3>1 DEF CallsInv
    <3>5. "started" \in Progress
      BY DEF Progress
    <3> QED BY <2>2, <3>1, <3>2, <3>3, <3>4, <3>5, OthersKept
  <2>3. CASE unstored' # unstored
    <3>1. /\ progress' = [progress EXCEPT ![c] = "returned"]
          /\ given' = [given EXCEPT ![c] = "error"] /\ unstored' = unstored \cup {c}
          /\ UNCHANGED <<records, result>> /\ progress[c] = "idle"
      BY <1>2, <2>3 DEF ExecuteTool, Advance
    <3>2. CallRecorded(c)' /\ RecordTold(Id(c))'
      BY <2>1, <3>1 DEF CallsInv, CallRecorded, RecordTold, Open, Record
    <3>3. /\ result' = [result EXCEPT ![c] = result[c]] /\ result[c] \in Result \cup {NoRecord}
          /\ records' = [records EXCEPT ![Id(c)] = records[Id(c)]]
      BY <3>1 DEF CallsInv
    <3>4. "returned" \in Progress
      BY DEF Progress
    <3> QED BY <3>1, <3>2, <3>3, <3>4, OthersKept
  <2> QED BY <2>2, <2>3
<1>3. ASSUME NEW c \in Calls, NEW success \in BOOLEAN, NEW code \in Codes, NEW gives,
             Outcome(c, success, code, gives), success = (gives = "ok"),
             gives \in {"ok", "failed", "error"}, progress[c] \in Open \ {"finishing"},
             UNCHANGED <<records, unstored>>
      PROVE  CallsInv'
  <2>1. CallRecorded(c)' /\ RecordTold(Id(c))'
    BY <1>3 DEF CallsInv, CallRecorded, RecordTold, Outcome, Advance, Open, Result, Record, Ids
  <2>2. [success |-> success, code |-> code] \in Result
    BY DEF Result
  <2>3. /\ progress' = [progress EXCEPT ![c] = "finishing"]
        /\ given' = [given EXCEPT ![c] = gives]
        /\ result' = [result EXCEPT ![c] = [success |-> success, code |-> code]]
        /\ records' = [records EXCEPT ![Id(c)] = records[Id(c)]]
        /\ unstored' = unstored
    BY <1>3 DEF Outcome, Advance, CallsInv
  <2> QED BY <1>3, <2>1, <2>2, <2>3, OthersKept DEF Progress
<1>4. ASSUME NEW c \in Calls, ResolveTool(c)
      PROVE  CallsInv'
  <2>1. CASE \E code \in Codes : Fails(c, code)
    BY <1>3, <1>4, <2>1 DEF ResolveTool, Fails, Open, Codes
  <2>2. CASE Advance(c, "running") /\ UNCHANGED <<result, given>>
    <3>1. UNCHANGED <<records, unstored>> /\ progress[c] = "started"
      BY <1>4 DEF ResolveTool
    <3>2. CallRecorded(c)' /\ RecordTold(Id(c))'
      BY <2>2, <3>1 DEF CallsInv, CallRecorded, RecordTold, Advance, Open, Record, Ids
    <3>3. /\ progress' = [progress EXCEPT ![c] = "running"]
          /\ given' = [given EXCEPT ![c] = given[c]]
          /\ result' = [result EXCEPT ![c] = result[c]]
          /\ records' = [records EXCEPT ![Id(c)] = records[Id(c)]]
          /\ given[c] \in {"none", "ok", "failed", "error"} /\ result[c] \in Result \cup {NoRecord}
      BY <2>2, <3>1 DEF Advance, CallsInv
    <3> QED BY <3>1, <3>2, <3>3, OthersKept DEF Progress
  <2> QED BY <1>4, <2>1, <2>2 DEF ResolveTool, Codes
<1>5. ASSUME NEW c \in Calls, AdapterReturns(c)
      PROVE  CallsInv'
  <2>1. /\ progress[c] \in Open \ {"finishing"}
        /\ UNCHANGED <<records, unstored>>
    BY <1>5 DEF AdapterReturns, Open
  <2>2. CASE \E code \in Codes : Fails(c, code)
    BY <1>3, <2>1, <2>2 DEF Fails
  <2>3. CASE \E ok \in BOOLEAN : Outcome(c, ok, "none", IF ok THEN "ok" ELSE "failed")
    BY <1>3, <2>1, <2>3 DEF Codes
  <2>4. (answer[c] = "ok") \in BOOLEAN
    OBVIOUS
  <2> QED BY <1>5, <2>2, <2>3, <2>4 DEF AdapterReturns, Codes
<1>6. ASSUME NEW c \in Calls, Finish(c)
      PROVE  CallsInv'
  <2>1. Id(c) \in Ids /\ progress[c] = "finishing" /\ result[c] \in Result
    BY <1>6 DEF Ids, Finish, CallsInv, CallRecorded
  <2>2. CompleteExecutionRecord(c) \in Record
    BY <2>1 DEF CompleteExecutionRecord, Record, Result
  <2>3. CASE unstored' = unstored
    <3>1. /\ progress' = [progress EXCEPT ![c] = "returned"]
          /\ records' = [records EXCEPT ![Id(c)] = CompleteExecutionRecord(c)]
          /\ UNCHANGED <<given, result>>
      BY <1>6, <2>1, <2>3 DEF Finish, Advance, CallsInv, CallRecorded
    <3>2. CallRecorded(c)' /\ RecordTold(Id(c))'
      BY <2>1, <2>2, <2>3, <3>1
         DEF CallsInv, CallRecorded, RecordTold, CompleteExecutionRecord, Open
    <3>3. /\ given' = [given EXCEPT ![c] = given[c]] /\ result' = [result EXCEPT ![c] = result[c]]
          /\ given[c] \in {"none", "ok", "failed", "error"} /\ result[c] \in Result \cup {NoRecord}
      BY <3>1 DEF CallsInv
    <3> QED BY <2>2, <2>3, <3>1, <3>2, <3>3, OthersKept DEF Progress
  <2>4. CASE unstored' # unstored
    <3>1. /\ progress' = [progress EXCEPT ![c] = "returned"]
          /\ given' = [given EXCEPT ![c] = "error"] /\ unstored' = unstored \cup {c}
          /\ UNCHANGED <<records, result>>
      BY <1>6, <2>4 DEF Finish, Advance
    <3>2. CallRecorded(c)' /\ RecordTold(Id(c))'
      BY <2>1, <3>1 DEF CallsInv, CallRecorded, RecordTold, Open, Record
    <3>3. /\ result' = [result EXCEPT ![c] = result[c]] /\ result[c] \in Result \cup {NoRecord}
          /\ records' = [records EXCEPT ![Id(c)] = records[Id(c)]]
      BY <3>1 DEF CallsInv
    <3>4. "returned" \in Progress
      BY DEF Progress
    <3> QED BY <3>1, <3>2, <3>3, <3>4, OthersKept
  <2> QED BY <2>3, <2>4
<1> QED BY <1>1, <1>2, <1>4, <1>5, <1>6, StepCases DEF BackendAnswers

\* Once a call has returned, the record at its id says what its caller was told, or belongs
\* to another call that came with the same id; and no record is left open of a call that is
\* over. The exception is a call whose record could not be stored.
THEOREM CallsAccountedHolds == Spec => []CallsAccounted
<1>1. CallsInv => CallsAccounted
  <2> SUFFICES ASSUME CallsInv
               PROVE  CallsAccounted
    OBVIOUS
  <2>1. \A c \in Calls : Id(c) \in Ids
    BY DEF Ids
  <2> QED BY <2>1 DEF CallsInv, CallRecorded, RecordTold, CallsAccounted, Open, Record
<1> QED BY CallsStart, CallsKept, <1>1, PTL DEF Spec

-----------------------------------------------------------------------------
(* What a provider hands out stays with its credential.                    *)

IssuedToken == [credential : Credentials, number : Nat]
Slot == [ credential : Credentials \cup {NoToken}, access : IssuedToken \cup {NoToken},
          refresh : IssuedToken \cup {NoToken}, fresh : BOOLEAN ]

\* What an invocation holds is of its own credential. With the lock of a user's provider
\* it holds what is good to present, unless that was forgotten.
HoldsOwn(c) ==
    /\ at[c] \in {"token", "app", "exchange", "send", "reset"} => operation[c] \in Operation
    /\ at[c] \in {"send", "reset"} /\ operation[c].auth # "none"
          => token[c] \in IssuedToken /\ token[c].credential = Credential(c)
    /\ at[c] \in {"app", "exchange"} =>
          /\ mutex[Ours(c)] = c
          /\ presents[c] \in IssuedToken /\ presents[c].credential = Credential(c)
          /\ Ours(c) = "user" /\ live[Credential(c)] # NoToken =>
                presents[c].number = live[Credential(c)] \/ Credential(c) \in forgot

\* A provider remembers tokens of one credential, which is one of its own.
SlotOwn(p) ==
    /\ slot[p].credential # NoToken => Provider(slot[p].credential) = p
    /\ slot[p].access # NoToken => slot[p].access.credential = slot[p].credential
    /\ slot[p].refresh # NoToken => slot[p].refresh.credential = slot[p].credential

\* The good refresh token of a user's credential, if there is one, is remembered, or is
\* the configured one, or was forgotten.
GoodKnown(k) ==
    Provider(k) = "user" /\ live[k] # NoToken =>
       \/ k \in forgot
       \/ /\ slot["user"].credential = k /\ slot["user"].refresh # NoToken
          /\ slot["user"].refresh.number = live[k]
       \/ slot["user"].credential # k /\ live[k] = 0

CredentialsType ==
    /\ at \in [Calls -> Places] /\ operation \in [Calls -> Operation \cup {NoToken}]
    /\ token \in [Calls -> IssuedToken \cup {NoToken}]
    /\ presents \in [Calls -> IssuedToken \cup {NoToken}]
    /\ slot \in [Providers -> Slot] /\ mutex \in [Providers -> Calls \cup {NoCall}]
    /\ issued \in [Credentials -> Nat] /\ live \in [Credentials -> Nat \cup {NoToken}]
    /\ forgot \in SUBSET Credentials

CredentialsInv ==
    /\ CredentialsType
    /\ \A c \in Calls : HoldsOwn(c)
    /\ \A p \in Providers : SlotOwn(p)
    /\ \A k \in Credentials : GoodKnown(k)

LEMMA ProviderType == \A k : Provider(k) \in Providers
BY DEF Provider, Providers

LEMMA TokenType ==
    ASSUME NEW k \in Credentials, NEW n \in Nat
    PROVE  /\ Token(k, n) \in IssuedToken /\ Token(k, n) # NoToken
           /\ Token(k, n).credential = k /\ Token(k, n).number = n
BY NothingAssumption DEF Token, IssuedToken

LEMMA CredentialsStart == Init => CredentialsInv
<1> SUFFICES ASSUME Init
             PROVE  CredentialsInv
  OBVIOUS
<1> USE DEF Init, InvokerInit
<1>1. CredentialsType
  BY DEF CredentialsType, Places, Slot, Empty, Providers
<1>2. \A c \in Calls : HoldsOwn(c)
  BY DEF HoldsOwn
<1>3. \A p \in Providers : SlotOwn(p)
  BY DEF SlotOwn, Empty
<1>4. \A k \in Credentials : GoodKnown(k)
  BY NothingAssumption DEF GoodKnown, Empty, Providers
<1> QED BY <1>1, <1>2, <1>3, <1>4 DEF CredentialsInv

\* Nobody else is disturbed by an invocation that keeps to its own provider, whose lock
\* is its own or free, or that touches no provider at all.
LEMMA OthersOwn ==
    ASSUME CredentialsInv, NEW c \in Calls, NEW d \in Calls, d # c,
           at'[d] = at[d], operation'[d] = operation[d], token'[d] = token[d],
           presents'[d] = presents[d],
           \/ UNCHANGED <<mutex, live, forgot>>
           \/ /\ mutex[Ours(c)] \in {c, NoCall}
              /\ \A p \in Providers : p # Ours(c) => mutex'[p] = mutex[p]
              /\ \A k \in Credentials : Provider(k) # Ours(c)
                    => live'[k] = live[k] /\ (k \in forgot => k \in forgot')
    PROVE  HoldsOwn(d)'
<1>1. HoldsOwn(d) /\ Ours(d) \in Providers
  BY ProviderType DEF CredentialsInv, Ours
<1>2. CASE UNCHANGED <<mutex, live, forgot>>
  BY <1>1, <1>2 DEF HoldsOwn, Ours, Credential
<1>3. CASE at[d] \notin {"app", "exchange"}
  BY <1>1, <1>3 DEF HoldsOwn, Credential
<1>4. CASE /\ at[d] \in {"app", "exchange"} /\ mutex[Ours(c)] \in {c, NoCall}
           /\ \A p \in Providers : p # Ours(c) => mutex'[p] = mutex[p]
           /\ \A k \in Credentials : Provider(k) # Ours(c)
                 => live'[k] = live[k] /\ (k \in forgot => k \in forgot')
  <2>1. mutex[Ours(d)] = d /\ Ours(d) # Ours(c)
    BY <1>1, <1>4, NothingAssumption DEF HoldsOwn
  <2>2. /\ operation[d] \in Operation /\ Credential(d) \in Credentials
        /\ Provider(Credential(d)) # Ours(c)
    BY <1>1, <1>4, <2>1 DEF HoldsOwn, Operation, Credential, Ours
  <2>3. Credential(d)' = Credential(d) /\ Ours(d)' = Ours(d)
    BY DEF Credential, Ours
  <2> QED BY <1>1, <1>4, <2>1, <2>2, <2>3 DEF HoldsOwn
<1> QED BY <1>2, <1>3, <1>4

\* A step of one invocation that touches no provider.
LEMMA NoProvider ==
    ASSUME CredentialsInv, NEW c \in Calls, HoldsOwn(c)',
           NEW to \in Places, at' = [at EXCEPT ![c] = to],
           NEW o \in Operation \cup {NoToken}, operation' = [operation EXCEPT ![c] = o],
           NEW t \in IssuedToken \cup {NoToken}, token' = [token EXCEPT ![c] = t],
           UNCHANGED <<presents, slot, mutex, issued, live, forgot>>
    PROVE  CredentialsInv'
<1>1. CredentialsType'
  BY DEF CredentialsInv, CredentialsType
<1>2. \A d \in Calls : HoldsOwn(d)'
  BY OthersOwn DEF CredentialsInv, CredentialsType
<1>3. (\A p \in Providers : SlotOwn(p)') /\ (\A k \in Credentials : GoodKnown(k)')
  BY DEF CredentialsInv, SlotOwn, GoodKnown
<1> QED BY <1>1, <1>2, <1>3 DEF CredentialsInv

\* One that keeps to its own provider, at which it leaves things in order.
LEMMA OwnProvider ==
    ASSUME CredentialsInv, NEW c \in Calls, HoldsOwn(c)', operation[c] \in Operation,
           mutex[Ours(c)] \in {c, NoCall}, UNCHANGED operation,
           NEW to \in Places, at' = [at EXCEPT ![c] = to],
           NEW t \in IssuedToken \cup {NoToken}, token' = [token EXCEPT ![c] = t],
           NEW r \in IssuedToken \cup {NoToken}, presents' = [presents EXCEPT ![c] = r],
           NEW s \in Slot, slot' = [slot EXCEPT ![Ours(c)] = s],
           NEW holder \in Calls \cup {NoCall}, mutex' = [mutex EXCEPT ![Ours(c)] = holder],
           issued' \in [Credentials -> Nat], live' \in [Credentials -> Nat \cup {NoToken}],
           forgot' \in SUBSET Credentials,
           \A k \in Credentials : Provider(k) # Ours(c)
                 => live'[k] = live[k] /\ (k \in forgot => k \in forgot'),
           SlotOwn(Ours(c))',
           \A k \in Credentials : Provider(k) = Ours(c) => GoodKnown(k)'
    PROVE  CredentialsInv'
<1>0. Ours(c) \in Providers /\ Ours(c)' = Ours(c)
  BY ProviderType DEF Ours, Credential
<1>1. CredentialsType'
  BY <1>0 DEF CredentialsInv, CredentialsType
<1>2. \A d \in Calls : HoldsOwn(d)'
  <2>1. \A p \in Providers : p # Ours(c) => mutex'[p] = mutex[p]
    BY DEF CredentialsInv, CredentialsType
  <2> QED BY <2>1, OthersOwn DEF CredentialsInv, CredentialsType
<1>3. \A p \in Providers : SlotOwn(p)'
  <2>1. ASSUME NEW p \in Providers, p # Ours(c)
        PROVE  slot'[p] = slot[p] /\ SlotOwn(p)
    BY <2>1 DEF CredentialsInv, CredentialsType
  <2> QED BY <1>0, <2>1 DEF SlotOwn
<1>4. ASSUME NEW k \in Credentials, Provider(k) # Ours(c)
      PROVE  GoodKnown(k)'
  <2>1. GoodKnown(k) /\ (Provider(k) = "user" => slot'["user"] = slot["user"])
    BY <1>0, <1>4 DEF CredentialsInv, CredentialsType, Providers
  <2> QED BY <1>4, <2>1 DEF GoodKnown
<1> QED BY <1>1, <1>2, <1>3, <1>4 DEF CredentialsInv

\* What an invocation may rely on.
LEMMA OwnFacts ==
    ASSUME CredentialsInv, NEW c \in Calls, operation[c] \in Operation
    PROVE  /\ Credential(c) \in Credentials /\ Ours(c) \in Providers
           /\ Ours(c) = Provider(Credential(c))
           /\ slot[Ours(c)] \in Slot /\ SlotOwn(Ours(c)) /\ GoodKnown(Credential(c))
BY ProviderType DEF Credential, Ours, Operation, CredentialsInv, CredentialsType

LEMMA KeptWhenLocked ==
    ASSUME CredentialsInv, NEW c \in Calls, at[c] = "token",
           NEW next \in {"app", "exchange"}, LockProvider(c, next)
    PROVE  CredentialsInv'
<1>0. HoldsOwn(c) /\ operation[c] \in Operation
  BY DEF CredentialsInv, HoldsOwn
<1> DEFINE k == Credential(c)   p == Ours(c)
<1>1. /\ k \in Credentials /\ p \in Providers /\ p = Provider(k) /\ slot[p] \in Slot
      /\ SlotOwn(p) /\ GoodKnown(k) /\ UNCHANGED <<operation, issued, live, forgot>>
      /\ mutex[p] = NoCall /\ Credential(c)' = k /\ Ours(c)' = p
  BY <1>0, OwnFacts DEF LockProvider, Credential, Ours
<1>2. CASE /\ Remembered(c) /\ token' = [token EXCEPT ![c] = slot[p].access]
           /\ Move(c, "send") /\ UNCHANGED <<presents, mutex, slot>>
  <2>1. slot[p].access \in IssuedToken /\ slot[p].access.credential = k
    BY <1>1, <1>2 DEF Remembered, SlotOwn, Slot
  <2>2. at'[c] = "send" /\ token'[c] = slot[p].access
    BY <1>2 DEF Move, CredentialsInv, CredentialsType
  <2>3. HoldsOwn(c)'
    BY <1>0, <1>1, <2>1, <2>2 DEF HoldsOwn
  <2>4. operation' = [operation EXCEPT ![c] = operation[c]] /\ at' = [at EXCEPT ![c] = "send"]
    BY <1>1, <1>2 DEF CredentialsInv, CredentialsType, Move
  <2> QED BY <1>0, <1>1, <1>2, <2>1, <2>3, <2>4, NoProvider DEF Places
<1>3. CASE /\ slot' = IF Remembered(c) THEN [slot EXCEPT ![p] = [@ EXCEPT !.fresh = FALSE]] ELSE slot
           /\ presents' = [presents EXCEPT ![c] = ToPresent(c)]
           /\ mutex' = [mutex EXCEPT ![p] = c]
           /\ Move(c, next) /\ UNCHANGED token
  <2>1. PICK s \in Slot :
           /\ slot' = [slot EXCEPT ![p] = s]
           /\ s.credential = slot[p].credential /\ s.access = slot[p].access
           /\ s.refresh = slot[p].refresh
    <3>1. CASE Remembered(c)
      <4>1. [slot[p] EXCEPT !.fresh = FALSE] \in Slot
        BY <1>1 DEF Slot
      <4> QED BY <1>1, <1>3, <3>1, <4>1 DEF Slot
    <3>2. CASE ~Remembered(c)
      BY <1>1, <1>3, <3>2 DEF CredentialsInv, CredentialsType
    <3> QED BY <3>1, <3>2
  <2>2. slot'[p] = s
    BY <1>1, <2>1 DEF CredentialsInv, CredentialsType
  <2>3. /\ ToPresent(c) \in IssuedToken /\ ToPresent(c).credential = k
        /\ p = "user" /\ live[k] # NoToken => ToPresent(c).number = live[k] \/ k \in forgot
    <3>1. Fixed(k) \in IssuedToken /\ Fixed(k).credential = k /\ Fixed(k).number = 0
      BY <1>1, TokenType DEF Fixed
    <3>2. slot[p].refresh # NoToken => slot[p].refresh \in IssuedToken
      BY <1>1 DEF Slot
    <3> QED BY <1>1, <3>1, <3>2 DEF ToPresent, SlotOwn, GoodKnown
  <2>4. /\ at' = [at EXCEPT ![c] = next] /\ at'[c] = next /\ mutex'[p] = c
        /\ presents'[c] = ToPresent(c) /\ token' = [token EXCEPT ![c] = token[c]]
        /\ token[c] \in IssuedToken \cup {NoToken}
    BY <1>1, <1>3 DEF Move, CredentialsInv, CredentialsType
  <2>5. HoldsOwn(c)'
    BY <1>0, <1>1, <2>3, <2>4 DEF HoldsOwn
  <2>6. SlotOwn(p)'
    BY <1>1, <2>1, <2>2 DEF SlotOwn
  <2>7. \A j \in Credentials : Provider(j) = p => GoodKnown(j)'
    BY <1>1, <2>1, <2>2 DEF GoodKnown, CredentialsInv
  <2>8. SlotOwn(Ours(c))'
    BY <1>1, <2>6
  <2> HIDE DEF k, p
  <2> QED BY <1>0, <1>1, <1>3, <2>1, <2>3, <2>4, <2>5, <2>7, <2>8, OwnProvider
          DEF Places, CredentialsInv, CredentialsType, p
<1> QED BY <1>2, <1>3 DEF LockProvider

\* The lock is let go, and the providers remember what they did.
LEMMA KeptWhenTokenFails ==
    ASSUME CredentialsInv, NEW c \in Calls, operation[c] \in Operation, mutex[Ours(c)] = c,
           TokenFails(c), UNCHANGED <<operation, slot>>,
           issued' \in [Credentials -> Nat], live' \in [Credentials -> Nat \cup {NoToken}],
           forgot' \in SUBSET Credentials, forgot \subseteq forgot',
           \A k \in Credentials : live'[k] = live[k] \/ (k \in forgot' /\ k = Credential(c))
    PROVE  CredentialsInv'
<1> DEFINE p == Ours(c)
<1>1. /\ p \in Providers /\ slot[p] \in Slot /\ SlotOwn(p) /\ p = Provider(Credential(c))
      /\ Ours(c)' = p
  BY OwnFacts DEF Ours, Credential
<1>2. /\ at' = [at EXCEPT ![c] = "answered"] /\ at'[c] = "answered"
      /\ token' = [token EXCEPT ![c] = NoToken] /\ presents' = [presents EXCEPT ![c] = NoToken]
      /\ mutex' = [mutex EXCEPT ![p] = NoCall] /\ slot' = [slot EXCEPT ![p] = slot[p]]
  BY <1>1 DEF TokenFails, Unlock, Return, Move, CredentialsInv, CredentialsType
<1>3. HoldsOwn(c)'
  BY <1>2 DEF HoldsOwn
<1>4. SlotOwn(Ours(c))'
  BY <1>1 DEF SlotOwn
<1>5. \A k \in Credentials : Provider(k) = p => GoodKnown(k)'
  BY DEF GoodKnown, CredentialsInv
<1>6. \A k \in Credentials : Provider(k) # p => live'[k] = live[k] /\ (k \in forgot => k \in forgot')
  BY <1>1
<1> HIDE DEF p
<1> QED BY <1>1, <1>2, <1>3, <1>4, <1>5, <1>6, OwnProvider DEF Places, p

LEMMA KeptWhenExchanged ==
    ASSUME CredentialsInv, NEW c \in Calls, at[c] = "exchange", NEW rotations \in SUBSET BOOLEAN,
           Ours(c) = "tenant" => rotations = {FALSE}, Exchange(c, rotations)
    PROVE  CredentialsInv'
<1> DEFINE k == Credential(c)   p == Ours(c)   n == issued[k] + 1
<1>0. HoldsOwn(c) /\ operation[c] \in Operation
  BY DEF CredentialsInv, HoldsOwn
<1>1. /\ k \in Credentials /\ p \in Providers /\ p = Provider(k) /\ slot[p] \in Slot
      /\ SlotOwn(p) /\ GoodKnown(k) /\ mutex[p] = c /\ UNCHANGED operation
      /\ Credential(c)' = k /\ Ours(c)' = p
      /\ presents[c] \in IssuedToken /\ presents[c].credential = k
      /\ issued \in [Credentials -> Nat] /\ live \in [Credentials -> Nat \cup {NoToken}]
      /\ forgot \in SUBSET Credentials /\ n \in Nat
  BY <1>0, OwnFacts DEF Exchange, Credential, Ours, HoldsOwn, CredentialsInv, CredentialsType
<1>2. CASE TokenFails(c) /\ UNCHANGED <<slot, issued, live, forgot>>
  BY <1>0, <1>1, <1>2, KeptWhenTokenFails
<1>3. ASSUME NEW rotates \in rotations, Takes(k, presents[c]), IssueToken(c, rotates),
             TokenFails(c), UNCHANGED slot,
             forgot' = IF rotates \/ PresentsCode(c) THEN forgot \cup {k} ELSE forgot
      PROVE  CredentialsInv'
  <2>1. /\ issued' \in [Credentials -> Nat] /\ live' \in [Credentials -> Nat \cup {NoToken}]
        /\ forgot' \in SUBSET Credentials /\ forgot \subseteq forgot'
        /\ \A j \in Credentials : live'[j] = live[j] \/ (j \in forgot' /\ j = k)
    BY <1>1, <1>3 DEF IssueToken
  <2> QED BY <1>0, <1>1, <1>3, <2>1, KeptWhenTokenFails
<1>4. ASSUME NEW rotates \in rotations, Takes(k, presents[c]), IssueToken(c, rotates),
             Remember(c, n, rotates), Unlock(c), token' = [token EXCEPT ![c] = Token(k, n)],
             forgot' = (forgot \ {k}) \cup Displaced(c), Continue(c, "send")
      PROVE  CredentialsInv'
  <2> DEFINE s == [ credential |-> k, access |-> Token(k, n), fresh |-> TRUE,
                    refresh |-> IF rotates THEN Token(k, n) ELSE UsedRefresh(c) ]
  <2>0. /\ UsedRefresh(c) \in IssuedToken \cup {NoToken}
        /\ p = "tenant" => UsedRefresh(c) = NoToken /\ rotates = FALSE
        /\ p = "user" /\ ~PresentsCode(c) => UsedRefresh(c) = presents[c]
    BY <1>1 DEF UsedRefresh
  <2>1. Token(k, n) \in IssuedToken /\ Token(k, n) # NoToken /\ Token(k, n).credential = k
        /\ Token(k, n).number = n
    BY <1>1, TokenType
  <2>2. s \in Slot
    BY <1>1, <2>0, <2>1 DEF Slot
  <2>3. /\ s.credential = k /\ s.access = Token(k, n)
        /\ rotates => s.refresh = Token(k, n)
        /\ ~rotates => s.refresh = UsedRefresh(c)
    OBVIOUS
  <2>4. slot' = [slot EXCEPT ![p] = s] /\ slot'[p] = s
    BY <1>1, <1>4 DEF Remember, CredentialsInv, CredentialsType
  <2> HIDE DEF s
  <2>5. /\ at' = [at EXCEPT ![c] = "send"] /\ at'[c] = "send" /\ token'[c] = Token(k, n)
        /\ token' = [token EXCEPT ![c] = Token(k, n)]
        /\ mutex' = [mutex EXCEPT ![p] = NoCall] /\ presents' = [presents EXCEPT ![c] = NoToken]
    BY <1>4 DEF Continue, Move, Unlock, CredentialsInv, CredentialsType
  <2>6. /\ issued' \in [Credentials -> Nat] /\ live' \in [Credentials -> Nat \cup {NoToken}]
        /\ live'[k] = IF rotates THEN n ELSE IF PresentsCode(c) THEN NoToken ELSE live[k]
        /\ \A j \in Credentials \ {k} : live'[j] = live[j]
    BY <1>1, <1>4 DEF IssueToken
  <2>7. HoldsOwn(c)'
    BY <1>0, <1>1, <2>1, <2>5 DEF HoldsOwn
  <2>8. SlotOwn(p)'
    <3>1. UsedRefresh(c) \in {NoToken, presents[c]}
      BY DEF UsedRefresh
    <3> QED BY <1>1, <2>1, <2>3, <2>4, <3>1 DEF SlotOwn
  <2>9. Displaced(c) \subseteq {slot[p].credential} \ {NoToken}
        /\ Displaced(c) = {slot[p].credential} \ {NoToken, k}
    BY DEF Displaced
  <2>10. forgot' \in SUBSET Credentials
    BY <1>1, <1>4, <2>9 DEF Slot
  <2>11. \A j \in Credentials : Provider(j) # p => live'[j] = live[j] /\ (j \in forgot => j \in forgot')
    BY <1>1, <1>4, <2>6
  <2>12. ASSUME NEW j \in Credentials, Provider(j) = p
         PROVE  GoodKnown(j)'
    <3>1. CASE j = k
      <4>1. p = "user" /\ ~rotates => presents[c].number = live[k]
        BY <1>1, <1>4 DEF Takes
      <4>2. p = "user" /\ live'[k] # NoToken => s.refresh # NoToken /\ s.refresh.number = live'[k]
        BY <1>1, <2>0, <2>1, <2>3, <2>6, <4>1, NothingAssumption DEF IssuedToken
      <4> QED BY <1>1, <2>3, <2>4, <3>1, <4>2, <2>12 DEF GoodKnown
    <3>2. CASE j # k
      <4>1. GoodKnown(j) /\ live'[j] = live[j] /\ (j \in forgot => j \in forgot')
        BY <1>4, <2>6, <3>2 DEF CredentialsInv
      <4>2. slot[p].credential = j => j \in forgot'
        BY <1>4, <2>9, <3>2, NothingAssumption
      <4>3. slot'[p].credential = k
        BY <2>3, <2>4
      <4> QED BY <1>1, <2>12, <3>2, <4>1, <4>2, <4>3 DEF GoodKnown
    <3> QED BY <3>1, <3>2
  <2>13. SlotOwn(Ours(c))'
    BY <1>1, <2>8
  <2> HIDE DEF k, p, n
  <2> QED BY <1>0, <1>1, <2>1, <2>2, <2>4, <2>5, <2>6, <2>7, <2>10, <2>11, <2>12, <2>13,
             OwnProvider DEF Places, p
<1> QED BY <1>2, <1>3, <1>4 DEF Exchange

LEMMA KeptWhenReset ==
    ASSUME CredentialsInv, NEW c \in Calls, ResetOAuth2TokenCache(c)
    PROVE  CredentialsInv'
<1> DEFINE p == Ours(c)
<1>1. HoldsOwn(c) /\ at[c] = "reset" /\ operation[c] \in Operation
  BY DEF ResetOAuth2TokenCache, CredentialsInv, HoldsOwn
<1>2. /\ p \in Providers /\ slot[p] \in Slot /\ Ours(c)' = p /\ Credential(c)' = Credential(c)
      /\ SlotOwn(p)
      /\ UNCHANGED <<operation, token, presents, mutex, issued, live>>
      /\ operation' = [operation EXCEPT ![c] = operation[c]]
      /\ token' = [token EXCEPT ![c] = token[c]] /\ presents' = [presents EXCEPT ![c] = presents[c]]
      /\ token[c] \in IssuedToken \cup {NoToken} /\ presents[c] \in IssuedToken \cup {NoToken}
  BY <1>1, OwnFacts DEF ResetOAuth2TokenCache, Credential, Ours, CredentialsInv, CredentialsType
<1>3. ASSUME NEW to \in {"token", "send"}, Move(c, to)
      PROVE  HoldsOwn(c)' /\ at' = [at EXCEPT ![c] = to]
  BY <1>1, <1>2, <1>3 DEF Move, HoldsOwn, CredentialsInv, CredentialsType
<1>4. CASE Move(c, "send") /\ UNCHANGED <<slot, forgot>>
  BY <1>1, <1>2, <1>3, <1>4, NoProvider DEF Places
<1>5. ASSUME NEW to \in {"token", "send"}, Move(c, to), mutex[p] = NoCall,
             slot' = [slot EXCEPT ![p] = Empty],
             forgot' = forgot \cup ({slot[p].credential} \ {NoToken})
      PROVE  CredentialsInv'
  <2>1. Empty \in Slot /\ slot'[p] = Empty /\ mutex' = [mutex EXCEPT ![p] = NoCall]
    BY <1>2, <1>5 DEF Empty, Slot, CredentialsInv, CredentialsType
  <2>2. /\ forgot' \in SUBSET Credentials /\ forgot \subseteq forgot'
        /\ issued' \in [Credentials -> Nat] /\ live' \in [Credentials -> Nat \cup {NoToken}]
    BY <1>2, <1>5 DEF Slot, CredentialsInv, CredentialsType
  <2>3. SlotOwn(Ours(c))'
    BY <1>2, <2>1 DEF SlotOwn, Empty
  <2>4. ASSUME NEW k \in Credentials, Provider(k) = p
        PROVE  GoodKnown(k)'
    <3>1. GoodKnown(k) /\ live'[k] = live[k] /\ (k \in forgot => k \in forgot')
      BY <1>2, <2>2 DEF CredentialsInv
    <3>2. slot[p].credential = k => k \in forgot'
      BY <1>5, NothingAssumption
    <3>3. slot'[p].credential = NoToken
      BY <2>1 DEF Empty
    <3> QED BY <2>4, <3>1, <3>2, <3>3, NothingAssumption DEF GoodKnown
  <2>5. \A k \in Credentials : Provider(k) # p => live'[k] = live[k] /\ (k \in forgot => k \in forgot')
    BY <1>2, <2>2
  <2>6. HoldsOwn(c)' /\ at' = [at EXCEPT ![c] = to] /\ to \in Places
    BY <1>3, <1>5 DEF Places
  <2>7. mutex[Ours(c)] \in {c, NoCall} /\ slot' = [slot EXCEPT ![Ours(c)] = Empty]
        /\ mutex' = [mutex EXCEPT ![Ours(c)] = NoCall] /\ NoCall \in Calls \cup {NoCall}
    BY <1>5, <2>1
  <2> HIDE DEF p
  <2> QED BY <1>1, <1>2, <2>1, <2>2, <2>3, <2>4, <2>5, <2>6, <2>7, OwnProvider DEF p
<1> QED BY <1>4, <1>5 DEF ResetOAuth2TokenCache

LEMMA KeptWhenInvoked ==
    ASSUME CredentialsInv, NEW c \in Calls, Invoke(c)
    PROVE  CredentialsInv'
<1>1. UNCHANGED <<presents, slot, mutex, issued, live, forgot>>
  BY DEF Invoke
<1>2. CASE Return(c, "error") /\ UNCHANGED operation
  <2>1. /\ at' = [at EXCEPT ![c] = "answered"] /\ token' = [token EXCEPT ![c] = NoToken]
        /\ operation' = [operation EXCEPT ![c] = operation[c]] /\ at'[c] = "answered"
        /\ operation[c] \in Operation \cup {NoToken}
    BY <1>2 DEF Return, Move, CredentialsInv, CredentialsType
  <2>2. HoldsOwn(c)'
    BY <2>1 DEF HoldsOwn
  <2> QED BY <1>1, <2>1, <2>2, NoProvider DEF Places
<1>3. ASSUME NEW o \in Operation, operation' = [operation EXCEPT ![c] = o],
             NEW to \in {"answered", "token"}, Move(c, to),
             NEW t \in IssuedToken \cup {NoToken}, token' = [token EXCEPT ![c] = t]
      PROVE  CredentialsInv'
  <2>1. at' = [at EXCEPT ![c] = to] /\ at'[c] = to /\ operation'[c] = o
    BY <1>3 DEF Move, CredentialsInv, CredentialsType
  <2>2. HoldsOwn(c)'
    BY <1>3, <2>1 DEF HoldsOwn
  <2> QED BY <1>1, <1>3, <2>1, <2>2, NoProvider DEF Places
<1>4. ASSUME NEW o \in Operation, operation' = [operation EXCEPT ![c] = o], Move(c, "send"),
             token' = [token EXCEPT ![c] = IF o.auth = "none" THEN NoToken ELSE Fixed(o.credential)]
      PROVE  CredentialsInv'
  <2> DEFINE t == IF o.auth = "none" THEN NoToken ELSE Fixed(o.credential)
  <2>1. /\ at' = [at EXCEPT ![c] = "send"] /\ at'[c] = "send" /\ operation'[c] = o
        /\ token'[c] = t
    BY <1>4 DEF Move, CredentialsInv, CredentialsType
  <2>2. /\ Fixed(o.credential) \in IssuedToken /\ Fixed(o.credential).credential = o.credential
    BY TokenType DEF Fixed, Operation
  <2>3. HoldsOwn(c)'
    BY <1>4, <2>1, <2>2 DEF HoldsOwn, Credential
  <2> QED BY <1>1, <1>4, <2>1, <2>2, <2>3, NoProvider DEF Places
<1>5. token[c] \in IssuedToken \cup {NoToken} /\ token = [token EXCEPT ![c] = token[c]]
  BY DEF CredentialsInv, CredentialsType
<1>6. CASE \E o \in Operation :
              /\ operation' = [operation EXCEPT ![c] = o]
              /\ \/ Return(c, "error") \/ Return(c, "ok")
                 \/ Continue(c, "token") /\ UNCHANGED token
                 \/ /\ Continue(c, "send")
                    /\ token' = [token EXCEPT ![c] = IF o.auth = "none" THEN NoToken
                                                     ELSE Fixed(o.credential)]
  BY <1>3, <1>4, <1>5, <1>6 DEF Return, Continue
<1> QED BY <1>2, <1>6, OperationsAssumption DEF Invoke, GetOperation

LEMMA CredentialsStep == CredentialsInv /\ [Next]_vars => CredentialsInv'
<1> SUFFICES ASSUME CredentialsInv, [Next]_vars
             PROVE  CredentialsInv'
  OBVIOUS
<1>1. CASE UNCHANGED invokerVars
  BY <1>1 DEF invokerVars, CredentialsInv, CredentialsType, HoldsOwn, SlotOwn, GoodKnown, Ours,
              Credential
<1>2. ASSUME NEW c \in Calls, NEW to \in {"asked", "backend", "answered"}, Move(c, to),
             NEW t \in IssuedToken \cup {NoToken}, token' = [token EXCEPT ![c] = t],
             UNCHANGED <<operation, presents, slot, mutex, issued, live, forgot>>
      PROVE  CredentialsInv'
  <2>1. /\ at' = [at EXCEPT ![c] = to] /\ at'[c] = to /\ operation[c] \in Operation \cup {NoToken}
        /\ operation' = [operation EXCEPT ![c] = operation[c]]
    BY <1>2 DEF Move, CredentialsInv, CredentialsType
  <2>2. HoldsOwn(c)'
    BY <1>2, <2>1 DEF HoldsOwn
  <2> QED BY <1>2, <2>1, <2>2, NoProvider DEF Places
<1>3. \A c \in Calls : token[c] \in IssuedToken \cup {NoToken} /\ token = [token EXCEPT ![c] = token[c]]
  BY DEF CredentialsInv, CredentialsType
<1>4. ASSUME NEW c \in Calls, ResolveTool(c)
      PROVE  CredentialsInv'
  <2>1. CASE UNCHANGED at
    BY <1>1, <1>4, <2>1 DEF ResolveTool, invokerVars
  <2>2. CASE Move(c, "asked") \/ Move(c, "backend")
    BY <1>2, <1>3, <1>4, <2>2 DEF ResolveTool
  <2> QED BY <1>4, <2>1, <2>2 DEF ResolveTool
<1>5. ASSUME NEW c \in Calls, NEW i, NEW says \in SUBSET Answers, BackendAnswers(c, i, says)
      PROVE  CredentialsInv'
  BY <1>2, <1>5 DEF BackendAnswers, Return
<1>6. ASSUME NEW c \in Calls, DoRequest(c)
      PROVE  CredentialsInv'
  <2>1. HoldsOwn(c) /\ at[c] = "send" /\ UNCHANGED <<operation, presents, slot, mutex, issued, live, forgot>>
    BY <1>6 DEF DoRequest, CredentialsInv
  <2>2. CASE Move(c, "reset") /\ UNCHANGED token
    <3>1. /\ at' = [at EXCEPT ![c] = "reset"] /\ at'[c] = "reset"
          /\ operation[c] \in Operation \cup {NoToken}
          /\ operation' = [operation EXCEPT ![c] = operation[c]]
      BY <2>1, <2>2 DEF Move, CredentialsInv, CredentialsType
    <3>2. HoldsOwn(c)'
      BY <2>1, <2>2, <3>1 DEF HoldsOwn, Credential
    <3> QED BY <1>3, <2>1, <2>2, <3>1, <3>2, NoProvider DEF Places
  <2>3. CASE \E what : Return(c, what)
    BY <1>2, <2>1, <2>3 DEF Return
  <2> QED BY <1>6, <2>2, <2>3 DEF DoRequest, Continue
<1>7. ASSUME NEW c \in Calls, FetchAppToken(c)
      PROVE  CredentialsInv'
  <2>1. /\ HoldsOwn(c) /\ at[c] = "app" /\ operation[c] \in Operation /\ mutex[Ours(c)] = c
        /\ UNCHANGED <<operation, slot, issued, live, forgot>>
    BY <1>7 DEF FetchAppToken, CredentialsInv, HoldsOwn
  <2>2. CASE Move(c, "exchange") /\ UNCHANGED <<token, mutex, presents>>
    <3>1. /\ at' = [at EXCEPT ![c] = "exchange"] /\ at'[c] = "exchange"
          /\ operation' = [operation EXCEPT ![c] = operation[c]]
      BY <2>1, <2>2 DEF Move, CredentialsInv, CredentialsType
    <3>2. HoldsOwn(c)'
      BY <2>1, <2>2, <3>1 DEF HoldsOwn, Credential, Ours
    <3> QED BY <1>3, <2>1, <2>2, <3>1, <3>2, NoProvider DEF Places
  <2>3. CASE TokenFails(c)
    BY <2>1, <2>3, KeptWhenTokenFails DEF CredentialsInv, CredentialsType
  <2> QED BY <1>7, <2>2, <2>3 DEF FetchAppToken, Continue
<1>8. ASSUME NEW c \in Calls, InvocationStep(c)
      PROVE  CredentialsInv'
  <2>1. CASE LockTenantProvider(c) \/ LockUserProvider(c)
    BY <2>1, KeptWhenLocked DEF LockTenantProvider, LockUserProvider
  <2>2. CASE FetchTenantAccessToken(c)
    BY <2>2, KeptWhenExchanged DEF FetchTenantAccessToken
  <2>3. CASE RefreshUserAccessToken(c)
    BY <2>3, KeptWhenExchanged DEF RefreshUserAccessToken
  <2>4. CASE ExchangeAuthorizationCode(c)
    BY <2>4, KeptWhenExchanged DEF ExchangeAuthorizationCode, PresentsCode
  <2> QED BY <1>6, <1>7, <1>8, <2>1, <2>2, <2>3, <2>4, KeptWhenInvoked, KeptWhenReset
          DEF InvocationStep
<1> QED BY <1>1, <1>4, <1>5, <1>8, StepCases DEF AdapterReturns

\* A request carries a token of its own operation's credential, though the providers are
\* shared; and what is presented to the authorization server, under the provider's lock,
\* is good unless the provider was made to forget.
THEOREM CredentialsKeptHolds == Spec => []CredentialsKept
<1>1. CredentialsInv => CredentialsKept
  BY DEF CredentialsInv, HoldsOwn, CredentialsKept
<1> QED BY CredentialsStart, CredentialsStep, <1>1, PTL DEF Spec
=============================================================================
