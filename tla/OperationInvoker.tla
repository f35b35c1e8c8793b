-------------------------- MODULE OperationInvoker --------------------------
(***************************************************************************)
(* The connector service: an invocation of an operation                    *)
(* (connector/application/service.go), sent with the credential of its     *)
(* connector (connector/infrastructure/http_operation_invoker.go), and the *)
(* two token providers every invocation shares.                            *)
(*                                                                         *)
(* A token is known by the credential it was issued for and a number. The  *)
(* authorization server and the business systems are external: a request   *)
(* may be lost, and so may its answer; a refresh token is good until it    *)
(* has been exchanged for a new one, an authorization code is good once,   *)
(* and with either a refresh token may come or not; an access token may    *)
(* become invalid at any time, which is chosen when somebody looks. Urls,  *)
(* headers and bodies are left out.                                        *)
(***************************************************************************)
EXTENDS ServiceFaults, FiniteSets

CONSTANTS Calls,        \* the tool calls, each of which invokes one operation at most
          Operations,   \* for each call, the operations the registry may answer with
          Credentials,  \* the credentials of operations
          Secrets,      \* what of each credential the secrets resolve to: see below
          MaxTokens,    \* bound: tokens issued for a credential
          NoToken, NoCall

\* provider: auth.Provider, if any; app: the id and secret of an app; refresh: a refresh
\* token; code: an authorization code; secret: a fixed token.
ASSUME SecretsAssumption ==
    Secrets \in [Credentials -> [ provider : {"user", "tenant", "none", "other"},
                                 app : BOOLEAN, refresh : BOOLEAN, code : BOOLEAN,
                                 secret : BOOLEAN ]]

(***************************************************************************)
(* An operation: whether it is enabled, whether it is sent, answered from  *)
(* nothing or not implemented, whether its url can be built, and the       *)
(* credential it is sent with, if any.                                     *)
(***************************************************************************)
Operation == [ enabled : BOOLEAN, mode : {"simple_http", "mock", "other"}, url : BOOLEAN,
               auth : {"none", "bearer", "oauth2", "other"}, credential : Credentials ]

ASSUME OperationsAssumption == \A c \in Calls : Operations[c] \subseteq Operation

\* What stands for nothing is neither an operation, a credential, a token nor a call.
ASSUME NothingAssumption ==
    /\ NoToken \notin Operation /\ NoToken \notin Credentials
    /\ NoToken \notin [credential : Credentials, number : Nat] /\ NoCall \notin Calls

Providers   == {"user", "tenant"}
Provider(k) == IF Secrets[k].provider = "tenant" THEN "tenant" ELSE "user"
Token(c, n) == [credential |-> c, number |-> n]
Fixed(c)    == Token(c, 0)   \* the configured token, refresh token or code

\* What a provider remembers. fresh: expiresAt was still to come when last looked at.
Empty == [credential |-> NoToken, access |-> NoToken, refresh |-> NoToken, fresh |-> FALSE]

VARIABLES at,        \* where each invocation is
          operation, \* the operation it read
          token,     \* the access token it will send
          presents,  \* what it gives the authorization server
          retried,   \* it has been sent again
          answer,    \* what Invoke returned: "ok", "status", "error" or "none"
          slot,      \* what each provider remembers
          mutex,     \* who holds each provider's lock, or NoCall
          withdrawn, \* access tokens the business systems have refused
          issued,    \* how many tokens each credential was issued
          live,      \* the number of the refresh token or code that is good, or NoToken
          forgot,    \* credentials of which what was issued is not remembered
          effects    \* how often the business system carried out a call

invokerVars == <<at, operation, token, presents, retried, answer, slot, mutex, withdrawn, issued, live,
                 forgot, effects>>

InvokerInit ==
    /\ at = [c \in Calls |-> "idle"] /\ operation = [c \in Calls |-> NoToken]
    /\ token = [c \in Calls |-> NoToken] /\ presents = [c \in Calls |-> NoToken]
    /\ retried = [c \in Calls |-> FALSE] /\ answer = [c \in Calls |-> "none"]
    /\ slot = [p \in Providers |-> Empty] /\ mutex = [p \in Providers |-> NoCall]
    /\ withdrawn = {}
    /\ issued = [k \in Credentials |-> 0] /\ live = [k \in Credentials |-> 0]
    /\ forgot = {} /\ effects = [c \in Calls |-> 0]

Credential(c) == operation[c].credential
Ours(c)       == Provider(Credential(c))
Move(c, to)   == at' = [at EXCEPT ![c] = to]

\* Invoke returns, and has no use for its token any more.
Return(c, what) ==
    /\ Move(c, "answered") /\ answer' = [answer EXCEPT ![c] = what]
    /\ token' = [token EXCEPT ![c] = NoToken] /\ retried' = [retried EXCEPT ![c] = FALSE]

\* It goes on to another step.
Continue(c, to) == Move(c, to) /\ UNCHANGED answer

-----------------------------------------------------------------------------
(***************************************************************************)
(* Service.Invoke and the checks of HTTPOperationInvoker.Invoke            *)
(***************************************************************************)
BuildFeishuTenantTokenConfig(s) == IF s.app THEN "tenant" ELSE "missing"

\* Without a refresh token or code a user's fixed token does, with no app.
BuildFeishuUserTokenConfig(s) ==
    IF ~s.refresh /\ ~s.code THEN IF s.secret THEN "static" ELSE "missing"
    ELSE IF ~s.app THEN "missing" ELSE IF s.refresh THEN "refresh" ELSE "code"

ResolveOAuth2Token(s) ==
    CASE s.provider = "tenant" -> BuildFeishuTenantTokenConfig(s)
      [] s.provider = "user"   -> BuildFeishuUserTokenConfig(s)
      [] s.provider = "none"   -> IF s.secret THEN "secret" ELSE "missing"
      [] s.provider = "other"  -> "missing"

\* What an operation is sent with. api_key and basic are like bearer: one secret.
ApplyAuth(o) ==
    LET s == Secrets[o.credential]
    IN CASE o.auth = "none"   -> "none"
         [] o.auth = "bearer" -> IF s.secret THEN "secret" ELSE "missing"
         [] o.auth = "oauth2" -> ResolveOAuth2Token(s)
         [] o.auth = "other"  -> "missing"

UsesToken(o) == ApplyAuth(o) \in {"refresh", "code", "tenant"}

GetOperation(c) == Operations[c]

Invoke(c) ==
    /\ at[c] = "asked"
    /\ \/ Return(c, "error") /\ UNCHANGED operation    \* the registry does not answer
       \/ \E o \in GetOperation(c) :
            /\ operation' = [operation EXCEPT ![c] = o]
            /\ IF ~o.enabled \/ o.mode = "other" THEN Return(c, "error")
               ELSE IF o.mode = "mock" THEN Return(c, "ok")
               ELSE IF ~o.url THEN Return(c, "error")
               ELSE IF UsesToken(o) THEN Continue(c, "token") /\ UNCHANGED <<token, retried>>
               ELSE IF ApplyAuth(o) = "missing" THEN Return(c, "error")
               ELSE /\ Continue(c, "send") /\ UNCHANGED retried
                    /\ token' = [token EXCEPT ![c] = IF o.auth = "none" THEN NoToken
                                                     ELSE Fixed(o.credential)]
    /\ UNCHANGED <<presents, slot, mutex, withdrawn, issued, live, forgot, effects>>

-----------------------------------------------------------------------------
(***************************************************************************)
(* Token of the two providers, which is called with the provider's lock    *)
(* held from the look at what it remembers to the end of the exchange.     *)
(***************************************************************************)
Remembered(c) ==
    /\ slot[Ours(c)].credential = Credential(c)
    /\ slot[Ours(c)].access # NoToken /\ slot[Ours(c)].fresh

\* The refresh token to present: the remembered one before the configured one. An
\* authorization code is presented only while there is no refresh token to present.
ToPresent(c) ==
    IF slot[Ours(c)].credential = Credential(c) /\ slot[Ours(c)].refresh # NoToken
    THEN slot[Ours(c)].refresh ELSE Fixed(Credential(c))

\* Take the lock; with a token to hand out, release it again at once, else go on.
LockProvider(c, next) ==
    /\ mutex[Ours(c)] = NoCall
    /\ \/ Remembered(c) /\ token' = [token EXCEPT ![c] = slot[Ours(c)].access]
          /\ Move(c, "send") /\ UNCHANGED <<presents, mutex, slot>>
       \/ /\ slot' = IF Remembered(c) THEN [slot EXCEPT ![Ours(c)] = [@ EXCEPT !.fresh = FALSE]] ELSE slot
          /\ presents' = [presents EXCEPT ![c] = ToPresent(c)]
          /\ mutex' = [mutex EXCEPT ![Ours(c)] = c]
          /\ Move(c, next) /\ UNCHANGED token
    /\ UNCHANGED <<operation, retried, answer, withdrawn, issued, live, forgot, effects>>

LockTenantProvider(c) == at[c] = "token" /\ Ours(c) = "tenant" /\ LockProvider(c, "exchange")
LockUserProvider(c)   == at[c] = "token" /\ Ours(c) = "user" /\ LockProvider(c, "app")

Unlock(c) ==
    mutex' = [mutex EXCEPT ![Ours(c)] = NoCall] /\ presents' = [presents EXCEPT ![c] = NoToken]

\* An error in the exchange is returned with the lock released.
TokenFails(c) == Unlock(c) /\ Return(c, "error")

\* Mutation of FetchAppToken: an error returns with the lock still held.
FetchAppTokenKeepsLock(c) ==
    /\ at[c] = "app"
    /\ \/ Continue(c, "exchange") /\ UNCHANGED <<token, retried, mutex, presents>>
       \/ Return(c, "error") /\ UNCHANGED <<mutex, presents>>
    /\ UNCHANGED <<operation, slot, withdrawn, issued, live, forgot, effects>>

\* fetchFeishuAppAccessToken, before a user's token can be asked for.
FetchAppToken(c) ==
    /\ at[c] = "app"
    /\ \/ Continue(c, "exchange") /\ UNCHANGED <<token, retried, mutex, presents>>
       \/ TokenFails(c)
    /\ UNCHANGED <<operation, slot, withdrawn, issued, live, forgot, effects>>

\* Of a user with no refresh token, configured or remembered, it is the code.
PresentsCode(c) ==
    Ours(c) = "user" /\ ~Secrets[Credential(c)].refresh /\ presents[c] = Fixed(Credential(c))

\* The server's side of an exchange: it takes the configured secrets of a tenant, a code
\* or refresh token that is good, and may give a new refresh token for a user. A code it
\* gave none for was all there was.
Takes(k, t) == Provider(k) = "tenant" \/ t.number = live[k]

IssueToken(c, rotates) ==
    LET k == Credential(c)
    IN /\ issued[k] < MaxTokens
       /\ issued' = [issued EXCEPT ![k] = @ + 1]
       /\ live'   = [live EXCEPT ![k] = IF rotates THEN issued[k] + 1
                                        ELSE IF PresentsCode(c) THEN NoToken ELSE @]

\* The refresh token that was used, if it was one.
UsedRefresh(c) == IF Ours(c) = "tenant" \/ PresentsCode(c) THEN NoToken ELSE presents[c]

\* Mutation of Remember: the refresh token that was used is kept.
RememberUsed(c, n, rotates) ==
    slot' = [slot EXCEPT ![Ours(c)] =
      [ credential |-> Credential(c), access |-> Token(Credential(c), n), fresh |-> TRUE,
        refresh    |-> UsedRefresh(c) ]]

\* The provider remembers the answer: its access token, and its refresh token if it has
\* one, else the one that was used, if any: after a code there may be none to remember.
Remember(c, n, rotates) ==
    slot' = [slot EXCEPT ![Ours(c)] =
      [ credential |-> Credential(c), access |-> Token(Credential(c), n), fresh |-> TRUE,
        refresh    |-> IF rotates THEN Token(Credential(c), n) ELSE UsedRefresh(c) ]]

\* Who is not remembered any more when a provider's slot changes.
Displaced(c) == {slot[Ours(c)].credential} \ {NoToken, Credential(c)}

\* The exchange is refused or never reaches the server; or it is granted, and the answer
\* arrives or is lost with the client's timeout or the caller's context.
Exchange(c, rotations) ==
    LET k == Credential(c)
    IN /\ \/ TokenFails(c) /\ UNCHANGED <<slot, issued, live, forgot>>
          \/ \E rotates \in rotations :
               /\ Takes(k, presents[c]) /\ IssueToken(c, rotates)
               /\ \/ /\ Remember(c, issued[k] + 1, rotates) /\ Unlock(c)
                     /\ token' = [token EXCEPT ![c] = Token(k, issued[k] + 1)]
                     /\ forgot' = (forgot \ {k}) \cup Displaced(c)
                     /\ Continue(c, "send") /\ UNCHANGED retried
                  \/ /\ TokenFails(c) /\ UNCHANGED slot
                     /\ forgot' = IF rotates \/ PresentsCode(c) THEN forgot \cup {k} ELSE forgot
       /\ UNCHANGED <<operation, withdrawn, effects>>

FetchTenantAccessToken(c) ==
    at[c] = "exchange" /\ Ours(c) = "tenant" /\ Exchange(c, {FALSE})

\* A refresh token may stay as it is, or be given anew with the access token.
RefreshUserAccessToken(c) ==
    at[c] = "exchange" /\ Ours(c) = "user" /\ ~PresentsCode(c) /\ Exchange(c, BOOLEAN)

\* With its access token a refresh token may come or not: the answer is accepted either
\* way, and without one the code, which is used up, is what the next exchange presents.
ExchangeAuthorizationCode(c) ==
    at[c] = "exchange" /\ PresentsCode(c) /\ Exchange(c, BOOLEAN)

-----------------------------------------------------------------------------
(***************************************************************************)
(* The request. The business system carries out a request whose token it   *)
(* accepts, or refuses it; it may also fail after it has.                  *)
(***************************************************************************)
\* What the business system may do and say. A token it has refused stays refused.
Accepts(c) == IF operation[c].auth = "none" THEN {TRUE}
              ELSE IF token[c] \in withdrawn THEN {FALSE} ELSE BOOLEAN

Statuses(accepted, carriedOut) ==
    IF ~accepted THEN {"4xx", "4xx_token"} ELSE IF carriedOut THEN {"2xx", "5xx"} ELSE {"4xx", "5xx"}

\* Mutation of ShouldRetryOAuth2Auth: any failure is retried with a new token.
ShouldRetryAnyFailure(c, status) == operation[c].auth = "oauth2" /\ status # "2xx"

\* status 400, 401 or 403 with a body that says the token is invalid.
ShouldRetryOAuth2Auth(c, status) == operation[c].auth = "oauth2" /\ status = "4xx_token"

DoRequest(c) ==
    /\ at[c] = "send"
    /\ \E accepted \in Accepts(c), carriedOut \in BOOLEAN :
         /\ carriedOut => accepted
         /\ effects' = [effects EXCEPT ![c] = IF carriedOut THEN @ + 1 ELSE @]
         /\ withdrawn' = IF accepted THEN withdrawn ELSE withdrawn \cup {token[c]}
         /\ \/ Return(c, "error")                     \* no answer arrives
            \/ \E status \in Statuses(accepted, carriedOut) :
                 /\ IF ShouldRetryOAuth2Auth(c, status) /\ ~retried[c]
                    THEN Continue(c, "reset") /\ UNCHANGED <<token, retried>>
                    ELSE Return(c, IF status = "2xx" THEN "ok" ELSE "status")
    /\ UNCHANGED <<operation, presents, slot, mutex, issued, live, forgot>>

\* The provider forgets all it has, whoever it was of, and the request is sent again. A
\* secret has no provider to reset; a static token has, and is sent again as it is.
ResetOAuth2TokenCache(c) ==
    /\ at[c] = "reset" /\ retried' = [retried EXCEPT ![c] = TRUE]
    /\ IF Secrets[Credential(c)].provider \in Providers
       THEN /\ mutex[Ours(c)] = NoCall
            /\ slot' = [slot EXCEPT ![Ours(c)] = Empty]
            /\ forgot' = forgot \cup ({slot[Ours(c)].credential} \ {NoToken})
            /\ Move(c, IF UsesToken(operation[c]) THEN "token" ELSE "send")
       ELSE Move(c, "send") /\ UNCHANGED <<slot, forgot>>
    /\ UNCHANGED <<operation, token, presents, answer, mutex, withdrawn, issued, live, effects>>

\* The steps of one invocation.
InvocationStep(c) ==
    \/ Invoke(c) \/ DoRequest(c) \/ ResetOAuth2TokenCache(c)
    \/ LockTenantProvider(c) \/ FetchTenantAccessToken(c)
    \/ LockUserProvider(c) \/ FetchAppToken(c)
    \/ RefreshUserAccessToken(c) \/ ExchangeAuthorizationCode(c)
=============================================================================
