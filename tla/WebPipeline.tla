---------------------------- MODULE WebPipeline ---------------------------
(***************************************************************************)
(* The way of a request through the handlers of framework/web, with the    *)
(* security baseline that AutoConfigure installs and the data scope of the *)
(* user it is authenticated as.                                            *)
(*                                                                         *)
(* The handlers of a request are called one inside the other, each by      *)
(* ctx.Next of the one before.  Those behind Timeout run on a goroutine of *)
(* their own, beside the one that waits for them or for the deadline.      *)
(***************************************************************************)
EXTENDS Naturals, Sequences, SequencesExt

CONSTANTS
  Requests,
  Kinds,       \* what a request may be, see RequestOK
  DefaultBody, \* the limit of BodyLimit: 1 MB, or
  MaxBodyBytes,\* that of the configuration
  ReadLimit,   \* the 4 MB of readBodyBytes
  Burst,       \* the tokens of Limit
  Rows         \* what there is to query, as [org, dept]

VARIABLES
  installed, \* what is before the handlers of the business: "baseline"
             \* (WebModule.Baseline), "auth" (Auth), "maxBody" where the
             \* limit is configured
  request,   \* per request: its kind
  at,        \* the index of the handler that runs next
  outer,     \* the goroutine of the request: "idle", "chain", "select",
             \* "returned"
  inner,     \* that of Timeout: "none", "chain", "ended"
  stopped,   \* ctx.StopExecution was called
  expired,   \* the deadline of Timeout has passed
  body,      \* what a reader of the body gets, and the limit it fails at
  user,      \* ctx.Values: the claims of the token, or Anonymous
  tokens,    \* of the limiter
  answers,   \* history: the statuses written to the response
  handling,  \* the business handler: "no", "runs", "panicked" or "done"
  sees,      \* history: the rows a handler that runs has queried
  down       \* the process has died of a panic

webPipeVars == <<installed, request, at, outer, inner, stopped, expired, body,
                 user, tokens, answers, handling, sees, down>>

Anonymous == [org |-> 0, dept |-> 0]

(* An injection is in the query, in the body or only behind ReadLimit.     *)
RequestOK(kind) ==
  /\ kind.size \in Nat
  /\ kind.declared \in BOOLEAN           \* Content-Length is known
  /\ kind.sql \in {"none", "query", "body", "tail"}
  /\ kind.token \in {"none", "invalid", "valid"}
  /\ kind.scope \in BOOLEAN              \* the token grants the scope
  /\ kind.public \in BOOLEAN             \* its path is whitelisted
  /\ kind.user \in [org : Nat, dept : Nat]

WebPipelineAssumption ==
  /\ \A kind \in Kinds : RequestOK(kind)
  /\ ReadLimit \in Nat /\ DefaultBody \in Nat /\ MaxBodyBytes \in Nat

Init ==
  /\ installed \in SUBSET {"baseline", "auth", "maxBody"}
  /\ request \in [Requests -> Kinds]
  /\ at = [r \in Requests |-> 1]
  /\ outer = [r \in Requests |-> "idle"]
  /\ inner = [r \in Requests |-> "none"]
  /\ stopped = [r \in Requests |-> FALSE]
  /\ expired = [r \in Requests |-> FALSE]
  /\ body = [r \in Requests |-> [size |-> request[r].size, limited |-> FALSE]]
  /\ user = [r \in Requests |-> Anonymous]
  /\ tokens = Burst
  /\ answers = [r \in Requests |-> <<>>]
  /\ handling = [r \in Requests |-> "no"]
  /\ sees = [r \in Requests |-> {}]
  /\ down = FALSE

-----------------------------------------------------------------------------
(* Mutant: the body is searched before it is limited.                      *)
GuardBeforeLimit ==
  <<"ErrorHandler", "RequestID", "AccessLog", "SecurityHeaders", "Limit",
    "SQLGuard", "BodyLimit", "Timeout">>

installWebBaseline ==
  <<"ErrorHandler", "RequestID", "AccessLog", "SecurityHeaders", "Limit",
    "BodyLimit", "Timeout", "SQLGuard">>

Baseline == "baseline" \in installed
Protected == "auth" \in installed
MaxBody == IF "maxBody" \in installed THEN MaxBodyBytes ELSE DefaultBody

(* newApplication, the baseline and the routes of the business.            *)
Chain ==
  <<"PanicRecovery">> \o (IF Baseline THEN installWebBaseline ELSE <<>>)
    \o (IF Protected THEN <<"Auth">> ELSE <<>>) \o <<"handler">>

(* The goroutine on which the handlers of r run is at `name'.              *)
At(r, name) ==
  /\ ~ down
  /\ IF inner[r] = "none" THEN outer[r] = "chain" ELSE inner[r] = "chain"
  /\ Chain[at[r]] = name

(* The handlers of r return, on the goroutine they run on.                 *)
Unwind(r) ==
  IF inner[r] = "chain"
  THEN inner' = [inner EXCEPT ![r] = "ended"] /\ UNCHANGED outer
  ELSE outer' = [outer EXCEPT ![r] = "returned"] /\ UNCHANGED inner

(* ctx.Next of a context that was stopped returns.                         *)
Proceed(r) ==
  IF stopped[r]
  THEN Unwind(r) /\ UNCHANGED at
  ELSE at' = [at EXCEPT ![r] = @ + 1] /\ UNCHANGED <<outer, inner>>

(* Fail or OK: a response that is sent already takes nothing more.         *)
Write(r, status) ==
  answers' = IF outer[r] = "returned" THEN answers
             ELSE [answers EXCEPT ![r] = Append(@, status)]

Reject(r, status) ==
  /\ Write(r, status)
  /\ stopped' = [stopped EXCEPT ![r] = TRUE]
  /\ Unwind(r)
  /\ UNCHANGED at

(* A handler either lets the request on or rejects it with a status.       *)
Decide(r, accepts, status) ==
  IF accepts
  THEN Proceed(r) /\ UNCHANGED <<stopped, answers>>
  ELSE Reject(r, status)

Arrive(r) ==
  /\ outer[r] = "idle"
  /\ ~ down
  /\ outer' = [outer EXCEPT ![r] = "chain"]
  /\ UNCHANGED <<installed, request, at, inner, stopped, expired, body,
                 user, tokens, answers, handling, sees, down>>

(* PanicRecovery, ErrorHandler, RequestID, AccessLog, SecurityHeaders: what *)
(* they add to the response is left out.                                   *)
Pass(r) ==
  /\ \E name \in {"PanicRecovery", "ErrorHandler", "RequestID", "AccessLog",
                  "SecurityHeaders"} : At(r, name)
  /\ Proceed(r)
  /\ UNCHANGED <<installed, request, stopped, expired, body, user, tokens,
                 answers, handling, sees, down>>

Limit(r) ==
  /\ At(r, "Limit")
  /\ Decide(r, tokens > 0, 429)
  /\ tokens' = IF tokens > 0 THEN tokens - 1 ELSE 0
  /\ UNCHANGED <<installed, request, expired, body, user, handling, sees,
                 down>>

(* A length that is declared is checked; any body is limited when read.    *)
BodyLimit(r) ==
  /\ At(r, "BodyLimit")
  /\ Decide(r, ~ (request[r].declared /\ request[r].size > MaxBody), 413)
  /\ body' = [body EXCEPT ![r].limited = TRUE]
  /\ UNCHANGED <<installed, request, expired, user, tokens, handling, sees,
                 down>>

(* Timeout hands the rest of the chain over.                               *)
Timeout(r) ==
  /\ At(r, "Timeout")
  /\ outer' = [outer EXCEPT ![r] = "select"]
  /\ inner' = [inner EXCEPT ![r] = "chain"]
  /\ at' = [at EXCEPT ![r] = @ + 1]
  /\ UNCHANGED <<installed, request, stopped, expired, body, user, tokens,
                 answers, handling, sees, down>>

(* The reader of BodyLimit fails behind MaxBody, if it is read as far.      *)
readBodyBytes(r) ==
  body[r].limited => body[r].size <= MaxBody \/ ReadLimit <= MaxBody

Suspicious(r) ==
  \/ request[r].sql \in {"query", "body"}
  \/ request[r].sql = "tail" /\ body[r].size <= ReadLimit

(* SQLGuard; what it has read is put back as the body, and no more.        *)
SQLGuard(r) ==
  /\ At(r, "SQLGuard")
  /\ Decide(r, readBodyBytes(r) /\ ~ Suspicious(r), 400)
  /\ body' = [body EXCEPT ![r] =
                [size |-> IF @.size > ReadLimit THEN ReadLimit ELSE @.size,
                 limited |-> FALSE]]
  /\ UNCHANGED <<installed, request, expired, user, tokens, handling, sees,
                 down>>

(* Auth.                                                                   *)
Refusal(r) ==
  IF request[r].token # "valid" THEN 401 ELSE 403

Auth(r) ==
  /\ At(r, "Auth")
  /\ LET known == request[r].token = "valid" /\ request[r].scope
     IN  /\ Decide(r, request[r].public \/ known, Refusal(r))
         /\ user' = IF known /\ ~ request[r].public
                    THEN [user EXCEPT ![r] = request[r].user] ELSE user
  /\ UNCHANGED <<installed, request, expired, body, tokens, handling, sees,
                 down>>

(* Mutant: the department alone limits what is seen.                       *)
ConditionOfDept(scope) == {row \in Rows : scope.dept \in {0, row.dept}}

(* DataScope: a part that is 0 does not limit.                             *)
Condition(scope) ==
  {row \in Rows : scope.org \in {0, row.org} /\ scope.dept \in {0, row.dept}}

(* The handler of the business reads the body, queries and answers, or     *)
(* panics, or takes for ever.                                              *)
Handle(r) ==
  /\ At(r, "handler")
  /\ handling[r] = "no"
  /\ handling' = [handling EXCEPT ![r] = "runs"]
  /\ sees' = [sees EXCEPT ![r] = Condition(user[r])]
  /\ UNCHANGED <<installed, request, at, outer, inner, stopped, expired,
                 body, user, tokens, answers, down>>

Respond(r) ==
  /\ At(r, "handler")
  /\ handling[r] = "runs"
  /\ handling' = [handling EXCEPT ![r] = "done"]
  /\ Write(r, 200)
  /\ Unwind(r)
  /\ UNCHANGED <<installed, request, at, stopped, expired, body, user,
                 tokens, sees, down>>

(* A panic on the goroutine of the request is recovered by ErrorHandler or *)
(* PanicRecovery; one on the goroutine of Timeout by nobody.               *)
Panic(r) ==
  /\ At(r, "handler")
  /\ handling[r] = "runs"
  /\ handling' = [handling EXCEPT ![r] = "panicked"]
  /\ IF inner[r] = "chain"
     THEN down' = TRUE /\ UNCHANGED <<answers, outer, inner>>
     ELSE Write(r, 500) /\ Unwind(r) /\ UNCHANGED down
  /\ UNCHANGED <<installed, request, at, stopped, expired, body, user,
                 tokens, sees>>

(* The deadline passes, and the select of Timeout takes either branch.     *)
Expire(r) ==
  /\ outer[r] = "select"
  /\ ~ expired[r]
  /\ ~ down
  /\ expired' = [expired EXCEPT ![r] = TRUE]
  /\ UNCHANGED <<installed, request, at, outer, inner, stopped, body, user,
                 tokens, answers, handling, sees, down>>

TimesOut(r) ==
  /\ outer[r] = "select"
  /\ expired[r]
  /\ ~ down
  /\ Write(r, 504)
  /\ stopped' = [stopped EXCEPT ![r] = TRUE]
  /\ outer' = [outer EXCEPT ![r] = "returned"]
  /\ UNCHANGED <<installed, request, at, inner, expired, body, user, tokens,
                 handling, sees, down>>

Joins(r) ==
  /\ outer[r] = "select"
  /\ inner[r] = "ended"
  /\ ~ down
  /\ outer' = [outer EXCEPT ![r] = "returned"]
  /\ UNCHANGED <<installed, request, at, inner, stopped, expired, body,
                 user, tokens, answers, handling, sees, down>>

(* The handlers of the framework, which do not wait.                       *)
Step(r) ==
  \/ Pass(r) \/ Limit(r) \/ BodyLimit(r) \/ Timeout(r) \/ SQLGuard(r)
  \/ Auth(r) \/ Handle(r) \/ Joins(r)

Next ==
  \E r \in Requests :
    \/ Arrive(r) \/ Step(r) \/ Respond(r) \/ Panic(r)
    \/ Expire(r) \/ TimesOut(r)

(* Mutant: the deadline is not waited for.                                 *)
NoDeadline(r) == FALSE

Deadline(r) == Expire(r) \/ TimesOut(r)

(* Each request takes finitely many of these steps, so that one condition  *)
(* serves them all.                                                        *)
Fairness == WF_webPipeVars(\E r \in Requests : Step(r) \/ Deadline(r))

Spec == Init /\ [][Next]_webPipeVars /\ Fairness

-----------------------------------------------------------------------------
(* Properties.                                                             *)

Rejections == {429, 413, 400, 401, 403}

(* security_middleware.go:57 relies on the reader where the length is not  *)
(* known, but one that is cut off before the limit never fails.            *)
WithinLimit(r) ==
  request[r].size <= MaxBody \/ (~ request[r].declared /\ ReadLimit <= MaxBody)

(* A request reaches its handler only with a body within the limit, or one *)
(* of unknown length where nobody reads as far as the limit; what the      *)
(* handler gets of the body was searched, and the request has the rights   *)
(* of its route; the handler sees the rows of its user only; a request     *)
(* that was rejected is not handled, also when its deadline passed         *)
(* meanwhile, and one is answered twice only when the deadline passed.     *)
RequestsGuarded ==
  \A r \in Requests :
    /\ handling[r] # "no" =>
         /\ Baseline =>
              /\ WithinLimit(r)
              /\ body[r].size <= ReadLimit
              /\ request[r].sql \in {"none", "tail"}
              /\ request[r].sql = "tail" => request[r].size > ReadLimit
         /\ (Protected /\ ~ request[r].public) =>
              /\ request[r].token = "valid" /\ request[r].scope
              /\ \A row \in sees[r] :
                   /\ request[r].user.org \in {0, row.org}
                   /\ request[r].user.dept \in {0, row.dept}
         /\ Range(answers[r]) \cap Rejections = {}
    /\ Len(answers[r]) > 1 => 504 \in Range(answers[r])
    /\ outer[r] = "returned" => answers[r] # <<>>

(* With the baseline every request returns, however long its handler takes *)
(* (Timeout), or the process dies.                                         *)
RequestsReturn ==
  \A r \in Requests :
    (Baseline /\ outer[r] # "idle") ~> (outer[r] = "returned" \/ down)

(* ErrorHandler "recovers the panic of a handler and answers 500":         *)
(* no panic ends the process.                                              *)
PanicsAnswered ==
  \A r \in Requests :
    /\ ~ down
    /\ (handling[r] = "panicked" /\ outer[r] = "returned") =>
         500 \in Range(answers[r])

-----------------------------------------------------------------------------
TypeOK ==
  /\ installed \subseteq {"baseline", "auth", "maxBody"}
  /\ request \in [Requests -> Kinds] /\ at \in [Requests -> 1 .. Len(Chain)]
  /\ outer \in [Requests -> {"idle", "chain", "select", "returned"}]
  /\ inner \in [Requests -> {"none", "chain", "ended"}]
  /\ stopped \in [Requests -> BOOLEAN]
  /\ body \in [Requests -> [size : Nat, limited : BOOLEAN]]
  /\ user \in [Requests -> [org : Nat, dept : Nat]]
  /\ answers \in [Requests -> Seq(Nat)]
  /\ handling \in [Requests -> {"no", "runs", "panicked", "done"}]
  /\ sees \in [Requests -> SUBSET Rows]

(* Handlers of r may still run, and `name' is not among them.              *)
Live(r) == inner[r] = "chain" \/ (inner[r] = "none" /\ outer[r] # "returned")

Passed(r, name) == \A i \in at[r] .. Len(Chain) : Chain[i] # name

(* Who has answered: nobody, one of the two goroutines, or both.           *)
AnswersCounted(r) ==
  /\ inner[r] # "none" => Passed(r, "Timeout")
  /\ outer[r] \in {"idle", "chain"} => inner[r] = "none"
  /\ outer[r] = "select" => inner[r] # "none"
  /\ stopped[r] /\ inner[r] # "ended" => outer[r] = "returned"
  /\ Live(r) /\ outer[r] # "returned" => answers[r] = <<>>
  /\ Live(r) /\ outer[r] = "returned" => answers[r] = <<504>>
  /\ outer[r] = "select" /\ inner[r] = "ended" => Len(answers[r]) = 1
  /\ outer[r] = "returned" => answers[r] # <<>>
  /\ Len(answers[r]) > 1 => 504 \in Range(answers[r])

(* SQLGuard reads the body that BodyLimit has limited, as it was sent.     *)
BodySearched(r) ==
  Baseline =>
    /\ Live(r) /\ ~ Passed(r, "SQLGuard") =>
         /\ body[r].size = request[r].size
         /\ Passed(r, "BodyLimit") =>
              /\ body[r].limited
              /\ request[r].declared => request[r].size <= MaxBody
    /\ Passed(r, "SQLGuard") =>
         /\ WithinLimit(r) /\ body[r].size <= ReadLimit
         /\ request[r].sql \in {"none", "tail"}
         /\ request[r].sql = "tail" => request[r].size > ReadLimit

Authorised(r) ==
  Protected /\ ~ request[r].public /\ Passed(r, "Auth") =>
    request[r].token = "valid" /\ request[r].scope /\ user[r] = request[r].user

HandledLast(r) ==
  handling[r] # "no" =>
    /\ Chain[at[r]] = "handler" /\ Range(answers[r]) \cap Rejections = {}
    /\ Protected /\ ~ request[r].public => sees[r] = Condition(request[r].user)

RequestSound(r) ==
  AnswersCounted(r) /\ BodySearched(r) /\ Authorised(r) /\ HandledLast(r)

IInv == TypeOK /\ \A r \in Requests : RequestSound(r)
=============================================================================
