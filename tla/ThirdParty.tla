----------------------------- MODULE ThirdParty ---------------------------
(***************************************************************************)
(* The clients that call other services over HTTP: thirdparty/client.go    *)
(* with its breaker, composed here with Circuit, and httpclient.go.        *)
(*                                                                         *)
(* Every caller makes one call.  A call of the thirdparty client sends up  *)
(* to maxRetries + 1 requests, each admitted by the breaker and signed on  *)
(* its own; one of the plain client sends again only after network errors. *)
(***************************************************************************)
EXTENDS Circuit

CONSTANTS
  Plain,        \* the callers that use httpclient
  maxRetries,   \* Client.maxRetries
  RetryBase,    \* Config.RetryBaseDelay, in clock units
  MaxBackoff    \* the 5 seconds of backoff

(* What NewClient guarantees of the thirdparty client.  With a negative    *)
(* number the plain client sends nothing at all; that is left out.         *)
ASSUME ThirdPartyAssumption == maxRetries \in Nat

VARIABLES
  call,       \* per caller: pc, attempt, when to send, the nonce, the result
  partner,    \* history: the requests that left, as [from, nonce, answer]
  lastNonce,  \* nonces drawn so far
  cancelled   \* callers whose context is cancelled

client == <<call, partner, lastNonce, cancelled>>

ClientInit ==
  /\ call = [c \in Callers |->
               [pc |-> "idle", attempt |-> 0, due |-> 0, nonce |-> 0,
                result |-> "none"]]
  /\ partner = {}
  /\ lastNonce = 0
  /\ cancelled = {}

(* How a request ends: an answer by its status, where that of a "garbled"  *)
(* 2xx cannot be decoded, or a network error: before the partner has       *)
(* received it ("network"), before its answer comes ("lost"), or while the *)
(* body of the answer is read ("cut").                                     *)
Answers == {"ok", "garbled", "4xx", "5xx", "network", "lost", "cut"}

Retried(c) ==
  IF c \in Plain THEN {"network", "lost"} ELSE {"5xx", "network", "lost", "cut"}

(* The answers that end a call: an error or not, they are returned.        *)
Final(c) == Answers \ Retried(c)

Failures == {"5xx", "network", "lost", "cut", "open"}

(* breakerClassify: does the breaker count it as a failure?                *)
breakerClassify(answer) == answer \in Failures

-----------------------------------------------------------------------------
backoff(attempt) ==
  IF RetryBase * 2 ^ (attempt - 1) > MaxBackoff
  THEN MaxBackoff
  ELSE RetryBase * 2 ^ (attempt - 1)

Return(c, result) ==
  call' = [call EXCEPT ![c].pc = "done", ![c].result = result]

(* The loop goes on: the next attempt after its delay, or the last error.  *)
Again(c, error, delay) ==
  IF call[c].attempt < maxRetries
  THEN call' = [call EXCEPT ![c].pc = "ready", ![c].attempt = @ + 1,
                            ![c].due = now + delay, ![c].result = error]
  ELSE Return(c, error)

(* Mutant: a refused request is retried like every other error.            *)
AfterErrorOfAnyKind(c, error) == Again(c, error, backoff(call[c].attempt + 1))

(* What Do makes of an error: a 4xx is returned at once.                   *)
AfterError(c, error) ==
  IF error = "4xx"
  THEN Return(c, error)
  ELSE Again(c, error, backoff(call[c].attempt + 1))

(* Do up to the first attempt.                                             *)
Do(c) ==
  /\ call[c].pc = "idle"
  /\ call' = [call EXCEPT ![c].pc = "ready", ![c].due = now]
  /\ UNCHANGED <<partner, lastNonce, cancelled, vars>>

Due(c) == call[c].pc = "ready" /\ call[c].due <= now

(* Mutant: the nonce is drawn for the call, not for the attempt.           *)
NonceOfTheCall(c) ==
  IF call[c].nonce # 0 THEN call[c].nonce ELSE lastNonce + 1

NonceOf(c) == lastNonce + 1

(* roundTrip, admitted by the breaker: a signed request leaves.            *)
Send(c) ==
  /\ c \notin Plain
  /\ Due(c)
  /\ Admit(c)
  /\ lastNonce' = lastNonce + 1
  /\ call' = [call EXCEPT ![c].pc = "sent", ![c].nonce = NonceOf(c)]
  /\ UNCHANGED <<partner, cancelled>>

(* doWithBreaker, the breaker open: B0200, which Do retries.               *)
RefusedByBreaker(c) ==
  /\ c \notin Plain
  /\ Due(c)
  /\ Refuse(c)
  /\ AfterError(c, "open")
  /\ UNCHANGED <<partner, lastNonce, cancelled>>

Possible(c, answer) == c \in cancelled => answer \in {"network", "lost", "cut"}

Arrives(c, answer) ==
  partner' =
    IF answer = "network"
    THEN partner
    ELSE partner \cup {[from |-> c, attempt |-> call[c].attempt,
                        nonce |-> call[c].nonce, answer |-> answer]}

(* The request ends, the breaker records it, and Do goes on or returns; an *)
(* answer that cannot be decoded is a success to the breaker and an error  *)
(* to the caller.  A context cancelled meanwhile counts as a failure of    *)
(* the partner.                                                            *)
Answer(c, answer) ==
  /\ c \notin Plain
  /\ call[c].pc = "sent"
  /\ Possible(c, answer)
  /\ Finish(c, ~breakerClassify(answer))
  /\ Arrives(c, answer)
  /\ IF answer \in {"ok", "garbled"} THEN Return(c, answer)
     ELSE AfterError(c, answer)
  /\ UNCHANGED <<lastNonce, cancelled>>

-----------------------------------------------------------------------------
(* httpclient.do: no breaker, no signature; whatever has answered is not   *)
(* asked again, though the answer may break off or make no sense.          *)
PlainSend(c) ==
  /\ c \in Plain
  /\ Due(c)
  /\ lastNonce' = lastNonce + 1
  /\ call' = [call EXCEPT ![c].pc = "sent", ![c].nonce = lastNonce + 1]
  /\ UNCHANGED <<partner, cancelled, vars>>

PlainAnswer(c, answer) ==
  /\ c \in Plain
  /\ call[c].pc = "sent"
  /\ Possible(c, answer)
  /\ Arrives(c, answer)
  /\ IF answer \in Retried(c)
     THEN Again(c, answer, RetryBase * (call[c].attempt + 1))
     ELSE Return(c, answer)
  /\ UNCHANGED <<lastNonce, cancelled, vars>>

-----------------------------------------------------------------------------
(* The caller's context is cancelled; only the wait between two attempts   *)
(* looks at it.                                                            *)
Cancel(c) ==
  /\ call[c].pc \in {"ready", "sent"}
  /\ c \notin cancelled
  /\ cancelled' = cancelled \cup {c}
  /\ UNCHANGED <<call, partner, lastNonce, vars>>

GiveUp(c) ==
  /\ call[c].pc = "ready"
  /\ call[c].attempt > 0
  /\ c \in cancelled
  /\ Return(c, "cancelled")
  /\ UNCHANGED <<partner, lastNonce, cancelled, vars>>

ClientTick == Tick /\ UNCHANGED client

ClientNext ==
  \/ ClientTick
  \/ \E c \in Callers :
       \/ Do(c) \/ Send(c) \/ RefusedByBreaker(c)
       \/ PlainSend(c) \/ Cancel(c) \/ GiveUp(c)
       \/ \E answer \in Answers : Answer(c, answer) \/ PlainAnswer(c, answer)

ClientSpec == Init /\ ClientInit /\ [][ClientNext]_<<vars, client>>

-----------------------------------------------------------------------------
(* Properties.                                                             *)

(* However the requests of a call were lost, refused or answered, the      *)
(* partner sees no nonce twice, no attempt after the last one allowed, and *)
(* none of a call after one it has answered for good.                      *)
PartnerSeesAttemptsOnce ==
  \A p \in partner :
    /\ p.attempt <= maxRetries
    /\ \A q \in partner \ {p} :
         /\ p.nonce # q.nonce
         /\ (p.from = q.from /\ p.answer \in Final(p.from)) =>
              q.attempt < p.attempt

(* A call reports what its partner did last: what ends it is the answer of *)
(* its last request, one that the partner has given, and a call that ended *)
(* by the breaker, by its context or after its last attempt has had none   *)
(* of that kind.                                                           *)
ReportedAsAnswered ==
  \A c \in Callers :
    call[c].pc = "done" =>
      LET final == {p \in partner : p.from = c /\ p.answer \in Final(c)}
      IN  /\ \A p \in final : /\ p.attempt = call[c].attempt
                             /\ p.answer = call[c].result
          /\ call[c].result \in Final(c) => final # {}

(* What the calls of a client report is what the partner has seen, and it  *)
(* has seen no attempt twice and none that should not have been made, with *)
(* and without the breaker.                                                *)
CallsAgreeWithPartner == PartnerSeesAttemptsOnce /\ ReportedAsAnswered
=============================================================================
