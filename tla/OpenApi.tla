------------------------------ MODULE OpenApi ------------------------------
(***************************************************************************)
(* The gateway of framework/openapi for one third party: the registry a    *)
(* process may change while requests are served, the signature, the store  *)
(* of used nonces and the limiter, which keeps the limits of the first     *)
(* request it is made for.  Requests run concurrently; a request keeps the *)
(* application it has looked up.  A signature is the secret it was made    *)
(* with.  Between the check of its timestamp and that of its nonce a       *)
(* request takes any time.                                                 *)
(***************************************************************************)
EXTENDS Integers, FiniteSets

CONSTANTS
  Requests,    \* requests served
  Sendable,    \* what they can be: [secret, nonce, timestamp]
  Apps,        \* what the registry can hold: [secret, enabled, rate, burst]
  TimestampWindow, NonceTTL,
  DefaultRate, \* DefaultRatePerSecond
  MaxTime

OpenApiAssumption ==
  /\ TimestampWindow \in Nat /\ DefaultRate \in Nat
  /\ NonceTTL \in Nat \ {0}
  /\ \A s \in Sendable : s.timestamp \in Int
  /\ \A a \in Apps : a.enabled \in BOOLEAN /\ a.rate \in Int /\ a.burst \in Int
  /\ IsFiniteSet(Requests)

VARIABLES
  time,
  registry,   \* the application registered for the key, or NoApp
  nonces,     \* expiry of each nonce used; 0 when unused
  limiter,    \* NoLimiter, or its limits, tokens and time of last use
  req         \* what each request is and how far it has come

apiVars == <<time, registry, nonces, limiter, req>>

NoApp == [enabled |-> FALSE]

NoLimiter == [tokens |-> -1]

Nonces == {s.nonce : s \in Sendable}

(* The limits of an application with the defaults filled in.               *)
Limits(app) ==
  LET rate == IF app.rate <= 0 THEN DefaultRate ELSE app.rate
  IN [rate |-> rate, burst |-> IF app.burst <= 0 THEN rate ELSE app.burst]

Init ==
  /\ time = 1
  /\ registry \in Apps \cup {NoApp}
  /\ nonces = [n \in Nonces |-> 0]
  /\ limiter = NoLimiter
  /\ req = [r \in Requests |-> [at |-> "new"]]

Register ==
  /\ registry = NoApp
  /\ registry' \in Apps
  /\ UNCHANGED <<time, nonces, limiter, req>>

Set ==
  /\ registry' \in Apps
  /\ UNCHANGED <<time, nonces, limiter, req>>

Unregister ==
  /\ registry' = NoApp
  /\ UNCHANGED <<time, nonces, limiter, req>>

reject(r) == req' = [req EXCEPT ![r] = [@ EXCEPT !.at = "rejected"]]

advance(r, stage) == req' = [req EXCEPT ![r] = [@ EXCEPT !.at = stage]]

InWindow(sent) == sent.timestamp - time \in -TimestampWindow .. TimestampWindow

(* Headers, application and timestamp.                                     *)
Identify(r) ==
  /\ req[r].at = "new"
  /\ \E sent \in Sendable :
       req' = [req EXCEPT ![r] =
                 IF registry.enabled /\ InWindow(sent)
                 THEN [at |-> "identified", sent |-> sent, app |-> registry,
                       checked |-> time, noted |-> 0]
                 ELSE [at |-> "rejected"]]
  /\ UNCHANGED <<time, registry, nonces, limiter>>

(* The signature is made for another body or with another key, or the      *)
(* application has no key.                                                 *)
VerifySignature(r) ==
  /\ req[r].at = "identified"
  /\ IF req[r].sent.secret = req[r].app.secret /\ req[r].app.secret /= ""
     THEN advance(r, "signed") ELSE reject(r)
  /\ UNCHANGED <<time, registry, nonces, limiter>>

Used(n) == nonces[n] > time

(* The body cannot be read; or the store of nonces fails, in Redis perhaps *)
(* after it has set the nonce.                                             *)
Fails(r) ==
  /\ req[r].at \in {"identified", "signed"}
  /\ reject(r)
  /\ \/ UNCHANGED nonces
     \/ /\ req[r].at = "signed" /\ ~ Used(req[r].sent.nonce)
        /\ nonces' = [nonces EXCEPT ![req[r].sent.nonce] = time + NonceTTL]
  /\ UNCHANGED <<time, registry, limiter>>

(* noted is a history: when the nonce was accepted.                        *)
accept(r) ==
  req' = [req EXCEPT ![r] = [@ EXCEPT !.at = "fresh", !.noted = time]]

(* Mutant: the nonce is kept only as long as one window.                   *)
TrySetForWindow(r) ==
  /\ req[r].at = "signed"
  /\ LET n == req[r].sent.nonce
     IN IF Used(n)
        THEN reject(r) /\ nonces' = nonces
        ELSE /\ accept(r)
             /\ nonces' = [nonces EXCEPT ![n] = time + TimestampWindow]
  /\ UNCHANGED <<time, registry, limiter>>

TrySet(r) ==
  /\ req[r].at = "signed"
  /\ LET n == req[r].sent.nonce
     IN IF Used(n)
        THEN reject(r) /\ nonces' = nonces
        ELSE /\ accept(r)
             /\ nonces' = [nonces EXCEPT ![n] = time + NonceTTL]
  /\ UNCHANGED <<time, registry, limiter>>

(* The limiter in use: the one made for the first request.                 *)
limiterFor(app) ==
  IF limiter /= NoLimiter THEN limiter
  ELSE [limits |-> Limits(app), tokens |-> Limits(app).burst, last |-> time]

(* The tokens of a limiter now: refilled at its rate, up to its burst.     *)
Refilled(l) ==
  LET grown == l.tokens + (time - l.last) * l.limits.rate
  IN IF grown > l.limits.burst THEN l.limits.burst ELSE grown

(* Mutant: a limiter is made for every request.                            *)
LimitFresh(r) ==
  /\ req[r].at = "fresh"
  /\ limiter' = [limits |-> Limits(req[r].app), last |-> time,
                 tokens |-> Limits(req[r].app).burst - 1]
  /\ advance(r, "passed")
  /\ UNCHANGED <<time, registry, nonces>>

Limit(r) ==
  /\ req[r].at = "fresh"
  /\ LET l == limiterFor(req[r].app)
     IN IF Refilled(l) >= 1
        THEN /\ limiter' = [l EXCEPT !.tokens = Refilled(l) - 1, !.last = time]
             /\ advance(r, "passed")
        ELSE limiter' = [l EXCEPT !.tokens = Refilled(l), !.last = time] /\ reject(r)
  /\ UNCHANGED <<time, registry, nonces>>

Tick ==
  /\ time < MaxTime
  /\ time' = time + 1
  /\ UNCHANGED <<registry, nonces, limiter, req>>

Next ==
  \/ Register \/ Set \/ Unregister \/ Tick
  \/ \E r \in Requests :
       Identify(r) \/ VerifySignature(r) \/ Fails(r) \/ TrySet(r) \/ Limit(r)

Spec == Init /\ [][Next]_apiVars

Passed == {r \in Requests : req[r].at = "passed"}

(* A request sent twice, at any time and also concurrently, is let through *)
(* twice only when its nonce is forgotten, which is when the second has    *)
(* taken NonceTTL less two windows from its timestamp to its nonce.  With  *)
(* the default, NonceTTL of exactly two windows, that is no time at all:   *)
(* sent a window early, it passes again a window late.                     *)
SentTwicePassesOnce ==
  \A r, s \in Passed :
    req[r].sent = req[s].sent /\ r /= s /\ req[r].noted <= req[s].noted =>
      /\ req[r].noted + NonceTTL <= req[s].noted
      /\ NonceTTL - 2 * TimestampWindow <= req[s].noted - req[s].checked

(* Whatever the registry is set to meanwhile, no more requests pass than   *)
(* the limits the limiter was made with allow.                             *)
WithinLimits ==
  limiter /= NoLimiter =>
    Cardinality(Passed) <= limiter.limits.burst + (time - 1) * limiter.limits.rate

-----------------------------------------------------------------------------
Stages == {"identified", "signed", "fresh", "passed", "rejected"}

Carried ==
  [at : Stages, sent : Sendable, app : Apps, checked : Nat, noted : Nat]

TypeOK ==
  /\ time \in Nat \ {0}
  /\ registry \in Apps \cup {NoApp}
  /\ nonces \in [Nonces -> Nat]
  /\ req \in [Requests -> [at : {"new", "rejected"}] \cup Carried]

(* A request was checked within a window of its timestamp, and its nonce   *)
(* was accepted later.                                                     *)
RequestsRecent ==
  \A r \in Requests : req[r].at \notin {"new", "rejected"} =>
    /\ req[r].checked <= time
    /\ req[r].at \in {"fresh", "passed"} =>
         req[r].checked <= req[r].noted /\ req[r].noted <= time
    /\ req[r].sent.timestamp - TimestampWindow <= req[r].checked
    /\ req[r].checked <= req[r].sent.timestamp + TimestampWindow

(* The requests whose nonce was accepted.                                  *)
Accepted == {r \in Requests : req[r].at \in {"fresh", "passed"}}

(* An accepted nonce is known for NonceTTL, and the nonces of one request  *)
(* were accepted so far apart.                                             *)
NoncesKnown ==
  \A r \in Accepted : nonces[req[r].sent.nonce] >= req[r].noted + NonceTTL

AcceptedApart ==
  \A r, s \in Accepted :
    req[r].sent = req[s].sent /\ r /= s =>
      \/ req[r].noted + NonceTTL <= req[s].noted
      \/ req[s].noted + NonceTTL <= req[r].noted

(* What has passed and what is left to pass was there at first or refilled. *)
TokensAccounted ==
  \/ limiter = NoLimiter /\ Passed = {}
  \/ /\ limiter \in [limits : [rate : Nat, burst : Nat], tokens : Nat, last : Nat \ {0}]
     /\ limiter.last <= time
     /\ Cardinality(Passed) + limiter.tokens
          <= limiter.limits.burst + (limiter.last - 1) * limiter.limits.rate

IInv == TypeOK /\ RequestsRecent /\ NoncesKnown /\ AcceptedApart /\ TokensAccounted
=============================================================================
