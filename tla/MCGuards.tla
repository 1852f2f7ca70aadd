------------------------------ MODULE MCGuards ----------------------------
(***************************************************************************)
(* Instances for TLC of the components that admit one caller, one call or  *)
(* so many calls, the breaker and the clients that call through it among   *)
(* them: one of them runs, the one that `part' names.                      *)
(***************************************************************************)
EXTENDS GuardsProofs

VARIABLE part

lockVars == <<lockNow, lockKey, caller, drawn, deadline, lease>>

bucketVars == <<milli, bucket, elapsed, admitted>>

limiterVars == <<minute, asked, allowed, waited, hits>>

senderVars == <<registeredSenders, sending, errCh, outcome, sendAll>>

counterVars == <<registered, made, counter, visitor, highest, removed>>

MCInit ==
  /\ part \in {"breaker", "client", "plain", "lock", "bucket", "limiter",
              "notify", "counter"}
  /\ Init /\ ClientInit
  /\ L!Init /\ R!Init /\ N!Init /\ K!Init

(* These callers make no call.                                             *)
Idle(callers) == \A c \in callers : call'[c] = call[c]

MCNext ==
  /\ IF part = "breaker" THEN UNCHANGED client ELSE TRUE
  /\ IF part \in {"breaker", "client", "plain"} THEN TRUE
     ELSE UNCHANGED <<vars, client>>
  /\ IF part = "lock" THEN TRUE ELSE UNCHANGED lockVars
  /\ IF part = "bucket" THEN TRUE ELSE UNCHANGED bucketVars
  /\ IF part = "limiter" THEN TRUE ELSE UNCHANGED limiterVars
  /\ IF part = "notify" THEN TRUE ELSE UNCHANGED senderVars
  /\ IF part = "counter" THEN TRUE ELSE UNCHANGED counterVars
  /\ \/ part = "breaker" /\ Next
     \/ part = "client" /\ ClientNext /\ now' <= 2 /\ Idle(Plain)
     \/ part = "plain" /\ ClientNext /\ Idle(Callers \ Plain)
     \/ part = "lock" /\ L!Next
     \/ part = "bucket" /\ R!Next
     \/ part = "limiter" /\ N!LimiterNext
     \/ part = "notify" /\ N!SendNext
     \/ part = "counter" /\ K!Next
  /\ UNCHANGED part

MCSpec ==
  /\ MCInit
  /\ [][MCNext]_<<part, vars, client, lockVars, bucketVars, limiterVars,
                  senderVars, counterVars>>
  /\ WF_vars(part = "breaker" /\ Tick)
  /\ \A c \in Callers :
       /\ WF_vars(part = "breaker" /\ \E ok \in BOOLEAN : Finish(c, ok))
       /\ WF_vars(part = "breaker" /\ Admit(c))
  /\ WF_lockVars(part = "lock" /\ L!Tick)
  /\ \A c \in LockCallers :
       WF_lockVars(L!TryLockAcquires(c) \/ L!TryLockTaken(c))
  /\ N!Fairness

(* A half-open breaker decides (HalfOpenDecides of Circuit).               *)
BreakerHalfOpenDecides ==
  (part = "breaker" /\ state = StateHalfOpen) ~> (state # StateHalfOpen)

(* Lock and SendAll return.                                                *)
CallersReturn == L!LockReturns /\ N!SendAllReturns
=============================================================================
