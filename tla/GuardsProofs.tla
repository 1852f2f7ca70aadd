---------------------------- MODULE GuardsProofs ----------------------------
(***************************************************************************)
(* Whatever admits one caller, one call or so many calls, side by side: the *)
(* circuit breaker with the clients that call through it, the Redis lock,  *)
(* the token bucket, the notifier and the online counters, with the proofs *)
(* about them, for every value of their constants.                         *)
(***************************************************************************)
EXTENDS ThirdParty, Integers, Sequences, FiniteSetTheorems, TLAPS

CONSTANTS
  LockCallers, Ttl, Wait, LockMaxTime, MaxAttempts,    \* RedisLock
  Units, Burst, Draws, Readings, MaxMilli, MaxElapsed,  \* RateBucket
  Askers, Channels, HitWindow, MaxHits, MaxMinute,     \* NotifyManager
  Visitors, MaxCounters, MaxVisits, Removes            \* Counters

VARIABLES
  lockNow, lockKey, caller, drawn, deadline, lease,
  milli, bucket, elapsed, admitted,
  minute, asked, allowed, waited, hits,
  registeredSenders, sending, errCh, outcome, sendAll,
  registered, made, counter, visitor, highest, removed

L == INSTANCE RedisLock WITH
       Callers <- LockCallers, MaxTime <- LockMaxTime, now <- lockNow

R == INSTANCE RateBucket

N == INSTANCE NotifyManager WITH
       Window <- HitWindow, registered <- registeredSenders

K == INSTANCE Counters

(* The parameters are such as the components assume.                       *)
ASSUME GuardsAssumption ==
  /\ L!RedisLockAssumption /\ R!RateBucketAssumption
  /\ N!NotifyManagerAssumption /\ K!CountersAssumption

(* No two callers hold a lease of the lock (LeaseExclusive of RedisLock).  *)
LeaseExclusive == L!LeaseExclusive

(* The token bucket and the notifier let no more through than they are     *)
(* configured to (RateHeld, SpanBounded).                                  *)
LimitsHeld == R!RateHeld /\ N!SpanBounded

(* No visitor is counted twice or forgotten, and SendAll returns all the   *)
(* errors of its goroutines (CountsThoseIn, ErrorsComplete).               *)
CountsExact == K!CountsThoseIn /\ N!ErrorsComplete

-----------------------------------------------------------------------------
(* Proofs about the breaker and the clients that call through it.          *)
USE DEF StateClosed, StateOpen, StateHalfOpen

(* Outside the open state the window never holds MinRequests results: the  *)
(* result that completes them is evaluated under the same lock, so a trip  *)
(* is decided on MinRequests results and the failure rate is never taken   *)
(* of a larger or an empty window.                                         *)
WindowBounded == state # StateOpen => success + failure < MinRequests

(* allow touches none of the fields that have nothing to do with it, and   *)
(* leaves the breaker closed or half open with these counters.             *)
LEMMA AllowEffect ==
  ASSUME TypeOK, AllowClosed \/ AllowOpen \/ AllowHalfOpen
  PROVE  /\ state' \in {StateClosed, StateHalfOpen}
         /\ windowAt' \in {windowAt, now}
         /\ \/ success' = success /\ failure' = failure /\ state # StateOpen
            \/ success' = 0 /\ failure' = 0
         /\ openedAt' = openedAt
         /\ halfOK' \in Nat /\ probes' \in Nat
BY CircuitAssumption DEF TypeOK, AllowClosed, AllowOpen, AllowHalfOpen, rollWindow

(* record leaves the counters below MinRequests unless it trips.           *)
LEMMA RecordClosedEffect ==
  ASSUME TypeOK, WindowBounded, NEW ok \in BOOLEAN, RecordClosed(ok)
  PROVE  /\ state' \in {StateClosed, StateOpen}
         /\ windowAt' \in {windowAt, now}
         /\ success' \in Nat /\ failure' \in Nat
         /\ openedAt' \in {openedAt, now}
         /\ halfOK' = halfOK
         /\ state' = StateClosed => success' + failure' < MinRequests
         /\ state' = StateOpen =>
              /\ success' + failure' = MinRequests
              /\ TooManyFailures(success', failure')
<1> DEFINE s == IF ok THEN success + 1 ELSE success
           f == IF ok THEN failure ELSE failure + 1
<1>1. s \in Nat /\ f \in Nat /\ s + f = success + failure + 1
  BY DEF TypeOK
<1>2. success + failure < MinRequests /\ MinRequests \in Nat \ {0}
  BY CircuitAssumption DEF WindowBounded, RecordClosed
<1>3. /\ state = StateClosed
      /\ IF Evaluated(s, f)
         THEN evaluateLocked(s, f)
         ELSE /\ success' = s
              /\ failure' = f
              /\ UNCHANGED <<state, windowAt, openedAt>>
      /\ halfOK' = halfOK
  BY DEF RecordClosed
<1> HIDE DEF s, f
<1>4. CASE ~Evaluated(s, f)
  BY <1>1, <1>2, <1>3, <1>4 DEF Evaluated, TypeOK
<1>5. CASE Evaluated(s, f) /\ s + f >= MinRequests /\ TooManyFailures(s, f)
  <2>1. state' = StateOpen /\ openedAt' = now /\ success' = s /\ failure' = f
        /\ windowAt' = windowAt
    BY <1>3, <1>5 DEF evaluateLocked
  <2>2. s + f = MinRequests
    BY <1>1, <1>2, <1>5 DEF TypeOK
  <2> QED
    BY <1>1, <1>3, <1>5, <2>1, <2>2
<1>6. CASE Evaluated(s, f) /\ ~(s + f >= MinRequests /\ TooManyFailures(s, f))
  BY <1>1, <1>2, <1>3, <1>6 DEF evaluateLocked, rollWindow, TypeOK
<1> QED
  BY <1>4, <1>5, <1>6

LEMMA RecordHalfOpenEffect ==
  ASSUME TypeOK, NEW ok \in BOOLEAN, RecordHalfOpen(ok)
  PROVE  /\ state = StateHalfOpen
         /\ state' \in {StateClosed, StateOpen}
         /\ windowAt' \in {windowAt, now}
         /\ \/ success' = success /\ failure' = failure
            \/ success' = 0 /\ failure' = 0
         /\ openedAt' \in {openedAt, now}
         /\ halfOK' = halfOK
BY DEF RecordHalfOpen, rollWindow, TypeOK

-----------------------------------------------------------------------------
(* The half-open count and the probes: the call that begins the period is  *)
(* not counted in halfOK, and a half-open breaker has counted no result.   *)
HalfOpenCount ==
  state = StateHalfOpen => /\ probes = halfOK + 1
                           /\ halfOK <= HalfOpenMaxRequests
                           /\ success = 0 /\ failure = 0

IInv ==
  /\ TypeOK
  /\ WindowBounded
  /\ TrippedOnEvidence
  /\ HalfOpenCount

LEMMA InitIInv == Init => IInv
BY CircuitAssumption
   DEF Init, IInv, TypeOK, WindowBounded, TrippedOnEvidence, HalfOpenCount

LEMMA AdmitIInv ==
  ASSUME IInv, NEW c \in Callers, Admit(c)
  PROVE  IInv'
<1>1. /\ AllowClosed \/ AllowOpen \/ AllowHalfOpen
      /\ running' = running \cup {c}
      /\ now' = now /\ panics' = panics
  BY DEF Admit
<1>2. /\ state' \in {StateClosed, StateHalfOpen}
      /\ windowAt' \in {windowAt, now}
      /\ \/ success' = success /\ failure' = failure /\ state # StateOpen
         \/ success' = 0 /\ failure' = 0
      /\ openedAt' = openedAt
      /\ halfOK' \in Nat /\ probes' \in Nat
  BY <1>1, AllowEffect DEF IInv
<1>3. TypeOK'
  BY <1>1, <1>2 DEF IInv, TypeOK
<1>4. WindowBounded'
  BY <1>2, CircuitAssumption DEF IInv, TypeOK, WindowBounded
<1>5. TrippedOnEvidence'
  BY <1>1, <1>2 DEF IInv, TypeOK, TrippedOnEvidence
<1>6. HalfOpenCount'
  <2>1. CASE AllowClosed
    BY <2>1 DEF AllowClosed, HalfOpenCount
  <2>2. CASE AllowOpen
    BY <2>2, CircuitAssumption DEF AllowOpen, HalfOpenCount, rollWindow
  <2>3. CASE AllowHalfOpen
    BY <2>3, CircuitAssumption
       DEF AllowHalfOpen, ProbeAvailable, HalfOpenCount, IInv, TypeOK
  <2> QED
    BY <1>1, <2>1, <2>2, <2>3
<1> QED
  BY <1>3, <1>4, <1>5, <1>6 DEF IInv

LEMMA FinishIInv ==
  ASSUME IInv, NEW c \in Callers, NEW ok \in BOOLEAN, Finish(c, ok)
  PROVE  IInv'
<1>1. /\ RecordClosed(ok) \/ RecordHalfOpen(ok) \/ RecordOpen
      /\ running' = running \ {c}
      /\ UNCHANGED <<now, panics, probes>>
  BY DEF Finish
<1>2. CASE RecordClosed(ok)
  <2>1. /\ state' \in {StateClosed, StateOpen}
        /\ windowAt' \in {windowAt, now}
        /\ success' \in Nat /\ failure' \in Nat
        /\ openedAt' \in {openedAt, now}
        /\ halfOK' = halfOK
        /\ state' = StateClosed => success' + failure' < MinRequests
        /\ state' = StateOpen => /\ success' + failure' = MinRequests
                                 /\ TooManyFailures(success', failure')
    BY <1>2, RecordClosedEffect DEF IInv
  <2>2. TypeOK'
    BY <1>1, <2>1 DEF IInv, TypeOK
  <2>3. WindowBounded' /\ HalfOpenCount'
    BY <2>1 DEF WindowBounded, HalfOpenCount
  <2>4. TrippedOnEvidence'
    <3>1. windowAt' <= now' /\ openedAt' <= now'
      BY <1>1, <2>1 DEF IInv, TypeOK, TrippedOnEvidence
    <3>2. state' = StateOpen => /\ success' + failure' = MinRequests
                                /\ TooManyFailures(success, failure)'
      BY <2>1 DEF TooManyFailures
    <3> QED
      BY <3>1, <3>2 DEF TrippedOnEvidence
  <2> QED
    BY <2>2, <2>3, <2>4 DEF IInv
<1>3. CASE RecordHalfOpen(ok)
  <2>1. /\ state = StateHalfOpen
        /\ state' \in {StateClosed, StateOpen}
        /\ windowAt' \in {windowAt, now}
        /\ \/ success' = success /\ failure' = failure
           \/ success' = 0 /\ failure' = 0
        /\ openedAt' \in {openedAt, now}
        /\ halfOK' = halfOK
    BY <1>3, RecordHalfOpenEffect DEF IInv
  <2>2. TypeOK'
    BY <1>1, <2>1 DEF IInv, TypeOK
  <2>3. success' = 0 /\ failure' = 0
    BY <2>1 DEF IInv, HalfOpenCount
  <2>4. WindowBounded' /\ HalfOpenCount' /\ TrippedOnEvidence'
    BY <1>1, <2>1, <2>3, CircuitAssumption
       DEF IInv, TypeOK, WindowBounded, HalfOpenCount, TrippedOnEvidence
  <2> QED
    BY <2>2, <2>4 DEF IInv
<1>4. CASE RecordOpen
  BY <1>1, <1>4
     DEF RecordOpen, breaker, IInv, TypeOK, WindowBounded, HalfOpenCount,
         TrippedOnEvidence, TooManyFailures
<1> QED
  BY <1>1, <1>2, <1>3, <1>4

LEMMA NextIInv == IInv /\ [Next]_vars => IInv'
<1> SUFFICES ASSUME IInv, [Next]_vars PROVE IInv'
  OBVIOUS
<1>1. CASE Tick
  BY <1>1 DEF Tick, breaker, IInv, TypeOK, WindowBounded, HalfOpenCount,
              TrippedOnEvidence, TooManyFailures
<1>2. CASE \E c \in Callers : Admit(c)
  BY <1>2, AdmitIInv
<1>3. CASE \E c \in Callers : \E ok \in BOOLEAN : Finish(c, ok)
  BY <1>3, FinishIInv
<1>4. CASE \E c \in Callers : Panic(c)
  BY <1>4 DEF Panic, breaker, IInv, TypeOK, WindowBounded, HalfOpenCount,
              TrippedOnEvidence, TooManyFailures
<1>5. CASE UNCHANGED vars
  BY <1>5 DEF vars, breaker, IInv, TypeOK, WindowBounded, HalfOpenCount,
              TrippedOnEvidence, TooManyFailures
<1> QED
  BY <1>1, <1>2, <1>3, <1>4, <1>5 DEF Next, Refuse

LEMMA SpecIInv == Spec => []IInv
BY InitIInv, NextIInv, PTL DEF Spec

-----------------------------------------------------------------------------
(* The fields of a Breaker keep their types under any interleaving of      *)
(* allow, record and panicking functions.                                  *)
THEOREM TypeCorrect == Spec => []TypeOK
<1>1. IInv => TypeOK
  BY DEF IInv
<1> QED
  BY <1>1, SpecIInv, PTL

(* No window grows past MinRequests without being evaluated, however many  *)
(* calls are running when the breaker changes state.                       *)
THEOREM WindowBoundedAlways == Spec => []WindowBounded
<1>1. IInv => WindowBounded
  BY DEF IInv
<1> QED
  BY <1>1, SpecIInv, PTL

(* A half-open period admits at most HalfOpenMaxRequests + 1 calls, for    *)
(* any number of goroutines calling Execute.                               *)
THEOREM ProbesBoundedAlways == Spec => []ProbesBounded
<1>1. IInv => ProbesBounded
  BY CircuitAssumption DEF IInv, HalfOpenCount, ProbesBounded, TypeOK
<1> QED
  BY <1>1, SpecIInv, PTL

(* A trip out of the closed state rests on exactly MinRequests results     *)
(* with a failure rate of at least FailureThreshold.                       *)
THEOREM TrippedOnEvidenceAlways == Spec => []TrippedOnEvidence
<1>1. IInv => TrippedOnEvidence
  BY DEF IInv
<1> QED
  BY <1>1, SpecIInv, PTL

-----------------------------------------------------------------------------
(* The calls of the clients.  Nothing below depends on what the breaker    *)
(* admits, nor on when a request is due.                                   *)

Results == Answers \cup {"none", "open", "cancelled"}

Requests ==
  [from : Callers, attempt : 0..maxRetries, nonce : Nat, answer : Answers]

(* The times at which calls are due are left open.                         *)
CallSet(Times) ==
  [Callers -> [pc : {"idle", "ready", "sent", "done"},
               attempt : 0..maxRetries, due : Times, nonce : Nat,
               result : Results]]

CallsTyped == \E Times : call \in CallSet(Times)

(* Every request has its nonce and its attempt to itself.                  *)
RequestsApart ==
  /\ lastNonce \in Nat
  /\ partner \subseteq Requests
  /\ \A p \in partner : p.nonce <= lastNonce
  /\ \A p, q \in partner :
       \/ p = q
       \/ p.nonce # q.nonce /\ (p.from # q.from \/ p.attempt # q.attempt)

(* So has the request that is on its way.                                  *)
SentApart ==
  \A c \in Callers :
    call[c].pc = "sent" =>
      /\ call[c].nonce <= lastNonce
      /\ \A p \in partner : p.nonce # call[c].nonce
      /\ \A d \in Callers \ {c} :
           call[d].pc = "sent" => call[d].nonce # call[c].nonce

(* The partner has seen the earlier attempts of a call that goes on and    *)
(* has ended none of them; of one that is done it may have seen the last   *)
(* attempt as well.                                                        *)
SeenOf(p, callOf) ==
  \/ p.attempt < callOf.attempt /\ p.answer \notin Final(p.from)
  \/ /\ callOf.pc = "done"
     /\ p.attempt = callOf.attempt
     /\ p.answer \in Final(p.from) => p.answer = callOf.result

AttemptsSeen == \A p \in partner : SeenOf(p, call[p.from])

ReportsBacked ==
  \A c \in Callers :
    call[c].pc = "done" /\ call[c].result \in Final(c) =>
      \E p \in partner : p.from = c /\ p.answer \in Final(c)

CallsInv ==
  CallsTyped /\ RequestsApart /\ SentApart /\ AttemptsSeen /\ ReportsBacked

(* The calls agree with the partner in every such state.                   *)
LEMMA CallsAgree == CallsInv => CallsAgreeWithPartner
<1> SUFFICES ASSUME CallsInv PROVE PartnerSeesAttemptsOnce /\ ReportedAsAnswered
  BY DEF CallsAgreeWithPartner
<1> PICK Times : call \in CallSet(Times)
  BY DEF CallsInv, CallsTyped
<1>1. \A p \in partner : p \in Requests /\ SeenOf(p, call[p.from])
  BY DEF CallsInv, RequestsApart, AttemptsSeen
<1>2. PartnerSeesAttemptsOnce
  <2> SUFFICES ASSUME NEW p \in partner, NEW q \in partner \ {p}
               PROVE  /\ p.attempt <= maxRetries
                      /\ p.nonce # q.nonce
                      /\ (p.from = q.from /\ p.answer \in Final(p.from)) =>
                           q.attempt < p.attempt
    BY <1>1, ThirdPartyAssumption DEF PartnerSeesAttemptsOnce, Requests
  <2>1. p.nonce # q.nonce /\ (p.from # q.from \/ p.attempt # q.attempt)
    BY DEF CallsInv, RequestsApart
  <2>2. /\ p.attempt \in 0..maxRetries /\ q.attempt \in 0..maxRetries
        /\ p.from \in Callers /\ call[p.from].attempt \in 0..maxRetries
    BY <1>1 DEF Requests, CallSet
  <2>3. SeenOf(p, call[p.from]) /\ SeenOf(q, call[q.from])
    BY <1>1
  <2> QED
    BY <2>1, <2>2, <2>3, ThirdPartyAssumption DEF SeenOf
<1>3. ReportedAsAnswered
  <2> SUFFICES ASSUME NEW c \in Callers, call[c].pc = "done"
               PROVE  /\ \A p \in partner :
                           p.from = c /\ p.answer \in Final(c) =>
                             /\ p.attempt = call[c].attempt
                             /\ p.answer = call[c].result
                      /\ call[c].result \in Final(c) =>
                           \E p \in partner : p.from = c /\ p.answer \in Final(c)
    BY DEF ReportedAsAnswered
  <2> QED
    BY <1>1 DEF SeenOf, CallsInv, ReportsBacked
<1> QED
  BY <1>2, <1>3

(* No call has begun.                                                      *)
LEMMA InitCalls == ClientInit => CallsInv
<1> SUFFICES ASSUME ClientInit PROVE CallsInv
  OBVIOUS
<1>1. call \in CallSet({0})
  BY ThirdPartyAssumption DEF ClientInit, Results, CallSet
<1>2. CallsTyped
  BY <1>1 DEF CallsTyped
<1> QED
  BY <1>2
     DEF ClientInit, CallsInv, RequestsApart, SentApart, AttemptsSeen,
         ReportsBacked

(* The call of c goes on with its next attempt, or it is done.             *)
Settled(c, result) ==
  /\ \A d \in Callers \ {c} : call'[d] = call[d]
  /\ call'[c].result = result
  /\ \/ /\ call'[c].pc = "ready"
        /\ call'[c].attempt = call[c].attempt + 1
        /\ result \notin Final(c)
     \/ /\ call'[c].pc = "done"
        /\ call'[c].attempt = call[c].attempt

(* Return ends the call.                                                   *)
LEMMA ReturnSettles ==
  ASSUME CallsTyped, NEW c \in Callers, NEW result \in Results,
         Return(c, result)
  PROVE  CallsTyped' /\ Settled(c, result)
<1> PICK Times : call \in CallSet(Times)
  BY DEF CallsTyped
<1>1. call' \in CallSet(Times)
  BY DEF Return, CallSet
<1> QED
  BY <1>1 DEF Return, Settled, CallsTyped, CallSet

(* So does Again after the last attempt; before it the call goes on.       *)
LEMMA AgainSettles ==
  ASSUME CallsTyped, NEW c \in Callers, NEW error \in Results \ Final(c),
         NEW delay, Again(c, error, delay)
  PROVE  CallsTyped' /\ Settled(c, error)
<1> PICK Times : call \in CallSet(Times)
  BY DEF CallsTyped
<1>1. CASE call[c].attempt < maxRetries
  <2> DEFINE Later == Times \cup {now + delay}
  <2>1. call' = [call EXCEPT ![c].pc = "ready", ![c].attempt = @ + 1,
                             ![c].due = now + delay, ![c].result = error]
    BY <1>1 DEF Again
  <2>2. call[c].attempt + 1 \in 0..maxRetries
    BY <1>1, ThirdPartyAssumption DEF CallSet
  <2>3. call' \in CallSet(Later)
    BY <2>1, <2>2 DEF CallSet
  <2>4. CallsTyped'
    BY <2>3 DEF CallsTyped
  <2> QED
    BY <2>1, <2>4 DEF Settled, CallSet
<1>2. CASE ~(call[c].attempt < maxRetries)
  BY <1>2, ReturnSettles DEF Again
<1> QED
  BY <1>1, <1>2

(* However a request or a wait ends, the calls agree with the partner.     *)
LEMMA SettledAgrees ==
  ASSUME CallsInv, CallsTyped', NEW c \in Callers, NEW result \in Results,
         call[c].pc \in {"ready", "sent"}, Settled(c, result),
         lastNonce' = lastNonce,
         \/ result \notin Final(c) /\ partner' = partner
         \/ /\ call[c].pc = "sent"
            /\ result \in Answers
            /\ partner' = partner \cup
                 {[from |-> c, attempt |-> call[c].attempt,
                   nonce |-> call[c].nonce, answer |-> result]}
  PROVE  CallsInv'
<1> DEFINE r == [from |-> c, attempt |-> call[c].attempt,
                 nonce |-> call[c].nonce, answer |-> result]
<1>t. /\ \A d \in Callers : /\ call[d].attempt \in 0..maxRetries
                            /\ call[d].nonce \in Nat
                            /\ call'[d].attempt \in 0..maxRetries
  BY DEF CallsInv, CallsTyped, CallSet
<1>s. /\ \A d \in Callers \ {c} : call'[d] = call[d]
      /\ call'[c].result = result
      /\ call'[c].pc \in {"ready", "done"}
      /\ \/ /\ call'[c].pc = "ready"
            /\ call'[c].attempt = call[c].attempt + 1
            /\ result \notin Final(c)
         \/ /\ call'[c].pc = "done"
            /\ call'[c].attempt = call[c].attempt
  BY DEF Settled
<1>p. \A p \in partner : p \in Requests /\ SeenOf(p, call[p.from])
  BY DEF CallsInv, RequestsApart, AttemptsSeen
<1>o. \A p \in partner :
        p.from = c => p.attempt < call[c].attempt /\ p.answer \notin Final(c)
  BY <1>p DEF SeenOf
<1>1. \A p \in partner : SeenOf(p, call'[p.from])
  <2> SUFFICES ASSUME NEW p \in partner PROVE SeenOf(p, call'[p.from])
    OBVIOUS
  <2>1. p.from \in Callers /\ p.attempt \in 0..maxRetries
    BY <1>p DEF Requests
  <2>2. CASE p.from = c
    <3>1. p.attempt < call'[c].attempt
      BY <1>o, <1>s, <1>t, <2>1, <2>2
    <3> QED
      BY <1>o, <2>2, <3>1 DEF SeenOf
  <2>3. CASE p.from # c
    BY <1>p, <1>s, <2>1, <2>3
  <2> QED
    BY <2>2, <2>3
<1>2. CASE result \notin Final(c) /\ partner' = partner
  <2>1. RequestsApart'
    BY <1>2 DEF CallsInv, RequestsApart
  <2>2. SentApart'
    BY <1>2, <1>s DEF CallsInv, SentApart
  <2>3. AttemptsSeen'
    BY <1>1, <1>2 DEF AttemptsSeen
  <2>4. ReportsBacked'
    BY <1>2, <1>s DEF CallsInv, ReportsBacked
  <2> QED
    BY <2>1, <2>2, <2>3, <2>4 DEF CallsInv
<1>3. CASE call[c].pc = "sent" /\ result \in Answers /\ partner' = partner \cup {r}
  <2>r. /\ r \in Requests
        /\ r.from = c /\ r.attempt = call[c].attempt
        /\ r.nonce = call[c].nonce /\ r.answer = result
    BY <1>3, <1>t DEF Requests
  <2> HIDE DEF r
  <2>n. r.nonce <= lastNonce /\ \A p \in partner : p.nonce # r.nonce
    BY <1>3, <2>r DEF CallsInv, SentApart
  <2>a. \A p \in partner : p.from # r.from \/ p.attempt # r.attempt
    BY <1>o, <1>p, <1>t, <2>r DEF Requests
  <2>1. RequestsApart'
    BY <1>3, <2>r, <2>n, <2>a DEF CallsInv, RequestsApart
  <2>2. SentApart'
    <3> SUFFICES ASSUME NEW d \in Callers, call'[d].pc = "sent"
                 PROVE  /\ call'[d].nonce <= lastNonce
                        /\ \A p \in partner' : p.nonce # call'[d].nonce
                        /\ \A e \in Callers \ {d} :
                             call'[e].pc = "sent" =>
                               call'[e].nonce # call'[d].nonce
      BY DEF SentApart
    <3>1. d # c /\ call'[d] = call[d]
      BY <1>s
    <3>2. /\ call[d].nonce <= lastNonce
          /\ \A p \in partner : p.nonce # call[d].nonce
          /\ \A e \in Callers \ {d} :
               call[e].pc = "sent" => call[e].nonce # call[d].nonce
      BY <3>1 DEF CallsInv, SentApart
    <3>3. r.nonce # call[d].nonce
      BY <1>3, <2>r, <3>1, <3>2
    <3> QED
      BY <1>3, <1>s, <3>1, <3>2, <3>3
  <2>3. AttemptsSeen'
    <3>1. SeenOf(r, call'[c])
      BY <1>s, <1>t, <2>r DEF SeenOf
    <3> QED
      BY <1>1, <1>3, <2>r, <3>1 DEF AttemptsSeen
  <2>4. ReportsBacked'
    <3> SUFFICES ASSUME NEW d \in Callers,
                        call'[d].pc = "done" /\ call'[d].result \in Final(d)
                 PROVE  \E p \in partner' : p.from = d /\ p.answer \in Final(d)
      BY DEF ReportsBacked
    <3>1. CASE d = c
      BY <1>3, <1>s, <2>r, <3>1
    <3>2. CASE d # c
      BY <1>3, <1>s, <3>2 DEF CallsInv, ReportsBacked
    <3> QED
      BY <3>1, <3>2
  <2> QED
    BY <2>1, <2>2, <2>3, <2>4 DEF CallsInv
<1> QED
  BY <1>2, <1>3

(* A call whose request leaves with the nonce n.                           *)
SentCall(calls, c, n) == [calls EXCEPT ![c].pc = "sent", ![c].nonce = n]

(* It is the call it was but for these two fields.                         *)
LEMMA SentCallTyped ==
  ASSUME NEW Times, NEW calls \in CallSet(Times), NEW c \in Callers,
         NEW n \in Nat
  PROVE  LET sent == SentCall(calls, c, n)
         IN  /\ sent \in CallSet(Times)
             /\ sent[c].pc = "sent" /\ sent[c].nonce = n
             /\ sent[c].attempt = calls[c].attempt
             /\ sent[c].result = calls[c].result
             /\ \A d \in Callers \ {c} : sent[d] = calls[d]
<1> DEFINE marked == [calls EXCEPT ![c].pc = "sent"]
<1>1. /\ marked \in CallSet(Times)
      /\ marked[c].pc = "sent"
      /\ marked[c].attempt = calls[c].attempt
      /\ marked[c].result = calls[c].result
      /\ \A d \in Callers \ {c} : marked[d] = calls[d]
  BY DEF CallSet
<1>2. SentCall(calls, c, n) = [marked EXCEPT ![c].nonce = n]
  BY DEF SentCall
<1> HIDE DEF marked
<1> QED
  BY <1>1, <1>2 DEF CallSet

(* A request leaves with a nonce nobody has used.                          *)
LEMMA SendAgrees ==
  ASSUME CallsInv, NEW c \in Callers, call[c].pc = "ready",
         lastNonce' = lastNonce + 1, partner' = partner,
         call' = SentCall(call, c, lastNonce + 1)
  PROVE  CallsInv'
<1> PICK Times : call \in CallSet(Times)
  BY DEF CallsInv, CallsTyped
<1>0. lastNonce \in Nat /\ \A p \in partner : p \in Requests
  BY DEF CallsInv, RequestsApart
<1>1. /\ call' \in CallSet(Times)
      /\ call'[c].pc = "sent" /\ call'[c].nonce = lastNonce + 1
      /\ call'[c].attempt = call[c].attempt /\ call'[c].result = call[c].result
      /\ \A d \in Callers \ {c} : call'[d] = call[d]
  <2> DEFINE n == lastNonce + 1
  <2>1. n \in Nat /\ call' = SentCall(call, c, n)
    BY <1>0
  <2> HIDE DEF n
  <2>2. /\ call' \in CallSet(Times)
        /\ call'[c].pc = "sent" /\ call'[c].nonce = n
        /\ call'[c].attempt = call[c].attempt
        /\ call'[c].result = call[c].result
        /\ \A d \in Callers \ {c} : call'[d] = call[d]
    BY <2>1, SentCallTyped
  <2> QED
    BY <2>2 DEF n
<1>2. CallsTyped'
  BY <1>1 DEF CallsTyped
<1>4. RequestsApart'
  BY <1>0 DEF CallsInv, RequestsApart, Requests
<1>5. SentApart'
  <2>1. \A p \in partner : p.nonce \in Nat /\ p.nonce <= lastNonce
    BY <1>0 DEF CallsInv, RequestsApart, Requests
  <2>2. \A d \in Callers \ {c} :
          call[d].pc = "sent" => call[d].nonce <= lastNonce
    BY DEF CallsInv, SentApart
  <2>3. \A d \in Callers : call[d].nonce \in Nat
    BY DEF CallSet
  <2>4. \A d \in Callers \ {c} :
          call[d].pc = "sent" =>
            /\ \A p \in partner : p.nonce # call[d].nonce
            /\ \A e \in Callers \ {d} :
                 call[e].pc = "sent" => call[e].nonce # call[d].nonce
    BY DEF CallsInv, SentApart
  <2> QED
    BY <1>0, <1>1, <2>1, <2>2, <2>3, <2>4 DEF SentApart
<1>6. AttemptsSeen'
  BY <1>0, <1>1 DEF CallsInv, AttemptsSeen, SeenOf, Requests, CallSet
<1>7. ReportsBacked'
  BY <1>1 DEF CallsInv, ReportsBacked
<1> QED
  BY <1>2, <1>4, <1>5, <1>6, <1>7 DEF CallsInv

(* A call that begins has shown the partner nothing.                       *)
LEMMA DoAgrees ==
  ASSUME CallsInv, NEW c \in Callers, Do(c)
  PROVE  CallsInv'
<1> PICK Times : call \in CallSet(Times)
  BY DEF CallsInv, CallsTyped
<1> DEFINE Later == Times \cup {now}
<1>1. call' \in CallSet(Later)
  BY DEF Do, CallSet
<1>2. CallsTyped'
  BY <1>1 DEF CallsTyped
<1>3. /\ call[c].pc = "idle" /\ call'[c].pc = "ready"
      /\ call'[c].attempt = call[c].attempt
      /\ \A d \in Callers \ {c} : call'[d] = call[d]
      /\ partner' = partner /\ lastNonce' = lastNonce
  BY DEF Do, CallSet
<1>4. RequestsApart'
  BY <1>3 DEF CallsInv, RequestsApart
<1>5. SentApart'
  BY <1>3 DEF CallsInv, SentApart
<1>6. AttemptsSeen'
  BY <1>3 DEF CallsInv, AttemptsSeen, RequestsApart, SeenOf, Requests, CallSet
<1>7. ReportsBacked'
  BY <1>3 DEF CallsInv, ReportsBacked
<1> QED
  BY <1>2, <1>4, <1>5, <1>6, <1>7 DEF CallsInv

(* An answer reaches the partner's record and the call in one step.        *)
LEMMA AnswerAgrees ==
  ASSUME CallsInv, NEW c \in Callers, NEW answer \in Answers,
         Answer(c, answer) \/ PlainAnswer(c, answer)
  PROVE  CallsInv'
<1>1. /\ call[c].pc = "sent" /\ lastNonce' = lastNonce
      /\ Arrives(c, answer)
      /\ answer \in Results
  BY DEF Answer, PlainAnswer, Results
<1>2. CallsTyped' /\ Settled(c, answer)
  <2>1. CASE Return(c, answer)
    BY <1>1, <2>1, ReturnSettles DEF CallsInv
  <2>2. ASSUME NEW delay, answer \notin Final(c), Again(c, answer, delay)
        PROVE  CallsTyped' /\ Settled(c, answer)
    BY <1>1, <2>2, AgainSettles DEF CallsInv
  <2>3. CASE Answer(c, answer)
    BY <2>1, <2>2, <2>3 DEF Answer, AfterError, Final, Retried, Answers
  <2>4. CASE PlainAnswer(c, answer)
    BY <2>1, <2>2, <2>4 DEF PlainAnswer, Final, Retried
  <2> QED
    BY <2>3, <2>4
<1> QED
  BY <1>1, <1>2, SettledAgrees DEF Arrives, Final, Retried, Answers

(* Every step of the clients.                                              *)
LEMMA NextCalls ==
  ASSUME CallsInv, [ClientNext]_<<vars, client>>
  PROVE  CallsInv'
<1>1. ASSUME UNCHANGED <<call, partner, lastNonce>> PROVE CallsInv'
  BY <1>1
     DEF CallsInv, CallsTyped, RequestsApart, SentApart, AttemptsSeen,
         ReportsBacked
<1>2. CASE ClientTick
  BY <1>1, <1>2 DEF ClientTick, client
<1>3. CASE UNCHANGED <<vars, client>>
  BY <1>1, <1>3 DEF client
<1>4. ASSUME NEW c \in Callers, Do(c) PROVE CallsInv'
  BY <1>4, DoAgrees
<1>5. ASSUME NEW c \in Callers, Send(c) \/ PlainSend(c) PROVE CallsInv'
  BY <1>5, SendAgrees DEF Send, PlainSend, Due, NonceOf, SentCall
<1>6. ASSUME NEW c \in Callers, RefusedByBreaker(c) PROVE CallsInv'
  <2>1. "open" \in Results \ Final(c)
    BY DEF Results, Final, Answers
  <2>2. CallsTyped' /\ Settled(c, "open")
    BY <1>6, <2>1, AgainSettles DEF RefusedByBreaker, AfterError, CallsInv
  <2> QED
    BY <1>6, <2>1, <2>2, SettledAgrees DEF RefusedByBreaker, Due
<1>7. ASSUME NEW c \in Callers, Cancel(c) PROVE CallsInv'
  BY <1>1, <1>7 DEF Cancel
<1>8. ASSUME NEW c \in Callers, GiveUp(c) PROVE CallsInv'
  <2>1. "cancelled" \in Results \ Final(c)
    BY DEF Results, Final, Answers
  <2>2. CallsTyped' /\ Settled(c, "cancelled")
    BY <1>8, <2>1, ReturnSettles DEF GiveUp, CallsInv
  <2> QED
    BY <1>8, <2>1, <2>2, SettledAgrees DEF GiveUp
<1>9. ASSUME NEW c \in Callers, NEW answer \in Answers,
             Answer(c, answer) \/ PlainAnswer(c, answer)
      PROVE  CallsInv'
  BY <1>9, AnswerAgrees
<1> QED
  BY <1>2, <1>3, <1>4, <1>5, <1>6, <1>7, <1>8, <1>9 DEF ClientNext

(* However requests are lost, refused, answered late or cancelled, and     *)
(* whatever the breaker admits, for any callers and number of retries: the *)
(* partner sees no nonce twice and no attempt after its final answer, and  *)
(* every call reports what its partner answered.                           *)
THEOREM CallsAgreeAlways == ClientSpec => []CallsAgreeWithPartner
<1>1. Init /\ ClientInit => CallsInv
  BY InitCalls
<1>2. CallsInv /\ [ClientNext]_<<vars, client>> => CallsInv'
  BY NextCalls
<1> QED
  BY <1>1, <1>2, CallsAgree, PTL DEF ClientSpec

-----------------------------------------------------------------------------
(* The lock.                                                               *)

(* A key that is free backs no lease, and a key with a caller's token backs *)
(* no lease of another.                                                    *)
LEMMA LeaseOfOwner ==
  ASSUME L!IInv, NEW c \in LockCallers, caller[c] = "holding", lease[c] > lockNow
  PROVE  ~ L!Free /\ lockKey.token.owner = c
<1>1. /\ lockKey.set
      /\ lockKey.token = [owner |-> c, number |-> drawn[c]]
      /\ lockKey.expires >= lease[c]
  BY DEF L!IInv, L!LeaseBacked
<1>2. lockNow \in Int /\ lease[c] \in Int /\ lockKey.expires \in Int
  BY DEF L!IInv, L!TypeOK
<1>3. QED
  BY <1>1, <1>2 DEF L!Free

(* Every operation of lock.go, and the passing of time, keeps the invariant. *)
LEMMA LockPreserved ==
  ASSUME L!RedisLockAssumption, L!IInv, [L!Next]_(L!lockVars)
  PROVE  L!IInv'
<1>1. Ttl \in Nat /\ Wait \in Nat /\ LockMaxTime \in Nat /\ MaxAttempts \in Nat
  BY DEF L!RedisLockAssumption
<1>2. L!TypeOK /\ L!MayDraw /\ L!LeaseBacked
  BY DEF L!IInv
<1>3. ASSUME NEW c \in LockCallers, L!Lock(c)
      PROVE  L!IInv'
  <2>1. L!TypeOK'
    BY <1>1, <1>2, <1>3 DEF L!TypeOK, L!Lock
  <2>2. L!MayDraw'
    BY <1>2, <1>3 DEF L!TypeOK, L!MayDraw, L!Lock
  <2>3. L!LeaseBacked'
    BY <1>2, <1>3 DEF L!TypeOK, L!LeaseBacked, L!Lock
  <2>4. QED
    BY <2>1, <2>2, <2>3 DEF L!IInv
<1>4. ASSUME NEW c \in LockCallers, L!TryLockAcquires(c)
      PROVE  L!IInv'
  <2>1. lockNow + Ttl \in Nat /\ drawn[c] \in Nat /\ drawn[c] + 1 \in 0 .. MaxAttempts
    BY <1>1, <1>2, <1>4 DEF L!TypeOK, L!MayDraw, L!TryLockAcquires
  <2>2. L!newLockToken(c) \in L!Token
    BY <2>1 DEF L!newLockToken, L!Token
  <2>3. L!TypeOK'
    BY <1>2, <1>4, <2>1, <2>2 DEF L!TypeOK, L!TryLockAcquires
  <2>4. L!MayDraw'
    BY <1>2, <1>4 DEF L!TypeOK, L!MayDraw, L!TryLockAcquires
  <2>5. ASSUME NEW d \in LockCallers, caller'[d] = "holding", lease'[d] > lockNow'
        PROVE  /\ lockKey'.set
               /\ lockKey'.token = [owner |-> d, number |-> drawn'[d]]
               /\ lockKey'.expires >= lease'[d]
    <3>1. CASE d = c
      <4>1. caller'[c] = "holding" /\ lease'[c] = lockNow + Ttl
        BY <1>2, <1>4, <2>5, <3>1 DEF L!TypeOK, L!TryLockAcquires
      <4>2. drawn'[c] = drawn[c] + 1
        BY <1>2, <1>4 DEF L!TypeOK, L!TryLockAcquires
      <4>3. QED
        BY <1>4, <2>1, <3>1, <4>1, <4>2 DEF L!TryLockAcquires, L!newLockToken
    <3>2. CASE d /= c
      <4>1. caller[d] = "holding" /\ lease[d] > lockNow
        BY <1>2, <1>4, <2>5, <3>2 DEF L!TypeOK, L!TryLockAcquires
      <4>2. QED
        BY <1>4, <4>1, LeaseOfOwner DEF L!TryLockAcquires
    <3>3. QED
      BY <3>1, <3>2
  <2>6. QED
    BY <2>3, <2>4, <2>5 DEF L!IInv, L!LeaseBacked
<1>5. ASSUME NEW c \in LockCallers, L!TryLockTaken(c) \/ L!LockFails(c)
      PROVE  L!IInv'
  <2>1. /\ UNCHANGED <<lockNow, lockKey, drawn, deadline, lease>>
        /\ \/ caller' = caller
           \/ caller' = [caller EXCEPT ![c] = "idle"]
    BY <1>2, <1>5 DEF L!TypeOK, L!TryLockTaken, L!LockFails
  <2>2. L!TypeOK'
    BY <1>2, <2>1 DEF L!TypeOK
  <2>3. L!MayDraw'
    BY <1>2, <2>1 DEF L!TypeOK, L!MayDraw
  <2>4. L!LeaseBacked'
    BY <1>2, <2>1 DEF L!TypeOK, L!LeaseBacked
  <2>5. QED
    BY <2>2, <2>3, <2>4 DEF L!IInv
<1>6. ASSUME NEW c \in LockCallers, L!Unlock(c)
      PROVE  L!IInv'
  <2>1. L!TypeOK'
    <3>1. lockKey' \in [set : BOOLEAN, token : L!Token, expires : Nat]
      BY <1>2, <1>6 DEF L!TypeOK, L!Unlock
    <3>2. /\ caller' = [caller EXCEPT ![c] = "idle"]
          /\ lease' = [lease EXCEPT ![c] = lockNow]
          /\ lockNow \in Nat
          /\ UNCHANGED <<lockNow, drawn, deadline>>
      BY <1>1, <1>2, <1>6 DEF L!TypeOK, L!Unlock
    <3>3. QED
      BY <1>2, <3>1, <3>2 DEF L!TypeOK
  <2>2. L!MayDraw'
    BY <1>2, <1>6 DEF L!TypeOK, L!MayDraw, L!Unlock
  <2>3. ASSUME NEW d \in LockCallers, caller'[d] = "holding", lease'[d] > lockNow'
        PROVE  /\ lockKey'.set
               /\ lockKey'.token = [owner |-> d, number |-> drawn'[d]]
               /\ lockKey'.expires >= lease'[d]
    <3>1. d /= c
      BY <1>2, <1>6, <2>3 DEF L!TypeOK, L!Unlock
    <3>2. caller[d] = "holding" /\ lease[d] > lockNow
      BY <1>2, <1>6, <2>3, <3>1 DEF L!TypeOK, L!Unlock
    <3>3. ~ L!Holds(c)
      BY <3>1, <3>2, LeaseOfOwner DEF L!Holds
    <3>4. QED
      BY <1>2, <1>6, <3>1, <3>2, <3>3 DEF L!TypeOK, L!LeaseBacked, L!Unlock
  <2>4. QED
    BY <2>1, <2>2, <2>3 DEF L!IInv, L!LeaseBacked
<1>7. ASSUME NEW c \in LockCallers, L!Renew(c)
      PROVE  L!IInv'
  <2>1. CASE ~ L!Holds(c)
    <3>1. UNCHANGED L!lockVars
      BY <1>7, <2>1 DEF L!Renew, L!lockVars
    <3>2. QED
      BY <1>2, <3>1 DEF L!IInv, L!TypeOK, L!MayDraw, L!LeaseBacked, L!lockVars
  <2>2. CASE L!Holds(c)
    <3>1. lockNow + Ttl \in Nat
      BY <1>1, <1>2 DEF L!TypeOK
    <3>2. L!TypeOK'
      BY <1>2, <1>7, <2>2, <3>1 DEF L!TypeOK, L!Renew
    <3>3. L!MayDraw'
      BY <1>2, <1>7 DEF L!TypeOK, L!MayDraw, L!Renew
    <3>4. ASSUME NEW d \in LockCallers, caller'[d] = "holding", lease'[d] > lockNow'
          PROVE  /\ lockKey'.set
                 /\ lockKey'.token = [owner |-> d, number |-> drawn'[d]]
                 /\ lockKey'.expires >= lease'[d]
      <4>1. d = c
        <5> SUFFICES ASSUME d /= c
                     PROVE  FALSE
          OBVIOUS
        <5>1. caller[d] = "holding" /\ lease[d] > lockNow
          BY <1>2, <1>7, <2>2, <3>4 DEF L!TypeOK, L!Renew
        <5>2. QED
          BY <2>2, <5>1, LeaseOfOwner DEF L!Holds
      <4>2. lockKey'.expires = lockNow + Ttl /\ lease'[c] = lockNow + Ttl
        BY <1>2, <1>7, <2>2 DEF L!TypeOK, L!Renew
      <4>3. /\ lockKey'.set = lockKey.set
            /\ lockKey'.token = lockKey.token
            /\ drawn' = drawn
        BY <1>2, <1>7, <2>2 DEF L!TypeOK, L!Renew
      <4>4. lockKey.set /\ lockKey.token = [owner |-> c, number |-> drawn[c]]
        BY <2>2 DEF L!Holds, L!Free
      <4>5. QED
        BY <3>1, <4>1, <4>2, <4>3, <4>4
    <3>5. QED
      BY <3>2, <3>3, <3>4 DEF L!IInv, L!LeaseBacked
  <2>3. QED
    BY <2>1, <2>2
<1>8. CASE L!Tick
  <2>1. L!TypeOK'
    BY <1>1, <1>2, <1>8 DEF L!TypeOK, L!Tick
  <2>2. L!MayDraw' /\ L!LeaseBacked'
    BY <1>1, <1>2, <1>8 DEF L!TypeOK, L!MayDraw, L!LeaseBacked, L!Tick
  <2>3. QED
    BY <2>1, <2>2 DEF L!IInv
<1>9. CASE UNCHANGED L!lockVars
  BY <1>2, <1>9 DEF L!IInv, L!TypeOK, L!MayDraw, L!LeaseBacked, L!lockVars
<1>10. QED
  BY <1>3, <1>4, <1>5, <1>6, <1>7, <1>8, <1>9 DEF L!Next

(* The types of the lock's state, that a token is left for whoever waits   *)
(* and that every lease is backed, for any callers, Ttl and Wait.          *)
LEMMA LockInvariance ==
  ASSUME L!RedisLockAssumption
  PROVE  L!Spec => []L!IInv
<1>1. L!Init => L!IInv
  <2> SUFFICES ASSUME L!Init
               PROVE  L!IInv
    OBVIOUS
  <2>1. PICK c \in LockCallers : TRUE
    BY DEF L!RedisLockAssumption
  <2>2. MaxAttempts \in Nat /\ LockMaxTime \in Nat
    BY DEF L!RedisLockAssumption
  <2>3. [owner |-> c, number |-> 0] \in L!Token
    BY <2>2 DEF L!Token
  <2>4. (CHOOSE t \in L!Token : TRUE) \in L!Token
    BY <2>3
  <2>5. L!TypeOK
    BY <2>2, <2>4 DEF L!Init, L!TypeOK
  <2>6. L!MayDraw /\ L!LeaseBacked
    BY DEF L!Init, L!MayDraw, L!LeaseBacked
  <2>7. QED
    BY <2>5, <2>6 DEF L!IInv
<1>2. L!IInv /\ [L!Next]_(L!lockVars) => L!IInv'
  BY LockPreserved
<1>3. QED
  BY <1>1, <1>2, PTL DEF L!Spec

(* No two callers hold a lease at a time, for any number of callers and    *)
(* processes, whatever answers of Redis are lost.                          *)
THEOREM LeaseExclusiveAlways == L!Spec => []LeaseExclusive
<1>1. L!IInv => LeaseExclusive
  <2> SUFFICES ASSUME L!IInv, NEW c \in LockCallers, NEW d \in LockCallers,
                      caller[c] = "holding", lease[c] > lockNow,
                      caller[d] = "holding", lease[d] > lockNow
               PROVE  c = d
    BY DEF LeaseExclusive, L!LeaseExclusive
  <2>1. QED
    BY LeaseOfOwner
<1>2. L!RedisLockAssumption
  BY GuardsAssumption
<1>3. QED
  BY <1>1, <1>2, LockInvariance, PTL

-----------------------------------------------------------------------------
(* The token bucket.                                                       *)

(* The draws from the i-th on, in units of refill.                         *)
DrawnFrom(i, list) == R!InUnits(Len(list) - i + 1)

(* What has been drawn since some draw, with what is left, is no more than *)
(* a full bucket and what was refilled since; an unused key is forgotten   *)
(* only when it would have been full.                                      *)
RoomSince(i, list, tokens, time) ==
  DrawnFrom(i, list) + tokens <= R!Full + (time - list[i])

FilledAt(b, list, time) ==
  /\ b \in [tokens : 0 .. R!Full, ts : Nat, expires : Nat]
  /\ \A i \in 1 .. Len(list) :
       list[i] <= time /\ RoomSince(i, list, b.tokens, time)

BucketInv ==
  /\ milli \in Nat /\ elapsed \in Nat
  /\ admitted \in Seq(Nat)
  /\ IF bucket = R!NoBucket THEN admitted = <<>>
     ELSE FilledAt(bucket, admitted, elapsed)
  /\ R!RateHeld

(* A full bucket is a number of units.                                     *)
LEMMA FullTyped == R!Full \in Nat
BY GuardsAssumption DEF R!RateBucketAssumption, R!InUnits, R!Full

(* So is any number of tokens.                                             *)
LEMMA UnitsTyped ==
  /\ \A n \in Int : R!InUnits(n) \in Int
  /\ \A n \in Nat : R!InUnits(n) \in Nat
BY GuardsAssumption DEF R!RateBucketAssumption, R!InUnits, R!Full

(* Units add up.                                                           *)
LEMMA UnitsAdd ==
  ASSUME NEW l \in Int, NEW m \in Int, NEW n \in Int, l = m + n
  PROVE  R!InUnits(l) = R!InUnits(m) + R!InUnits(n)
BY GuardsAssumption DEF R!RateBucketAssumption, R!InUnits

(* More tokens are no fewer units.                                         *)
LEMMA UnitsGrow ==
  ASSUME NEW m \in Int, NEW n \in Int, m <= n
  PROVE  R!InUnits(m) <= R!InUnits(n)
BY GuardsAssumption DEF R!RateBucketAssumption, R!InUnits

(* The entries of a list of draws.                                         *)
LEMMA EntryFacts ==
  ASSUME NEW list \in Seq(Nat), NEW i \in 1 .. Len(list)
  PROVE  list[i] \in Nat /\ DrawnFrom(i, list) \in Int
<1>1. list[i] \in Nat
  OBVIOUS
<1> DEFINE k == Len(list) - i + 1
<1>2. k \in Int
  OBVIOUS
<1> HIDE DEF k
<1>3. R!InUnits(k) \in Int
  BY <1>2, UnitsTyped
<1> QED
  BY <1>1, <1>3 DEF DrawnFrom, k

(* The time between two calls; a key that has expired has not been used    *)
(* for as long as it lives.                                                *)
LEMMA SinceLastFacts ==
  ASSUME BucketInv, NEW time \in Readings
  PROVE  /\ R!SinceLast(time) \in Nat /\ time \in Nat
         /\ bucket # R!NoBucket =>
              /\ R!Delta(time) \in Nat
              /\ R!SinceLast(time) >= R!Delta(time)
              /\ bucket.expires <= milli => R!SinceLast(time) >= 2 * R!Full
<1>1. time \in Nat /\ milli \in Nat /\ R!Full \in Nat
  BY FullTyped, GuardsAssumption DEF BucketInv, R!RateBucketAssumption
<1>2. CASE bucket = R!NoBucket
  BY <1>1, <1>2 DEF R!SinceLast
<1>3. CASE bucket # R!NoBucket
  <2>1. bucket.ts \in Nat /\ bucket.expires \in Nat
    BY <1>3 DEF BucketInv, FilledAt
  <2>2. R!Delta(time) \in Nat
    BY <1>1, <2>1 DEF R!Delta, R!Greatest
  <2> DEFINE life == milli - (bucket.expires - R!BucketLife)
             delta == R!Delta(time)
  <2>3. life \in Int /\ (bucket.expires <= milli => life >= 2 * R!Full)
    BY <1>1, <2>1 DEF R!BucketLife
  <2>4. R!SinceLast(time) = IF bucket.expires <= milli
                            THEN R!Greatest(delta, life) ELSE delta
    BY <1>3 DEF R!SinceLast, R!Gone
  <2> HIDE DEF life, delta
  <2>5. delta \in Nat
    BY <2>2 DEF delta
  <2>6. CASE bucket.expires <= milli
    <3>1. R!Greatest(delta, life) = IF delta > life THEN delta ELSE life
      BY DEF R!Greatest
    <3>2. /\ R!SinceLast(time) \in Nat /\ R!SinceLast(time) >= delta
          /\ R!SinceLast(time) >= life
      BY <1>1, <2>3, <2>4, <2>5, <2>6, <3>1
    <3> QED
      BY <1>1, <1>3, <2>3, <2>5, <2>6, <3>2 DEF delta
  <2>7. CASE ~ (bucket.expires <= milli)
    BY <1>1, <1>3, <2>4, <2>5, <2>7 DEF delta
  <2> QED
    BY <2>6, <2>7
<1> QED
  BY <1>2, <1>3

(* The script finds no more than a full bucket, and room since every draw, *)
(* whether the key is there, is new or has expired.                        *)
LEMMA TokensFit ==
  ASSUME BucketInv, NEW time \in Readings, NEW later,
         later = elapsed + R!SinceLast(time)
  PROVE  /\ R!Tokens(time) \in 0 .. R!Full
         /\ later \in Nat
         /\ \A i \in 1 .. Len(admitted) :
              admitted[i] <= later /\ RoomSince(i, admitted, R!Tokens(time), later)
<1>1. R!Full \in Nat /\ later \in Nat /\ elapsed \in Nat /\ elapsed <= later
  BY FullTyped, SinceLastFacts DEF BucketInv
<1>2. CASE bucket = R!NoBucket
  BY <1>1, <1>2 DEF BucketInv, R!Tokens, R!Gone
<1>3. CASE bucket # R!NoBucket
  <2>1. FilledAt(bucket, admitted, elapsed)
    BY <1>3 DEF BucketInv
  <2>2. /\ bucket.tokens \in 0 .. R!Full
        /\ R!Delta(time) \in Nat /\ R!Delta(time) <= later - elapsed
        /\ bucket.expires <= milli => 2 * R!Full <= later - elapsed
    <3>1. /\ R!SinceLast(time) \in Nat /\ R!Delta(time) \in Nat
          /\ R!SinceLast(time) >= R!Delta(time)
          /\ bucket.expires <= milli => R!SinceLast(time) >= 2 * R!Full
      BY <1>3, SinceLastFacts
    <3>2. later - elapsed = R!SinceLast(time)
      BY <1>1, <3>1
    <3> QED
      BY <1>1, <2>1, <3>1, <3>2 DEF FilledAt
  <2>3. R!Tokens(time) = IF bucket.expires <= milli THEN R!Full
                         ELSE R!Least(R!Full, bucket.tokens + R!Delta(time))
    BY <1>3 DEF R!Tokens, R!Gone
  <2>4. /\ R!Tokens(time) \in 0 .. R!Full
        /\ \/ R!Tokens(time) <= bucket.tokens + (later - elapsed)
           \/ R!Tokens(time) = R!Full /\ 2 * R!Full <= later - elapsed
    <3>1. CASE bucket.expires <= milli
      BY <1>1, <2>2, <2>3, <3>1
    <3>2. CASE ~ (bucket.expires <= milli)
      BY <1>1, <2>2, <2>3, <3>2 DEF R!Least
    <3> QED
      BY <3>1, <3>2
  <2>5. ASSUME NEW i \in 1 .. Len(admitted)
        PROVE  /\ admitted[i] <= later
               /\ RoomSince(i, admitted, R!Tokens(time), later)
    <3>1. admitted[i] \in Nat /\ DrawnFrom(i, admitted) \in Int
      BY EntryFacts DEF BucketInv
    <3>2. admitted[i] <= elapsed /\ RoomSince(i, admitted, bucket.tokens, elapsed)
      BY <2>1 DEF FilledAt
    <3>3. DrawnFrom(i, admitted) + bucket.tokens <= R!Full + (elapsed - admitted[i])
      BY <3>2 DEF RoomSince
    <3>4. DrawnFrom(i, admitted) + R!Tokens(time) <= R!Full + (later - admitted[i])
      <4> DEFINE full == R!Full
                 paid == DrawnFrom(i, admitted)
                 t == R!Tokens(time)
                 tokens == bucket.tokens
                 at == admitted[i]
      <4>1. /\ full \in Nat /\ paid \in Int /\ tokens \in Nat /\ t \in Nat
            /\ elapsed \in Nat /\ at \in Nat /\ later \in Nat
        BY <1>1, <2>2, <2>4, <3>1
      <4>2. /\ paid + tokens <= full + (elapsed - at) /\ elapsed <= later
            /\ \/ t <= tokens + (later - elapsed)
               \/ t = full /\ 2 * full <= later - elapsed
        BY <1>1, <2>4, <3>3
      <4> HIDE DEF full, paid, t, tokens, at
      <4>3. paid + t <= full + (later - at)
        BY <4>1, <4>2
      <4> QED
        BY <4>3 DEF full, paid, t, at
    <3>5. admitted[i] <= later
      BY <1>1, <3>1, <3>2
    <3> QED
      BY <3>4, <3>5 DEF RoomSince
  <2> QED
    BY <1>1, <2>4, <2>5
<1> QED
  BY <1>2, <1>3

(* What a draw does: it takes its tokens and appends itself as often, or   *)
(* leaves both as they are.                                                *)
LEMMA DrawEffect ==
  ASSUME BucketInv, NEW n \in Draws, NEW time \in Readings, R!AllowN(n, time)
  PROVE  /\ milli' = milli /\ n \in Nat
         /\ elapsed' = elapsed + R!SinceLast(time)
         /\ \E k \in {0, n} :
              /\ R!InUnits(k) <= R!Tokens(time)
              /\ bucket' = [tokens |-> R!Tokens(time) - R!InUnits(k), ts |-> time,
                            expires |-> milli + R!BucketLife]
              /\ admitted' = admitted \o [i \in 1 .. k |-> elapsed']
<1>1. /\ milli \in Nat /\ admitted \in Seq(Nat) /\ n \in Nat
      /\ R!Tokens(time) \in Nat /\ R!InUnits(n) \in Nat
  BY FullTyped, UnitsTyped, TokensFit, GuardsAssumption
     DEF BucketInv, R!RateBucketAssumption
<1>2. milli' = milli /\ elapsed' = elapsed + R!SinceLast(time)
  BY DEF R!AllowN
<1>3. CASE R!Tokens(time) >= R!InUnits(n)
  BY <1>1, <1>2, <1>3 DEF R!AllowN
<1>4. CASE ~ (R!Tokens(time) >= R!InUnits(n))
  <2>1. R!InUnits(0) = 0
    BY GuardsAssumption DEF R!RateBucketAssumption, R!InUnits
  <2>2. /\ bucket' = [tokens |-> R!Tokens(time), ts |-> time,
                      expires |-> milli + R!BucketLife]
        /\ admitted' = admitted
    BY <1>4 DEF R!AllowN
  <2>3. admitted = admitted \o [i \in 1 .. 0 |-> elapsed']
    BY <1>1
  <2>4. R!Tokens(time) - R!InUnits(0) = R!Tokens(time) /\ R!InUnits(0) <= R!Tokens(time)
    BY <1>1, <2>1
  <2>5. /\ bucket' = [tokens |-> R!Tokens(time) - R!InUnits(0), ts |-> time,
                      expires |-> milli + R!BucketLife]
        /\ admitted' = admitted \o [i \in 1 .. 0 |-> elapsed']
    BY <2>2, <2>3, <2>4
  <2> QED
    BY <1>1, <1>2, <2>4, <2>5
<1> QED
  BY <1>3, <1>4

(* The list of draws after k more.                                         *)
LEMMA Appended ==
  ASSUME NEW list \in Seq(Nat), NEW k \in Nat, NEW time \in Nat, NEW more,
         more = list \o [i \in 1 .. k |-> time]
  PROVE  /\ more \in Seq(Nat) /\ Len(more) = Len(list) + k
         /\ \A i \in 1 .. Len(list) : more[i] = list[i]
         /\ \A i \in Len(list) + 1 .. Len(more) : more[i] = time
<1>1. [i \in 1 .. k |-> time] \in Seq(Nat)
  OBVIOUS
<1> QED
  BY <1>1

(* It leaves room since every draw, the new ones among them.               *)
LEMMA DrawLeavesRoom ==
  ASSUME NEW list \in Seq(Nat), NEW k \in Nat, NEW time \in Nat, NEW more,
         NEW tokens \in Nat, tokens <= R!Full, R!InUnits(k) <= tokens,
         more = list \o [i \in 1 .. k |-> time],
         \A i \in 1 .. Len(list) :
           list[i] <= time /\ RoomSince(i, list, tokens, time),
         NEW i \in 1 .. Len(more)
  PROVE  more[i] <= time /\ RoomSince(i, more, tokens - R!InUnits(k), time)
<1> DEFINE units == R!InUnits(k)
           full == R!Full
           here == DrawnFrom(i, more)
<1>1. /\ more \in Seq(Nat) /\ Len(more) = Len(list) + k /\ Len(list) \in Nat
      /\ \A j \in 1 .. Len(list) : more[j] = list[j]
      /\ \A j \in Len(list) + 1 .. Len(more) : more[j] = time
  BY Appended
<1>2. units \in Nat /\ full \in Nat /\ here \in Int /\ more[i] \in Nat
  BY <1>1, FullTyped, UnitsTyped, EntryFacts
<1>3. CASE i <= Len(list)
  <2>1. i \in 1 .. Len(list)
    BY <1>1, <1>3
  <2>2. more[i] = list[i] /\ list[i] <= time /\ RoomSince(i, list, tokens, time)
    BY <1>1, <2>1
  <2> DEFINE before == DrawnFrom(i, list)
             at == list[i]
  <2>3. before \in Int /\ at \in Nat
    BY <2>1, EntryFacts
  <2>4. before + tokens <= full + (time - at)
    BY <2>2 DEF RoomSince
  <2>5. here = before + units
    <3>1. /\ Len(more) - i + 1 = (Len(list) - i + 1) + k
          /\ Len(more) - i + 1 \in Int /\ Len(list) - i + 1 \in Int /\ k \in Int
      BY <1>1
    <3> QED
      BY <3>1, UnitsAdd DEF DrawnFrom
  <2> HIDE DEF before, at, here, units, full
  <2>6. here + (tokens - units) <= full + (time - at)
    BY <1>2, <2>3, <2>4, <2>5
  <2> QED
    BY <2>2, <2>6 DEF RoomSince, at, here, units, full
<1>4. CASE i > Len(list)
  <2>1. more[i] = time
    BY <1>1, <1>4
  <2>2. here <= units
    <3>1. Len(more) - i + 1 \in Int /\ k \in Int /\ Len(more) - i + 1 <= k
      BY <1>1, <1>4
    <3> QED
      BY <3>1, UnitsGrow DEF DrawnFrom
  <2> HIDE DEF here, units, full
  <2>3. tokens <= full
    BY DEF full
  <2>4. here + (tokens - units) <= full + (time - time)
    BY <1>2, <2>2, <2>3
  <2>5. time <= time
    OBVIOUS
  <2> QED
    BY <2>1, <2>4, <2>5 DEF RoomSince, here, units, full
<1> QED
  BY <1>1, <1>3, <1>4

(* The whole effect of a draw.                                             *)
LEMMA DrawFits ==
  ASSUME BucketInv, NEW n \in Draws, NEW time \in Readings, R!AllowN(n, time)
  PROVE  /\ admitted' \in Seq(Nat) /\ elapsed' \in Nat
         /\ FilledAt(bucket', admitted', elapsed')
<1>0. elapsed' = elapsed + R!SinceLast(time)
  BY DrawEffect
<1>1. /\ milli \in Nat /\ admitted \in Seq(Nat) /\ n \in Nat /\ time \in Nat
      /\ R!Full \in Nat /\ R!Tokens(time) \in Nat /\ R!Tokens(time) <= R!Full
      /\ elapsed' \in Nat
  <2>1. milli \in Nat /\ admitted \in Seq(Nat)
    BY DEF BucketInv
  <2>2. n \in Nat /\ time \in Nat
    BY GuardsAssumption DEF R!RateBucketAssumption
  <2> QED
    BY <1>0, <2>1, <2>2, FullTyped, TokensFit
<1>2. PICK k \in {0, n} :
        /\ R!InUnits(k) <= R!Tokens(time)
        /\ bucket' = [tokens |-> R!Tokens(time) - R!InUnits(k), ts |-> time,
                      expires |-> milli + R!BucketLife]
        /\ admitted' = admitted \o [i \in 1 .. k |-> elapsed']
  BY DrawEffect
<1>3. k \in Nat /\ R!InUnits(k) \in Nat
  <2>1. k \in Nat
    BY <1>1
  <2> QED
    BY <2>1, UnitsTyped
<1>4. admitted' \in Seq(Nat)
  BY <1>1, <1>2, <1>3, Appended
<1>5. ASSUME NEW i \in 1 .. Len(admitted')
      PROVE  /\ admitted'[i] <= elapsed'
             /\ RoomSince(i, admitted', R!Tokens(time) - R!InUnits(k), elapsed')
  <2>1. \A l \in 1 .. Len(admitted) :
          /\ admitted[l] <= elapsed'
          /\ RoomSince(l, admitted, R!Tokens(time), elapsed')
    BY <1>0, TokensFit
  <2> QED
    BY <1>1, <1>2, <1>3, <2>1, DrawLeavesRoom
<1>6. /\ R!Tokens(time) - R!InUnits(k) \in 0 .. R!Full
      /\ milli + R!BucketLife \in Nat
  BY <1>1, <1>2, <1>3 DEF R!BucketLife
<1>7. /\ bucket'.tokens = R!Tokens(time) - R!InUnits(k)
      /\ bucket' \in [tokens : 0 .. R!Full, ts : Nat, expires : Nat]
  BY <1>1, <1>2, <1>6
<1> QED
  BY <1>1, <1>4, <1>5, <1>7 DEF FilledAt

(* A draw keeps to the rate.                                               *)
LEMMA DrawHeld ==
  ASSUME BucketInv, NEW n \in Draws, NEW time \in Readings, R!AllowN(n, time)
  PROVE  R!RateHeld'
<1> DEFINE list == admitted'
<1> DEFINE last == elapsed'
<1>1. /\ list \in Seq(Nat) /\ Len(list) \in Nat /\ last \in Nat
      /\ admitted \in Seq(Nat) /\ Len(admitted) \in Nat
      /\ FilledAt(bucket', list, last)
  BY DrawFits DEF BucketInv
<1>2. PICK k \in {0, n} : list = admitted \o [i \in 1 .. k |-> last]
  BY DrawEffect
<1>3. /\ Len(admitted) <= Len(list)
      /\ \A i \in 1 .. Len(admitted) : list[i] = admitted[i]
      /\ \A i \in Len(admitted) + 1 .. Len(list) : list[i] = last
  <2>1. k \in Nat
    BY GuardsAssumption DEF R!RateBucketAssumption
  <2> QED
    BY <1>1, <1>2, <2>1, Appended
<1> SUFFICES ASSUME NEW i \in 1 .. Len(list), NEW j \in 1 .. Len(list), i <= j
             PROVE  R!InUnits(j - i + 1) <= R!Full + (list[j] - list[i])
  BY DEF R!RateHeld
<1>4. CASE j <= Len(admitted)
  <2>1. i \in 1 .. Len(admitted) /\ j \in 1 .. Len(admitted)
    BY <1>1, <1>4
  <2>2. R!InUnits(j - i + 1) <= R!Full + (admitted[j] - admitted[i])
    BY <2>1 DEF BucketInv, R!RateHeld
  <2> QED
    BY <1>3, <2>1, <2>2
<1>5. CASE j > Len(admitted)
  <2> DEFINE since == DrawnFrom(i, list)
             here == R!InUnits(j - i + 1)
             full == R!Full
             at == list[i]
             tokens == bucket'.tokens
  <2>1. list[j] = last
    BY <1>1, <1>3, <1>5
  <2>2. tokens \in 0 .. R!Full /\ RoomSince(i, list, tokens, last)
    BY <1>1, <1>2 DEF FilledAt
  <2>3. since + tokens <= full + (last - at)
    BY <2>2 DEF RoomSince
  <2>4. here <= since
    <3>1. /\ j - i + 1 \in Int /\ Len(list) - i + 1 \in Int
          /\ j - i + 1 <= Len(list) - i + 1
      BY <1>1
    <3> QED
      BY <3>1, UnitsGrow DEF DrawnFrom
  <2>5. full \in Nat /\ since \in Int /\ at \in Nat
    BY <1>1, FullTyped, EntryFacts
  <2>6. here \in Int
    <3>1. j - i + 1 \in Int
      BY <1>1
    <3> QED
      BY <3>1, UnitsTyped
  <2>7. tokens \in Nat
    BY <2>2, FullTyped
  <2> HIDE DEF since, here, full, at, tokens, last
  <2>8. here <= full + (last - at)
    BY <1>1, <2>3, <2>4, <2>5, <2>6, <2>7
  <2> QED
    BY <2>1, <2>8 DEF here, full, at
<1> QED
  BY <1>1, <1>4, <1>5

(* Every operation of the limiter, and the passing of time.                *)
LEMMA NextBucket ==
  ASSUME BucketInv, [R!Next]_(R!bucketVars)
  PROVE  BucketInv'
<1>1. CASE R!Tick
  <2>1. milli' = milli + 1 /\ UNCHANGED <<bucket, elapsed, admitted>>
    BY <1>1 DEF R!Tick
  <2> QED
    BY <2>1 DEF BucketInv, FilledAt, R!RateHeld
<1>2. CASE R!Reset
  BY <1>2 DEF R!Reset, BucketInv, R!RateHeld, R!NoBucket
<1>3. ASSUME NEW n \in Draws, NEW time \in Readings, R!AllowN(n, time)
      PROVE  BucketInv'
  <2>1. milli' = milli /\ bucket'.tokens >= 0 /\ bucket' # R!NoBucket
    <3>1. milli' = milli
      BY <1>3 DEF R!AllowN
    <3>2. bucket'.tokens \in Nat
      BY <1>3, DrawFits, FullTyped DEF FilledAt
    <3> QED
      BY <3>1, <3>2 DEF R!NoBucket
  <2> QED
    BY <1>3, <2>1, DrawFits, DrawHeld DEF BucketInv
<1>4. CASE UNCHANGED R!bucketVars
  BY <1>4 DEF R!bucketVars, BucketInv, FilledAt, R!RateHeld
<1> QED
  BY <1>1, <1>2, <1>3, <1>4 DEF R!Next

(* The bucket holds its rate.                                              *)
LEMMA RateHeldAlways == R!Spec => []R!RateHeld
<1>1. R!Init => BucketInv
  BY DEF R!Init, BucketInv, R!RateHeld, R!NoBucket
<1>2. BucketInv /\ [R!Next]_(R!bucketVars) => BucketInv'
  BY NextBucket
<1>3. BucketInv => R!RateHeld
  BY DEF BucketInv
<1> QED
  BY <1>1, <1>2, <1>3, PTL DEF R!Spec

-----------------------------------------------------------------------------
(* The notifier.                                                           *)

(* The limiter remembers every send that still counts, the sends are in    *)
(* the order in which they were let through, and none was let through      *)
(* longer after its asker had read the clock than was ever waited.         *)
Sends == [read : Nat, at : Nat]

Ordered ==
  \A i, j \in DOMAIN allowed : i <= j => allowed[i].at <= allowed[j].at

LimiterInv ==
  /\ minute \in Nat /\ waited \in Nat
  /\ asked \in [Askers -> Nat] /\ \A a \in Askers : asked[a] <= minute
  /\ allowed \in Seq(Sends)
  /\ hits \subseteq DOMAIN allowed
  /\ Ordered
  /\ \A i \in DOMAIN allowed :
       /\ allowed[i].at <= minute /\ allowed[i].at - allowed[i].read <= waited
       /\ i \in hits \/ allowed[i].read <= minute - HitWindow
  /\ N!SpanBounded

(* The times of a send.                                                    *)
LEMMA SendTyped ==
  ASSUME LimiterInv, NEW i \in DOMAIN allowed
  PROVE  allowed[i].at \in Nat /\ allowed[i].read \in Nat
<1>1. allowed[i] \in Sends
  BY DEF LimiterInv
<1> QED
  BY <1>1 DEF Sends

(* The cardinality that the limiter compares is that of FiniteSets.        *)
LEMMA LimiterCardinality ==
  ASSUME NEW S
  PROVE  N!Cardinality(S) = Cardinality(S)
BY DEF N!Cardinality, Cardinality

(* What was let through less than the window and a wait ago still counts.  *)
LEMMA StillCounts ==
  ASSUME NEW first \in Nat, NEW at \in Nat, NEW read \in Nat, NEW window \in Nat,
         NEW wait \in Nat, NEW time \in Nat, NEW clock \in Nat, clock <= time,
         first <= at, at - read <= wait, ~ (first <= time - window + wait)
  PROVE  read > time - window /\ read > clock - window
OBVIOUS

(* A send that is let through has at most MaxHits - 1 others in its        *)
(* window: had it more, they would all be remembered.                      *)
LEMMA WindowHasRoom ==
  ASSUME LimiterInv, NEW now0 \in Nat, now0 <= minute,
         Cardinality(N!Kept(now0)) < MaxHits,
         NEW i \in DOMAIN allowed, i + MaxHits = Len(allowed) + 1
  PROVE  allowed[i].at <= minute - HitWindow + waited
<1> SUFFICES ASSUME ~ (allowed[i].at <= minute - HitWindow + waited) PROVE FALSE
  OBVIOUS
<1> DEFINE kept == N!Kept(now0)
<1>1. /\ allowed \in Seq(Sends) /\ Len(allowed) \in Nat /\ minute \in Nat
      /\ hits \subseteq 1 .. Len(allowed) /\ waited \in Nat
      /\ MaxHits \in Nat \ {0} /\ HitWindow \in Nat
      /\ i \in Nat /\ i <= Len(allowed) /\ i >= 1
  BY GuardsAssumption DEF LimiterInv, N!NotifyManagerAssumption
<1>2. ASSUME NEW j \in i .. Len(allowed) PROVE j \in kept
  <2>1. j \in DOMAIN allowed /\ i <= j /\ i \in DOMAIN allowed
    BY <1>1
  <2>2. /\ allowed[i].at <= allowed[j].at
        /\ allowed[j].at - allowed[j].read <= waited
        /\ j \in hits \/ allowed[j].read <= minute - HitWindow
    BY <2>1 DEF LimiterInv, Ordered
  <2>3. /\ allowed[i].at \in Nat /\ allowed[j].at \in Nat /\ allowed[j].read \in Nat
    BY <2>1, SendTyped
  <2>4. allowed[j].read > minute - HitWindow /\ allowed[j].read > now0 - HitWindow
    BY <1>1, <2>2, <2>3, StillCounts
  <2> QED
    BY <1>1, <2>1, <2>2, <2>3, <2>4 DEF N!Kept
<1>3. IsFiniteSet(kept)
  <2>1. kept \subseteq 1 .. Len(allowed)
    BY <1>1 DEF N!Kept
  <2> QED
    <3>1. IsFiniteSet(1 .. Len(allowed))
      BY <1>1, FS_Interval
    <3> QED
      BY <2>1, <3>1, FS_Subset
<1> HIDE DEF kept
<1>4. Cardinality(i .. Len(allowed)) <= Cardinality(kept)
  BY <1>2, <1>3, FS_Subset
<1>5. Cardinality(i .. Len(allowed)) = Len(allowed) - i + 1
  BY <1>1, FS_Interval
<1>6. Len(allowed) - i + 1 = MaxHits
  BY <1>1
<1>7. Cardinality(kept) \in Nat /\ Cardinality(kept) < MaxHits
  BY <1>3, FS_CardinalityType DEF kept
<1> QED
  BY <1>1, <1>4, <1>5, <1>6, <1>7

(* What a section under the lock does besides.                             *)
LEMMA LockedFacts ==
  ASSUME LimiterInv, NEW a \in Askers, N!Locked(a)
  PROVE  /\ minute' = minute /\ UNCHANGED N!senders
         /\ asked[a] \in Nat /\ asked[a] <= minute
         /\ asked' \in [Askers -> Nat] /\ \A b \in Askers : asked'[b] <= minute
BY DEF LimiterInv, N!Locked

(* AllowSend, when it lets a send through.                                 *)
LEMMA AllowKeeps ==
  ASSUME LimiterInv, NEW a \in Askers, N!Allow(a)
  PROVE  LimiterInv'
<1> DEFINE n == Len(allowed)
           read == asked[a]
           kept == N!Kept(read)
           wait == N!Longest(waited, minute - read)
<1>0. /\ minute' = minute /\ read \in Nat /\ read <= minute
      /\ asked' \in [Askers -> Nat] /\ \A b \in Askers : asked'[b] <= minute
  BY LockedFacts DEF N!Allow
<1>1. /\ allowed \in Seq(Sends) /\ n \in Nat /\ minute \in Nat /\ waited \in Nat
      /\ hits \subseteq 1 .. n /\ MaxHits \in Nat \ {0} /\ HitWindow \in Nat \ {0}
  BY GuardsAssumption DEF LimiterInv, N!NotifyManagerAssumption
<1>w. wait \in Nat /\ waited <= wait /\ minute - read <= wait /\ waited' = wait
  <2>1. minute - read \in Nat
    BY <1>0, <1>1
  <2> QED
    BY <1>1, <2>1 DEF N!Allow, N!Longest
<1>2. /\ allowed' \in Seq(Sends) /\ Len(allowed') = n + 1
      /\ DOMAIN allowed' = 1 .. n + 1 /\ DOMAIN allowed = 1 .. n
      /\ \A i \in 1 .. n : allowed'[i] = allowed[i] /\ allowed[i] \in Sends
      /\ allowed'[n + 1] = [read |-> read, at |-> minute]
      /\ hits' = kept \cup {n + 1}
  <2>1. [read |-> read, at |-> minute] \in Sends
    BY <1>0, <1>1 DEF Sends
  <2> QED
    BY <1>1, <2>1 DEF N!Allow
<1> HIDE DEF wait
<1>3. \A i \in 1 .. n :
        /\ allowed[i].at <= minute /\ allowed[i].at - allowed[i].read <= wait
        /\ i \in kept \/ allowed[i].read <= minute - HitWindow
  <2> SUFFICES ASSUME NEW i \in 1 .. n
               PROVE  /\ allowed[i].at <= minute
                      /\ allowed[i].at - allowed[i].read <= wait
                      /\ i \in kept \/ allowed[i].read <= minute - HitWindow
    OBVIOUS
  <2>1. /\ allowed[i].at <= minute /\ allowed[i].at - allowed[i].read <= waited
        /\ i \in hits \/ allowed[i].read <= minute - HitWindow
        /\ allowed[i].at \in Nat /\ allowed[i].read \in Nat
    BY <1>2 DEF LimiterInv, Sends
  <2>2. i \in kept \/ allowed[i].read <= minute - HitWindow
    BY <1>0, <1>1, <2>1 DEF N!Kept
  <2> QED
    BY <1>1, <1>w, <2>1, <2>2
<1>4. ASSUME NEW i \in 1 .. n + 1
      PROVE  /\ allowed'[i].at <= minute /\ allowed'[i].at - allowed'[i].read <= wait
             /\ i \in hits' \/ allowed'[i].read <= minute - HitWindow
  <2>1. CASE i = n + 1
    BY <1>0, <1>1, <1>2, <1>w, <2>1
  <2>2. CASE i \in 1 .. n
    BY <1>2, <1>3, <2>2
  <2> QED
    BY <1>1, <2>1, <2>2
<1>o. ASSUME NEW i \in 1 .. n + 1, NEW j \in 1 .. n + 1, i <= j
      PROVE  allowed'[i].at <= allowed'[j].at
  <2>1. CASE j = n + 1
    BY <1>2, <1>4, <2>1
  <2>2. CASE j \in 1 .. n
    <3>1. i \in 1 .. n
      BY <1>1, <1>o, <2>2
    <3>2. allowed[i].at <= allowed[j].at
      BY <1>2, <1>o, <2>2, <3>1 DEF LimiterInv, Ordered
    <3> QED
      BY <1>2, <2>2, <3>1, <3>2
  <2> QED
    BY <1>1, <2>1, <2>2
<1>5. hits' \subseteq DOMAIN allowed'
  <2>1. kept \subseteq 1 .. n
    BY <1>1 DEF N!Kept
  <2>2. n + 1 \in 1 .. n + 1 /\ 1 .. n \subseteq 1 .. n + 1
    BY <1>1
  <2> QED
    BY <1>2, <2>1, <2>2
<1>6. ASSUME NEW i \in 1 .. n + 1, i + MaxHits <= n + 1
      PROVE  allowed'[i + MaxHits].at - allowed'[i].at >= HitWindow - wait
  <2>1. i \in 1 .. n /\ i + MaxHits \in 1 .. n + 1
    BY <1>1, <1>6
  <2>t. allowed[i].at \in Nat /\ allowed'[i] = allowed[i]
    BY <1>2, <2>1 DEF Sends
  <2>2. CASE i + MaxHits = n + 1
    <3>0. Cardinality(kept) < MaxHits
      BY LimiterCardinality DEF N!Allow
    <3>1. allowed[i].at <= minute - HitWindow + waited
      BY <1>0, <1>2, <2>1, <2>2, <3>0, WindowHasRoom
    <3>2. allowed'[i + MaxHits].at = minute
      BY <1>2, <2>2
    <3> QED
      BY <1>1, <1>w, <2>t, <3>1, <3>2
  <2>3. CASE i + MaxHits # n + 1
    <3>1. i + MaxHits \in 1 .. n /\ i + MaxHits <= n
      BY <1>1, <2>1, <2>3
    <3>2. allowed[i + MaxHits].at - allowed[i].at >= HitWindow - waited
      BY <2>1, <3>1 DEF LimiterInv, N!SpanBounded
    <3>3. allowed'[i + MaxHits] = allowed[i + MaxHits] /\ allowed[i + MaxHits].at \in Nat
      BY <1>2, <3>1 DEF Sends
    <3> QED
      BY <1>1, <1>w, <2>t, <3>2, <3>3
  <2> QED
    BY <2>2, <2>3
<1>7. N!SpanBounded'
  BY <1>2, <1>6, <1>w DEF N!SpanBounded
<1>8. Ordered'
  BY <1>2, <1>o DEF Ordered
<1> QED
  BY <1>0, <1>1, <1>2, <1>4, <1>5, <1>7, <1>8, <1>w DEF LimiterInv

(* Refuse and Clean forget only what no longer counts.                     *)
LEMMA ForgetKeeps ==
  ASSUME LimiterInv, UNCHANGED <<minute, allowed, waited>>,
         asked' \in [Askers -> Nat], \A a \in Askers : asked'[a] <= minute,
         \/ hits' = hits
         \/ \E time \in Nat : time <= minute /\ hits' = N!Kept(time)
  PROVE  LimiterInv'
<1>1. /\ allowed \in Seq(Sends) /\ HitWindow \in Nat /\ minute \in Nat
      /\ hits \subseteq DOMAIN allowed
  BY GuardsAssumption DEF LimiterInv, N!NotifyManagerAssumption
<1>2. hits' \subseteq hits
  BY DEF N!Kept
<1>3. ASSUME NEW i \in DOMAIN allowed
      PROVE  i \in hits' \/ allowed[i].read <= minute - HitWindow
  <2>1. i \in hits \/ allowed[i].read <= minute - HitWindow
    BY DEF LimiterInv
  <2>2. allowed[i].read \in Nat
    BY SendTyped
  <2>3. ASSUME NEW time \in Nat, time <= minute, hits' = N!Kept(time), i \in hits
        PROVE  i \in hits' \/ allowed[i].read <= minute - HitWindow
    BY <1>1, <2>2, <2>3 DEF N!Kept
  <2> QED
    BY <2>1, <2>3
<1>4. N!SpanBounded' /\ Ordered'
  BY DEF LimiterInv, N!SpanBounded, Ordered
<1> QED
  BY <1>1, <1>2, <1>3, <1>4 DEF LimiterInv

(* Time passes, and what has aged need not be remembered.                  *)
LEMMA TickKeeps ==
  ASSUME LimiterInv, minute' = minute + 1, UNCHANGED <<asked, waited, hits, allowed>>
  PROVE  LimiterInv'
<1>1. /\ allowed \in Seq(Sends) /\ HitWindow \in Nat /\ minute \in Nat
      /\ waited \in Nat
  BY GuardsAssumption DEF LimiterInv, N!NotifyManagerAssumption
<1>2. ASSUME NEW i \in DOMAIN allowed
      PROVE  /\ allowed[i].at <= minute + 1
             /\ allowed[i].at - allowed[i].read <= waited
             /\ i \in hits \/ allowed[i].read <= minute + 1 - HitWindow
  <2>1. allowed[i].at \in Nat /\ allowed[i].read \in Nat
    BY SendTyped
  <2>2. /\ allowed[i].at <= minute /\ allowed[i].at - allowed[i].read <= waited
        /\ i \in hits \/ allowed[i].read <= minute - HitWindow
    BY DEF LimiterInv
  <2> QED
    BY <1>1, <2>1, <2>2
<1>3. \A a \in Askers : asked[a] <= minute + 1
  BY <1>1 DEF LimiterInv
<1>4. N!SpanBounded' /\ Ordered'
  BY DEF LimiterInv, N!SpanBounded, Ordered
<1> QED
  BY <1>1, <1>2, <1>3, <1>4 DEF LimiterInv

(* Every step of the limiter.                                              *)
LEMMA NextLimiter ==
  ASSUME LimiterInv, N!LimiterNext \/ UNCHANGED N!limiter
  PROVE  LimiterInv'
<1>1. CASE N!Tick
  BY <1>1, TickKeeps DEF N!Tick
<1>2. ASSUME NEW a \in Askers, N!ReadClock(a) PROVE LimiterInv'
  <2>1. asked' \in [Askers -> Nat] /\ \A b \in Askers : asked'[b] <= minute
    BY <1>2 DEF N!ReadClock, LimiterInv
  <2> QED
    BY <1>2, <2>1, ForgetKeeps DEF N!ReadClock
<1>3. ASSUME NEW a \in Askers, N!Allow(a) PROVE LimiterInv'
  BY <1>3, AllowKeeps
<1>4. ASSUME NEW a \in Askers, N!Refuse(a) \/ N!Clean(a) PROVE LimiterInv'
  BY <1>4, LockedFacts, ForgetKeeps DEF N!Refuse, N!Clean
<1>5. CASE UNCHANGED N!limiter
  BY <1>5, ForgetKeeps DEF N!limiter, LimiterInv
<1> QED
  BY <1>1, <1>2, <1>3, <1>4, <1>5 DEF N!LimiterNext

(* Every goroutine of SendAll is under way or has said how it ended, and   *)
(* the errors are those of the ones that failed.                           *)
SendInv ==
  /\ outcome \in [Channels -> {"none", "sent", "failed"}]
  /\ sending \subseteq Channels
  /\ errCh \in Seq(Channels)
  /\ sendAll \in {"idle", "waiting", "returned"}
  /\ sendAll # "waiting" => sending = {}
  /\ sendAll = "idle" => errCh = <<>>
  /\ sendAll # "idle" =>
       \A c \in Channels :
         /\ outcome[c] = "none" <=> c \in sending
         /\ outcome[c] = "failed" <=> c \in N!ToSet(errCh)

(* Every step of SendAll and its goroutines.                               *)
LEMMA NextSend ==
  ASSUME SendInv, N!SendNext \/ UNCHANGED N!senders
  PROVE  SendInv'
<1>1. CASE N!SendAll
  BY <1>1 DEF N!SendAll, SendInv, N!ToSet
<1>2. CASE N!Join \/ N!Again
  <2>1. CASE N!Join
    BY <2>1 DEF N!Join, SendInv
  <2>2. CASE N!Again
    BY <2>2 DEF N!Again, SendInv
  <2> QED
    BY <1>2, <2>1, <2>2
<1>3. ASSUME NEW c \in Channels, N!Register(c) \/ N!SendOK(c) PROVE SendInv'
  BY <1>3 DEF N!Register, N!SendOK, SendInv
<1>4. ASSUME NEW c \in Channels, N!SendFails(c) PROVE SendInv'
  <2>1. N!ToSet(errCh') = N!ToSet(errCh) \cup {c}
    BY <1>4 DEF N!SendFails, SendInv, N!ToSet
  <2>2. errCh' \in Seq(Channels)
    BY <1>4 DEF N!SendFails, SendInv
  <2> QED
    BY <1>4, <2>1, <2>2 DEF N!SendFails, SendInv
<1>5. CASE UNCHANGED N!senders
  BY <1>5 DEF N!senders, SendInv
<1> QED
  BY <1>1, <1>2, <1>3, <1>4, <1>5 DEF N!SendNext

(* Neither touches what the other works on.                                *)
LEMMA NextNotify ==
  ASSUME LimiterInv, SendInv, [N!Next]_(N!notifyVars)
  PROVE  LimiterInv' /\ SendInv'
<1>1. \A a \in Askers :
        N!ReadClock(a) \/ N!Allow(a) \/ N!Refuse(a) \/ N!Clean(a)
          => UNCHANGED N!senders
  BY DEF N!ReadClock, N!Allow, N!Refuse, N!Clean, N!Locked
<1>2. N!LimiterNext => UNCHANGED N!senders
  BY <1>1 DEF N!LimiterNext, N!Tick
<1>3. N!SendNext => UNCHANGED N!limiter
  BY DEF N!SendNext, N!SendAll, N!Join, N!Again, N!Register, N!SendOK, N!SendFails
<1> QED
  BY <1>2, <1>3, NextLimiter, NextSend DEF N!Next, N!notifyVars

(* The limiter and SendAll do what they promise.                           *)
LEMMA NotifySound == N!Spec => [](N!SpanBounded /\ N!ErrorsComplete)
<1>1. N!Init => LimiterInv /\ SendInv
  BY DEF N!Init, LimiterInv, Ordered, SendInv, N!SpanBounded
<1>2. LimiterInv /\ SendInv /\ [N!Next]_(N!notifyVars) => (LimiterInv /\ SendInv)'
  BY NextNotify
<1>3. LimiterInv /\ SendInv => N!SpanBounded /\ N!ErrorsComplete
  <2> SUFFICES ASSUME LimiterInv, SendInv PROVE N!SpanBounded /\ N!ErrorsComplete
    OBVIOUS
  <2>1. N!SpanBounded
    BY DEF LimiterInv
  <2>2. N!ToSet(errCh) \subseteq Channels
    BY DEF SendInv, N!ToSet
  <2>3. N!ErrorsComplete
    BY <2>2 DEF SendInv, N!ErrorsComplete
  <2> QED
    BY <2>1, <2>3
<1> QED
  BY <1>1, <1>2, <1>3, PTL DEF N!Spec

(* Over any span of time the bucket and the limiter let no more through    *)
(* than is configured, whatever the sizes, the clocks and the resets.      *)
THEOREM LimitsHeldAlways == R!Spec /\ N!Spec => []LimitsHeld
  BY RateHeldAlways, NotifySound, PTL DEF LimitsHeld

-----------------------------------------------------------------------------
(* The counters.                                                           *)

(* The visitors that have been counted and not yet counted out.            *)
Counted(visitorOf) == {v \in Visitors : visitorOf[v].pc \in {"in", "leaving"}}

(* What a visitor may have looked up when n Counters have been made.       *)
VisitorSet(n) ==
  [pc : {"out", "in", "coming", "leaving"}, got : 0 .. n, visits : Nat]

(* The Counters, of which those not yet made are zero.                     *)
CountersOK(n, counterOf, highestOf) ==
  /\ counterOf \in [1 .. MaxCounters -> [value : Nat, peak : Nat]]
  /\ highestOf \in [1 .. MaxCounters -> Nat]
  /\ \A c \in 1 .. MaxCounters :
       counterOf[c].peak = highestOf[c] /\ (c > n => counterOf[c].value = 0)

(* As long as none has been removed there is one Counter for all visitors, *)
(* or none yet.                                                            *)
OneCounter(n, counterOf, visitorOf) ==
  /\ \A v \in Visitors : visitorOf[v].got \in {0, n}
  /\ IF n = 0 THEN Counted(visitorOf) = {}
     ELSE counterOf[n].value = Cardinality(Counted(visitorOf))

CountersInv ==
  /\ made \in 0 .. MaxCounters
  /\ registered \in 0 .. made
  /\ CountersOK(made, counter, highest)
  /\ visitor \in [Visitors -> VisitorSet(made)]
  /\ ~removed => registered = made /\ OneCounter(made, counter, visitor)

(* The cardinality of the module Counters is that of FiniteSets.           *)
LEMMA CountersCardinality ==
  ASSUME NEW S
  PROVE  K!Cardinality(S) = Cardinality(S) /\ (K!IsFiniteSet(S) <=> IsFiniteSet(S))
BY DEF K!Cardinality, Cardinality, K!IsFiniteSet, IsFiniteSet

(* Everything counted is finite.                                           *)
LEMMA CountersFacts ==
  /\ MaxCounters \in Nat
  /\ IsFiniteSet(Visitors)
  /\ \A visitorOf : IsFiniteSet(Counted(visitorOf))
<1>1. MaxCounters \in Nat /\ IsFiniteSet(Visitors)
  BY GuardsAssumption, CountersCardinality DEF K!CountersAssumption
<1>2. \A visitorOf : Counted(visitorOf) \subseteq Visitors
  BY DEF Counted
<1> QED
  BY <1>1, <1>2, FS_Subset

(* What a visitor's step does to the visitors that are counted.            *)
Moved(before, v, step) == [before EXCEPT ![v] = step]

Recounted(before, v, step, after) ==
  /\ after[v] = step
  /\ \A w \in Visitors \ {v} : after[w] = before[w]
  /\ Counted(after) = IF step.pc \in {"in", "leaving"}
                      THEN Counted(before) \cup {v}
                      ELSE Counted(before) \ {v}

LEMMA VisitorMoves ==
  ASSUME NEW n \in Nat, NEW most \in Nat, n <= most,
         NEW before \in [Visitors -> VisitorSet(n)], NEW v \in Visitors,
         NEW step \in VisitorSet(most)
  PROVE  /\ Moved(before, v, step) \in [Visitors -> VisitorSet(most)]
         /\ Recounted(before, v, step, Moved(before, v, step))
<1> DEFINE after == Moved(before, v, step)
<1>1. VisitorSet(n) \subseteq VisitorSet(most)
  BY DEF VisitorSet
<1>2. /\ after \in [Visitors -> VisitorSet(most)]
      /\ after[v] = step
      /\ \A w \in Visitors \ {v} : after[w] = before[w]
  BY <1>1 DEF Moved
<1> HIDE DEF after
<1>3. step.pc \in {"in", "leaving"} => Counted(after) = Counted(before) \cup {v}
  BY <1>2 DEF Counted
<1>4. step.pc \notin {"in", "leaving"} => Counted(after) = Counted(before) \ {v}
  BY <1>2 DEF Counted
<1> QED
  BY <1>2, <1>3, <1>4 DEF after, Recounted

(* A look-up counts nobody.                                                *)
LEMMA LookupCounts ==
  ASSUME CountersInv, NEW v \in Visitors, NEW from, NEW to, K!Lookup(v, from, to),
         <<from, to>> \in {<<"out", "coming">>, <<"in", "leaving">>}
  PROVE  CountersInv'
<1> DEFINE step ==
      [pc |-> to, got |-> registered,
       visits |-> IF to = "coming" THEN visitor[v].visits + 1
                  ELSE visitor[v].visits]
<1>1. /\ UNCHANGED <<registered, made, counter, highest, removed>>
      /\ visitor[v].pc = from
      /\ visitor' = Moved(visitor, v, step)
  BY DEF K!Lookup, Moved
<1>2. /\ made \in Nat /\ registered \in 0 .. made
      /\ visitor \in [Visitors -> VisitorSet(made)]
  BY CountersFacts DEF CountersInv
<1>3. step \in VisitorSet(made)
  <2>1. visitor[v].visits \in Nat
    BY <1>2 DEF VisitorSet
  <2> QED
    BY <1>2, <2>1 DEF VisitorSet
<1>4. step.got = registered /\ step.pc = to
  OBVIOUS
<1> HIDE DEF step
<1>5. /\ visitor' \in [Visitors -> VisitorSet(made)]
      /\ Recounted(visitor, v, step, visitor')
  BY <1>1, <1>2, <1>3, VisitorMoves
<1>6. Counted(visitor') = Counted(visitor)
  <2>1. CASE from = "out" /\ to = "coming"
    BY <1>1, <1>4, <1>5, <2>1 DEF Counted, Recounted
  <2>2. CASE from = "in" /\ to = "leaving"
    BY <1>1, <1>4, <1>5, <2>2 DEF Counted, Recounted
  <2> QED
    BY <2>1, <2>2
<1>7. ASSUME OneCounter(made, counter, visitor), registered = made
      PROVE  OneCounter(made, counter, visitor')
  BY <1>4, <1>5, <1>6, <1>7 DEF OneCounter, Recounted
<1> QED
  BY <1>1, <1>5, <1>7 DEF CountersInv

(* The look-up with the write lock, which finds the Counter or makes it:   *)
(* the visitor has it then, and nobody is counted.                         *)
LEMMA CreateCounts ==
  ASSUME CountersInv, NEW v \in Visitors, K!Create(v)
  PROVE  CountersInv'
<1>1. /\ UNCHANGED <<counter, highest, removed>>
      /\ visitor[v].pc \in {"coming", "leaving"} /\ visitor[v].got = 0
      /\ made \in 0 .. MaxCounters /\ made \in Nat /\ registered \in 0 .. made
      /\ visitor \in [Visitors -> VisitorSet(made)] /\ MaxCounters \in Nat
  BY CountersFacts DEF K!Create, CountersInv, K!Calling
<1>2. /\ made' \in made .. MaxCounters
      /\ registered' \in 1 .. made'
      /\ registered # 0 => registered' = registered /\ made' = made
      /\ registered = 0 => registered' = made + 1 /\ made' = made + 1
      /\ visitor' = [visitor EXCEPT ![v].got = registered']
  <2>1. CASE registered # 0
    BY <1>1, <2>1 DEF K!Create, K!Found
  <2>2. CASE registered = 0
    BY <1>1, <2>2 DEF K!Create, K!Found
  <2> QED
    BY <2>1, <2>2
<1> DEFINE step == [visitor[v] EXCEPT !.got = registered']
<1>3. visitor' = Moved(visitor, v, step)
  BY <1>1, <1>2 DEF Moved
<1>4. /\ step \in VisitorSet(made') /\ step.got = registered'
      /\ step.pc = visitor[v].pc
  BY <1>1, <1>2 DEF VisitorSet
<1> HIDE DEF step
<1>5. /\ visitor' \in [Visitors -> VisitorSet(made')]
      /\ Recounted(visitor, v, step, visitor')
  <2>1. made' \in Nat /\ made <= made'
    BY <1>1, <1>2
  <2> QED
    BY <1>1, <1>3, <1>4, <2>1, VisitorMoves
<1>6. Counted(visitor') = Counted(visitor)
  <2>1. CASE visitor[v].pc = "coming"
    BY <1>4, <1>5, <2>1 DEF Counted, Recounted
  <2>2. CASE visitor[v].pc = "leaving"
    BY <1>4, <1>5, <2>2 DEF Counted, Recounted
  <2> QED
    BY <1>1, <2>1, <2>2
<1>7. CountersOK(made', counter', highest')
  BY <1>1, <1>2 DEF CountersInv, CountersOK
<1>8. ASSUME ~removed
      PROVE  registered' = made' /\ OneCounter(made', counter', visitor')
  <2>1. registered = made /\ OneCounter(made, counter, visitor)
    BY <1>8 DEF CountersInv
  <2>2. registered' = made' /\ made' # 0
    BY <1>1, <1>2, <2>1
  <2>3. \A w \in Visitors : visitor'[w].got \in {0, made'}
    BY <1>1, <1>2, <1>4, <1>5, <2>1, <2>2 DEF OneCounter, Recounted
  <2>4. counter[made'].value = Cardinality(Counted(visitor))
    <3>1. CASE registered # 0
      BY <1>2, <2>1, <3>1 DEF OneCounter
    <3>2. CASE registered = 0
      <4>1. Counted(visitor) = {}
        BY <2>1, <3>2 DEF OneCounter
      <4>2. counter[made'].value = 0
        BY <1>1, <1>2, <3>2 DEF CountersInv, CountersOK
      <4> QED
        BY <4>1, <4>2, FS_EmptySet
    <3> QED
      BY <3>1, <3>2
  <2> QED
    BY <1>1, <1>6, <2>2, <2>3, <2>4 DEF OneCounter
<1> QED
  BY <1>1, <1>2, <1>5, <1>7, <1>8 DEF CountersInv

(* A Counter that has been made gets another value and peak.               *)
Revalued(counterOf, c, value, peak) ==
  [counterOf EXCEPT ![c] = [value |-> value, peak |-> peak]]

Repeaked(highestOf, c, peak) == [highestOf EXCEPT ![c] = peak]

Fields(n, c, value, peak) ==
  n \in 0 .. MaxCounters /\ c \in 1 .. n /\ value \in Nat /\ peak \in Nat

LEMMA CounterMoves ==
  ASSUME NEW n, NEW c, NEW value, NEW peak, Fields(n, c, value, peak),
         NEW counterOf, NEW highestOf, CountersOK(n, counterOf, highestOf)
  PROVE  /\ CountersOK(n, Revalued(counterOf, c, value, peak),
                       Repeaked(highestOf, c, peak))
         /\ Revalued(counterOf, c, value, peak)[c].value = value
<1>1. c \in 1 .. MaxCounters /\ ~ (c > n)
  BY CountersFacts DEF Fields
<1> QED
  BY <1>1 DEF CountersOK, Revalued, Repeaked, Fields

(* One field of it changes and the other stays.                            *)
WithValue(counterOf, c, x) == [counterOf EXCEPT ![c].value = x]

WithPeak(counterOf, c, x) == [counterOf EXCEPT ![c].peak = x]

LEMMA FieldMoves ==
  ASSUME NEW n, NEW c, NEW x, Fields(n, c, x, x),
         NEW counterOf, NEW highestOf, CountersOK(n, counterOf, highestOf)
  PROVE  /\ WithValue(counterOf, c, x)
              = Revalued(counterOf, c, x, highestOf[c])
         /\ WithPeak(counterOf, c, x)
              = Revalued(counterOf, c, counterOf[c].value, x)
         /\ counterOf[c].value \in Nat /\ highestOf[c] \in Nat
         /\ counterOf[c].peak = highestOf[c]
         /\ highestOf = Repeaked(highestOf, c, highestOf[c])
<1>1. c \in 1 .. MaxCounters
  BY CountersFacts DEF Fields
<1>2. /\ counterOf[c] \in [value : Nat, peak : Nat]
      /\ counterOf[c].peak = highestOf[c] /\ highestOf[c] \in Nat
  BY <1>1 DEF CountersOK
<1>3. /\ [counterOf[c] EXCEPT !.value = x] = [value |-> x, peak |-> highestOf[c]]
      /\ [counterOf[c] EXCEPT !.peak = x] = [value |-> counterOf[c].value, peak |-> x]
  BY <1>2
<1>4. highestOf = Repeaked(highestOf, c, highestOf[c])
  BY <1>1 DEF CountersOK, Repeaked
<1> QED
  BY <1>2, <1>3, <1>4 DEF Revalued, WithValue, WithPeak

(* Inc: a visitor more is counted in.                                      *)
LEMMA IncCounts ==
  ASSUME CountersInv, NEW v \in Visitors, K!Inc(v)
  PROVE  CountersInv'
<1> DEFINE c == visitor[v].got
           step == [visitor[v] EXCEPT !.pc = "in"]
           value == counter[c].value + 1
<1>1. /\ UNCHANGED <<registered, made, removed>>
      /\ visitor[v].pc = "coming" /\ c \in 1 .. made
      /\ made \in 0 .. MaxCounters /\ made \in Nat /\ MaxCounters \in Nat
      /\ visitor \in [Visitors -> VisitorSet(made)]
      /\ visitor' = Moved(visitor, v, step)
  BY CountersFacts DEF K!Inc, CountersInv, VisitorSet, Moved
<1>2. step \in VisitorSet(made) /\ step.pc = "in" /\ step.got = c
  BY <1>1 DEF VisitorSet
<1>3. value \in Nat /\ counter[c].value \in Nat /\ counter[c].peak \in Nat
      /\ highest[c] = counter[c].peak
  BY <1>1 DEF CountersInv, CountersOK
<1>4. \E peak \in Nat :
        /\ counter' = Revalued(counter, c, value, peak)
        /\ highest' = Repeaked(highest, c, peak)
  <2>1. K!Higher(value, counter[c].peak) \in Nat
    BY <1>3 DEF K!Higher
  <2> QED
    BY <1>3, <2>1 DEF K!Inc, Revalued, Repeaked
<1> HIDE DEF step, value
<1>5. CountersOK(made, counter', highest') /\ counter'[c].value = value
  <2>1. PICK peak \in Nat : /\ counter' = Revalued(counter, c, value, peak)
                            /\ highest' = Repeaked(highest, c, peak)
    BY <1>4
  <2>2. CountersOK(made, counter, highest)
    BY DEF CountersInv
  <2>3. /\ CountersOK(made, Revalued(counter, c, value, peak),
                       Repeaked(highest, c, peak))
        /\ Revalued(counter, c, value, peak)[c].value = value
    <3>1. Fields(made, c, value, peak)
      BY <1>1, <1>3 DEF Fields
    <3> QED
      BY <2>2, <3>1, CounterMoves
  <2> QED
    BY <2>1, <2>3
<1>6. /\ visitor' \in [Visitors -> VisitorSet(made)]
      /\ Recounted(visitor, v, step, visitor')
  BY <1>1, <1>2, VisitorMoves
<1>7. Cardinality(Counted(visitor')) = Cardinality(Counted(visitor)) + 1
  <2>1. v \notin Counted(visitor) /\ Counted(visitor') = Counted(visitor) \cup {v}
    BY <1>1, <1>2, <1>6 DEF Counted, Recounted
  <2> QED
    BY <2>1, CountersFacts, FS_AddElement
<1>8. ASSUME ~removed
      PROVE  registered' = made /\ OneCounter(made, counter', visitor')
  <2>1. registered = made /\ OneCounter(made, counter, visitor)
    BY <1>8 DEF CountersInv
  <2>2. c = made /\ made # 0
    BY <1>1, <2>1 DEF OneCounter
  <2>3. counter'[made].value = Cardinality(Counted(visitor'))
    BY <1>5, <1>7, <2>1, <2>2 DEF OneCounter, value
  <2>4. \A w \in Visitors : visitor'[w].got \in {0, made}
    BY <1>2, <1>6, <2>1, <2>2 DEF OneCounter, Recounted
  <2> QED
    BY <1>1, <2>1, <2>2, <2>3, <2>4 DEF OneCounter
<1> QED
  BY <1>1, <1>5, <1>6, <1>8 DEF CountersInv

(* Dec: a visitor less, one of those that were counted.                    *)
LEMMA DecCounts ==
  ASSUME CountersInv, NEW v \in Visitors, K!Dec(v)
  PROVE  CountersInv'
<1> DEFINE c == visitor[v].got
           step == [visitor[v] EXCEPT !.pc = "out"]
           value == IF counter[c].value > 0 THEN counter[c].value - 1 ELSE 0
<1>1. /\ UNCHANGED <<registered, made, highest, removed>>
      /\ visitor[v].pc = "leaving" /\ c \in 1 .. made
      /\ made \in 0 .. MaxCounters /\ made \in Nat /\ MaxCounters \in Nat
      /\ visitor \in [Visitors -> VisitorSet(made)]
      /\ visitor' = Moved(visitor, v, step)
      /\ counter' = [counter EXCEPT ![c].value = value]
  BY CountersFacts DEF K!Dec, CountersInv, VisitorSet, Moved
<1>2. step \in VisitorSet(made) /\ step.pc = "out" /\ step.got = c
  BY <1>1 DEF VisitorSet
<1>3. value \in Nat /\ counter[c].value \in Nat /\ counter[c].peak \in Nat
      /\ highest[c] = counter[c].peak
  BY <1>1 DEF CountersInv, CountersOK
<1> HIDE DEF value
<1>4. \E peak \in Nat :
        /\ counter' = Revalued(counter, c, value, peak)
        /\ highest' = Repeaked(highest, c, peak)
  <2>1. CountersOK(made, counter, highest)
    BY DEF CountersInv
  <2>2. /\ WithValue(counter, c, value)
             = Revalued(counter, c, value, highest[c])
        /\ highest[c] \in Nat /\ highest = Repeaked(highest, c, highest[c])
    <3>1. Fields(made, c, value, value)
      BY <1>1, <1>3 DEF Fields
    <3> QED
      BY <2>1, <3>1, FieldMoves
  <2> QED
    BY <1>1, <2>2 DEF WithValue
<1> HIDE DEF step
<1>5. CountersOK(made, counter', highest') /\ counter'[c].value = value
  <2>1. PICK peak \in Nat : /\ counter' = Revalued(counter, c, value, peak)
                            /\ highest' = Repeaked(highest, c, peak)
    BY <1>4
  <2>2. CountersOK(made, counter, highest)
    BY DEF CountersInv
  <2>3. /\ CountersOK(made, Revalued(counter, c, value, peak),
                       Repeaked(highest, c, peak))
        /\ Revalued(counter, c, value, peak)[c].value = value
    <3>1. Fields(made, c, value, peak)
      BY <1>1, <1>3 DEF Fields
    <3> QED
      BY <2>2, <3>1, CounterMoves
  <2> QED
    BY <2>1, <2>3
<1>6. /\ visitor' \in [Visitors -> VisitorSet(made)]
      /\ Recounted(visitor, v, step, visitor')
  BY <1>1, <1>2, VisitorMoves
<1>7. /\ Cardinality(Counted(visitor')) = Cardinality(Counted(visitor)) - 1
      /\ Cardinality(Counted(visitor')) \in Nat
  <2>1. v \in Counted(visitor) /\ Counted(visitor') = Counted(visitor) \ {v}
    BY <1>1, <1>2, <1>6 DEF Counted, Recounted
  <2> QED
    BY <2>1, CountersFacts, FS_RemoveElement, FS_CardinalityType
<1>8. ASSUME ~removed
      PROVE  registered' = made /\ OneCounter(made, counter', visitor')
  <2>1. registered = made /\ OneCounter(made, counter, visitor)
    BY <1>8 DEF CountersInv
  <2>2. c = made /\ made # 0
    BY <1>1, <2>1 DEF OneCounter
  <2>3. counter[made].value = Cardinality(Counted(visitor))
    BY <2>1, <2>2 DEF OneCounter
  <2>4. counter'[made].value = Cardinality(Counted(visitor'))
    BY <1>3, <1>5, <1>7, <2>2, <2>3 DEF value
  <2>5. \A w \in Visitors : visitor'[w].got \in {0, made}
    BY <1>2, <1>6, <2>1, <2>2 DEF OneCounter, Recounted
  <2> QED
    BY <1>1, <2>1, <2>2, <2>4, <2>5 DEF OneCounter
<1> QED
  BY <1>1, <1>5, <1>6, <1>8 DEF CountersInv

(* ResetPeak changes no value.                                             *)
LEMMA ResetCounts ==
  ASSUME CountersInv, K!ResetPeak
  PROVE  CountersInv'
<1> DEFINE value == counter[registered].value
<1>1. /\ UNCHANGED <<registered, made, visitor, removed>>
      /\ registered \in 1 .. made
      /\ made \in 0 .. MaxCounters /\ made \in Nat /\ MaxCounters \in Nat
      /\ counter' = [counter EXCEPT ![registered].peak = value]
      /\ highest' = [highest EXCEPT ![registered] = value]
  BY CountersFacts DEF K!ResetPeak, K!PeakNow, CountersInv
<1>2. value \in Nat
  BY <1>1 DEF CountersInv, CountersOK
<1>3. /\ counter' = Revalued(counter, registered, value, value)
      /\ highest' = Repeaked(highest, registered, value)
  <2>1. CountersOK(made, counter, highest)
    BY DEF CountersInv
  <2>2. WithPeak(counter, registered, value)
          = Revalued(counter, registered, value, value)
    <3>1. Fields(made, registered, value, value)
      BY <1>1, <1>2 DEF Fields
    <3> QED
      BY <2>1, <3>1, FieldMoves
  <2> QED
    BY <1>1, <2>2 DEF Repeaked, WithPeak
<1> HIDE DEF value
<1>4. CountersOK(made, counter', highest') /\ counter'[registered].value = value
  <2>1. CountersOK(made, counter, highest)
    BY DEF CountersInv
  <2>2. /\ CountersOK(made, Revalued(counter, registered, value, value),
                       Repeaked(highest, registered, value))
        /\ Revalued(counter, registered, value, value)[registered].value = value
    <3>1. Fields(made, registered, value, value)
      BY <1>1, <1>2 DEF Fields
    <3> QED
      BY <2>1, <3>1, CounterMoves
  <2> QED
    BY <1>3, <2>2
<1>5. ASSUME registered = made, OneCounter(made, counter, visitor)
      PROVE  OneCounter(made, counter', visitor)
  BY <1>1, <1>4, <1>5 DEF OneCounter, value
<1> QED
  BY <1>1, <1>4, <1>5 DEF CountersInv

(* Every step of the counters.                                             *)
LEMMA NextCounters ==
  ASSUME CountersInv, [K!Next]_(K!vars)
  PROVE  CountersInv'
<1>1. CASE K!Remove
  BY <1>1, CountersFacts DEF K!Remove, CountersInv
<1>2. CASE UNCHANGED K!vars
  BY <1>2 DEF K!vars, CountersInv
<1> QED
  BY <1>1, <1>2, ResetCounts, LookupCounts, CreateCounts, IncCounts, DecCounts
     DEF K!Next

(* The Counters count the visitors.                                        *)
LEMMA CountsAlways == K!Spec => []K!CountsThoseIn
<1>1. K!Init => CountersInv
  <2> SUFFICES ASSUME K!Init PROVE CountersInv
    OBVIOUS
  <2>1. MaxCounters \in Nat
    BY CountersFacts
  <2>2. CountersOK(made, counter, highest)
    BY <2>1 DEF K!Init, CountersOK
  <2>3. visitor \in [Visitors -> VisitorSet(made)]
    BY DEF K!Init, VisitorSet
  <2>4. OneCounter(made, counter, visitor)
    BY DEF K!Init, OneCounter, Counted
  <2> QED
    BY <2>1, <2>2, <2>3, <2>4 DEF K!Init, CountersInv
<1>2. CountersInv /\ [K!Next]_(K!vars) => CountersInv'
  BY NextCounters
<1>3. CountersInv => K!CountsThoseIn
  <2> SUFFICES ASSUME CountersInv PROVE K!CountsThoseIn
    OBVIOUS
  <2>1. \A c \in 1 .. made : counter[c].peak = highest[c]
    BY CountersFacts DEF CountersInv, CountersOK
  <2>2. ASSUME ~removed
        PROVE  (IF registered = 0 THEN 0 ELSE counter[registered].value)
                 = K!Cardinality(Counted(visitor))
    BY <2>2, CountersCardinality, FS_EmptySet DEF CountersInv, OneCounter
  <2> QED
    BY <2>1, <2>2 DEF K!CountsThoseIn, Counted
<1> QED
  BY <1>1, <1>2, <1>3, PTL DEF K!Spec

(* Nobody is counted twice or forgotten, for any visitors, and SendAll     *)
(* returns exactly the errors of the senders that failed.                  *)
THEOREM CountsExactAlways == K!Spec /\ N!Spec => []CountsExact
  BY CountsAlways, NotifySound, PTL DEF CountsExact
=============================================================================
