------------------------------ MODULE Circuit ------------------------------
(***************************************************************************)
(* The circuit breaker of framework/circuit/circuit.go.                    *)
(*                                                                         *)
(* Goroutines call Execute concurrently.  allow and record each hold the   *)
(* mutex, so each is one step; the protected function runs between them    *)
(* with the mutex free, and the breaker may have changed state any number  *)
(* of times before its result is recorded.                                 *)
(***************************************************************************)
EXTENDS Naturals, FiniteSets

CONSTANTS
  Callers,               \* goroutines that call Execute
  MinRequests,           \* Config.MinRequests after normalize
  ThresholdNum,          \* Config.FailureThreshold = ThresholdNum/ThresholdDen
  ThresholdDen,
  Window,                \* Config.Window, in clock units
  Cooldown,              \* Config.Cooldown
  HalfOpenMaxRequests,   \* Config.HalfOpenMaxRequests
  MaxTime,               \* bound: clock
  MaxPanics              \* bound: calls of the function that panic

(* What normalize guarantees of every configuration.                       *)
ASSUME CircuitAssumption ==
  /\ MinRequests \in Nat \ {0}
  /\ ThresholdNum \in Nat \ {0}
  /\ ThresholdDen \in Nat \ {0}
  /\ ThresholdNum <= ThresholdDen
  /\ Window \in Nat \ {0}
  /\ Cooldown \in Nat \ {0}
  /\ HalfOpenMaxRequests \in Nat \ {0}
  /\ MaxTime \in Nat
  /\ MaxPanics \in Nat

VARIABLES
  state,     \* Breaker.state
  windowAt,  \* Breaker.windowAt
  success,   \* Breaker.success
  failure,   \* Breaker.failure
  openedAt,  \* Breaker.openedAt
  halfOK,    \* Breaker.halfOK
  now,       \* the clock
  running,   \* callers whose function is running
  panics,    \* functions that have panicked so far
  probes     \* history: calls admitted in the current half-open period

breaker == <<state, windowAt, success, failure, openedAt, halfOK>>

vars == <<breaker, now, running, panics, probes>>

StateClosed == "closed"

StateOpen == "open"

StateHalfOpen == "half-open"

TypeOK ==
  /\ state \in {StateClosed, StateOpen, StateHalfOpen}
  /\ windowAt \in Nat
  /\ success \in Nat
  /\ failure \in Nat
  /\ openedAt \in Nat
  /\ halfOK \in Nat
  /\ now \in Nat
  /\ running \subseteq Callers
  /\ panics \in Nat
  /\ probes \in Nat

Init ==
  /\ state = StateClosed
  /\ windowAt = 0
  /\ success = 0
  /\ failure = 0
  /\ openedAt = 0
  /\ halfOK = 0
  /\ now = 0
  /\ running = {}
  /\ panics = 0
  /\ probes = 0

Tick ==
  /\ now < MaxTime
  /\ now' = now + 1
  /\ UNCHANGED <<breaker, running, panics, probes>>

-----------------------------------------------------------------------------
rollWindow ==
  /\ windowAt' = now
  /\ success' = 0
  /\ failure' = 0

WindowExpired == now - windowAt >= Window

CooldownOver == now - openedAt >= Cooldown

(* allow in each state; each is the whole critical section.                *)
AllowClosed ==
  /\ state = StateClosed
  /\ IF WindowExpired THEN rollWindow ELSE UNCHANGED <<windowAt, success, failure>>
  /\ UNCHANGED <<state, openedAt, halfOK, probes>>

AllowOpen ==
  /\ state = StateOpen
  /\ CooldownOver
  /\ state' = StateHalfOpen
  /\ halfOK' = 0
  /\ rollWindow
  /\ probes' = 1
  /\ UNCHANGED openedAt

(* Mutant: the limit itself is still let through.                          *)
ProbeAvailableOffByOne == halfOK <= HalfOpenMaxRequests

ProbeAvailable == halfOK < HalfOpenMaxRequests

AllowHalfOpen ==
  /\ state = StateHalfOpen
  /\ ProbeAvailable
  /\ halfOK' = halfOK + 1
  /\ probes' = probes + 1
  /\ UNCHANGED <<state, windowAt, success, failure, openedAt>>

(* Execute, first half: allow returned true and the function is called.    *)
Admit(c) ==
  /\ c \notin running
  /\ AllowClosed \/ AllowOpen \/ AllowHalfOpen
  /\ running' = running \cup {c}
  /\ UNCHANGED <<now, panics>>

(* Execute returned ErrOpen and the function was not called.               *)
Refuse(c) ==
  /\ c \notin running
  /\ \/ state = StateOpen /\ ~CooldownOver
     \/ state = StateHalfOpen /\ ~ProbeAvailable
  /\ UNCHANGED vars

-----------------------------------------------------------------------------
(* record, in each state; s and f are the counters with this result.       *)

TooManyFailures(s, f) == f * ThresholdDen >= ThresholdNum * (s + f)

evaluateLocked(s, f) ==
  IF s + f >= MinRequests /\ TooManyFailures(s, f)
  THEN /\ state' = StateOpen
       /\ openedAt' = now
       /\ success' = s
       /\ failure' = f
       /\ UNCHANGED windowAt
  ELSE /\ rollWindow
       /\ UNCHANGED <<state, openedAt>>

(* Mutant: the result is evaluated only when the window has expired.       *)
EvaluatedOnExpiryOnly(s, f) == WindowExpired

Evaluated(s, f) == WindowExpired \/ s + f >= MinRequests

RecordClosed(ok) ==
  LET s == IF ok THEN success + 1 ELSE success
      f == IF ok THEN failure ELSE failure + 1
  IN
  /\ state = StateClosed
  /\ IF Evaluated(s, f)
     THEN evaluateLocked(s, f)
     ELSE /\ success' = s
          /\ failure' = f
          /\ UNCHANGED <<state, windowAt, openedAt>>
  /\ UNCHANGED halfOK

(* Mutant: a probe that ends gives back a place in halfOK, though the call *)
(* that began the half-open period never took one.                         *)
RecordHalfOpenRefunding(ok) ==
  /\ state = StateHalfOpen
  /\ \/ /\ ok
        /\ state' = StateClosed
        /\ rollWindow
        /\ UNCHANGED openedAt
     \/ /\ ~ok
        /\ state' = StateOpen
        /\ openedAt' = now
        /\ UNCHANGED <<windowAt, success, failure>>
  /\ halfOK' = halfOK - 1

(* Mutant: a failed probe leaves the breaker half open.                    *)
RecordHalfOpenIgnoringFailure(ok) ==
  /\ state = StateHalfOpen
  /\ \/ /\ ok
        /\ state' = StateClosed
        /\ rollWindow
     \/ /\ ~ok
        /\ UNCHANGED <<state, windowAt, success, failure>>
  /\ UNCHANGED <<openedAt, halfOK>>

RecordHalfOpen(ok) ==
  /\ state = StateHalfOpen
  /\ \/ /\ ok
        /\ state' = StateClosed
        /\ rollWindow
        /\ UNCHANGED openedAt
     \/ /\ ~ok
        /\ state' = StateOpen
        /\ openedAt' = now
        /\ UNCHANGED <<windowAt, success, failure>>
  /\ UNCHANGED halfOK

RecordOpen ==
  /\ state = StateOpen
  /\ UNCHANGED breaker

(* Execute, second half: the function returned.  ok is FALSE when it       *)
(* returned an error that classify counts; an error that classify does not *)
(* count (a 4xx) is recorded as a success.                                 *)
Finish(c, ok) ==
  /\ c \in running
  /\ RecordClosed(ok) \/ RecordHalfOpen(ok) \/ RecordOpen
  /\ running' = running \ {c}
  /\ UNCHANGED <<now, panics, probes>>

(* The function panicked: Execute is left without a call of record.        *)
Panic(c) ==
  /\ c \in running
  /\ panics < MaxPanics
  /\ panics' = panics + 1
  /\ running' = running \ {c}
  /\ UNCHANGED <<breaker, now, probes>>

-----------------------------------------------------------------------------
Next ==
  \/ Tick
  \/ \E c \in Callers :
       \/ Admit(c)
       \/ Refuse(c)
       \/ \E ok \in BOOLEAN : Finish(c, ok)
       \/ Panic(c)

Spec == Init /\ [][Next]_vars

(* The clock moves on, callers come back, and the functions they run end   *)
(* (the HTTP client of thirdparty has a total timeout).                    *)
FairSpec ==
  /\ Spec
  /\ WF_vars(Tick)
  /\ \A c \in Callers :
       /\ WF_vars(\E ok \in BOOLEAN : Finish(c, ok))
       /\ WF_vars(Admit(c))

-----------------------------------------------------------------------------
(* Properties.                                                             *)

(* At most HalfOpenMaxRequests calls are admitted in one half-open period  *)
(* besides the one that began it.                                          *)
ProbesBounded == state = StateHalfOpen => probes <= HalfOpenMaxRequests + 1

(* What the breaker must have seen to trip: MinRequests results, enough of *)
(* them failures, and its clock readings never ahead of the clock.         *)
TrippedOnEvidence ==
  /\ windowAt <= now
  /\ openedAt <= now
  /\ (state = StateOpen /\ success + failure > 0) =>
       success + failure = MinRequests /\ TooManyFailures(success, failure)

(* A half-open breaker closes or opens, as long as fewer functions panic   *)
(* than there are probes: their results are never recorded.                *)
HalfOpenDecides == (state = StateHalfOpen) ~> (state # StateHalfOpen)

=============================================================================
