--------------------------- MODULE NotifyManager ---------------------------
(***************************************************************************)
(* framework/notify: the limiter of messages to one target, a sliding      *)
(* window, and SendAll, which sends on every channel in a goroutine of its *)
(* own, collects their errors in a channel and waits for all of them.      *)
(***************************************************************************)
EXTENDS Integers, Sequences, FiniteSets, SequencesExt

CONSTANTS
  Askers,       \* goroutines that ask the limiter about one key
  Channels,     \* channels asked for; a sender may not be registered
  Window, MaxHits, MaxMinute

(* With neither, the limiter is switched off.                              *)
NotifyManagerAssumption == Window \in Nat \ {0} /\ MaxHits \in Nat \ {0}

VARIABLES
  minute,
  asked,        \* per asker: the time it has read, or 0
  allowed,      \* history: the sends the limiter let through, with the time
                \* their asker had read and the time at which it did so
  waited,       \* history: the longest time from the one to the other
  hits,         \* the sends that it remembers, by their places
  registered,   \* channels with a sender
  sending,      \* goroutines of the SendAll under way
  errCh,        \* their errors
  outcome,      \* what each sender did, for the property
  sendAll       \* "idle", "waiting", "returned"

limiter == <<minute, asked, allowed, waited, hits>>

senders == <<registered, sending, errCh, outcome, sendAll>>

notifyVars == <<limiter, senders>>

Init ==
  /\ minute = 1 /\ asked = [a \in Askers |-> 0]
  /\ hits = {} /\ allowed = <<>> /\ waited = 0
  /\ registered = {}
  /\ sending = {} /\ errCh = <<>>
  /\ outcome = [c \in Channels |-> "none"]
  /\ sendAll = "idle"

-----------------------------------------------------------------------------
(* Mutant: hits are forgotten one minute early.                            *)
KeptTooShort(now) == {i \in hits : allowed[i].read > now - Window + 1}

(* The hits that still count by the time that was read.                    *)
Kept(now) == {i \in hits : allowed[i].read > now - Window}

(* Allow and Clean read the clock before they ask for the lock.            *)
ReadClock(a) ==
  /\ asked[a] = 0
  /\ asked' = [asked EXCEPT ![a] = minute]
  /\ UNCHANGED <<minute, allowed, waited, hits, senders>>

(* A section under the lock, with the time read before it.                 *)
Locked(a) ==
  /\ asked[a] # 0
  /\ asked' = [asked EXCEPT ![a] = 0]
  /\ UNCHANGED <<minute, senders>>

Longest(m, n) == IF m > n THEN m ELSE n

(* The send is remembered, with the time read, when it is let through.     *)
Allow(a) ==
  /\ Locked(a)
  /\ Cardinality(Kept(asked[a])) < MaxHits
  /\ hits' = Kept(asked[a]) \cup {Len(allowed) + 1}
  /\ allowed' = Append(allowed, [read |-> asked[a], at |-> minute])
  /\ waited' = Longest(waited, minute - asked[a])

Refuse(a) ==
  /\ Locked(a)
  /\ Cardinality(Kept(asked[a])) >= MaxHits
  /\ hits' = Kept(asked[a])
  /\ UNCHANGED <<allowed, waited>>

Clean(a) ==
  /\ Locked(a)
  /\ hits' = Kept(asked[a])
  /\ UNCHANGED <<allowed, waited>>

Tick ==
  /\ minute < MaxMinute
  /\ minute' = minute + 1
  /\ UNCHANGED <<asked, allowed, waited, hits, senders>>

LimiterNext ==
  \/ Tick
  \/ \E a \in Askers : ReadClock(a) \/ Allow(a) \/ Refuse(a) \/ Clean(a)

-----------------------------------------------------------------------------
Register(c) ==
  /\ c \notin registered
  /\ registered' = registered \cup {c}
  /\ UNCHANGED <<limiter, sending, errCh, outcome, sendAll>>

(* A goroutine for every channel.                                          *)
SendAll ==
  /\ sendAll = "idle"
  /\ sending' = Channels
  /\ outcome' = [c \in Channels |-> "none"]
  /\ sendAll' = "waiting"
  /\ UNCHANGED <<limiter, registered, errCh>>

(* Mutant: an unbuffered channel, which SendAll reads only at the end.     *)
NoErrChRoom == 0

(* Room for an error of every goroutine, so that none waits to report.     *)
ErrChRoom == Cardinality(Channels)

(* A goroutine ends without error, or fails: the channel is not            *)
(* registered, the sender returns an error, or it panics.                  *)
SendOK(c) ==
  /\ c \in sending /\ c \in registered
  /\ outcome' = [outcome EXCEPT ![c] = "sent"]
  /\ sending' = sending \ {c}
  /\ UNCHANGED <<limiter, registered, errCh, sendAll>>

SendFails(c) ==
  /\ c \in sending
  /\ Len(errCh) < ErrChRoom
  /\ errCh' = Append(errCh, c)
  /\ outcome' = [outcome EXCEPT ![c] = "failed"]
  /\ sending' = sending \ {c}
  /\ UNCHANGED <<limiter, registered, sendAll>>

(* Mutant: the errors are joined before every goroutine has reported.      *)
JoinEarly ==
  /\ sendAll = "waiting"
  /\ sendAll' = "returned"
  /\ UNCHANGED <<limiter, registered, sending, errCh, outcome>>

(* Every goroutine has ended: the errors are joined.                       *)
Join ==
  /\ sendAll = "waiting" /\ sending = {}
  /\ sendAll' = "returned"
  /\ UNCHANGED <<limiter, registered, sending, errCh, outcome>>

Again ==
  /\ sendAll = "returned"
  /\ sendAll' = "idle" /\ errCh' = <<>>
  /\ UNCHANGED <<limiter, registered, sending, outcome>>

SendNext ==
  \/ SendAll \/ Join \/ Again
  \/ \E c \in Channels : Register(c) \/ SendOK(c) \/ SendFails(c)

Next == LimiterNext \/ SendNext

(* Every span of Window contains at most MaxHits sends, by the times at    *)
(* which they were let through, but for as long as an asker that has read  *)
(* the clock may have waited for the lock: by the time it has, its hit is  *)
(* older than it should be, and is forgotten sooner.                       *)
SpanBounded ==
  \A i \in 1 .. Len(allowed) :
    i + MaxHits <= Len(allowed) =>
      allowed[i + MaxHits].at - allowed[i].at >= Window - waited

(* SendAll returns the errors of exactly the channels that failed, after   *)
(* every channel has been tried.                                           *)
ErrorsComplete ==
  sendAll = "returned" =>
    /\ \A c \in Channels : outcome[c] /= "none"
    /\ ToSet(errCh) = {c \in Channels : outcome[c] = "failed"}

Fairness ==
  /\ WF_notifyVars(Join)
  /\ \A c \in Channels : WF_notifyVars(SendOK(c) \/ SendFails(c))

Spec == Init /\ [][Next]_notifyVars /\ Fairness

(* SendAll always returns: no goroutine waits for room to report.          *)
SendAllReturns == sendAll = "waiting" ~> sendAll = "returned"
=============================================================================
