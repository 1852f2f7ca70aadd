---------------------------- MODULE ConfigCache ----------------------------
(***************************************************************************)
(* The cached client of framework/configcenter: a poller and callers of    *)
(* Get fetch the configuration, store it and broadcast a change to         *)
(* subscribers, whose channels hold one message.  What is fetched may be   *)
(* old by the time it is stored, and stored contents may be broadcast in   *)
(* another order.  A content is a version number.                          *)
(***************************************************************************)
EXTENDS Integers, Sequences, FiniteSets

CONSTANTS Poller, Getters, Subscribers, MaxContent, MaxFailures

VARIABLES
  server,     \* content in the configuration centre
  cached,     \* content in the cache; 0 before the first load
  refresh,    \* of each goroutine: [at, content]
  sub,        \* of each subscriber: "new", "joining", "ready", "closed"
  channel,    \* its channel
  failures,   \* fetches that failed; the network recovers after MaxFailures
  stopped     \* the poller's context has ended

configVars == <<server, cached, refresh, sub, channel, failures, stopped>>

Idle == [at |-> "idle", content |-> 0]

Init ==
  /\ server = 1 /\ cached = 0
  /\ refresh = [g \in Getters \cup {Poller} |-> Idle]
  /\ sub = [s \in Subscribers |-> "new"]
  /\ channel = [s \in Subscribers |-> <<>>]
  /\ failures = 0 /\ stopped = FALSE

Publish ==
  /\ server < MaxContent
  /\ server' = server + 1
  /\ UNCHANGED <<cached, refresh, sub, channel, failures, stopped>>

(* Mutant: the poller, like Get, fetches only what it does not have.       *)
PollsUnloaded(g) == cached = 0

(* Get fetches only before the first load, the poller at every interval.   *)
Fetches(g) == IF g = Poller THEN ~ stopped ELSE cached = 0

Fetch(g) ==
  /\ refresh[g].at = "idle" /\ Fetches(g)
  /\ refresh' = [refresh EXCEPT ![g] = [at |-> "fetched", content |-> server]]
  /\ UNCHANGED <<server, cached, sub, channel, failures, stopped>>

(* The fetch fails: the old content is kept and Get returns the error.     *)
FetchFails(g) ==
  /\ refresh[g].at = "idle" /\ Fetches(g) /\ failures < MaxFailures
  /\ failures' = failures + 1
  /\ UNCHANGED <<server, cached, refresh, sub, channel, stopped>>

Store(g) ==
  /\ refresh[g].at = "fetched"
  /\ cached' = refresh[g].content
  /\ refresh' = [refresh EXCEPT ![g] = IF cached /= @.content
                                      THEN [@ EXCEPT !.at = "broadcasting"] ELSE Idle]
  /\ UNCHANGED <<server, sub, channel, failures, stopped>>

(* A subscriber that has not taken the last message misses this one.       *)
broadcast(g) ==
  /\ refresh[g].at = "broadcasting"
  /\ channel' = [s \in Subscribers |->
                   IF sub[s] \in {"joining", "ready"} /\ channel[s] = <<>>
                   THEN <<refresh[g].content>> ELSE channel[s]]
  /\ refresh' = [refresh EXCEPT ![g] = Idle]
  /\ UNCHANGED <<server, cached, sub, failures, stopped>>

(* The channel is registered first, and the content at hand is sent next:  *)
(* if a broadcast has filled the channel, Subscribe never returns.         *)
SubscribeRegisters(s) ==
  /\ sub[s] = "new"
  /\ sub' = [sub EXCEPT ![s] = "joining"]
  /\ UNCHANGED <<server, cached, refresh, channel, failures, stopped>>

SubscribeSends(s) ==
  /\ sub[s] = "joining"
  /\ cached = 0 \/ channel[s] = <<>>
  /\ channel' = [channel EXCEPT ![s] = IF cached = 0 THEN @ ELSE <<cached>>]
  /\ sub' = [sub EXCEPT ![s] = "ready"]
  /\ UNCHANGED <<server, cached, refresh, failures, stopped>>

Receive(s) ==
  /\ sub[s] = "ready" /\ channel[s] /= <<>>
  /\ channel' = [channel EXCEPT ![s] = <<>>]
  /\ UNCHANGED <<server, cached, refresh, sub, failures, stopped>>

(* The poller's context ends: it closes every channel.                     *)
Close ==
  /\ ~ stopped /\ refresh[Poller].at = "idle"
  /\ stopped' = TRUE
  /\ sub' = [s \in Subscribers |-> IF sub[s] = "new" THEN "new" ELSE "closed"]
  /\ UNCHANGED <<server, cached, refresh, channel, failures>>

Next ==
  \/ Publish \/ Close
  \/ \E g \in Getters \cup {Poller} :
       Fetch(g) \/ FetchFails(g) \/ Store(g) \/ broadcast(g)
  \/ \E s \in Subscribers :
       SubscribeRegisters(s) \/ SubscribeSends(s) \/ Receive(s)

Spec == Init /\ [][Next]_configVars

(* The poller polls on, and what is fetched is stored and broadcast.       *)
Fairness ==
  /\ WF_configVars(Fetch(Poller))
  /\ \A g \in Getters \cup {Poller} : WF_configVars(Store(g) \/ broadcast(g))

(* While the poller runs, the cache comes to hold what the configuration   *)
(* centre holds, although a slow Get may store an older content after it.  *)
CacheCatchesUp == <>[](stopped \/ server < MaxContent \/ cached = server)
=============================================================================
