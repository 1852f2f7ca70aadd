------------------------------ MODULE MCWsHub ------------------------------
(***************************************************************************)
(* Instances for TLC of what is pushed to clients, told apart by `part':   *)
(* a WebSocket hub on its own, and two behind a Redis channel; the SSE     *)
(* manager; the event bus, synchronous and not; and the callbacks and      *)
(* kicks of live streams.                                                  *)
(***************************************************************************)
EXTENDS WsHubProofs

VARIABLE part

sseVars == <<client, reading, send, written, message, checked, panicked>>

busVars == <<async, handlers, subscribed, everSubscribed, again, pub, ran>>

liveVars ==
  <<signed, publisher, lastCid, asked, answered, misled, kick, kicks, kicked, recording>>

(* Two connections to the first node and one to the second.  On its own a  *)
(* hub has the first two and publishes nothing; behind Redis, each of two  *)
(* hubs has one, and no context is cancelled.                              *)
TwoNodes == [c \in Clients |-> IF c = "c3" THEN "n2" ELSE "n1"]

(* One of the two SSE clients does not want what is sent.                  *)
MCWants == [s1 |-> {"news"}, s2 |-> {"chat"}]

MCEventOf == <<"news", "news">>

(* One subscription to every event and three to one of them, two of which  *)
(* are made by SubscribeRetry and look alike.                              *)
MCTopic == <<"paid", "*", "paid", "paid">>

MCSite == <<"f", "g", "retry", "retry">>

MCRetries == <<0, 0, 1, 0>>

MCInit ==
  /\ part \in {"node", "bridge", "sse", "bus", "live"}
  /\ Init /\ Sse!Init /\ Bus!Init /\ Srs!Init
  /\ part = "bus" \/ ~ async
  /\ part = "live" \/ ~ signed

MCNext ==
  /\ IF part \in {"node", "bridge"} THEN TRUE ELSE UNCHANGED vars
  /\ IF part = "sse" THEN TRUE ELSE UNCHANGED sseVars
  /\ IF part = "bus" THEN TRUE ELSE UNCHANGED busVars
  /\ IF part = "live" THEN TRUE ELSE UNCHANGED liveVars
  /\ \/ part = "node" /\ Next /\ reader'["c3"] = "off" /\ published' = published
     \/ part = "bridge" /\ Next /\ reader'["c2"] = "off" /\ cancelled' = {}
     \/ part = "sse" /\ Sse!Next
     \/ part = "bus" /\ Bus!Next
     \/ part = "live" /\ Srs!Next
  /\ UNCHANGED part

MCSpec ==
  MCInit /\ [][MCNext]_<<vars, part, sseVars, busVars, liveVars>>
=============================================================================
