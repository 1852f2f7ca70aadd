----------------------------- MODULE MqttClient ---------------------------
(***************************************************************************)
(* The client of mqtt/mqtt.go over paho: subscriptions, a link that drops  *)
(* and comes back by itself, and messages that arrive meanwhile.           *)
(*                                                                         *)
(* The broker keeps subscriptions with the session, and forgets a clean    *)
(* session with its link; paho keeps the callbacks of the topics, and does *)
(* not subscribe again when it reconnects.                                 *)
(***************************************************************************)
EXTENDS Naturals, FiniteSets

CONSTANTS
  Topics,
  AutoReconnect,  \* Config.AutoReconnect
  MaxDrops,       \* bound: lost links
  MaxMessages     \* bound: messages of other clients

VARIABLES
  state,       \* "new", "connected", "lost" or "closed"
  cleanSession, \* Config.CleanSession
  global,      \* NewClient was given a default callback
  session,     \* topics the broker delivers to this client
  callbacks,   \* topics Subscribe was called for, by the kind of handler
  inFlight,    \* messages the broker has sent to the client: their topics
  drops,
  messages,
  delivered,   \* history: calls of "handler", "default" and of the empty one
  publishing   \* Publish waits for its token

given == <<cleanSession, global>>

vars == <<state, given, session, callbacks, inFlight, drops, messages,
          delivered, publishing>>

Handlers == {"none", "own", "nil"}

Init ==
  /\ state = "new"
  /\ cleanSession \in BOOLEAN
  /\ global \in BOOLEAN
  /\ session = {}
  /\ callbacks = [t \in Topics |-> "none"]
  /\ inFlight = {}
  /\ drops = 0
  /\ messages = 0
  /\ delivered = {}
  /\ publishing = FALSE

(* NewClient: an error or a timeout of the connection is returned.         *)
NewClient(ok) ==
  /\ state = "new"
  /\ state' = IF ok THEN "connected" ELSE "closed"
  /\ UNCHANGED <<given, session, callbacks, inFlight, drops, messages,
                 delivered, publishing>>

(* Subscribe and the answer of the broker; a nil handler is wrapped in a   *)
(* callback that does nothing.                                             *)
Subscribe(t, handler) ==
  /\ state = "connected"
  /\ session' = session \cup {t}
  /\ callbacks' = [callbacks EXCEPT ![t] = handler]
  /\ UNCHANGED <<state, given, inFlight, drops, messages, delivered, publishing>>


SessionWithout(t) == session \ {t}

Unsubscribe(t) ==
  /\ state = "connected"
  /\ session' = SessionWithout(t)
  /\ callbacks' = [callbacks EXCEPT ![t] = "none"]
  /\ UNCHANGED <<state, given, inFlight, drops, messages, delivered, publishing>>

(* Another client publishes on t.                                          *)
Arrives(t) ==
  /\ messages < MaxMessages
  /\ t \in session
  /\ messages' = messages + 1
  /\ inFlight' = inFlight \cup {t}
  /\ UNCHANGED <<state, given, session, callbacks, drops, delivered, publishing>>

(* paho calls the topic's callback, or the default one where it has none.  *)
Callback(t) ==
  /\ state = "connected"
  /\ t \in inFlight
  /\ inFlight' = inFlight \ {t}
  /\ delivered' = delivered \cup
       {[topic |-> t,
         by |-> CASE callbacks[t] = "own" -> "handler"
                  [] callbacks[t] = "nil" -> "nobody"
                  [] global -> "default"
                  [] OTHER -> "nobody",
         handler |-> callbacks[t]]}
  /\ UNCHANGED <<state, given, session, callbacks, drops, messages, publishing>>

(* Publish waits for its token without a timeout; over a lost link it      *)
(* waits for the link.                                                     *)
Publish ==
  /\ state \in {"connected", "lost"}
  /\ ~publishing
  /\ publishing' = TRUE
  /\ UNCHANGED <<state, given, session, callbacks, inFlight, drops, messages,
                 delivered>>

Published ==
  /\ publishing
  /\ state \in {"connected", "closed"}
  /\ publishing' = FALSE
  /\ UNCHANGED <<state, given, session, callbacks, inFlight, drops, messages,
                 delivered>>

Drop ==
  /\ state = "connected"
  /\ drops < MaxDrops
  /\ drops' = drops + 1
  /\ state' = "lost"
  /\ session' = IF cleanSession THEN {} ELSE session
  /\ inFlight' = IF cleanSession THEN {} ELSE inFlight
  /\ UNCHANGED <<given, callbacks, messages, delivered, publishing>>

Reconnect ==
  /\ AutoReconnect
  /\ state = "lost"
  /\ state' = "connected"
  /\ UNCHANGED <<given, session, callbacks, inFlight, drops, messages,
                 delivered, publishing>>

(* Close: only a client that is connected is disconnected.                 *)
Close ==
  /\ state = "connected"
  /\ state' = "closed"
  /\ UNCHANGED <<given, session, callbacks, inFlight, drops, messages,
                 delivered, publishing>>

Next ==
  \/ \E ok \in BOOLEAN : NewClient(ok)
  \/ \E t \in Topics :
       \/ \E handler \in {"own", "nil"} : Subscribe(t, handler)
       \/ Unsubscribe(t) \/ Arrives(t) \/ Callback(t)
  \/ Publish \/ Published \/ Drop \/ Reconnect \/ Close

Spec == Init /\ [][Next]_vars

-----------------------------------------------------------------------------
(* The topics the client has callbacks for are those the broker sends it,  *)
(* over every drop of the link, unless the session is a clean one: that is *)
(* lost with the link, and the callbacks wait for messages that never come.*)
SessionFollowsCallbacks ==
  \/ {t \in Topics : callbacks[t] # "none"} = session
  \/ cleanSession /\ drops > 0
-----------------------------------------------------------------------------
(* What SessionFollowsCallbacks rests on.                                  *)
TypeOK ==
  /\ session \subseteq Topics
  /\ callbacks \in [Topics -> Handlers]
  /\ drops \in Nat

IInv == TypeOK /\ SessionFollowsCallbacks
=============================================================================
