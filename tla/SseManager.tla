----------------------------- MODULE SseManager -----------------------------
(***************************************************************************)
(* The SSE manager of framework/push/sse: clients with a bounded queue     *)
(* each, a goroutine per connection that writes, and senders that look a   *)
(* client up and check it before they send.  Broadcasts share the lock of  *)
(* the manager for reading, so they overlap; adding and removing a client  *)
(* and Close want it alone.  A client is closed before that is asked for.  *)
(***************************************************************************)
EXTENDS Integers, Sequences, FiniteSets, SequencesExt

CONSTANTS
  Clients, Wants,      \* connections; the events each subscribes to
  Messages, EventOf,   \* what is sent, each once, and as which event
  QueueSize

VARIABLES
  client,     \* "new", "open", "closed" (its channel), "gone" (removed)
  reading,    \* its connection is still there
  send,       \* its queue
  written,    \* what has been written to it
  message,    \* of each: [at, todo, all, after]: "new", "sending", "done"; the
              \* clients to come; a broadcast; those done when it began
  checked,    \* <<message, client>> found open, the send to come
  panicked    \* messages whose sender sent on a closed channel

sseVars == <<client, reading, send, written, message, checked, panicked>>

Init ==
  /\ client = [c \in Clients |-> "new"]
  /\ reading = Clients
  /\ send = [c \in Clients |-> <<>>] /\ written = [c \in Clients |-> <<>>]
  /\ message = [m \in Messages |-> [at |-> "new", todo |-> {}, all |-> FALSE, after |-> {}]]
  /\ checked = {} /\ panicked = {}

Registered == {c \in Clients : client[c] \in {"open", "closed"}}

Broadcasting == {m \in Messages : message[m].at = "sending" /\ message[m].all}

addClient(c) ==
  /\ client[c] = "new" /\ Broadcasting = {}
  /\ client' = [client EXCEPT ![c] = "open"]
  /\ UNCHANGED <<reading, send, written, message, checked, panicked>>

Disconnect(c) ==
  /\ client[c] = "open" /\ c \in reading
  /\ reading' = reading \ {c}
  /\ UNCHANGED <<client, send, written, message, checked, panicked>>

(* The handler writes the next message.                                    *)
WriteNext(c) ==
  /\ client[c] \in {"open", "closed"} /\ send[c] /= <<>> /\ c \in reading
  /\ written' = [written EXCEPT ![c] = Append(@, Head(send[c]))]
  /\ send' = [send EXCEPT ![c] = Tail(@)]
  /\ UNCHANGED <<client, reading, message, checked, panicked>>

(* The handler returns: the connection has gone or the drained queue is    *)
(* closed.  removeClient closes first and unregisters under the lock.      *)
CloseClient(c) ==
  /\ client[c] = "open" /\ c \notin reading
  /\ client' = [client EXCEPT ![c] = "closed"]
  /\ UNCHANGED <<reading, send, written, message, checked, panicked>>

removeClient(c) ==
  /\ client[c] = "closed" /\ (c \notin reading \/ send[c] = <<>>)
  /\ Broadcasting = {}
  /\ client' = [client EXCEPT ![c] = "gone"]
  /\ UNCHANGED <<reading, send, written, message, checked, panicked>>

(* Close takes the lock: no broadcast is under way.                        *)
Close ==
  /\ Broadcasting = {}
  /\ client' = [c \in Clients |-> IF client[c] = "open" THEN "closed" ELSE client[c]]
  /\ UNCHANGED <<reading, send, written, message, checked, panicked>>

(* Mutant: whoever is connected is sent to.                                *)
SubscribedToAny(c, m) == TRUE

Subscribed(c, m) == EventOf[m] \in Wants[c]

Sent == {m \in Messages : message[m].at = "done"}

(* SendTo looks one client up and gives the lock up; Broadcast keeps its   *)
(* share of it over all of them.                                           *)
SendTo(m, c) ==
  /\ message[m].at = "new"
  /\ message' = [message EXCEPT ![m] =
                   [at |-> "sending", todo |-> {}, all |-> FALSE, after |-> Sent]]
  /\ checked' = IF client[c] = "open" /\ Subscribed(c, m)
                THEN checked \cup {<<m, c>>} ELSE checked
  /\ UNCHANGED <<client, reading, send, written, panicked>>

Broadcast(m) ==
  /\ message[m].at = "new"
  /\ message' = [message EXCEPT ![m] =
                   [at |-> "sending", todo |-> Registered, all |-> TRUE, after |-> Sent]]
  /\ UNCHANGED <<client, reading, send, written, checked, panicked>>

BroadcastChecks(m, c) ==
  /\ message[m].at = "sending" /\ m \notin panicked /\ c \in message[m].todo
  /\ \A x \in checked : x[1] /= m
  /\ message' = [message EXCEPT ![m].todo = @ \ {c}]
  /\ checked' = IF client[c] = "open" /\ Subscribed(c, m)
                THEN checked \cup {<<m, c>>} ELSE checked
  /\ UNCHANGED <<client, reading, send, written, panicked>>

(* A full queue loses the message; a closed one makes the sender panic.    *)
Deliver(m, c) ==
  /\ <<m, c>> \in checked
  /\ checked' = checked \ {<<m, c>>}
  /\ IF client[c] = "open"
     THEN /\ panicked' = panicked
          /\ send' = [send EXCEPT ![c] = IF Len(@) < QueueSize THEN Append(@, m) ELSE @]
     ELSE panicked' = panicked \cup {m} /\ send' = send
  /\ UNCHANGED <<client, reading, written, message>>

(* SendTo or Broadcast returns, or its panic gives the lock up.            *)
SendEnds(m) ==
  /\ message[m].at = "sending"
  /\ m \in panicked \/ (message[m].todo = {} /\ \A x \in checked : x[1] /= m)
  /\ message' = [message EXCEPT ![m].at = "done"]
  /\ UNCHANGED <<client, reading, send, written, checked, panicked>>

Next ==
  \/ Close
  \/ \E c \in Clients :
       \/ addClient(c) \/ Disconnect(c) \/ WriteNext(c) \/ CloseClient(c)
       \/ removeClient(c)
       \/ \E m \in Messages : SendTo(m, c) \/ BroadcastChecks(m, c) \/ Deliver(m, c)
  \/ \E m \in Messages : Broadcast(m) \/ SendEnds(m)

Spec == Init /\ [][Next]_sseVars

(* A client is written only events it has subscribed to, each once, and    *)
(* what was sent when another had been sent, by SendTo or Broadcast,       *)
(* after that one, whatever is lost, overlaps or is closed in between.     *)
InOrderToSubscribers ==
  \A c \in Clients : \A i, j \in 1 .. Len(written[c]) :
    /\ EventOf[written[c][i]] \in Wants[c]
    /\ i < j => written[c][i] /= written[c][j]
    /\ i < j => written[c][j] \notin message[written[c][i]].after

-----------------------------------------------------------------------------
TypeOK ==
  /\ DOMAIN client = Clients
  /\ send \in [Clients -> Seq(Messages)] /\ written \in [Clients -> Seq(Messages)]
  /\ message \in [Messages ->
       [at : {"new", "sending", "done"}, todo : SUBSET Clients, all : BOOLEAN,
        after : SUBSET Messages]]
  /\ checked \subseteq Messages \X Clients

(* Where m stands: nothing is about to be sent for it before it begins and *)
(* after it ends, and what it came after has ended.                        *)
Stands(m) ==
  /\ message[m].at = "new" => m \notin panicked /\ \A c \in Clients : <<m, c>> \notin checked
  /\ message[m].at = "done" \/ m \in panicked => \A c \in Clients : <<m, c>> \notin checked
  /\ \A c, d \in Clients : <<m, c>> \in checked /\ <<m, d>> \in checked => c = d
  /\ \A k \in message[m].after : message[k].at = "done"

MessagesStand == \A m \in Messages : Stands(m)

CheckedOK ==
  \A m \in Messages, c \in Clients : <<m, c>> \in checked =>
    EventOf[m] \in Wants[c] /\ c \notin message[m].todo

(* What was written to c and what its queue holds.                         *)
SentTo(c) == written[c] \o send[c]

(* What c was sent is not about to be sent to it again.                    *)
SentInOrder(c) ==
  /\ \A i \in 1 .. Len(SentTo(c)) :
       LET m == SentTo(c)[i]
       IN /\ EventOf[m] \in Wants[c] /\ message[m].at /= "new"
          /\ <<m, c>> \notin checked /\ c \notin message[m].todo
  /\ \A i, j \in 1 .. Len(SentTo(c)) :
       LET m == SentTo(c)[i]   k == SentTo(c)[j]
       IN i < j => m /= k /\ k \notin message[m].after

IInv == TypeOK /\ MessagesStand /\ CheckedOK /\ \A c \in Clients : SentInOrder(c)
=============================================================================
