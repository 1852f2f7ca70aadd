------------------------------- MODULE WsHub --------------------------------
(***************************************************************************)
(* The WebSocket hub of framework/push/ws: hub.go, rooms.go and            *)
(* redis_bridge.go, on several nodes that a Redis channel connects.        *)
(*                                                                         *)
(* Each node has one hub, whose Run goroutine alone registers and removes  *)
(* clients and closes their channels.  Each connection has a readPump (in  *)
(* Handle) and a writePump.  Business goroutines broadcast, join and leave *)
(* rooms and close the hub; a bridge goroutine handles what other nodes    *)
(* publish.  A section under a mutex is one step; Run keeps h.mu for       *)
(* reading through the whole of a broadcast, and Send takes it once more.  *)
(***************************************************************************)
EXTENDS Naturals, FiniteSets, Sequences

CONSTANTS
  Nodes,           \* processes, each with a hub
  Clients,         \* connections, each made once
  Home,            \* the node each connection is made to
  Rooms,
  Messages,        \* payloads, each broadcast once by the business
  Speakers,        \* bound: nodes whose business broadcasts
  Stoppable,       \* bound: nodes whose context is cancelled some day
  Fleeting,        \* bound: clients whose connection breaks some day
  Bridged,         \* whether WithRedis was called
  WriteQueueSize,  \* capacity of send and broadcast (64)
  MaxPublishes     \* bound: times a node publishes a message

(* Each connection is made to a node, and messages are sent by nodes.      *)
ASSUME WsHubAssumption ==
  /\ IsFiniteSet(Nodes) /\ Home \in [Clients -> Nodes]
  /\ MaxPublishes \in Nat /\ WriteQueueSize \in Nat

Everyone == "everyone"   \* the room "" of the protocol: a global broadcast

VARIABLES
  clients,     \* registered clients, of all hubs
  rooms,       \* members of each room, of all hubs
  reader,      \* readPump of each client
  writer,      \* writePump of each client
  conn,        \* clients whose connection is open
  queue,       \* client.send
  sendClosed,  \* clients whose send channel is closed
  run,         \* Run of each node: where it stands, on what
  broadcast,   \* h.broadcast of each node
  closing,     \* Close of each node
  cancelled,   \* nodes whose context is cancelled
  sender,      \* a BroadcastRoom by business or bridge, for each node
  inbox,       \* messages Redis has for the subscription of each node
  down,        \* nodes whose process died of a panic
  origin,      \* history: node and room each message was first sent to
  copies,      \* history: times a message was put in the queue of a client
  published,   \* history: times each node published each message
  ever,        \* history: rooms each client has been in
  late,        \* history: clients that joined a room after their removal
  panics       \* history: who has sent on a closed channel

connVars == <<reader, writer, conn, queue>>
hubVars == <<clients, rooms, sendClosed>>
history == <<origin, ever, late, panics>>
vars == <<connVars, hubVars, run, broadcast, closing, cancelled, sender, inbox,
          down, copies, published, history>>

Kinds == {"business", "bridge"}

Targets == Rooms \cup {Everyone}

Idle ==
  [pc |-> "idle", room |-> Everyone, msg |-> "none", left |-> {}, to |-> {}]

RunStates ==
  [pc : {"select", "sending", "publish", "leaving", "stopped"},
   msg : Messages \cup {"none"}, left : SUBSET Clients]

Senders ==
  [pc : {"idle", "next", "send"}, room : Targets,
   msg : Messages \cup {"none"}, left : SUBSET Clients, to : SUBSET Clients]

Published == [node : Nodes, room : Targets, msg : Messages]

TypeOK ==
  /\ clients \subseteq Clients
  /\ rooms \in [Rooms -> SUBSET Clients]
  /\ reader \in
       [Clients -> {"off", "register", "reading", "unregister", "ended"}]
  /\ writer \in [Clients -> {"off", "running", "ended"}]
  /\ conn \subseteq Clients
  /\ queue \in [Clients -> Seq(Messages)]
  /\ sendClosed \subseteq Clients
  /\ run \in [Nodes -> RunStates]
  /\ broadcast \in [Nodes -> Seq(Messages)]
  /\ closing \in [Nodes -> {"no", "waiting", "rooms", "done"}]
  /\ cancelled \subseteq Nodes /\ down \subseteq Nodes
  /\ sender \in [Nodes -> [Kinds -> Senders]]
  /\ inbox \in [Nodes -> Seq(Published)]
  /\ DOMAIN origin \subseteq Messages
  /\ \A m \in DOMAIN origin : origin[m] \in [node : Nodes, room : Targets]
  /\ copies \in [Clients -> [Messages -> Nat]]
  /\ published \in [Messages -> [Nodes -> 0 .. MaxPublishes]]
  /\ ever \in [Clients -> SUBSET Rooms]
  /\ late \subseteq Clients
  /\ panics \subseteq Kinds \cup {"run"}

Init ==
  /\ clients = {}
  /\ rooms = [r \in Rooms |-> {}]
  /\ reader = [c \in Clients |-> "off"]
  /\ writer = [c \in Clients |-> "off"]
  /\ conn = {}
  /\ queue = [c \in Clients |-> <<>>]
  /\ sendClosed = {}
  /\ run = [n \in Nodes |-> [pc |-> "select", msg |-> "none", left |-> {}]]
  /\ broadcast = [n \in Nodes |-> <<>>]
  /\ closing = [n \in Nodes |-> "no"]
  /\ cancelled = {}
  /\ sender = [n \in Nodes |-> [k \in Kinds |-> Idle]]
  /\ inbox = [n \in Nodes |-> <<>>]
  /\ down = {}
  /\ origin = <<>>
  /\ copies = [c \in Clients |-> [m \in Messages |-> 0]]
  /\ published = [m \in Messages |-> [n \in Nodes |-> 0]]
  /\ ever = [c \in Clients |-> {}]
  /\ late = {}
  /\ panics = {}

Of(n) == {c \in Clients : Home[c] = n}

(* h.mu: nobody is let in, for reading or writing, while Close waits for   *)
(* it, and Close waits while Run reads.                                    *)
Lock(n) == closing[n] # "waiting"

(* Mutant: Run can return while it holds h.mu for reading.                 *)
ReadHeldForEver(n) == run[n].pc \in {"sending", "stopped"}

ReadHeld(n) == run[n].pc = "sending"

-----------------------------------------------------------------------------
(* Connections.                                                            *)

Handle(c) ==
  /\ reader[c] = "off"
  /\ reader' = [reader EXCEPT ![c] = "register"]
  /\ conn' = conn \cup {c}
  /\ UNCHANGED <<writer, queue, hubVars, run, broadcast, closing, cancelled,
                 sender, inbox, down, copies, published, history>>

(* The peer goes away, or the read deadline passes.                        *)
Disconnect(c) ==
  /\ c \in conn \cap Fleeting
  /\ conn' = conn \ {c}
  /\ UNCHANGED <<reader, writer, queue, hubVars, run, broadcast, closing,
                 cancelled, sender, inbox, down, copies, published, history>>

(* Mutant: readPump closes the send channel on its way out.                *)
ReadFailsClosing(c) ==
  /\ reader[c] = "reading" /\ c \notin conn
  /\ reader' = [reader EXCEPT ![c] = "unregister"]
  /\ sendClosed' = sendClosed \cup {c}
  /\ UNCHANGED <<writer, conn, queue, clients, rooms, run, broadcast, closing,
                 cancelled, sender, inbox, down, copies, published, history>>

ReadFails(c) ==
  /\ reader[c] = "reading" /\ c \notin conn
  /\ reader' = [reader EXCEPT ![c] = "unregister"]
  /\ UNCHANGED <<writer, conn, queue, hubVars, run, broadcast, closing,
                 cancelled, sender, inbox, down, copies, published, history>>

(* A message is written; a write or a ping on a dead connection, or the    *)
(* closed channel once it is empty, ends the pump.                         *)
writePump(c) ==
  /\ writer[c] = "running"
  /\ \/ /\ queue[c] # <<>>
        /\ queue' = [queue EXCEPT ![c] = Tail(@)]
        /\ writer' = [writer EXCEPT ![c] = IF c \in conn THEN @ ELSE "ended"]
        /\ UNCHANGED conn
     \/ /\ c \notin conn \/ (queue[c] = <<>> /\ c \in sendClosed)
        /\ writer' = [writer EXCEPT ![c] = "ended"]
        /\ conn' = conn \ {c}
        /\ UNCHANGED queue
  /\ UNCHANGED <<reader, hubVars, run, broadcast, closing, cancelled, sender,
                 inbox, down, copies, published, history>>

-----------------------------------------------------------------------------
(* Run.                                                                    *)

Select(n) == run[n].pc = "select"

RunIs(n, r) == run' = [run EXCEPT ![n] = r]

RunAt(n, pc, left) == RunIs(n, [pc |-> pc, msg |-> run[n].msg, left |-> left])

(* Taking a client from the channel and the section that follows are one   *)
(* step, here and in Unregister: until then the client is not in the hub   *)
(* (or still in it), whoever looks.                                        *)
Register(c) ==
  /\ Select(Home[c]) /\ Lock(Home[c])
  /\ reader[c] = "register"
  /\ clients' = clients \cup {c}
  /\ reader' = [reader EXCEPT ![c] = "reading"]
  /\ writer' = [writer EXCEPT ![c] = "running"]
  /\ UNCHANGED <<conn, queue, rooms, sendClosed, run, broadcast, closing,
                 cancelled, sender, inbox, down, copies, published, history>>

(* removeClient, under h.mu; its second section is LeaveAllRooms.          *)
Unregister(c) ==
  /\ Select(Home[c]) /\ Lock(Home[c])
  /\ reader[c] = "unregister"
  /\ reader' = [reader EXCEPT ![c] = "ended"]
  /\ conn' = conn \ {c}
  /\ IF c \in clients
     THEN /\ clients' = clients \ {c}
          /\ sendClosed' = sendClosed \cup {c}
          /\ RunAt(Home[c], "leaving", {c})
     ELSE UNCHANGED <<clients, sendClosed, run>>
  /\ UNCHANGED <<writer, queue, rooms, broadcast, closing, cancelled, sender,
                 inbox, down, copies, published, history>>

(* Mutant: removeClient leaves the rooms as they are.                      *)
RoomsKept(gone) == rooms

WithoutClients(gone) == [r \in Rooms |-> rooms[r] \ gone]

LeaveAllRooms(n) ==
  /\ run[n].pc = "leaving"
  /\ rooms' = WithoutClients(run[n].left)
  /\ RunAt(n, "select", {})
  /\ UNCHANGED <<connVars, clients, sendClosed, broadcast, closing, cancelled,
                 sender, inbox, down, copies, published, history>>

RunBroadcast(n) ==
  /\ Select(n) /\ Lock(n)
  /\ broadcast[n] # <<>>
  /\ broadcast' = [broadcast EXCEPT ![n] = Tail(@)]
  /\ RunIs(n, [pc |-> "sending", msg |-> Head(broadcast[n]),
               left |-> clients \cap Of(n)])
  /\ UNCHANGED <<connVars, hubVars, closing, cancelled, sender, inbox, down,
                 copies, published, history>>

HasRoom(q) == Len(q) < WriteQueueSize

(* The channel send of Client.Send: dropped when the queue is full.        *)
Enqueue(c, m) ==
  IF HasRoom(queue[c])
  THEN /\ queue' = [queue EXCEPT ![c] = Append(@, m)]
       /\ copies' = [copies EXCEPT ![c][m] = @ + 1]
  ELSE UNCHANGED <<queue, copies>>

(* Send inside the broadcast of Run.  closed() takes h.mu again, which Run *)
(* holds: it waits for ever if Close waits for it.                         *)
RunSends(n, c) ==
  /\ run[n].pc = "sending" /\ c \in run[n].left
  /\ Lock(n)
  /\ RunAt(n, "sending", run[n].left \ {c})
  /\ IF c \in sendClosed
     THEN panics' = panics \cup {"run"} /\ UNCHANGED <<queue, copies>>
     ELSE Enqueue(c, run[n].msg) /\ UNCHANGED panics
  /\ UNCHANGED <<reader, writer, conn, hubVars, broadcast, closing, cancelled,
                 sender, inbox, down, published, origin, ever, late>>

(* Mutant: RUnlock is missing, and Run waits for itself at its next Lock.  *)
RunSentLocked(n) == run[n].pc = "sending" /\ run[n].left = {} /\ UNCHANGED vars

RunSent(n) ==
  /\ run[n].pc = "sending" /\ run[n].left = {}
  /\ RunAt(n, "publish", {})
  /\ UNCHANGED <<connVars, hubVars, broadcast, closing, cancelled, sender,
                 inbox, down, copies, published, history>>

(* Redis hands the message to the subscriptions that are connected at the  *)
(* time, the publisher's own among them.  Without a bridge, or when the    *)
(* command fails, nothing happens.                                         *)
publishToRedis(n, r, m) ==
  \/ /\ Bridged
     /\ published[m][n] < MaxPublishes
     /\ published' = [published EXCEPT ![m][n] = @ + 1]
     /\ \E connected \in SUBSET (Nodes \ (cancelled \cup down)) :
          LET message == [node |-> n, room |-> r, msg |-> m] IN
          inbox' = [o \in Nodes |-> IF o \in connected
                                    THEN Append(inbox[o], message)
                                    ELSE inbox[o]]
  \/ UNCHANGED <<published, inbox>>

RunPublishes(n) ==
  /\ run[n].pc = "publish"
  /\ publishToRedis(n, Everyone, run[n].msg)
  /\ RunAt(n, "select", {})
  /\ UNCHANGED <<connVars, hubVars, broadcast, closing, cancelled, sender, down,
                 copies, history>>

RunReturns(n) ==
  /\ Select(n) /\ n \in cancelled
  /\ RunAt(n, "stopped", {})
  /\ UNCHANGED <<connVars, hubVars, broadcast, closing, cancelled, sender,
                 inbox, down, copies, published, history>>

-----------------------------------------------------------------------------
(* Broadcasts.                                                             *)

(* h.Broadcast: dropped when the channel is full.                          *)
Offer(n, m) ==
  broadcast' = IF HasRoom(broadcast[n])
               THEN [broadcast EXCEPT ![n] = Append(@, m)] ELSE broadcast

SenderIs(n, k, s) == sender' = [sender EXCEPT ![n][k] = s]

(* BroadcastRoom, first section: the members are copied.                   *)
CopyMembers(n, k, r, m) ==
  SenderIs(n, k, [pc |-> "next", room |-> r, msg |-> m,
                  left |-> rooms[r] \cap Of(n), to |-> {}])

Dispatch(n, k, r, m) ==
  IF r = Everyone
  THEN Offer(n, m) /\ UNCHANGED sender
  ELSE CopyMembers(n, k, r, m) /\ UNCHANGED broadcast

BusinessBroadcasts(n, r, m) ==
  /\ n \in Speakers
  /\ sender[n]["business"].pc = "idle"
  /\ m \notin DOMAIN origin
  /\ origin' = [x \in DOMAIN origin \cup {m} |->
                  IF x = m THEN [node |-> n, room |-> r] ELSE origin[x]]
  /\ Dispatch(n, "business", r, m)
  /\ UNCHANGED <<connVars, hubVars, run, closing, cancelled, inbox, down, copies,
                 published, ever, late, panics>>

(* Mutant: a node handles its own messages, too.                           *)
FromHere(n, message) == FALSE

OwnMessage(n, message) == message.node = n

(* Mutant: the room is not looked at.                                      *)
RoomOfAny(message) == Everyone

RoomOf(message) == message.room

handleRedisMessage(n) ==
  /\ sender[n]["bridge"].pc = "idle"
  /\ n \notin cancelled
  /\ inbox[n] # <<>>
  /\ inbox' = [inbox EXCEPT ![n] = Tail(@)]
  /\ LET message == Head(inbox[n]) IN
       IF OwnMessage(n, message)
       THEN UNCHANGED <<sender, broadcast>>
       ELSE Dispatch(n, "bridge", RoomOf(message), message.msg)
  /\ UNCHANGED <<connVars, hubVars, run, closing, cancelled, down, copies,
                 published, history>>

At(n, k, pc) == sender[n][k].pc = pc

Become(n, k, pc, left, to) ==
  SenderIs(n, k, [pc |-> pc, room |-> sender[n][k].room,
                  msg |-> sender[n][k].msg, left |-> left, to |-> to])

(* Send, first half: is the client closed?                                 *)
CheckClosed(n, k, c) ==
  /\ At(n, k, "next") /\ c \in sender[n][k].left
  /\ Lock(n)
  /\ IF c \in clients
     THEN Become(n, k, "send", sender[n][k].left \ {c}, {c})
     ELSE Become(n, k, "next", sender[n][k].left \ {c}, {})
  /\ UNCHANGED <<connVars, hubVars, run, broadcast, closing, cancelled, inbox,
                 down, copies, published, history>>

(* Second half.  A channel that has been closed meanwhile makes it panic:  *)
(* net/http recovers a goroutine of its own, nobody recovers the bridge.   *)
SendOne(n, k, c) ==
  /\ At(n, k, "send") /\ c \in sender[n][k].to
  /\ IF c \in sendClosed
     THEN /\ panics' = panics \cup {k}
          /\ SenderIs(n, k, Idle)
          /\ \/ down' = down \cup {n}
             \/ k = "business" /\ down' = down
          /\ UNCHANGED <<queue, copies>>
     ELSE /\ Enqueue(c, sender[n][k].msg)
          /\ Become(n, k, "next", sender[n][k].left, {})
          /\ UNCHANGED <<panics, down>>
  /\ UNCHANGED <<reader, writer, conn, hubVars, run, broadcast, closing,
                 cancelled, inbox, published, origin, ever, late>>

SenderPublishes(n, k) ==
  /\ At(n, k, "next") /\ sender[n][k].left = {}
  /\ publishToRedis(n, sender[n][k].room, sender[n][k].msg)
  /\ SenderIs(n, k, Idle)
  /\ UNCHANGED <<connVars, hubVars, run, broadcast, closing, cancelled, down,
                 copies, history>>

BroadcastRoom(n, k) ==
  \/ \E c \in Of(n) : CheckClosed(n, k, c) \/ SendOne(n, k, c)
  \/ SenderPublishes(n, k)

-----------------------------------------------------------------------------
(* Rooms: called with a client that onMessage was given, at any time after.*)

Known(c) == reader[c] \in {"reading", "unregister", "ended"}

Join(c, r) ==
  /\ Known(c)
  /\ c \notin rooms[r]
  /\ rooms' = [rooms EXCEPT ![r] = @ \cup {c}]
  /\ ever' = [ever EXCEPT ![c] = @ \cup {r}]
  /\ late' = IF c \in clients THEN late ELSE late \cup {c}
  /\ UNCHANGED <<connVars, clients, sendClosed, run, broadcast, closing,
                 cancelled, sender, inbox, down, copies, published, origin,
                 panics>>

Leave(c, r) ==
  /\ c \in rooms[r]
  /\ rooms' = [rooms EXCEPT ![r] = @ \ {c}]
  /\ UNCHANGED <<connVars, clients, sendClosed, run, broadcast, closing,
                 cancelled, sender, inbox, down, copies, published, history>>

-----------------------------------------------------------------------------
(* The context is cancelled; Close is then called beside Run.              *)

Cancel(n) ==
  /\ n \in Stoppable \ cancelled
  /\ cancelled' = cancelled \cup {n}
  /\ UNCHANGED <<connVars, hubVars, run, broadcast, closing, sender, inbox,
                 down, copies, published, history>>

Closing(n, from, to) ==
  /\ closing[n] = from
  /\ closing' = [closing EXCEPT ![n] = to]

CloseBegins(n) ==
  /\ n \in cancelled
  /\ Closing(n, "no", "waiting")
  /\ UNCHANGED <<connVars, hubVars, run, broadcast, cancelled, sender, inbox,
                 down, copies, published, history>>

CloseClients(n) ==
  /\ Closing(n, "waiting", "rooms")
  /\ ~ReadHeld(n)
  /\ conn' = conn \ (clients \cap Of(n))
  /\ clients' = clients \ Of(n)
  /\ UNCHANGED <<reader, writer, queue, rooms, sendClosed, run, broadcast,
                 cancelled, sender, inbox, down, copies, published, history>>

CloseRooms(n) ==
  /\ Closing(n, "rooms", "done")
  /\ rooms' = [r \in Rooms |-> rooms[r] \ Of(n)]
  /\ UNCHANGED <<connVars, clients, sendClosed, run, broadcast, cancelled,
                 sender, inbox, down, copies, published, history>>

Close(n) == CloseBegins(n) \/ CloseClients(n) \/ CloseRooms(n)

-----------------------------------------------------------------------------
Run(n) ==
  \/ \E c \in Of(n) : Register(c) \/ Unregister(c) \/ RunSends(n, c)
  \/ LeaveAllRooms(n)
  \/ RunBroadcast(n)
  \/ RunSent(n)
  \/ RunPublishes(n)
  \/ RunReturns(n)

Next ==
  \E n \in Nodes \ down :
    \/ Run(n)
    \/ Close(n)
    \/ Cancel(n)
    \/ handleRedisMessage(n)
    \/ \E k \in Kinds : BroadcastRoom(n, k)
    \/ \E r \in Targets, m \in Messages : BusinessBroadcasts(n, r, m)
    \/ \E c \in Of(n) :
         \/ Handle(c) \/ Disconnect(c) \/ ReadFails(c) \/ writePump(c)
         \/ \E r \in Rooms : Join(c, r) \/ Leave(c, r)

Spec == Init /\ [][Next]_vars

(* Goroutines that can move are scheduled.                                 *)
Fairness ==
  /\ \A n \in Nodes :
       /\ WF_vars(n \notin down /\ Run(n))
       /\ WF_vars(n \notin down /\ Close(n))
  /\ \A c \in Clients :
       /\ WF_vars(Home[c] \notin down /\ ReadFails(c))
       /\ WF_vars(Home[c] \notin down /\ writePump(c))

FairSpec == Spec /\ Fairness

-----------------------------------------------------------------------------
(* Properties.                                                             *)

(* The broadcast of Run never sends on a closed channel, whatever clients  *)
(* come and go: Run alone closes channels, and it is not removing clients  *)
(* while it sends.  BroadcastRoom has no such protection: between closed() *)
(* and the send the client may be removed.                                 *)
OnlyRoomsPanic == "run" \notin panics

(* A message for a room reaches only clients that have been in the room,   *)
(* on whatever node, also through Redis.                                   *)
RoomIsolation ==
  \A m \in DOMAIN origin, c \in Clients :
    copies[c][m] > 0 => origin[m].room \in ever[c] \cup {Everyone}

(* The first, second, ... time that one of some nodes published a message. *)
Publications(m, nodes) ==
  {p \in nodes \X (1 .. MaxPublishes) : p[2] <= published[m][p[1]]}

(* A client gets at most one copy of a message from its own node's first   *)
(* broadcast, and further ones only because other nodes have published it: *)
(* a node does not handle what it published itself.                        *)
CopiesFromOthers ==
  \A m \in DOMAIN origin, c \in Clients :
    copies[c][m] <=
      (IF origin[m].node = Home[c] THEN 1 ELSE 0)
        + Cardinality(Publications(m, Nodes \ {Home[c]}))

(* A client whose connection is gone is in no room any more, unless it has *)
(* joined one after the hub forgot it (which nothing undoes): removeClient *)
(* and Close clean up behind every interleaving of Join and Leave.         *)
GhostsJoinedLate ==
  \A c \in Clients, r \in Rooms :
    (reader[c] = "ended" /\ c \in rooms[r]) =>
      \/ c \in late
      \/ closing[Home[c]] = "rooms"
      \/ c \in run[Home[c]].left

HubSound ==
  /\ OnlyRoomsPanic /\ RoomIsolation /\ GhostsJoinedLate /\ CopiesFromOthers

(* A connection that breaks is taken out of the hub and both its pumps     *)
(* end, as long as Run goes on and is not blocked by Close.                *)
DisconnectSeen ==
  \A c \in Clients :
    (reader[c] = "reading" /\ c \notin conn) ~>
      \/ reader[c] = "ended" /\ writer[c] = "ended"
      \/ Home[c] \in cancelled \cup down

(* Close ends, unless it waits for a broadcast of Run that waits for it.   *)
CloseEnds ==
  \A n \in Nodes :
    (closing[n] = "waiting") ~>
      (closing[n] = "done" \/ run[n].pc = "sending" \/ n \in down)

-----------------------------------------------------------------------------
(* What the documentation says and the code does not do.                   *)

(* The node id keeps a message from being sent twice to a client           *)
(* (redis_bridge.go:18), though a node publishes again under its own id    *)
(* what it has received.                                                   *)
DeliveredOnce == \A c \in Clients, m \in Messages : copies[c][m] <= 1
=============================================================================
