---------------------------- MODULE WsHubProofs -----------------------------
(***************************************************************************)
(* Proof of HubSound, for any nodes, connections, rooms and messages.      *)
(*                                                                         *)
(* HubSound is not inductive.  The invariant IInv below says, besides the  *)
(* types, where Run stands when it closes a channel (RemovedForGood), who  *)
(* is in a room without being in the hub (GhostsLeaving), that whatever is *)
(* on its way belongs to the room it was sent to (RoomsKnown), and how     *)
(* many copies of a message a client may still get (CopiesAccounted).      *)
(*                                                                         *)
(* The second part names the other components that push, and proves what   *)
(* they promise.                                                           *)
(***************************************************************************)
EXTENDS WsHub, WellFoundedInduction, FiniteSetTheorems,
        SequenceTheorems, TLAPS

(* Run alone closes channels, when it has removed the client for good, and *)
(* not while it sends.                                                     *)
RemovedForGood ==
  /\ \A c \in sendClosed : reader[c] = "ended"
  /\ \A c \in clients : reader[c] # "ended"
  /\ \A n \in Nodes : run[n].pc = "sending" =>
       run[n].left \subseteq Of(n) /\ run[n].left \cap sendClosed = {}
  /\ "run" \notin panics

(* A member of a room that the hub has forgotten is about to leave it, or  *)
(* joined too late.                                                        *)
GhostsLeaving ==
  \A c \in Clients, r \in Rooms :
    (c \in rooms[r] /\ c \notin clients) =>
      \/ c \in late
      \/ closing[Home[c]] = "rooms"
      \/ run[Home[c]].pc = "leaving" /\ c \in run[Home[c]].left

(* By o, the origins, m was first sent to r.                               *)
SentTo(o, m, r) == m \in DOMAIN o /\ o[m].room = r

(* Wherever a message is, it is on its way to the room it was sent to.     *)
BroadcastKnown(o, q) == \A i \in 1 .. Len(q) : SentTo(o, q[i], Everyone)

RunKnown(o, r) == r.pc \in {"sending", "publish"} => SentTo(o, r.msg, Everyone)

InboxKnown(o, q) == \A i \in 1 .. Len(q) : SentTo(o, q[i].msg, q[i].room)

(* A sender has copied members of its room, and keeps the client that it   *)
(* has checked apart from those it has not.                                *)
SenderKnown(o, e, s) ==
  IF s.pc = "idle" THEN s.left = {} /\ s.to = {}
  ELSE /\ SentTo(o, s.msg, s.room) /\ s.room \in Rooms
       /\ \A c \in s.left \cup s.to : s.room \in e[c]
       /\ s.left \cap s.to = {}
       /\ s.pc = "next" => s.to = {}

Entitled(o, e, c, m) == m \in DOMAIN o /\ o[m].room \in e[c] \cup {Everyone}

RoomsKnown ==
  /\ \A r \in Rooms : \A c \in rooms[r] : r \in ever[c]
  /\ \A n \in Nodes : /\ BroadcastKnown(origin, broadcast[n])
                      /\ RunKnown(origin, run[n])
                      /\ InboxKnown(origin, inbox[n])
  /\ \A n \in Nodes, k \in Kinds : SenderKnown(origin, ever, sender[n][k])
  /\ \A c \in Clients, m \in Messages :
       copies[c][m] > 0 => Entitled(origin, ever, c, m)

(* How many elements of a sequence are in a set.                           *)
Occurrences(q, S) == Cardinality({i \in 1 .. Len(q) : q[i] \in S})

Sending(c, m, r) == r.pc = "sending" /\ r.msg = m /\ c \in r.left

Carrying(c, m, s) == s.msg = m /\ c \in s.left \cup s.to

OneIf(condition) == IF condition THEN 1 ELSE 0

(* What other nodes published of m.                                        *)
Foreign(m, n) == {x \in Published : x.msg = m /\ x.node # n}

(* The copies of m that c may still get, with those it got.                *)
InFlight(c, m) ==
  LET n == Home[c] IN
  copies[c][m]
    + Occurrences(broadcast[n], {m}) + OneIf(Sending(c, m, run[n]))
    + OneIf(Carrying(c, m, sender[n]["business"]))
    + OneIf(Carrying(c, m, sender[n]["bridge"]))
    + Occurrences(inbox[n], Foreign(m, n))

SentHere(c, m) == OneIf(m \in DOMAIN origin /\ origin[m].node = Home[c])

OthersPublished(c, m) == Cardinality(Publications(m, Nodes \ {Home[c]}))

CopiesAccounted ==
  \A c \in Clients, m \in Messages :
    InFlight(c, m) <= SentHere(c, m) + OthersPublished(c, m)

IInv ==
  TypeOK /\ RemovedForGood /\ GhostsLeaving /\ RoomsKnown /\ CopiesAccounted

(* Run of one node moves, the others stay.                                 *)
LEMMA RunIsEffect ==
  ASSUME TypeOK, NEW n \in Nodes, NEW r \in RunStates, RunIs(n, r)
  PROVE  /\ run' \in [Nodes -> RunStates]
         /\ run'[n] = r
         /\ \A o \in Nodes \ {n} : run'[o] = run[o]
BY DEF TypeOK, RunIs

(* Run keeps its message when it goes on.                                  *)
LEMMA RunAtEffect ==
  ASSUME TypeOK, NEW n \in Nodes, NEW left, left \subseteq Clients,
         \/ RunAt(n, "select", left) \/ RunAt(n, "publish", left)
         \/ RunAt(n, "stopped", left) \/ RunAt(n, "leaving", left)
         \/ RunAt(n, "sending", left)
  PROVE  /\ run' \in [Nodes -> RunStates]
         /\ run'[n].msg = run[n].msg /\ run'[n].left = left
         /\ RunAt(n, "select", left) => run'[n].pc = "select"
         /\ RunAt(n, "publish", left) => run'[n].pc = "publish"
         /\ RunAt(n, "stopped", left) => run'[n].pc = "stopped"
         /\ RunAt(n, "leaving", left) => run'[n].pc = "leaving"
         /\ RunAt(n, "sending", left) => run'[n].pc = "sending"
         /\ \A o \in Nodes \ {n} : run'[o] = run[o]
<1>1. run[n].msg \in Messages \cup {"none"}
  BY DEF TypeOK, RunStates
<1> DEFINE Stands(pc) == [pc |-> pc, msg |-> run[n].msg, left |-> left]
<1>2. /\ Stands("select") \in RunStates /\ Stands("publish") \in RunStates
      /\ Stands("stopped") \in RunStates /\ Stands("leaving") \in RunStates
      /\ Stands("sending") \in RunStates
  BY <1>1 DEF RunStates
<1>3. ASSUME RunAt(n, "select", left)
      PROVE  /\ run' \in [Nodes -> RunStates] /\ run'[n] = Stands("select")
             /\ \A o \in Nodes \ {n} : run'[o] = run[o]
  BY <1>2, <1>3, RunIsEffect DEF RunAt
<1>4. ASSUME RunAt(n, "publish", left)
      PROVE  /\ run' \in [Nodes -> RunStates] /\ run'[n] = Stands("publish")
             /\ \A o \in Nodes \ {n} : run'[o] = run[o]
  BY <1>2, <1>4, RunIsEffect DEF RunAt
<1>5. ASSUME RunAt(n, "stopped", left)
      PROVE  /\ run' \in [Nodes -> RunStates] /\ run'[n] = Stands("stopped")
             /\ \A o \in Nodes \ {n} : run'[o] = run[o]
  BY <1>2, <1>5, RunIsEffect DEF RunAt
<1>6. ASSUME RunAt(n, "leaving", left)
      PROVE  /\ run' \in [Nodes -> RunStates] /\ run'[n] = Stands("leaving")
             /\ \A o \in Nodes \ {n} : run'[o] = run[o]
  BY <1>2, <1>6, RunIsEffect DEF RunAt
<1>7. ASSUME RunAt(n, "sending", left)
      PROVE  /\ run' \in [Nodes -> RunStates] /\ run'[n] = Stands("sending")
             /\ \A o \in Nodes \ {n} : run'[o] = run[o]
  BY <1>2, <1>7, RunIsEffect DEF RunAt
<1> QED
  BY <1>3, <1>4, <1>5, <1>6, <1>7

(* One sender moves, the others stay.                                      *)
LEMMA SenderIsEffect ==
  ASSUME TypeOK, NEW n \in Nodes, NEW k \in Kinds, NEW s \in Senders,
         SenderIs(n, k, s)
  PROVE  /\ sender' \in [Nodes -> [Kinds -> Senders]]
         /\ sender'[n][k] = s
         /\ \A o \in Nodes, l \in Kinds :
              o # n \/ l # k => sender'[o][l] = sender[o][l]
BY DEF TypeOK, SenderIs

(* A sender goes on with the rest of its members.                          *)
LEMMA NextEffect ==
  ASSUME TypeOK, NEW n \in Nodes, NEW k \in Kinds,
         NEW left, left \subseteq Clients,
         Become(n, k, "next", left, {})
  PROVE  /\ sender' \in [Nodes -> [Kinds -> Senders]]
         /\ sender'[n][k] = [pc |-> "next", room |-> sender[n][k].room,
                             msg |-> sender[n][k].msg, left |-> left, to |-> {}]
         /\ \A o \in Nodes, l \in Kinds :
              o # n \/ l # k => sender'[o][l] = sender[o][l]
<1>1. sender[n][k] \in Senders
  BY DEF TypeOK
<1>2. [pc |-> "next", room |-> sender[n][k].room, msg |-> sender[n][k].msg,
       left |-> left, to |-> {}] \in Senders
  BY <1>1 DEF Senders
<1> QED
  BY <1>2, SenderIsEffect DEF Become

(* A sender is about to send to c.                                         *)
LEMMA SendEffect ==
  ASSUME TypeOK, NEW n \in Nodes, NEW k \in Kinds,
         NEW left, left \subseteq Clients, NEW c \in Clients,
         Become(n, k, "send", left, {c})
  PROVE  /\ sender' \in [Nodes -> [Kinds -> Senders]]
         /\ sender'[n][k] = [pc |-> "send", room |-> sender[n][k].room,
                             msg |-> sender[n][k].msg, left |-> left, to |-> {c}]
         /\ \A o \in Nodes, l \in Kinds :
              o # n \/ l # k => sender'[o][l] = sender[o][l]
<1>1. sender[n][k] \in Senders
  BY DEF TypeOK
<1>2. [pc |-> "send", room |-> sender[n][k].room, msg |-> sender[n][k].msg,
       left |-> left, to |-> {c}] \in Senders
  BY <1>1 DEF Senders
<1> QED
  BY <1>2, SenderIsEffect DEF Become

(* A sender starts with a copy of the members.                             *)
LEMMA CopyMembersEffect ==
  ASSUME TypeOK, NEW n \in Nodes, NEW k \in Kinds, NEW r \in Rooms,
         NEW m \in Messages, CopyMembers(n, k, r, m)
  PROVE  /\ sender' \in [Nodes -> [Kinds -> Senders]]
         /\ sender'[n][k] = [pc |-> "next", room |-> r, msg |-> m,
                             left |-> rooms[r] \cap Of(n), to |-> {}]
         /\ \A o \in Nodes, l \in Kinds :
              o # n \/ l # k => sender'[o][l] = sender[o][l]
<1>1. [pc |-> "next", room |-> r, msg |-> m, left |-> rooms[r] \cap Of(n),
       to |-> {}] \in Senders
  BY DEF Senders, Targets, Of
<1> QED
  BY <1>1, SenderIsEffect DEF CopyMembers

(* A sender that is done.                                                  *)
LEMMA IdleEffect ==
  ASSUME TypeOK, NEW n \in Nodes, NEW k \in Kinds, SenderIs(n, k, Idle)
  PROVE  /\ sender' \in [Nodes -> [Kinds -> Senders]]
         /\ sender'[n][k] = Idle
         /\ \A o \in Nodes, l \in Kinds :
              o # n \/ l # k => sender'[o][l] = sender[o][l]
<1>1. Idle \in Senders
  BY DEF Idle, Senders, Targets
<1> QED
  BY <1>1, SenderIsEffect

(* A client is given a copy, or none.                                      *)
LEMMA EnqueueEffect ==
  ASSUME TypeOK, NEW c \in Clients, NEW m \in Messages, Enqueue(c, m)
  PROVE  /\ queue' \in [Clients -> Seq(Messages)]
         /\ copies' \in [Clients -> [Messages -> Nat]]
         /\ copies'[c][m] \in {copies[c][m], copies[c][m] + 1}
         /\ \A d \in Clients, x \in Messages :
              d # c \/ x # m => copies'[d][x] = copies[d][x]
<1>1. CASE HasRoom(queue[c])
  <2>1. /\ queue' = [queue EXCEPT ![c] = Append(@, m)]
        /\ copies' = [copies EXCEPT ![c][m] = @ + 1]
    BY <1>1 DEF Enqueue
  <2>2. queue' \in [Clients -> Seq(Messages)]
    BY <2>1 DEF TypeOK
  <2>3. /\ copies' \in [Clients -> [Messages -> Nat]]
        /\ copies'[c][m] = copies[c][m] + 1
        /\ \A d \in Clients, x \in Messages :
             d # c \/ x # m => copies'[d][x] = copies[d][x]
    BY <2>1 DEF TypeOK
  <2> QED
    BY <2>2, <2>3
<1>2. CASE ~HasRoom(queue[c])
  BY <1>2 DEF Enqueue, TypeOK
<1> QED
  BY <1>1, <1>2

(* A message is put into h.broadcast, or dropped.                          *)
LEMMA OfferEffect ==
  ASSUME TypeOK, NEW n \in Nodes, NEW m \in Messages, Offer(n, m)
  PROVE  /\ broadcast' \in [Nodes -> Seq(Messages)]
         /\ broadcast'[n] \in {broadcast[n], Append(broadcast[n], m)}
         /\ \A o \in Nodes \ {n} : broadcast'[o] = broadcast[o]
BY DEF TypeOK, Offer

(* A message is published, or not.                                         *)
LEMMA PublishEffect ==
  ASSUME TypeOK, NEW n \in Nodes, NEW r \in Targets, NEW m \in Messages,
         publishToRedis(n, r, m)
  PROVE  /\ inbox' \in [Nodes -> Seq(Published)]
         /\ published' \in [Messages -> [Nodes -> 0 .. MaxPublishes]]
         /\ \A x \in Messages, o \in Nodes :
              x # m \/ o # n => published'[x][o] = published[x][o]
         /\ \/ UNCHANGED <<inbox, published>>
            \/ /\ published'[m][n] = published[m][n] + 1
               /\ \A o \in Nodes :
                    inbox'[o] \in {inbox[o],
                                   Append(inbox[o], [node |-> n, room |-> r, msg |-> m])}
<1>1. CASE UNCHANGED <<published, inbox>>
  BY <1>1 DEF TypeOK
<1>2. CASE ~ UNCHANGED <<published, inbox>>
  <2> DEFINE message == [node |-> n, room |-> r, msg |-> m]
  <2>1. message \in Published
    BY DEF Published
  <2> HIDE DEF message
  <2>2. PICK connected \in SUBSET (Nodes \ (cancelled \cup down)) :
          inbox' = [o \in Nodes |-> IF o \in connected
                                    THEN Append(inbox[o], message)
                                    ELSE inbox[o]]
    BY <1>2 DEF publishToRedis, message
  <2>3. /\ published[m][n] < MaxPublishes
        /\ published' = [published EXCEPT ![m][n] = @ + 1]
    BY <1>2 DEF publishToRedis
  <2>4. /\ published' \in [Messages -> [Nodes -> 0 .. MaxPublishes]]
        /\ published'[m][n] = published[m][n] + 1
        /\ \A x \in Messages, o \in Nodes :
             x # m \/ o # n => published'[x][o] = published[x][o]
    BY <2>3, WsHubAssumption DEF TypeOK
  <2>5. inbox' \in [Nodes -> Seq(Published)]
    BY <2>1, <2>2 DEF TypeOK
  <2>6. \A o \in Nodes : inbox'[o] \in {inbox[o], Append(inbox[o], message)}
    BY <2>2
  <2> QED
    BY <2>4, <2>5, <2>6 DEF message
<1> QED
  BY <1>1, <1>2

-----------------------------------------------------------------------------
(* Initially there is nobody and nothing to send.                          *)
LEMMA InitType == Init => TypeOK
BY WsHubAssumption DEF Init, TypeOK, RunStates, Senders, Idle, Kinds, Targets

(* Every step of every goroutine leaves the state well typed.              *)
LEMMA TypeKept ==
  ASSUME TypeOK, RoomsKnown, [Next]_vars
  PROVE  TypeOK'
<1> USE DEF connVars, hubVars, history
<1>1. CASE UNCHANGED vars
  BY <1>1 DEF TypeOK, vars
<1>2. CASE \E n \in Nodes \ down : Run(n)
  <2> PICK n \in Nodes : Run(n)
    BY <1>2
  <2>0. {} \subseteq Clients
    OBVIOUS
  <2>1. ASSUME NEW c \in Of(n), Register(c)
        PROVE  TypeOK'
    BY <2>1 DEF TypeOK, Register, Of
  <2>2. ASSUME NEW c \in Of(n), Unregister(c)
        PROVE  TypeOK'
    <3>1. c \in Clients /\ Home[c] = n
      BY DEF Of
    <3>2. UNCHANGED run \/ RunAt(n, "leaving", {c})
      BY <2>2, <3>1 DEF Unregister
    <3>4. {c} \subseteq Clients /\ n \in Nodes
      BY <3>1
    <3>5. RunAt(n, "leaving", {c}) => run' \in [Nodes -> RunStates]
      BY <3>4, RunAtEffect
    <3>3. run' \in [Nodes -> RunStates]
      BY <3>2, <3>5 DEF TypeOK
    <3> QED
      BY <2>2, <3>1, <3>3 DEF TypeOK, Unregister
  <2>3. ASSUME NEW c \in Of(n), RunSends(n, c)
        PROVE  TypeOK'
    <3>1. run[n].msg \in Messages /\ c \in Clients
      BY <2>3 DEF RunSends, RoomsKnown, RunKnown, SentTo, TypeOK, Of
    <3>2. run[n].left \ {c} \in SUBSET Clients
      BY DEF TypeOK, RunStates
    <3>3. run' \in [Nodes -> RunStates]
      BY <2>3, <3>2, RunAtEffect DEF RunSends
    <3>4. /\ queue' \in [Clients -> Seq(Messages)]
          /\ copies' \in [Clients -> [Messages -> Nat]]
      BY <2>3, <3>1, EnqueueEffect DEF RunSends, TypeOK
    <3> QED
      BY <2>3, <3>3, <3>4 DEF TypeOK, RunSends
  <2>4. CASE LeaveAllRooms(n)
    <3>1. run' \in [Nodes -> RunStates]
      BY <2>0, <2>4, RunAtEffect DEF LeaveAllRooms
    <3> QED
      BY <2>4, <3>1 DEF TypeOK, LeaveAllRooms, WithoutClients
  <2>5. CASE RunBroadcast(n)
    <3>1. Head(broadcast[n]) \in Messages /\ Tail(broadcast[n]) \in Seq(Messages)
      BY <2>5 DEF TypeOK, RunBroadcast
    <3>2. [pc |-> "sending", msg |-> Head(broadcast[n]),
           left |-> clients \cap Of(n)] \in RunStates
      BY <3>1 DEF RunStates, Of
    <3>3. run' \in [Nodes -> RunStates]
      BY <2>5, <3>2, RunIsEffect DEF RunBroadcast
    <3> QED
      BY <2>5, <3>1, <3>3 DEF TypeOK, RunBroadcast
  <2>6. CASE RunSent(n)
    <3>1. run' \in [Nodes -> RunStates]
      BY <2>0, <2>6, RunAtEffect DEF RunSent
    <3> QED
      BY <2>6, <3>1 DEF TypeOK, RunSent
  <2>7. CASE RunPublishes(n)
    <3>1. run' \in [Nodes -> RunStates]
      BY <2>0, <2>7, RunAtEffect DEF RunPublishes
    <3>2. run[n].msg \in Messages /\ Everyone \in Targets
      BY <2>7 DEF RunPublishes, RoomsKnown, RunKnown, SentTo, TypeOK, Targets
    <3>3. /\ inbox' \in [Nodes -> Seq(Published)]
          /\ published' \in [Messages -> [Nodes -> 0 .. MaxPublishes]]
      BY <2>7, <3>2, PublishEffect DEF RunPublishes
    <3> QED
      BY <2>7, <3>1, <3>3 DEF TypeOK, RunPublishes
  <2>8. CASE RunReturns(n)
    <3>1. run' \in [Nodes -> RunStates]
      BY <2>0, <2>8, RunAtEffect DEF RunReturns
    <3> QED
      BY <2>8, <3>1 DEF TypeOK, RunReturns
  <2> QED
    BY <2>1, <2>2, <2>3, <2>4, <2>5, <2>6, <2>7, <2>8 DEF Run
<1>3. CASE \E n \in Nodes \ down : Close(n) \/ Cancel(n)
  <2> PICK n \in Nodes : Close(n) \/ Cancel(n)
    BY <1>3
  <2>1. CASE CloseBegins(n)
    BY <2>1 DEF TypeOK, CloseBegins, Closing
  <2>2. CASE CloseClients(n)
    BY <2>2 DEF TypeOK, CloseClients, Closing
  <2>3. CASE CloseRooms(n)
    BY <2>3 DEF TypeOK, CloseRooms, Closing
  <2>4. CASE Cancel(n)
    BY <2>4 DEF TypeOK, Cancel
  <2> QED
    BY <2>1, <2>2, <2>3, <2>4 DEF Close
<1>4. CASE \E n \in Nodes \ down : handleRedisMessage(n)
  <2> PICK n \in Nodes : handleRedisMessage(n)
    BY <1>4
  <2>1. /\ inbox[n] \in Seq(Published) /\ Head(inbox[n]) \in Published
        /\ Tail(inbox[n]) \in Seq(Published)
    BY DEF handleRedisMessage, TypeOK
  <2>2. inbox' \in [Nodes -> Seq(Published)]
    BY <2>1 DEF handleRedisMessage, TypeOK
  <2>3. /\ Head(inbox[n]).room \in Targets /\ Head(inbox[n]).msg \in Messages
        /\ "bridge" \in Kinds
    BY <2>1 DEF Published, Kinds
  <2>4. /\ sender' \in [Nodes -> [Kinds -> Senders]]
        /\ broadcast' \in [Nodes -> Seq(Messages)]
    BY <2>3, CopyMembersEffect, OfferEffect
       DEF handleRedisMessage, Dispatch, RoomOf, Targets, TypeOK
  <2> QED
    BY <2>2, <2>4 DEF TypeOK, handleRedisMessage
<1>5. CASE \E n \in Nodes \ down, k \in Kinds : BroadcastRoom(n, k)
  <2> PICK n \in Nodes, k \in Kinds : BroadcastRoom(n, k)
    BY <1>5
  <2>0. sender[n][k] \in Senders
    BY DEF TypeOK
  <2>1. ASSUME NEW c \in Of(n), CheckClosed(n, k, c)
        PROVE  TypeOK'
    <3>1. sender[n][k].left \ {c} \subseteq Clients /\ c \in Clients
      BY <2>0 DEF Senders, Of
    <3>2. \/ Become(n, k, "send", sender[n][k].left \ {c}, {c})
          \/ Become(n, k, "next", sender[n][k].left \ {c}, {})
      BY <2>1 DEF CheckClosed
    <3>4. Become(n, k, "send", sender[n][k].left \ {c}, {c})
            => sender' \in [Nodes -> [Kinds -> Senders]]
      BY <3>1, SendEffect
    <3>5. Become(n, k, "next", sender[n][k].left \ {c}, {})
            => sender' \in [Nodes -> [Kinds -> Senders]]
      BY <3>1, NextEffect
    <3>3. sender' \in [Nodes -> [Kinds -> Senders]]
      BY <3>2, <3>4, <3>5
    <3> QED
      BY <2>1, <3>3 DEF TypeOK, CheckClosed
  <2>2. ASSUME NEW c \in Of(n), SendOne(n, k, c)
        PROVE  TypeOK'
    <3>1. sender[n][k].msg \in Messages /\ c \in Clients
          /\ sender[n][k].left \subseteq Clients
      BY <2>0, <2>2 DEF SendOne, At, RoomsKnown, SenderKnown, SentTo, TypeOK, Of, Senders
    <3>2. SenderIs(n, k, Idle) \/ Become(n, k, "next", sender[n][k].left, {})
      BY <2>2 DEF SendOne
    <3>6. Become(n, k, "next", sender[n][k].left, {})
            => sender' \in [Nodes -> [Kinds -> Senders]]
      BY <3>1, NextEffect
    <3>5. sender' \in [Nodes -> [Kinds -> Senders]]
      BY <3>2, <3>6, IdleEffect
    <3>3. /\ queue' \in [Clients -> Seq(Messages)]
          /\ copies' \in [Clients -> [Messages -> Nat]]
      BY <2>2, <3>1, EnqueueEffect DEF SendOne, TypeOK
    <3>4. down' \subseteq Nodes /\ panics' \subseteq Kinds \cup {"run"}
      BY <2>2 DEF SendOne, TypeOK
    <3> QED
      BY <2>2, <3>3, <3>4, <3>5 DEF TypeOK, SendOne
  <2>3. CASE SenderPublishes(n, k)
    <3>1. sender[n][k].msg \in Messages /\ sender[n][k].room \in Targets
      BY <2>0, <2>3 DEF SenderPublishes, At, RoomsKnown, SenderKnown, SentTo, TypeOK, Senders
    <3>2. sender' \in [Nodes -> [Kinds -> Senders]]
      BY <2>3, IdleEffect DEF SenderPublishes
    <3>3. /\ inbox' \in [Nodes -> Seq(Published)]
          /\ published' \in [Messages -> [Nodes -> 0 .. MaxPublishes]]
      BY <2>3, <3>1, PublishEffect DEF SenderPublishes
    <3> QED
      BY <2>3, <3>2, <3>3 DEF TypeOK, SenderPublishes
  <2> QED
    BY <2>1, <2>2, <2>3 DEF BroadcastRoom
<1>6. CASE \E n \in Nodes \ down, r \in Targets, m \in Messages :
             BusinessBroadcasts(n, r, m)
  <2> PICK n \in Nodes, r \in Targets, m \in Messages :
             BusinessBroadcasts(n, r, m)
    BY <1>6
  <2>1. /\ sender' \in [Nodes -> [Kinds -> Senders]]
        /\ broadcast' \in [Nodes -> Seq(Messages)]
    BY CopyMembersEffect, OfferEffect
       DEF BusinessBroadcasts, Dispatch, Kinds, Targets, TypeOK
  <2>2. /\ DOMAIN origin' \subseteq Messages
        /\ \A x \in DOMAIN origin' : origin'[x] \in [node : Nodes, room : Targets]
    BY DEF BusinessBroadcasts, TypeOK
  <2> QED
    BY <2>1, <2>2 DEF TypeOK, BusinessBroadcasts
<1>7. CASE \E n \in Nodes \ down : \E c \in Of(n) :
             Handle(c) \/ Disconnect(c) \/ ReadFails(c) \/ writePump(c)
  <2> PICK c \in Clients :
             Handle(c) \/ Disconnect(c) \/ ReadFails(c) \/ writePump(c)
    BY <1>7 DEF Of
  <2>1. CASE Handle(c)
    BY <2>1 DEF TypeOK, Handle
  <2>2. CASE Disconnect(c)
    BY <2>2 DEF TypeOK, Disconnect
  <2>3. CASE ReadFails(c)
    BY <2>3 DEF TypeOK, ReadFails
  <2>4. CASE writePump(c)
    <3>0. queue[c] \in Seq(Messages)
      BY DEF TypeOK
    <3>3. queue[c] # <<>> => Tail(queue[c]) \in Seq(Messages)
      BY <3>0
    <3>4. \/ UNCHANGED queue
          \/ queue[c] # <<>> /\ queue' = [queue EXCEPT ![c] = Tail(queue[c])]
      BY <2>4 DEF writePump
    <3>1. queue' \in [Clients -> Seq(Messages)]
      BY <3>3, <3>4 DEF TypeOK
    <3>2. writer' \in [Clients -> {"off", "running", "ended"}] /\ conn' \subseteq Clients
      BY <2>4 DEF TypeOK, writePump
    <3> QED
      BY <2>4, <3>1, <3>2 DEF TypeOK, writePump
  <2> QED
    BY <2>1, <2>2, <2>3, <2>4
<1>8. CASE \E n \in Nodes \ down : \E c \in Of(n), r \in Rooms :
             Join(c, r) \/ Leave(c, r)
  <2> PICK c \in Clients, r \in Rooms : Join(c, r) \/ Leave(c, r)
    BY <1>8 DEF Of
  <2>1. CASE Join(c, r)
    BY <2>1 DEF TypeOK, Join
  <2>2. CASE Leave(c, r)
    BY <2>2 DEF TypeOK, Leave
  <2> QED
    BY <2>1, <2>2
<1> QED
  BY <1>1, <1>2, <1>3, <1>4, <1>5, <1>6, <1>7, <1>8 DEF Next

(* The steps of the hubs, one by one.                                      *)
LEMMA StepCases ==
  ASSUME [Next]_vars
  PROVE  \/ UNCHANGED vars
         \/ \E c \in Clients : \/ Handle(c) \/ Disconnect(c) \/ ReadFails(c)
                               \/ writePump(c) \/ Register(c) \/ Unregister(c)
         \/ \E c \in Clients, r \in Rooms : Join(c, r) \/ Leave(c, r)
         \/ \E n \in Nodes : \/ LeaveAllRooms(n) \/ RunBroadcast(n) \/ RunSent(n)
                             \/ RunPublishes(n) \/ RunReturns(n)
         \/ \E n \in Nodes : \E c \in Of(n) : RunSends(n, c)
         \/ \E n \in Nodes : \/ CloseBegins(n) \/ CloseClients(n) \/ CloseRooms(n)
                             \/ Cancel(n) \/ handleRedisMessage(n)
         \/ \E n \in Nodes, k \in Kinds : \/ \E c \in Of(n) : CheckClosed(n, k, c)
                                          \/ \E c \in Of(n) : SendOne(n, k, c)
                                          \/ SenderPublishes(n, k)
         \/ \E n \in Nodes, r \in Targets, m \in Messages :
              BusinessBroadcasts(n, r, m)
<1>1. \A n : Of(n) \subseteq Clients
  BY DEF Of
<1> QED
  BY <1>1 DEF Next, Run, Close, BroadcastRoom

(* Run closes a channel when it has removed the client, never while it     *)
(* sends.                                                                  *)
LEMMA RemovedKept ==
  ASSUME TypeOK, RemovedForGood, [Next]_vars
  PROVE  RemovedForGood'
<1> USE DEF connVars, hubVars, history
<1>0. \A n \in Nodes : run[n] \in RunStates /\ run[n].left \subseteq Clients
  BY DEF TypeOK, RunStates
<1>1. CASE UNCHANGED <<clients, reader, sendClosed, run, panics>>
  BY <1>1 DEF RemovedForGood
<1>2. ASSUME NEW c \in Clients, Handle(c)
      PROVE  RemovedForGood'
  BY <1>2 DEF Handle, RemovedForGood, TypeOK
<1>3. ASSUME NEW c \in Clients, ReadFails(c)
      PROVE  RemovedForGood'
  BY <1>3 DEF ReadFails, RemovedForGood, TypeOK
<1>4. ASSUME NEW c \in Clients, Register(c)
      PROVE  RemovedForGood'
  BY <1>4 DEF Register, RemovedForGood, TypeOK
<1>5. ASSUME NEW c \in Clients, Unregister(c)
      PROVE  RemovedForGood'
  <2>1. /\ Select(Home[c]) /\ Home[c] \in Nodes
        /\ reader' = [reader EXCEPT ![c] = "ended"]
        /\ UNCHANGED panics
    BY <1>5, WsHubAssumption DEF Unregister
  <2>2. /\ \A d \in sendClosed' : reader'[d] = "ended"
        /\ \A d \in clients' : reader'[d] # "ended"
    BY <1>5, <2>1 DEF Unregister, RemovedForGood, TypeOK
  <2>3. ASSUME NEW n \in Nodes, run'[n].pc = "sending"
        PROVE  run'[n].left \subseteq Of(n) /\ run'[n].left \cap sendClosed' = {}
    <3>1. CASE UNCHANGED <<clients, sendClosed, run>>
      BY <2>3, <3>1 DEF RemovedForGood
    <3>2. CASE RunAt(Home[c], "leaving", {c}) /\ sendClosed' = sendClosed \cup {c}
      <4>1. {c} \subseteq Clients
        OBVIOUS
      <4>2. /\ run'[Home[c]].pc = "leaving"
            /\ \A o \in Nodes \ {Home[c]} : run'[o] = run[o]
        BY <2>1, <3>2, <4>1, RunAtEffect
      <4>3. n # Home[c] /\ run'[n] = run[n]
        BY <2>3, <4>2
      <4>4. c \notin Of(n)
        BY <4>3 DEF Of
      <4> QED
        BY <2>3, <3>2, <4>3, <4>4 DEF RemovedForGood
    <3> QED
      BY <1>5, <3>1, <3>2 DEF Unregister
  <2> QED
    BY <2>1, <2>2, <2>3 DEF RemovedForGood
<1>6. ASSUME NEW n \in Nodes,
             LeaveAllRooms(n) \/ RunSent(n) \/ RunPublishes(n) \/ RunReturns(n)
      PROVE  RemovedForGood'
  <2>1. /\ UNCHANGED <<clients, reader, sendClosed, panics>>
        /\ \/ RunAt(n, "select", {}) \/ RunAt(n, "publish", {})
           \/ RunAt(n, "stopped", {})
    BY <1>6 DEF LeaveAllRooms, RunSent, RunPublishes, RunReturns
  <2>2. {} \subseteq Clients
    OBVIOUS
  <2>3. /\ run'[n].left = {}
        /\ \A o \in Nodes \ {n} : run'[o] = run[o]
    BY <2>1, <2>2, RunAtEffect
  <2> QED
    BY <2>1, <2>3 DEF RemovedForGood
<1>7. ASSUME NEW n \in Nodes, RunBroadcast(n)
      PROVE  RemovedForGood'
  <2>1. Head(broadcast[n]) \in Messages
    BY <1>7 DEF TypeOK, RunBroadcast
  <2>2. [pc |-> "sending", msg |-> Head(broadcast[n]),
         left |-> clients \cap Of(n)] \in RunStates
    BY <2>1 DEF RunStates, Of
  <2>3. /\ UNCHANGED <<clients, reader, sendClosed, panics>>
        /\ run'[n].left = clients \cap Of(n)
        /\ \A o \in Nodes \ {n} : run'[o] = run[o]
    BY <1>7, <2>2, RunIsEffect DEF RunBroadcast
  <2>4. clients \cap sendClosed = {}
    BY DEF RemovedForGood
  <2> QED
    BY <2>3, <2>4 DEF RemovedForGood
<1>8. ASSUME NEW n \in Nodes, NEW c \in Of(n), RunSends(n, c)
      PROVE  RemovedForGood'
  <2>1. /\ UNCHANGED <<clients, reader, sendClosed>>
        /\ run[n].pc = "sending" /\ c \in run[n].left
        /\ RunAt(n, "sending", run[n].left \ {c})
    BY <1>8 DEF RunSends
  <2>2. run[n].left \ {c} \subseteq Clients
    BY <1>0
  <2>3. /\ run'[n].left = run[n].left \ {c}
        /\ \A o \in Nodes \ {n} : run'[o] = run[o]
    BY <2>1, <2>2, RunAtEffect
  <2>4. c \notin sendClosed
    BY <2>1 DEF RemovedForGood
  <2>5. UNCHANGED panics
    BY <1>8, <2>4 DEF RunSends
  <2> QED
    BY <2>1, <2>3, <2>5 DEF RemovedForGood
<1>9. ASSUME NEW n \in Nodes, CloseClients(n)
      PROVE  RemovedForGood'
  BY <1>9 DEF CloseClients, RemovedForGood
<1>10. ASSUME NEW n \in Nodes, NEW k \in Kinds, NEW c \in Of(n), SendOne(n, k, c)
       PROVE  RemovedForGood'
  <2>1. /\ UNCHANGED <<clients, reader, sendClosed, run>>
        /\ panics' \subseteq panics \cup {k}
    BY <1>10 DEF SendOne
  <2>2. k # "run"
    BY DEF Kinds
  <2> QED
    BY <2>1, <2>2 DEF RemovedForGood
<1>11. ASSUME NEW n \in Nodes, \/ CloseBegins(n) \/ CloseRooms(n) \/ Cancel(n)
                               \/ handleRedisMessage(n)
       PROVE  RemovedForGood'
  BY <1>1, <1>11 DEF CloseBegins, CloseRooms, Cancel, handleRedisMessage
<1>12. ASSUME NEW n \in Nodes, NEW k \in Kinds,
              \/ \E c \in Of(n) : CheckClosed(n, k, c)
              \/ SenderPublishes(n, k)
              \/ \E r \in Targets, m \in Messages : BusinessBroadcasts(n, r, m)
       PROVE  RemovedForGood'
  BY <1>1, <1>12 DEF CheckClosed, SenderPublishes, BusinessBroadcasts
<1>13. ASSUME NEW c \in Clients, NEW r \in Rooms,
              Disconnect(c) \/ writePump(c) \/ Join(c, r) \/ Leave(c, r)
       PROVE  RemovedForGood'
  BY <1>1, <1>13 DEF Disconnect, writePump, Join, Leave
<1>14. ASSUME NEW c \in Clients, Disconnect(c) \/ writePump(c)
       PROVE  RemovedForGood'
  BY <1>1, <1>14 DEF Disconnect, writePump
<1>15. CASE UNCHANGED vars
  BY <1>1, <1>15 DEF vars
<1>16. "business" \in Kinds
  BY DEF Kinds
<1> QED
  BY StepCases, <1>2, <1>3, <1>4, <1>5, <1>6, <1>7, <1>8, <1>9, <1>10, <1>11,
     <1>12, <1>13, <1>14, <1>15, <1>16

(* A client that is removed leaves its rooms.                              *)
LEMMA GhostsKept ==
  ASSUME TypeOK, GhostsLeaving, [Next]_vars
  PROVE  GhostsLeaving'
<1> USE DEF connVars, hubVars, history
<1>0. \A n \in Nodes : run[n] \in RunStates /\ run[n].left \subseteq Clients
  BY DEF TypeOK, RunStates
<1>00. \A c \in Clients : Home[c] \in Nodes
  BY WsHubAssumption
<1>1. CASE UNCHANGED <<clients, rooms, late, closing, run>>
  BY <1>1 DEF GhostsLeaving
<1>4. ASSUME NEW c \in Clients, Register(c)
      PROVE  GhostsLeaving'
  BY <1>4 DEF Register, GhostsLeaving
<1>5. ASSUME NEW c \in Clients, Unregister(c)
      PROVE  GhostsLeaving'
  <2>1. CASE UNCHANGED <<clients, run>>
    BY <1>1, <1>5, <2>1 DEF Unregister
  <2>2. CASE RunAt(Home[c], "leaving", {c}) /\ clients' = clients \ {c}
    <3>1. {c} \subseteq Clients
      OBVIOUS
    <3>2. /\ run'[Home[c]].pc = "leaving" /\ run'[Home[c]].left = {c}
          /\ \A o \in Nodes \ {Home[c]} : run'[o] = run[o]
      BY <1>00, <2>2, <3>1, RunAtEffect
    <3>3. run[Home[c]].pc = "select" /\ UNCHANGED <<rooms, late, closing>>
      BY <1>5 DEF Unregister, Select
    <3> QED
      BY <1>00, <2>2, <3>2, <3>3 DEF GhostsLeaving
  <2> QED
    BY <1>5, <2>1, <2>2 DEF Unregister
<1>6. ASSUME NEW n \in Nodes, LeaveAllRooms(n)
      PROVE  GhostsLeaving'
  <2>1. {} \subseteq Clients
    OBVIOUS
  <2>2. \A o \in Nodes \ {n} : run'[o] = run[o]
    BY <1>6, <2>1, RunAtEffect DEF LeaveAllRooms
  <2>3. /\ rooms' = [r \in Rooms |-> rooms[r] \ run[n].left]
        /\ UNCHANGED <<clients, late, closing>>
    BY <1>6 DEF LeaveAllRooms, WithoutClients
  <2> QED
    BY <1>00, <2>2, <2>3 DEF GhostsLeaving
<1>7. ASSUME NEW n \in Nodes, \/ RunSent(n) \/ RunPublishes(n) \/ RunReturns(n)
                              \/ RunBroadcast(n) \/ \E c \in Of(n) : RunSends(n, c)
      PROVE  GhostsLeaving'
  <2>1. /\ UNCHANGED <<clients, rooms, late, closing>>
        /\ run[n].pc # "leaving"
    BY <1>7 DEF RunSent, RunPublishes, RunReturns, RunBroadcast, RunSends, Select
  <2>2. \/ RunAt(n, "select", {}) \/ RunAt(n, "publish", {})
        \/ RunAt(n, "stopped", {}) \/ RunBroadcast(n)
        \/ \E c \in Of(n) : RunAt(n, "sending", run[n].left \ {c})
    BY <1>7 DEF RunSent, RunPublishes, RunReturns, RunSends
  <2>3. \A o \in Nodes \ {n} : run'[o] = run[o]
    <3>1. \A r : RunIs(n, r) => \A o \in Nodes \ {n} : run'[o] = run[o]
      BY DEF RunIs, TypeOK
    <3> QED
      BY <2>2, <3>1 DEF RunAt, RunBroadcast
  <2> QED
    BY <1>00, <2>1, <2>3 DEF GhostsLeaving
<1>8. ASSUME NEW n \in Nodes, CloseBegins(n)
      PROVE  GhostsLeaving'
  BY <1>8 DEF CloseBegins, Closing, GhostsLeaving, TypeOK
<1>9. ASSUME NEW n \in Nodes, CloseClients(n)
      PROVE  GhostsLeaving'
  <2>1. /\ UNCHANGED <<rooms, late, run>>
        /\ closing' = [closing EXCEPT ![n] = "rooms"]
        /\ clients' = clients \ Of(n)
    BY <1>9 DEF CloseClients, Closing
  <2>2. \A c \in Clients : IF Home[c] = n THEN closing'[Home[c]] = "rooms"
                           ELSE /\ closing'[Home[c]] = closing[Home[c]]
                                /\ c \in clients' <=> c \in clients
    BY <1>00, <2>1 DEF TypeOK, Of
  <2> QED
    BY <2>1, <2>2 DEF GhostsLeaving
<1>10. ASSUME NEW n \in Nodes, CloseRooms(n)
       PROVE  GhostsLeaving'
  <2>1. /\ UNCHANGED <<clients, late, run>>
        /\ closing' = [closing EXCEPT ![n] = "done"]
        /\ rooms' = [r \in Rooms |-> rooms[r] \ Of(n)]
    BY <1>10 DEF CloseRooms, Closing
  <2>2. \A c \in Clients, r \in Rooms :
          c \in rooms'[r] => /\ c \in rooms[r]
                             /\ closing'[Home[c]] = closing[Home[c]]
    BY <1>00, <2>1 DEF TypeOK, Of
  <2> QED
    BY <2>1, <2>2 DEF GhostsLeaving
<1>11. ASSUME NEW n \in Nodes, Cancel(n) \/ handleRedisMessage(n)
       PROVE  GhostsLeaving'
  BY <1>1, <1>11 DEF Cancel, handleRedisMessage
<1>12. ASSUME NEW n \in Nodes, NEW k \in Kinds,
              \/ \E c \in Of(n) : CheckClosed(n, k, c) \/ SendOne(n, k, c)
              \/ SenderPublishes(n, k)
              \/ \E r \in Targets, m \in Messages : BusinessBroadcasts(n, r, m)
       PROVE  GhostsLeaving'
  BY <1>1, <1>12 DEF CheckClosed, SendOne, SenderPublishes, BusinessBroadcasts
<1>13. ASSUME NEW c \in Clients,
              Handle(c) \/ Disconnect(c) \/ ReadFails(c) \/ writePump(c)
       PROVE  GhostsLeaving'
  BY <1>1, <1>13 DEF Handle, Disconnect, ReadFails, writePump
<1>14. ASSUME NEW c \in Clients, NEW r \in Rooms, Join(c, r)
       PROVE  GhostsLeaving'
  BY <1>14 DEF Join, GhostsLeaving, TypeOK
<1>15. ASSUME NEW c \in Clients, NEW r \in Rooms, Leave(c, r)
       PROVE  GhostsLeaving'
  BY <1>15 DEF Leave, GhostsLeaving, TypeOK
<1>16. CASE UNCHANGED vars
  BY <1>1, <1>16 DEF vars
<1>17. "business" \in Kinds
  BY DEF Kinds
<1> QED
  BY StepCases, <1>4, <1>5, <1>6, <1>7, <1>8, <1>9, <1>10, <1>11, <1>12, <1>13,
     <1>14, <1>15, <1>16, <1>17

-----------------------------------------------------------------------------
(* Messages on their way: what is known of them stays true.                *)

(* No origin is forgotten or changed.                                      *)
Extends(o, p) == \A m \in DOMAIN o : m \in DOMAIN p /\ p[m] = o[m]

(* What is known by some origins is known by more of them.                 *)
LEMMA KnownByMore ==
  ASSUME NEW o, NEW p, Extends(o, p)
  PROVE  /\ \A q : BroadcastKnown(o, q) => BroadcastKnown(p, q)
         /\ \A r : RunKnown(o, r) => RunKnown(p, r)
         /\ \A q : InboxKnown(o, q) => InboxKnown(p, q)
         /\ \A e, s : SenderKnown(o, e, s) => SenderKnown(p, e, s)
         /\ \A e, c, m : Entitled(o, e, c, m) => Entitled(p, e, c, m)
<1>1. \A m, r : SentTo(o, m, r) => SentTo(p, m, r)
  BY DEF SentTo, Extends
<1> QED
  BY <1>1 DEF BroadcastKnown, RunKnown, InboxKnown, SenderKnown, Entitled, Extends

(* A queue of known messages may grow by a known one, and shrink.          *)
LEMMA BroadcastMoves ==
  ASSUME NEW o, NEW q \in Seq(Messages), BroadcastKnown(o, q)
  PROVE  /\ \A m \in Messages : SentTo(o, m, Everyone)
                                  => BroadcastKnown(o, Append(q, m))
         /\ q # <<>> => /\ BroadcastKnown(o, Tail(q))
                        /\ SentTo(o, Head(q), Everyone)
<1>1. ASSUME NEW m \in Messages, SentTo(o, m, Everyone)
      PROVE  BroadcastKnown(o, Append(q, m))
  BY <1>1 DEF BroadcastKnown
<1>2. ASSUME q # <<>>
      PROVE  BroadcastKnown(o, Tail(q)) /\ SentTo(o, Head(q), Everyone)
  BY <1>2 DEF BroadcastKnown
<1> QED
  BY <1>1, <1>2

(* So may the queue of a subscription.                                     *)
LEMMA InboxMoves ==
  ASSUME NEW o, NEW q \in Seq(Published), InboxKnown(o, q)
  PROVE  /\ \A x \in Published : SentTo(o, x.msg, x.room)
                                   => InboxKnown(o, Append(q, x))
         /\ q # <<>> => /\ InboxKnown(o, Tail(q))
                        /\ SentTo(o, Head(q).msg, Head(q).room)
<1>1. ASSUME NEW x \in Published, SentTo(o, x.msg, x.room)
      PROVE  InboxKnown(o, Append(q, x))
  BY <1>1 DEF InboxKnown
<1>2. ASSUME q # <<>>
      PROVE  InboxKnown(o, Tail(q)) /\ SentTo(o, Head(q).msg, Head(q).room)
  BY <1>2 DEF InboxKnown
<1> QED
  BY <1>1, <1>2

(* A publication is known to every subscription that gets it.              *)
LEMMA PublishedKnown ==
  ASSUME TypeOK, RoomsKnown, NEW n \in Nodes, NEW r \in Targets, NEW m \in Messages,
         SentTo(origin, m, r), publishToRedis(n, r, m)
  PROVE  \A o \in Nodes : InboxKnown(origin, inbox'[o])
<1> SUFFICES ASSUME NEW o \in Nodes PROVE InboxKnown(origin, inbox'[o])
  OBVIOUS
<1> DEFINE x == [node |-> n, room |-> r, msg |-> m]
<1>1. x \in Published /\ x.msg = m /\ x.room = r
  BY DEF Published
<1>2. inbox'[o] \in {inbox[o], Append(inbox[o], x)}
  BY PublishEffect
<1>3. inbox[o] \in Seq(Published) /\ InboxKnown(origin, inbox[o])
  BY DEF TypeOK, RoomsKnown
<1> HIDE DEF x
<1> QED
  BY <1>1, <1>2, <1>3, InboxMoves

(* What a broadcast of a message to r starts is known, by origins that     *)
(* know that it was sent there.                                            *)
LEMMA DispatchKnown ==
  ASSUME TypeOK, NEW o, NEW n \in Nodes, NEW k \in Kinds, NEW r \in Targets,
         NEW m \in Messages, SentTo(o, m, r), Dispatch(n, k, r, m),
         \A l \in Nodes : BroadcastKnown(o, broadcast[l]),
         \A l \in Nodes, j \in Kinds : SenderKnown(o, ever, sender[l][j]),
         \A room \in Rooms : \A c \in rooms[room] : room \in ever[c]
  PROVE  /\ \A l \in Nodes : BroadcastKnown(o, broadcast'[l])
         /\ \A l \in Nodes, j \in Kinds : SenderKnown(o, ever, sender'[l][j])
<1>1. CASE r = Everyone
  <2>1. Offer(n, m) /\ UNCHANGED sender
    BY <1>1 DEF Dispatch
  <2>2. /\ broadcast'[n] \in {broadcast[n], Append(broadcast[n], m)}
        /\ \A l \in Nodes \ {n} : broadcast'[l] = broadcast[l]
    BY <2>1, OfferEffect
  <2>3. broadcast[n] \in Seq(Messages)
    BY DEF TypeOK
  <2>4. BroadcastKnown(o, Append(broadcast[n], m))
    BY <1>1, <2>3, BroadcastMoves
  <2> QED
    BY <2>1, <2>2, <2>4
<1>2. CASE r # Everyone
  <2>1. CopyMembers(n, k, r, m) /\ UNCHANGED broadcast /\ r \in Rooms
    BY <1>2 DEF Dispatch, Targets
  <2>2. /\ sender'[n][k] = [pc |-> "next", room |-> r, msg |-> m,
                            left |-> rooms[r] \cap Of(n), to |-> {}]
        /\ \A l \in Nodes, j \in Kinds :
             l # n \/ j # k => sender'[l][j] = sender[l][j]
    BY <2>1, CopyMembersEffect
  <2>3. SenderKnown(o, ever, sender'[n][k])
    BY <2>1, <2>2 DEF SenderKnown
  <2> QED
    BY <2>1, <2>2, <2>3
<1> QED
  BY <1>1, <1>2

(* Every step leaves what is on its way known.                             *)
LEMMA RoomsKnownKept ==
  ASSUME TypeOK, RoomsKnown, [Next]_vars
  PROVE  RoomsKnown'
<1> USE DEF connVars, hubVars, history
<1>0. /\ \A n \in Nodes : run[n] \in RunStates /\ run[n].left \subseteq Clients
      /\ {} \subseteq Clients
  BY DEF TypeOK, RunStates
<1>1. CASE UNCHANGED <<rooms, ever, origin, broadcast, run, inbox, sender, copies>>
  BY <1>1 DEF RoomsKnown
<1>2. ASSUME NEW c \in Clients,
             \/ Handle(c) \/ Disconnect(c) \/ ReadFails(c) \/ writePump(c)
             \/ Register(c)
      PROVE  RoomsKnown'
  BY <1>1, <1>2 DEF Handle, Disconnect, ReadFails, writePump, Register
<1>3. ASSUME NEW c \in Clients, Unregister(c)
      PROVE  RoomsKnown'
  <2>1. CASE UNCHANGED run
    BY <1>1, <1>3, <2>1 DEF Unregister
  <2>2. CASE RunAt(Home[c], "leaving", {c})
    <3>1. {c} \subseteq Clients /\ Home[c] \in Nodes
      BY WsHubAssumption
    <3>2. /\ run'[Home[c]].pc = "leaving"
          /\ \A o \in Nodes \ {Home[c]} : run'[o] = run[o]
      BY <2>2, <3>1, RunAtEffect
    <3>3. UNCHANGED <<rooms, ever, origin, broadcast, inbox, sender, copies>>
      BY <1>3 DEF Unregister
    <3>4. \A o \in Nodes : RunKnown(origin, run'[o])
      BY <3>2 DEF RoomsKnown, RunKnown
    <3> QED
      BY <3>3, <3>4 DEF RoomsKnown
  <2> QED
    BY <1>3, <2>1, <2>2 DEF Unregister
<1>4. ASSUME NEW c \in Clients, NEW r \in Rooms, Join(c, r)
      PROVE  RoomsKnown'
  <2>1. /\ rooms' = [rooms EXCEPT ![r] = @ \cup {c}]
        /\ ever' = [ever EXCEPT ![c] = @ \cup {r}]
        /\ UNCHANGED <<origin, broadcast, run, inbox, sender, copies>>
    BY <1>4 DEF Join
  <2>2. \A d \in Clients : ever[d] \subseteq ever'[d]
    BY <2>1 DEF TypeOK
  <2>3. \A x \in Rooms : \A d \in rooms'[x] : x \in ever'[d]
    BY <2>1 DEF TypeOK, RoomsKnown
  <2>4. \A n \in Nodes, k \in Kinds : SenderKnown(origin, ever', sender[n][k])
    <3> SUFFICES ASSUME NEW n \in Nodes, NEW k \in Kinds
                 PROVE  SenderKnown(origin, ever', sender[n][k])
      OBVIOUS
    <3>1. sender[n][k] \in Senders /\ SenderKnown(origin, ever, sender[n][k])
      BY DEF TypeOK, RoomsKnown
    <3> QED
      BY <2>2, <3>1 DEF SenderKnown, Senders
  <2>5. \A d \in Clients : \A m : Entitled(origin, ever, d, m) => Entitled(origin, ever', d, m)
    BY <2>2 DEF Entitled
  <2> QED
    BY <2>1, <2>3, <2>4, <2>5 DEF RoomsKnown
<1>5. ASSUME \/ \E c \in Clients, r \in Rooms : Leave(c, r)
             \/ \E n \in Nodes : CloseRooms(n)
      PROVE  RoomsKnown'
  <2>1. /\ \A r \in Rooms : rooms'[r] \subseteq rooms[r]
        /\ UNCHANGED <<ever, origin, broadcast, run, inbox, sender, copies>>
    <3>1. ASSUME NEW c \in Clients, NEW r \in Rooms, Leave(c, r)
          PROVE  \A x \in Rooms : rooms'[x] \subseteq rooms[x]
      BY <3>1 DEF Leave, TypeOK
    <3>2. ASSUME NEW n \in Nodes, CloseRooms(n)
          PROVE  \A x \in Rooms : rooms'[x] \subseteq rooms[x]
      BY <3>2 DEF CloseRooms
    <3> QED
      BY <1>5, <3>1, <3>2 DEF Leave, CloseRooms
  <2> QED
    BY <2>1 DEF RoomsKnown
<1>6. ASSUME NEW n \in Nodes, LeaveAllRooms(n) \/ RunReturns(n) \/ RunSent(n)
      PROVE  RoomsKnown'
  <2>1. /\ \A r \in Rooms : rooms'[r] \subseteq rooms[r]
        /\ UNCHANGED <<ever, origin, broadcast, inbox, sender, copies>>
    BY <1>6 DEF LeaveAllRooms, RunReturns, RunSent, WithoutClients
  <2>2. \/ RunAt(n, "select", {}) \/ RunAt(n, "stopped", {})
        \/ RunAt(n, "publish", {}) /\ run[n].pc = "sending"
    BY <1>6 DEF LeaveAllRooms, RunReturns, RunSent
  <2>3. /\ run'[n].msg = run[n].msg
        /\ \/ run'[n].pc \in {"select", "stopped"}
           \/ run'[n].pc = "publish" /\ run[n].pc = "sending"
        /\ \A o \in Nodes \ {n} : run'[o] = run[o]
    BY <1>0, <2>2, RunAtEffect
  <2>4. \A o \in Nodes : RunKnown(origin, run'[o])
    BY <2>3 DEF RoomsKnown, RunKnown
  <2> QED
    BY <2>1, <2>4 DEF RoomsKnown
<1>7. ASSUME NEW n \in Nodes, RunBroadcast(n)
      PROVE  RoomsKnown'
  <2>1. /\ broadcast[n] # <<>> /\ broadcast[n] \in Seq(Messages)
        /\ broadcast' = [broadcast EXCEPT ![n] = Tail(broadcast[n])]
        /\ UNCHANGED <<rooms, ever, origin, inbox, sender, copies>>
    BY <1>7 DEF RunBroadcast, TypeOK
  <2>2. Head(broadcast[n]) \in Messages
    BY <2>1
  <2>3. [pc |-> "sending", msg |-> Head(broadcast[n]),
         left |-> clients \cap Of(n)] \in RunStates
    BY <2>2 DEF RunStates, Of
  <2>4. /\ run'[n] = [pc |-> "sending", msg |-> Head(broadcast[n]),
                      left |-> clients \cap Of(n)]
        /\ \A o \in Nodes \ {n} : run'[o] = run[o]
    BY <1>7, <2>3, RunIsEffect DEF RunBroadcast
  <2>5. BroadcastKnown(origin, Tail(broadcast[n]))
        /\ SentTo(origin, Head(broadcast[n]), Everyone)
    BY <2>1, BroadcastMoves DEF RoomsKnown
  <2>6. \A o \in Nodes : RunKnown(origin, run'[o])
    BY <2>4, <2>5 DEF RoomsKnown, RunKnown
  <2>7. \A o \in Nodes : BroadcastKnown(origin, broadcast'[o])
    BY <2>1, <2>5 DEF RoomsKnown, TypeOK
  <2> QED
    BY <2>1, <2>6, <2>7 DEF RoomsKnown
<1>8. ASSUME NEW n \in Nodes, RunPublishes(n)
      PROVE  RoomsKnown'
  <2>1. /\ UNCHANGED <<rooms, ever, origin, broadcast, sender, copies>>
        /\ RunAt(n, "select", {}) /\ run[n].pc = "publish"
        /\ publishToRedis(n, Everyone, run[n].msg)
    BY <1>8 DEF RunPublishes
  <2>2. SentTo(origin, run[n].msg, Everyone)
    BY <2>1 DEF RoomsKnown, RunKnown
  <2>3. run[n].msg \in Messages /\ Everyone \in Targets
    BY <2>2 DEF SentTo, TypeOK, Targets
  <2>4. \A o \in Nodes : InboxKnown(origin, inbox'[o])
    BY <2>1, <2>2, <2>3, PublishedKnown
  <2>5. /\ run'[n].pc = "select"
        /\ \A o \in Nodes \ {n} : run'[o] = run[o]
    BY <1>0, <2>1, RunAtEffect
  <2>6. \A o \in Nodes : RunKnown(origin, run'[o])
    BY <2>5 DEF RoomsKnown, RunKnown
  <2> QED
    BY <2>1, <2>4, <2>6 DEF RoomsKnown
<1>9. ASSUME NEW n \in Nodes, NEW c \in Of(n), RunSends(n, c)
      PROVE  RoomsKnown'
  <2>1. /\ UNCHANGED <<rooms, ever, origin, broadcast, inbox, sender>>
        /\ run[n].pc = "sending"
        /\ RunAt(n, "sending", run[n].left \ {c})
        /\ UNCHANGED copies \/ Enqueue(c, run[n].msg)
    BY <1>9 DEF RunSends
  <2>2. SentTo(origin, run[n].msg, Everyone)
    BY <2>1 DEF RoomsKnown, RunKnown
  <2>3. run[n].msg \in Messages /\ c \in Clients
    BY <2>2 DEF SentTo, TypeOK, Of
  <2>4. run[n].left \ {c} \subseteq Clients
    BY <1>0
  <2>5. /\ run'[n].msg = run[n].msg
        /\ \A o \in Nodes \ {n} : run'[o] = run[o]
    BY <2>1, <2>4, RunAtEffect
  <2>6. \A o \in Nodes : RunKnown(origin, run'[o])
    BY <2>2, <2>5 DEF RoomsKnown, RunKnown
  <2>7. Entitled(origin, ever, c, run[n].msg)
    BY <2>2 DEF SentTo, Entitled
  <2>8. \A d \in Clients, m \in Messages :
          copies'[d][m] > 0 => Entitled(origin, ever, d, m)
    <3>1. CASE UNCHANGED copies
      BY <3>1 DEF RoomsKnown
    <3>2. CASE Enqueue(c, run[n].msg)
      <4>1. \A d \in Clients, x \in Messages :
              d # c \/ x # run[n].msg => copies'[d][x] = copies[d][x]
        BY <2>3, <3>2, EnqueueEffect
      <4> QED
        BY <2>7, <4>1 DEF RoomsKnown
    <3> QED
      BY <2>1, <3>1, <3>2
  <2> QED
    BY <2>1, <2>6, <2>8 DEF RoomsKnown
<1>10. ASSUME NEW n \in Nodes, CloseBegins(n) \/ CloseClients(n) \/ Cancel(n)
       PROVE  RoomsKnown'
  BY <1>1, <1>10 DEF CloseBegins, CloseClients, Cancel
<1>11. ASSUME NEW n \in Nodes, handleRedisMessage(n)
       PROVE  RoomsKnown'
  <2>1. /\ inbox[n] # <<>> /\ inbox[n] \in Seq(Published)
        /\ inbox' = [inbox EXCEPT ![n] = Tail(inbox[n])]
        /\ UNCHANGED <<rooms, ever, origin, run, copies>>
    BY <1>11 DEF handleRedisMessage, TypeOK
  <2>2. InboxKnown(origin, Tail(inbox[n]))
        /\ SentTo(origin, Head(inbox[n]).msg, Head(inbox[n]).room)
    BY <2>1, InboxMoves DEF RoomsKnown
  <2>3. \A o \in Nodes : InboxKnown(origin, inbox'[o])
    BY <2>1, <2>2 DEF RoomsKnown, TypeOK
  <2>7. Head(inbox[n]) \in Published
    BY <2>1
  <2>4. /\ "bridge" \in Kinds
        /\ Head(inbox[n]).msg \in Messages /\ Head(inbox[n]).room \in Targets
    BY <2>7 DEF Published, Kinds
  <2>5. \/ UNCHANGED <<sender, broadcast>>
        \/ Dispatch(n, "bridge", Head(inbox[n]).room, Head(inbox[n]).msg)
    BY <1>11 DEF handleRedisMessage, RoomOf
  <2>6. /\ \A l \in Nodes : BroadcastKnown(origin, broadcast'[l])
        /\ \A l \in Nodes, j \in Kinds : SenderKnown(origin, ever, sender'[l][j])
    <3>1. /\ \A l \in Nodes : BroadcastKnown(origin, broadcast[l])
          /\ \A l \in Nodes, j \in Kinds : SenderKnown(origin, ever, sender[l][j])
          /\ \A room \in Rooms : \A c \in rooms[room] : room \in ever[c]
      BY DEF RoomsKnown
    <3>2. CASE UNCHANGED <<sender, broadcast>>
      BY <3>1, <3>2
    <3>3. CASE Dispatch(n, "bridge", Head(inbox[n]).room, Head(inbox[n]).msg)
      <4> DEFINE r == Head(inbox[n]).room
                 m == Head(inbox[n]).msg
                 k == "bridge"
      <4>1. /\ r \in Targets /\ m \in Messages /\ k \in Kinds
            /\ SentTo(origin, m, r) /\ Dispatch(n, k, r, m)
        BY <2>2, <2>4, <3>3
      <4> HIDE DEF r, m, k
      <4> QED
        BY <3>1, <4>1, DispatchKnown
    <3> QED
      BY <2>5, <3>2, <3>3
  <2> QED
    BY <2>1, <2>3, <2>6 DEF RoomsKnown
<1>12. ASSUME NEW n \in Nodes, NEW k \in Kinds, NEW c \in Of(n), CheckClosed(n, k, c)
       PROVE  RoomsKnown'
  <2>1. /\ UNCHANGED <<rooms, ever, origin, broadcast, run, inbox, copies>>
        /\ sender[n][k].pc = "next" /\ c \in sender[n][k].left
        /\ \/ Become(n, k, "send", sender[n][k].left \ {c}, {c})
           \/ Become(n, k, "next", sender[n][k].left \ {c}, {})
    BY <1>12 DEF CheckClosed, At
  <2>2. /\ sender[n][k] \in Senders /\ SenderKnown(origin, ever, sender[n][k])
    BY DEF TypeOK, RoomsKnown
  <2>5. sender[n][k].left \ {c} \subseteq Clients /\ c \in Clients
    BY <2>2 DEF Senders, Of
  <2>3. CASE Become(n, k, "send", sender[n][k].left \ {c}, {c})
    <3>1. /\ sender'[n][k] = [pc |-> "send", room |-> sender[n][k].room,
                              msg |-> sender[n][k].msg,
                              left |-> sender[n][k].left \ {c}, to |-> {c}]
          /\ \A o \in Nodes, l \in Kinds :
               o # n \/ l # k => sender'[o][l] = sender[o][l]
      BY <2>3, <2>5, SendEffect
    <3>2. SenderKnown(origin, ever, sender'[n][k])
      BY <2>1, <2>2, <3>1 DEF SenderKnown
    <3> QED
      BY <2>1, <3>1, <3>2 DEF RoomsKnown
  <2>4. CASE Become(n, k, "next", sender[n][k].left \ {c}, {})
    <3>1. /\ sender'[n][k] = [pc |-> "next", room |-> sender[n][k].room,
                              msg |-> sender[n][k].msg,
                              left |-> sender[n][k].left \ {c}, to |-> {}]
          /\ \A o \in Nodes, l \in Kinds :
               o # n \/ l # k => sender'[o][l] = sender[o][l]
      BY <2>4, <2>5, NextEffect
    <3>2. SenderKnown(origin, ever, sender'[n][k])
      BY <2>1, <2>2, <3>1 DEF SenderKnown
    <3> QED
      BY <2>1, <3>1, <3>2 DEF RoomsKnown
  <2> QED
    BY <2>1, <2>3, <2>4
<1>13. ASSUME NEW n \in Nodes, NEW k \in Kinds, NEW c \in Of(n), SendOne(n, k, c)
       PROVE  RoomsKnown'
  <2>1. /\ UNCHANGED <<rooms, ever, origin, broadcast, run, inbox>>
        /\ sender[n][k].pc = "send" /\ c \in sender[n][k].to
        /\ \/ UNCHANGED copies /\ SenderIs(n, k, Idle)
           \/ /\ Enqueue(c, sender[n][k].msg)
              /\ Become(n, k, "next", sender[n][k].left, {})
    BY <1>13 DEF SendOne, At
  <2>2. /\ sender[n][k] \in Senders /\ SenderKnown(origin, ever, sender[n][k])
        /\ sender[n][k].left \subseteq Clients /\ c \in Clients
    BY DEF TypeOK, RoomsKnown, Senders, Of
  <2>3. CASE UNCHANGED copies /\ SenderIs(n, k, Idle)
    <3>1. /\ sender'[n][k] = Idle
          /\ \A o \in Nodes, l \in Kinds :
               o # n \/ l # k => sender'[o][l] = sender[o][l]
      BY <2>3, IdleEffect
    <3>2. SenderKnown(origin, ever, sender'[n][k])
      BY <3>1 DEF SenderKnown, Idle
    <3> QED
      BY <2>1, <2>3, <3>1, <3>2 DEF RoomsKnown
  <2>4. CASE /\ Enqueue(c, sender[n][k].msg)
             /\ Become(n, k, "next", sender[n][k].left, {})
    <3>1. /\ sender'[n][k] = [pc |-> "next", room |-> sender[n][k].room,
                              msg |-> sender[n][k].msg,
                              left |-> sender[n][k].left, to |-> {}]
          /\ \A o \in Nodes, l \in Kinds :
               o # n \/ l # k => sender'[o][l] = sender[o][l]
      BY <2>2, <2>4, NextEffect
    <3>2. SenderKnown(origin, ever, sender'[n][k])
      BY <2>1, <2>2, <3>1 DEF SenderKnown
    <3>3. SentTo(origin, sender[n][k].msg, sender[n][k].room)
          /\ sender[n][k].room \in ever[c]
      BY <2>1, <2>2 DEF SenderKnown
    <3>4. sender[n][k].msg \in Messages
      BY <3>3 DEF SentTo, TypeOK
    <3>5. \A d \in Clients, x \in Messages :
            d # c \/ x # sender[n][k].msg => copies'[d][x] = copies[d][x]
      BY <2>2, <2>4, <3>4, EnqueueEffect
    <3>6. Entitled(origin, ever, c, sender[n][k].msg)
      BY <3>3 DEF SentTo, Entitled
    <3>7. \A d \in Clients, m \in Messages :
            copies'[d][m] > 0 => Entitled(origin, ever, d, m)
      BY <3>5, <3>6 DEF RoomsKnown
    <3> QED
      BY <2>1, <3>1, <3>2, <3>7 DEF RoomsKnown
  <2> QED
    BY <2>1, <2>3, <2>4
<1>14. ASSUME NEW n \in Nodes, NEW k \in Kinds, SenderPublishes(n, k)
       PROVE  RoomsKnown'
  <2>1. /\ UNCHANGED <<rooms, ever, origin, broadcast, run, copies>>
        /\ sender[n][k].pc = "next" /\ SenderIs(n, k, Idle)
        /\ publishToRedis(n, sender[n][k].room, sender[n][k].msg)
    BY <1>14 DEF SenderPublishes, At
  <2>2. SentTo(origin, sender[n][k].msg, sender[n][k].room)
    BY <2>1 DEF RoomsKnown, SenderKnown
  <2>3. sender[n][k].msg \in Messages /\ sender[n][k].room \in Targets
    BY <2>2 DEF SentTo, TypeOK, Senders
  <2>4. \A o \in Nodes : InboxKnown(origin, inbox'[o])
    BY <2>1, <2>2, <2>3, PublishedKnown
  <2>5. /\ sender'[n][k] = Idle
        /\ \A o \in Nodes, l \in Kinds :
             o # n \/ l # k => sender'[o][l] = sender[o][l]
    BY <2>1, IdleEffect
  <2>6. SenderKnown(origin, ever, sender'[n][k])
    BY <2>5 DEF SenderKnown, Idle
  <2> QED
    BY <2>1, <2>4, <2>5, <2>6 DEF RoomsKnown
<1>15. ASSUME NEW n \in Nodes, NEW r \in Targets, NEW m \in Messages,
              BusinessBroadcasts(n, r, m)
       PROVE  RoomsKnown'
  <2>1. /\ UNCHANGED <<rooms, ever, run, inbox, copies>>
        /\ m \notin DOMAIN origin
        /\ origin' = [x \in DOMAIN origin \cup {m} |->
                        IF x = m THEN [node |-> n, room |-> r] ELSE origin[x]]
        /\ Dispatch(n, "business", r, m)
    BY <1>15 DEF BusinessBroadcasts
  <2>2. Extends(origin, origin') /\ SentTo(origin', m, r)
    BY <2>1 DEF Extends, SentTo
  <2>3. /\ \A q : BroadcastKnown(origin, q) => BroadcastKnown(origin', q)
        /\ \A x : RunKnown(origin, x) => RunKnown(origin', x)
        /\ \A q : InboxKnown(origin, q) => InboxKnown(origin', q)
        /\ \A s : SenderKnown(origin, ever, s) => SenderKnown(origin', ever, s)
        /\ \A c, x : Entitled(origin, ever, c, x) => Entitled(origin', ever, c, x)
    BY <2>2, KnownByMore
  <2>4. /\ \A l \in Nodes : BroadcastKnown(origin', broadcast[l])
        /\ \A l \in Nodes, j \in Kinds : SenderKnown(origin', ever, sender[l][j])
        /\ \A room \in Rooms : \A c \in rooms[room] : room \in ever[c]
        /\ \A l \in Nodes : RunKnown(origin', run[l]) /\ InboxKnown(origin', inbox[l])
        /\ \A c \in Clients, x \in Messages :
             copies[c][x] > 0 => Entitled(origin', ever, c, x)
    BY <2>3 DEF RoomsKnown
  <2>5. /\ \A l \in Nodes : BroadcastKnown(origin', broadcast'[l])
        /\ \A l \in Nodes, j \in Kinds : SenderKnown(origin', ever, sender'[l][j])
    <3> DEFINE k == "business"
    <3>1. k \in Kinds /\ Dispatch(n, k, r, m)
      BY <2>1 DEF Kinds
    <3> HIDE DEF k
    <3> QED
      BY <2>2, <2>4, <3>1, DispatchKnown
  <2> QED
    BY <2>1, <2>4, <2>5 DEF RoomsKnown
<1>16. CASE UNCHANGED vars
  BY <1>1, <1>16 DEF vars
<1> QED
  BY StepCases, <1>2, <1>3, <1>4, <1>5, <1>6, <1>7, <1>8, <1>9, <1>10, <1>11,
     <1>12, <1>13, <1>14, <1>15, <1>16

-----------------------------------------------------------------------------
(* Copies, counted.                                                        *)

(* Occurrences are a number.                                               *)
LEMMA OccurrencesNat ==
  ASSUME NEW T, NEW q \in Seq(T), NEW S
  PROVE  Occurrences(q, S) \in Nat
<1>1. IsFiniteSet({i \in 1 .. Len(q) : q[i] \in S})
  BY FS_Interval, FS_Subset
<1> QED
  BY <1>1, FS_CardinalityType DEF Occurrences

(* An element that is appended counts for one, if it is looked for.        *)
LEMMA OccurrencesAppend ==
  ASSUME NEW T, NEW q \in Seq(T), NEW x \in T, NEW S
  PROVE  Occurrences(Append(q, x), S) = Occurrences(q, S) + OneIf(x \in S)
<1> DEFINE P == {i \in 1 .. Len(q) : q[i] \in S}
           R == {i \in 1 .. Len(Append(q, x)) : Append(q, x)[i] \in S}
           n == Len(q) + 1
<1>1. IsFiniteSet(P) /\ n \notin P
  BY FS_Interval, FS_Subset
<1>2. Cardinality(P) \in Nat
  BY <1>1, FS_CardinalityType
<1>3. R = IF x \in S THEN P \cup {n} ELSE P
  OBVIOUS
<1>4. Cardinality(P \cup {n}) = Cardinality(P) + 1
  BY <1>1, FS_AddElement
<1>5. Occurrences(q, S) = Cardinality(P)
      /\ Occurrences(Append(q, x), S) = Cardinality(R)
  BY DEF Occurrences
<1> HIDE DEF P, R, n
<1>6. CASE x \in S
  BY <1>3, <1>4, <1>5, <1>6 DEF OneIf
<1>7. CASE x \notin S
  BY <1>2, <1>3, <1>5, <1>7 DEF OneIf
<1> QED
  BY <1>6, <1>7

(* So does the first one.                                                  *)
LEMMA OccurrencesTail ==
  ASSUME NEW T, NEW q \in Seq(T), q # <<>>, NEW S
  PROVE  Occurrences(q, S) = Occurrences(Tail(q), S) + OneIf(Head(q) \in S)
<1> DEFINE P == {i \in 1 .. Len(q) : q[i] \in S}
           R == {i \in 1 .. Len(Tail(q)) : Tail(q)[i] \in S}
           M == [i \in R |-> i + 1]
<1>1. IsFiniteSet(R) /\ IsFiniteSet(P)
  BY FS_Interval, FS_Subset
<1>2. Cardinality(R) \in Nat
  BY <1>1, FS_CardinalityType
<1>3. Len(q) \in Nat \ {0} /\ Len(Tail(q)) = Len(q) - 1 /\ Head(q) = q[1]
      /\ \A i \in 1 .. Len(q) - 1 : Tail(q)[i] = q[i + 1]
  OBVIOUS
<1>4. M \in Bijection(R, P \ {1})
  <2>1. M \in [R -> P \ {1}]
    BY <1>3
  <2>2. \A i, j \in R : M[i] = M[j] => i = j
    BY <1>3
  <2>3. \A j \in P \ {1} : \E i \in R : M[i] = j
    <3> SUFFICES ASSUME NEW j \in P \ {1} PROVE \E i \in R : M[i] = j
      OBVIOUS
    <3>1. j \in Nat /\ j - 1 \in 1 .. Len(q) - 1 /\ j = (j - 1) + 1
      BY <1>3
    <3>2. j - 1 \in R
      BY <1>3, <3>1
    <3> QED
      BY <3>1, <3>2
  <2> HIDE DEF M, P, R
  <2> QED
    BY <2>1, <2>2, <2>3 DEF Bijection, Injection, Surjection, IsInjective
<1>5. Cardinality(P \ {1}) = Cardinality(R)
  <2> HIDE DEF M, P, R
  <2>1. ExistsBijection(R, P \ {1})
    BY <1>4 DEF ExistsBijection
  <2> QED
    BY <1>1, <2>1, FS_Bijection
<1>6. 1 \in P <=> Head(q) \in S
  BY <1>3
<1>7. Cardinality(P) = IF 1 \in P THEN Cardinality(P \ {1}) + 1
                       ELSE Cardinality(P \ {1})
  <2> HIDE DEF P
  <2>1. CASE 1 \in P
    <3>1. Cardinality(P) \in Nat /\ Cardinality(P \ {1}) = Cardinality(P) - 1
      BY <1>1, <2>1, FS_RemoveElement, FS_CardinalityType
    <3> QED
      BY <2>1, <3>1
  <2>2. CASE 1 \notin P
    <3>1. P \ {1} = P
      BY <2>2
    <3> QED
      BY <2>2, <3>1
  <2> QED
    BY <2>1, <2>2
<1>8. Occurrences(q, S) = Cardinality(P) /\ Occurrences(Tail(q), S) = Cardinality(R)
  BY DEF Occurrences
<1> HIDE DEF M, P, R
<1>9. CASE Head(q) \in S
  BY <1>5, <1>6, <1>7, <1>8, <1>9 DEF OneIf
<1>10. CASE Head(q) \notin S
  BY <1>2, <1>5, <1>6, <1>7, <1>8, <1>10 DEF OneIf
<1> QED
  BY <1>9, <1>10

(* Conditions count for nothing or one.                                    *)
LEMMA OneIfType ==
  ASSUME NEW b \in BOOLEAN
  PROVE  OneIf(b) \in {0, 1} /\ (b => OneIf(b) = 1) /\ (~b => OneIf(b) = 0)
BY DEF OneIf

(* What a set of nodes has published of a message is finite in number.     *)
LEMMA PublicationsFinite ==
  ASSUME NEW S, S \subseteq Nodes \X (1 .. MaxPublishes)
  PROVE  IsFiniteSet(S) /\ Cardinality(S) \in Nat
<1>1. IsFiniteSet(Nodes) /\ 1 \in Int /\ MaxPublishes \in Int
  BY WsHubAssumption
<1>2. IsFiniteSet(1 .. MaxPublishes)
  BY <1>1, FS_Interval
<1>3. IsFiniteSet(Nodes \X (1 .. MaxPublishes))
  BY <1>1, <1>2, FS_Product
<1> QED
  BY <1>3, FS_Subset, FS_CardinalityType

(* What others have published of m is finite in number, and stays when     *)
(* they publish nothing of it.                                             *)
LEMMA PublicationsKept ==
  ASSUME TypeOK, NEW c \in Clients, NEW m \in Messages
  PROVE  /\ OthersPublished(c, m) \in Nat
         /\ (\A n \in Nodes \ {Home[c]} : published'[m][n] = published[m][n])
              => OthersPublished(c, m)' = OthersPublished(c, m)
<1> DEFINE others == Nodes \ {Home[c]}
<1>1. IsFiniteSet(Publications(m, others))
  BY PublicationsFinite DEF Publications
<1>2. (\A n \in others : published'[m][n] = published[m][n])
        => Publications(m, others)' = Publications(m, others)
  BY DEF Publications
<1> QED
  BY <1>1, <1>2, FS_CardinalityType DEF OthersPublished

(* A publication by another node is one more.                              *)
LEMMA PublicationsGrow ==
  ASSUME TypeOK, NEW c \in Clients, NEW m \in Messages,
         NEW n \in Nodes, n # Home[c],
         published'[m][n] = published[m][n] + 1,
         published'[m][n] \in 0 .. MaxPublishes,
         \A o \in Nodes : o # n => published'[m][o] = published[m][o]
  PROVE  OthersPublished(c, m)' = OthersPublished(c, m) + 1
<1> DEFINE others == Nodes \ {Home[c]}
           new == <<n, published'[m][n]>>
           P == Publications(m, others)
<1>1. IsFiniteSet(P)
  BY PublicationsFinite DEF Publications
<1>2. published[m][n] \in Nat /\ MaxPublishes \in Nat
  BY WsHubAssumption DEF TypeOK
<1>3. new \notin P
  BY <1>2 DEF Publications
<1>4. P' = P \cup {new}
  <2>1. ASSUME NEW p \in P' PROVE p \in P \cup {new}
    <3>1. /\ p \in others \X (1 .. MaxPublishes) /\ p[2] <= published'[m][p[1]]
      BY <2>1 DEF Publications
    <3>2. CASE p[1] = n
      BY <1>2, <3>1, <3>2 DEF Publications
    <3>3. CASE p[1] # n
      BY <3>1, <3>3 DEF Publications
    <3> QED
      BY <3>2, <3>3
  <2>2. P \cup {new} \subseteq P'
    <3>1. new \in P'
      BY <1>2 DEF Publications
    <3>2. ASSUME NEW p \in P PROVE p \in P'
      <4>1. p \in others \X (1 .. MaxPublishes) /\ p[2] <= published[m][p[1]]
        BY <3>2 DEF Publications
      <4> DEFINE o == p[1]
                 old == published[m][o]
                 now == published'[m][o]
      <4>4. o \in Nodes /\ old \in Nat /\ p[2] \in Nat /\ p[2] <= old
        BY <4>1 DEF TypeOK
      <4>5. now = old \/ (o = n /\ now = old + 1)
        BY <4>4
      <4> HIDE DEF o, old, now
      <4>6. p[2] <= now
        BY <4>4, <4>5
      <4>3. p[2] <= published'[m][p[1]]
        BY <4>6 DEF now, o
      <4> QED
        BY <4>1, <4>3 DEF Publications
    <3> QED
      BY <3>1, <3>2
  <2> QED
    BY <2>1, <2>2
<1> HIDE DEF P, new
<1>5. Cardinality(P \cup {new}) = Cardinality(P) + 1
  BY <1>1, <1>3, FS_AddElement
<1> QED
  BY <1>4, <1>5 DEF OthersPublished, P

(* All that InFlight adds up are numbers.                                  *)
LEMMA FlightTypes ==
  ASSUME TypeOK, NEW c \in Clients, NEW m \in Messages
  PROVE  /\ Home[c] \in Nodes
         /\ copies[c][m] \in Nat
         /\ Occurrences(broadcast[Home[c]], {m}) \in Nat
         /\ OneIf(Sending(c, m, run[Home[c]])) \in {0, 1}
         /\ OneIf(Carrying(c, m, sender[Home[c]]["business"])) \in {0, 1}
         /\ OneIf(Carrying(c, m, sender[Home[c]]["bridge"])) \in {0, 1}
         /\ Occurrences(inbox[Home[c]], Foreign(m, Home[c])) \in Nat
         /\ SentHere(c, m) \in {0, 1}
         /\ OthersPublished(c, m) \in Nat
<1>1. Home[c] \in Nodes
  BY WsHubAssumption
<1>2. /\ copies[c][m] \in Nat
      /\ broadcast[Home[c]] \in Seq(Messages) /\ inbox[Home[c]] \in Seq(Published)
  BY <1>1 DEF TypeOK
<1>3. \A b : OneIf(b) \in {0, 1}
  BY DEF OneIf
<1>4. SentHere(c, m) \in {0, 1}
  BY <1>3 DEF SentHere
<1> QED
  BY <1>1, <1>2, <1>3, <1>4, OccurrencesNat, PublicationsKept

(* What the copies of m for c on their way depend on, at the node of c.    *)
Quiet(c, m) ==
  LET n == Home[c] IN
  /\ copies'[c][m] = copies[c][m]
  /\ broadcast'[n] = broadcast[n]
  /\ OneIf(Sending(c, m, run'[n])) = OneIf(Sending(c, m, run[n]))
  /\ sender'[n] = sender[n]
  /\ inbox'[n] = inbox[n]

(* Nothing of it changes.                                                  *)
LEMMA QuietKept ==
  ASSUME NEW c \in Clients, NEW m \in Messages, Quiet(c, m)
  PROVE  InFlight(c, m)' = InFlight(c, m)
BY DEF Quiet, InFlight

(* A message that was not sent is nowhere.                                 *)
LEMMA UnsentNowhere ==
  ASSUME TypeOK, RoomsKnown, NEW c \in Clients, NEW m \in Messages,
         m \notin DOMAIN origin
  PROVE  InFlight(c, m) = 0 /\ SentHere(c, m) = 0
<1> DEFINE n == Home[c]
<1>1. n \in Nodes /\ "business" \in Kinds /\ "bridge" \in Kinds
  BY FlightTypes DEF Kinds
<1>2. \A r : ~ SentTo(origin, m, r)
  BY DEF SentTo
<1>3. copies[c][m] = 0
  <2>1. copies[c][m] \in Nat
    BY FlightTypes
  <2>2. ~ Entitled(origin, ever, c, m)
    BY DEF Entitled
  <2>3. ~ (copies[c][m] > 0)
    BY <2>2 DEF RoomsKnown
  <2> QED
    BY <2>1, <2>3
<1>4. Occurrences(broadcast[n], {m}) = 0
  <2>1. {i \in 1 .. Len(broadcast[n]) : broadcast[n][i] \in {m}} = {}
    BY <1>1, <1>2 DEF RoomsKnown, BroadcastKnown
  <2> QED
    BY <2>1, FS_EmptySet DEF Occurrences
<1>5. Occurrences(inbox[n], Foreign(m, n)) = 0
  <2>1. {i \in 1 .. Len(inbox[n]) : inbox[n][i] \in Foreign(m, n)} = {}
    BY <1>1, <1>2 DEF RoomsKnown, InboxKnown, Foreign
  <2> QED
    BY <2>1, FS_EmptySet DEF Occurrences
<1>6. ~ Sending(c, m, run[n])
  BY <1>1, <1>2 DEF RoomsKnown, RunKnown, Sending
<1>7. \A k \in Kinds : ~ Carrying(c, m, sender[n][k])
  BY <1>1, <1>2 DEF RoomsKnown, SenderKnown, Carrying
<1>8. SentHere(c, m) = 0
  BY DEF SentHere, OneIf
<1>9. /\ OneIf(Sending(c, m, run[n])) = 0
      /\ OneIf(Carrying(c, m, sender[n]["business"])) = 0
      /\ OneIf(Carrying(c, m, sender[n]["bridge"])) = 0
  BY <1>1, <1>6, <1>7 DEF OneIf
<1> QED
  BY <1>3, <1>4, <1>5, <1>8, <1>9 DEF InFlight

(* A broadcast puts one more copy of its message in flight for a client of *)
(* its node, at most, and nothing else.                                    *)
LEMMA DispatchFlight ==
  ASSUME TypeOK, RoomsKnown, NEW n \in Nodes, NEW k \in Kinds, NEW r \in Targets,
         NEW x \in Messages, Dispatch(n, k, r, x), sender[n][k].pc = "idle",
         NEW c \in Clients, NEW m \in Messages
  PROVE  LET h == Home[c]
             before == Occurrences(broadcast[h], {m})
                         + OneIf(Carrying(c, m, sender[h]["business"]))
                         + OneIf(Carrying(c, m, sender[h]["bridge"]))
             after  == Occurrences(broadcast'[h], {m})
                         + OneIf(Carrying(c, m, sender'[h]["business"]))
                         + OneIf(Carrying(c, m, sender'[h]["bridge"]))
         IN after <= before + (IF h = n /\ m = x THEN 1 ELSE 0)
<1> DEFINE h == Home[c]
<1>0. /\ h \in Nodes
      /\ Occurrences(broadcast[h], {m}) \in Nat
      /\ OneIf(Carrying(c, m, sender[h]["business"])) \in {0, 1}
      /\ OneIf(Carrying(c, m, sender[h]["bridge"])) \in {0, 1}
  BY FlightTypes
<1>1. CASE r = Everyone
  <2>1. Offer(n, x) /\ UNCHANGED sender
    BY <1>1 DEF Dispatch
  <2>2. /\ broadcast'[n] \in {broadcast[n], Append(broadcast[n], x)}
        /\ \A l \in Nodes \ {n} : broadcast'[l] = broadcast[l]
    BY <2>1, OfferEffect
  <2>3. broadcast[n] \in Seq(Messages)
    BY DEF TypeOK
  <2>4. Occurrences(Append(broadcast[n], x), {m})
          = Occurrences(broadcast[n], {m}) + OneIf(x \in {m})
    BY <2>3, OccurrencesAppend
  <2>5. OneIf(x \in {m}) = IF m = x THEN 1 ELSE 0
    BY DEF OneIf
  <2> DEFINE p == Occurrences(broadcast[h], {m})
             p1 == Occurrences(broadcast'[h], {m})
             e == IF h = n /\ m = x THEN 1 ELSE 0
  <2>6. p1 \in {p, p + e}
    <3>1. CASE broadcast'[h] = broadcast[h]
      BY <3>1
    <3>2. CASE h = n /\ broadcast'[h] = Append(broadcast[n], x)
      BY <2>4, <2>5, <3>2
    <3> QED
      BY <1>0, <2>2, <3>1, <3>2
  <2>7. e \in {0, 1} /\ p \in Nat
    BY <1>0
  <2> HIDE DEF p, p1, e
  <2>8. p1 <= p + e /\ p1 \in Nat
    BY <2>6, <2>7
  <2>9. \A a, b \in Nat : p1 + a + b <= p + a + b + e
    BY <2>7, <2>8
  <2> QED
    BY <1>0, <2>1, <2>9 DEF p, p1, e
<1>2. CASE r # Everyone
  <2>1. CopyMembers(n, k, r, x) /\ UNCHANGED broadcast /\ r \in Rooms
    BY <1>2 DEF Dispatch, Targets
  <2>2. /\ sender'[n][k] = [pc |-> "next", room |-> r, msg |-> x,
                            left |-> rooms[r] \cap Of(n), to |-> {}]
        /\ \A l \in Nodes, j \in Kinds :
             l # n \/ j # k => sender'[l][j] = sender[l][j]
    BY <2>1, CopyMembersEffect
  <2>3. SenderKnown(origin, ever, sender[n][k])
    BY DEF RoomsKnown
  <2>4. ~ Carrying(c, m, sender[n][k])
    BY <2>3 DEF SenderKnown, Carrying
  <2>5. Carrying(c, m, sender'[n][k]) => h = n /\ m = x
    BY <2>2 DEF Carrying, Of
  <2>6. \A j \in Kinds : h # n \/ j # k =>
          OneIf(Carrying(c, m, sender'[h][j])) = OneIf(Carrying(c, m, sender[h][j]))
    BY <1>0, <2>2
  <2>7. /\ OneIf(Carrying(c, m, sender[n][k])) = 0
        /\ OneIf(Carrying(c, m, sender'[n][k])) \in {0, 1}
        /\ OneIf(Carrying(c, m, sender'[n][k])) = 1 => h = n /\ m = x
    BY <2>4, <2>5 DEF OneIf
  <2>8. k \in {"business", "bridge"} /\ "business" \in Kinds /\ "bridge" \in Kinds
    BY DEF Kinds
  <2> DEFINE a == OneIf(Carrying(c, m, sender[h]["business"]))
             b == OneIf(Carrying(c, m, sender[h]["bridge"]))
             a1 == OneIf(Carrying(c, m, sender'[h]["business"]))
             b1 == OneIf(Carrying(c, m, sender'[h]["bridge"]))
             e == IF h = n /\ m = x THEN 1 ELSE 0
  <2>9. a1 + b1 <= a + b + e
    <3>1. CASE h # n
      <4>1. a1 = a /\ b1 = b
        BY <2>6, <2>8, <3>1
      <4>2. e \in Nat
        OBVIOUS
      <4> HIDE DEF a, b, a1, b1, e
      <4> QED
        BY <1>0, <4>1, <4>2 DEF a, b
    <3>2. CASE h = n /\ k = "business"
      <4>1. b1 = b /\ a = 0 /\ a1 \in {0, 1} /\ (a1 = 1 => e = 1) /\ e \in Nat
        BY <2>6, <2>7, <2>8, <3>2
      <4>2. b \in {0, 1}
        BY <1>0
      <4> HIDE DEF a, b, a1, b1, e
      <4> QED
        BY <4>1, <4>2
    <3>3. CASE h = n /\ k = "bridge"
      <4>1. a1 = a /\ b = 0 /\ b1 \in {0, 1} /\ (b1 = 1 => e = 1) /\ e \in Nat
        BY <2>6, <2>7, <2>8, <3>3
      <4>2. a \in {0, 1}
        BY <1>0
      <4> HIDE DEF a, b, a1, b1, e
      <4> QED
        BY <4>1, <4>2
    <3> QED
      BY <2>8, <3>1, <3>2, <3>3
  <2>10. a1 \in {0, 1} /\ b1 \in {0, 1} /\ a \in {0, 1} /\ b \in {0, 1} /\ e \in {0, 1}
    BY <1>0 DEF OneIf
  <2>11. Occurrences(broadcast'[h], {m}) = Occurrences(broadcast[h], {m})
    BY <2>1
  <2> HIDE DEF a, b, a1, b1, e
  <2>12. Occurrences(broadcast'[h], {m}) + a1 + b1
           <= Occurrences(broadcast[h], {m}) + a + b + e
    BY <1>0, <2>9, <2>10, <2>11
  <2> QED
    BY <2>12 DEF a, b, a1, b1, e
<1> QED
  BY <1>1, <1>2

(* A client's message is published by another node, or not: the copies on  *)
(* their way stay within what others have published.                       *)
LEMMA PublishFlight ==
  ASSUME TypeOK, NEW n \in Nodes, NEW r \in Targets, NEW x \in Messages,
         publishToRedis(n, r, x), NEW c \in Clients, NEW m \in Messages
  PROVE  LET h == Home[c]
             before == Occurrences(inbox[h], Foreign(m, h))
             after  == Occurrences(inbox'[h], Foreign(m, h))
         IN /\ after \in Nat
            /\ OthersPublished(c, m)' \in Nat
            /\ after + OthersPublished(c, m) <= before + OthersPublished(c, m)'
<1> DEFINE h == Home[c]
           F == Foreign(m, h)
           y == [node |-> n, room |-> r, msg |-> x]
<1>0. /\ h \in Nodes /\ inbox[h] \in Seq(Published)
      /\ Occurrences(inbox[h], F) \in Nat /\ OthersPublished(c, m) \in Nat
  BY FlightTypes DEF TypeOK
<1>1. /\ inbox' \in [Nodes -> Seq(Published)]
      /\ published' \in [Messages -> [Nodes -> 0 .. MaxPublishes]]
      /\ \A z \in Messages, o \in Nodes :
           z # x \/ o # n => published'[z][o] = published[z][o]
      /\ \/ UNCHANGED <<inbox, published>>
         \/ /\ published'[x][n] = published[x][n] + 1
            /\ \A o \in Nodes : inbox'[o] \in {inbox[o], Append(inbox[o], y)}
  BY PublishEffect
<1>2. y \in Published /\ (y \in F <=> x = m /\ n # h)
  BY DEF Published, Foreign
<1>3. Occurrences(Append(inbox[h], y), F) = Occurrences(inbox[h], F) + OneIf(y \in F)
  BY <1>0, <1>2, OccurrencesAppend
<1>4. CASE UNCHANGED <<inbox, published>>
  <2>1. OthersPublished(c, m)' = OthersPublished(c, m)
    BY <1>4 DEF OthersPublished, Publications
  <2> HIDE DEF F
  <2> QED
    BY <1>0, <1>4, <2>1 DEF F
<1>5. CASE /\ published'[x][n] = published[x][n] + 1
           /\ \A o \in Nodes : inbox'[o] \in {inbox[o], Append(inbox[o], y)}
  <2>1. CASE x = m /\ n # h
    <3>1. published'[m][n] \in 0 .. MaxPublishes
      BY <1>1
    <3>2. OthersPublished(c, m)' = OthersPublished(c, m) + 1
      BY <1>1, <1>5, <2>1, <3>1, PublicationsGrow
    <3>3. OneIf(y \in F) = 1
      BY <1>2, <2>1 DEF OneIf
    <3> HIDE DEF F, y, h
    <3>4. Occurrences(inbox'[h], F) \in
            {Occurrences(inbox[h], F), Occurrences(inbox[h], F) + 1}
      BY <1>0, <1>3, <1>5, <3>3
    <3> QED
      BY <1>0, <3>2, <3>4 DEF F, h
  <2>2. CASE ~ (x = m /\ n # h)
    <3>1. OthersPublished(c, m)' = OthersPublished(c, m)
      <4>1. \A o \in Nodes \ {h} : published'[m][o] = published[m][o]
        BY <1>1, <2>2
      <4> QED
        BY <4>1, PublicationsKept
    <3>3. OneIf(y \in F) = 0
      BY <1>2, <2>2 DEF OneIf
    <3> HIDE DEF F, y, h
    <3>4. Occurrences(Append(inbox[h], y), F) = Occurrences(inbox[h], F)
      BY <1>0, <1>3, <3>3
    <3>5. inbox'[h] = inbox[h] \/ inbox'[h] = Append(inbox[h], y)
      BY <1>0, <1>5
    <3>6. Occurrences(inbox'[h], F) = Occurrences(inbox[h], F)
      BY <3>4, <3>5
    <3> QED
      BY <1>0, <3>1, <3>6 DEF F, h
  <2> QED
    BY <2>1, <2>2
<1> QED
  BY <1>1, <1>4, <1>5

(* Every step of every goroutine keeps the copies of a message, those that *)
(* a client has and those on their way, within what it may get.            *)
LEMMA CopiesKept ==
  ASSUME TypeOK, TypeOK', RoomsKnown, CopiesAccounted, [Next]_vars
  PROVE  CopiesAccounted'
<1> USE DEF connVars, hubVars, history
<1> SUFFICES ASSUME NEW c \in Clients, NEW m \in Messages
             PROVE  InFlight(c, m)' <= SentHere(c, m)' + OthersPublished(c, m)'
  BY DEF CopiesAccounted
<1> DEFINE h  == Home[c]
           K  == copies[c][m]
           K1 == copies'[c][m]
           B  == Occurrences(broadcast[h], {m})
           B1 == Occurrences(broadcast'[h], {m})
           R  == OneIf(Sending(c, m, run[h]))
           R1 == OneIf(Sending(c, m, run'[h]))
           S  == OneIf(Carrying(c, m, sender[h]["business"]))
           S1 == OneIf(Carrying(c, m, sender'[h]["business"]))
           T  == OneIf(Carrying(c, m, sender[h]["bridge"]))
           T1 == OneIf(Carrying(c, m, sender'[h]["bridge"]))
           I  == Occurrences(inbox[h], Foreign(m, h))
           I1 == Occurrences(inbox'[h], Foreign(m, h))
           O  == SentHere(c, m)
           O1 == SentHere(c, m)'
           P  == OthersPublished(c, m)
           P1 == OthersPublished(c, m)'
           Goal == K1 + B1 + R1 + S1 + T1 + I1 <= O1 + P1
<1>0. /\ h \in Nodes /\ K \in Nat /\ B \in Nat /\ R \in {0, 1} /\ S \in {0, 1}
      /\ T \in {0, 1} /\ I \in Nat /\ O \in {0, 1} /\ P \in Nat
  BY FlightTypes
<1>00. /\ K1 \in Nat /\ B1 \in Nat /\ R1 \in {0, 1} /\ S1 \in {0, 1}
       /\ T1 \in {0, 1} /\ I1 \in Nat /\ O1 \in {0, 1} /\ P1 \in Nat
  <2>1. /\ K1 \in Nat
        /\ broadcast'[h] \in Seq(Messages) /\ inbox'[h] \in Seq(Published)
    BY <1>0 DEF TypeOK
  <2>2. \A b : OneIf(b) \in {0, 1}
    BY DEF OneIf
  <2>3. O1 \in {0, 1}
    BY <2>2 DEF SentHere
  <2>4. B1 \in Nat /\ I1 \in Nat
    BY <2>1, OccurrencesNat
  <2>5. P1 \in Nat
    <3>1. Publications(m, Nodes \ {h})' \subseteq Nodes \X (1 .. MaxPublishes)
      BY DEF Publications
    <3> QED
      BY <3>1, PublicationsFinite DEF OthersPublished
  <2> QED
    BY <2>1, <2>2, <2>3, <2>4, <2>5
<1>000. K + B + R + S + T + I <= O + P
  BY DEF CopiesAccounted, InFlight
<1>1. InFlight(c, m)' = K1 + B1 + R1 + S1 + T1 + I1
  BY DEF InFlight
<1>2. /\ UNCHANGED copies => K1 = K
      /\ UNCHANGED broadcast => B1 = B
      /\ UNCHANGED run => R1 = R
      /\ UNCHANGED sender => S1 = S /\ T1 = T
      /\ UNCHANGED inbox => I1 = I
      /\ UNCHANGED origin => O1 = O
      /\ UNCHANGED published => P1 = P
  BY DEF SentHere, OthersPublished, Publications
<1> SUFFICES Goal
  BY <1>1
<1> HIDE DEF h, K, K1, B, B1, R, R1, S, S1, T, T1, I, I1, O, O1, P, P1
<1>3. CASE UNCHANGED <<copies, broadcast, run, sender, inbox, origin, published>>
  BY <1>0, <1>000, <1>2, <1>3
<1>4. ASSUME NEW d \in Clients, \/ Handle(d) \/ Disconnect(d) \/ ReadFails(d)
                                \/ writePump(d) \/ Register(d)
      PROVE  Goal
  BY <1>3, <1>4 DEF Handle, Disconnect, ReadFails, writePump, Register
<1>5. ASSUME NEW d \in Clients, NEW r \in Rooms, Join(d, r) \/ Leave(d, r)
      PROVE  Goal
  BY <1>3, <1>5 DEF Join, Leave
<1>6. ASSUME NEW n \in Nodes, \/ CloseBegins(n) \/ CloseClients(n)
                              \/ CloseRooms(n) \/ Cancel(n)
      PROVE  Goal
  BY <1>3, <1>6 DEF CloseBegins, CloseClients, CloseRooms, Cancel
<1>7. {} \subseteq Clients /\ \A n \in Nodes : run[n].left \subseteq Clients
  BY DEF TypeOK, RunStates
<1>8. ASSUME NEW n \in Nodes, RunSent(n) \/ LeaveAllRooms(n) \/ RunReturns(n)
      PROVE  Goal
  <2>1. /\ UNCHANGED <<copies, broadcast, sender, inbox, origin, published>>
        /\ \/ RunAt(n, "select", {}) \/ RunAt(n, "publish", {})
           \/ RunAt(n, "stopped", {})
    BY <1>8 DEF RunSent, LeaveAllRooms, RunReturns
  <2>2. run'[n].left = {} /\ \A o \in Nodes \ {n} : run'[o] = run[o]
    BY <1>7, <2>1, RunAtEffect
  <2>3. Sending(c, m, run'[h]) => Sending(c, m, run[h])
    BY <1>0, <2>2 DEF Sending
  <2>4. R1 <= R
    BY <2>3 DEF R, R1, OneIf
  <2> QED
    BY <1>0, <1>00, <1>000, <1>2, <2>1, <2>4
<1>9. ASSUME NEW d \in Clients, Unregister(d)
      PROVE  Goal
  <2>1. /\ UNCHANGED <<copies, broadcast, sender, inbox, origin, published>>
        /\ Home[d] \in Nodes
        /\ UNCHANGED run \/ RunAt(Home[d], "leaving", {d})
    BY <1>9, WsHubAssumption DEF Unregister
  <2>2. CASE UNCHANGED run
    BY <1>3, <2>1, <2>2
  <2>3. CASE RunAt(Home[d], "leaving", {d})
    <3>1. {d} \subseteq Clients
      OBVIOUS
    <3>2. /\ run'[Home[d]].pc = "leaving"
          /\ \A o \in Nodes \ {Home[d]} : run'[o] = run[o]
      BY <2>1, <2>3, <3>1, RunAtEffect
    <3>3. Sending(c, m, run'[h]) => Sending(c, m, run[h])
      BY <1>0, <3>2 DEF Sending
    <3>4. R1 <= R
      BY <3>3 DEF R, R1, OneIf
    <3> QED
      BY <1>0, <1>00, <1>000, <1>2, <2>1, <3>4
  <2> QED
    BY <2>1, <2>2, <2>3
<1>10. ASSUME NEW n \in Nodes, RunBroadcast(n)
       PROVE  Goal
  <2>1. /\ UNCHANGED <<copies, sender, inbox, origin, published>>
        /\ broadcast[n] # <<>> /\ broadcast' = [broadcast EXCEPT ![n] = Tail(@)]
        /\ RunIs(n, [pc |-> "sending", msg |-> Head(broadcast[n]),
                     left |-> clients \cap Of(n)])
    BY <1>10 DEF RunBroadcast
  <2>2. broadcast \in [Nodes -> Seq(Messages)]
    BY DEF TypeOK
  <2>3. [pc |-> "sending", msg |-> Head(broadcast[n]),
         left |-> clients \cap Of(n)] \in RunStates
    BY <2>1, <2>2 DEF RunStates, Of
  <2>4. run'[n].msg = Head(broadcast[n]) /\ \A o \in Nodes \ {n} : run'[o] = run[o]
    BY <2>1, <2>3, RunIsEffect
  <2>5. CASE h = n
    <3>1. B = B1 + OneIf(Head(broadcast[n]) \in {m})
      BY <2>1, <2>2, <2>5, OccurrencesTail DEF B, B1
    <3>2. R1 <= OneIf(Head(broadcast[n]) \in {m})
      BY <2>4, <2>5 DEF R1, Sending, OneIf
    <3>3. OneIf(Head(broadcast[n]) \in {m}) \in {0, 1}
      BY DEF OneIf
    <3>4. B1 + R1 <= B
      BY <1>00, <3>1, <3>2, <3>3
    <3> QED
      BY <1>0, <1>00, <1>000, <1>2, <2>1, <3>4
  <2>6. CASE h # n
    <3>1. R1 = R /\ B1 = B
      BY <1>0, <2>1, <2>2, <2>4, <2>6 DEF R, R1, B, B1
    <3> QED
      BY <1>0, <1>00, <1>000, <1>2, <2>1, <3>1
  <2> QED
    BY <2>5, <2>6
<1>11. ASSUME NEW n \in Nodes, RunPublishes(n)
       PROVE  Goal
  <2>1. /\ UNCHANGED <<copies, broadcast, sender, origin>>
        /\ run[n].pc = "publish"
        /\ publishToRedis(n, Everyone, run[n].msg)
        /\ RunAt(n, "select", {})
    BY <1>11 DEF RunPublishes
  <2>2. run'[n].left = {} /\ \A o \in Nodes \ {n} : run'[o] = run[o]
    BY <1>7, <2>1, RunAtEffect
  <2>3. Sending(c, m, run'[h]) => Sending(c, m, run[h])
    BY <1>0, <2>2 DEF Sending
  <2>4. R1 <= R
    BY <2>3 DEF R, R1, OneIf
  <2>5. run[n].msg \in Messages /\ Everyone \in Targets
    BY <2>1 DEF RoomsKnown, RunKnown, SentTo, TypeOK, Targets
  <2>6. I1 + P <= I + P1
    BY <2>1, <2>5, PublishFlight DEF I, I1, P, P1, h
  <2> QED
    BY <1>0, <1>00, <1>000, <1>2, <2>1, <2>4, <2>6
<1>12. ASSUME NEW n \in Nodes, NEW d \in Of(n), RunSends(n, d)
       PROVE  Goal
  <2>1. /\ UNCHANGED <<broadcast, sender, inbox, origin, published>>
        /\ run[n].pc = "sending" /\ d \in run[n].left
        /\ RunAt(n, "sending", run[n].left \ {d})
        /\ UNCHANGED copies \/ Enqueue(d, run[n].msg)
    BY <1>12 DEF RunSends
  <2>2. run[n].left \ {d} \subseteq Clients /\ d \in Clients /\ Home[d] = n
    BY <1>7 DEF Of
  <2>3. /\ run'[n].left = run[n].left \ {d} /\ run'[n].msg = run[n].msg
        /\ \A o \in Nodes \ {n} : run'[o] = run[o]
    BY <2>1, <2>2, RunAtEffect
  <2>4. Sending(c, m, run'[h]) => Sending(c, m, run[h])
    BY <1>0, <2>1, <2>3 DEF Sending
  <2>5. R1 <= R
    BY <2>4 DEF R, R1, OneIf
  <2>6. CASE UNCHANGED copies
    BY <1>0, <1>00, <1>000, <1>2, <2>1, <2>5, <2>6
  <2>7. CASE Enqueue(d, run[n].msg)
    <3>1. run[n].msg \in Messages
      BY <2>1 DEF RoomsKnown, RunKnown, SentTo, TypeOK
    <3>2. /\ copies'[d][run[n].msg] \in {copies[d][run[n].msg],
                                          copies[d][run[n].msg] + 1}
          /\ d # c \/ run[n].msg # m => copies'[c][m] = copies[c][m]
      BY <2>2, <2>7, <3>1, EnqueueEffect
    <3>3. CASE d = c /\ run[n].msg = m
      <4>1. h = n
        BY <2>2, <3>3 DEF h
      <4>2. Sending(c, m, run[h]) /\ ~ Sending(c, m, run'[h])
        BY <2>1, <2>3, <3>3, <4>1 DEF Sending
      <4>3. R = 1 /\ R1 = 0
        BY <4>2 DEF R, R1, OneIf
      <4>4. K1 \in {K, K + 1}
        BY <3>2, <3>3 DEF K, K1
      <4> QED
        BY <1>0, <1>00, <1>000, <1>2, <2>1, <4>3, <4>4
    <3>4. CASE d # c \/ run[n].msg # m
      <4>1. K1 = K
        BY <3>2, <3>4 DEF K, K1
      <4> QED
        BY <1>0, <1>00, <1>000, <1>2, <2>1, <2>5, <4>1
    <3> QED
      BY <3>3, <3>4
  <2> QED
    BY <2>1, <2>6, <2>7
<1>13. ASSUME NEW n \in Nodes, handleRedisMessage(n)
       PROVE  Goal
  <2> DEFINE x == Head(inbox[n])
             D == OneIf(x \in Foreign(m, h))
             E == IF h = n /\ m = x.msg THEN 1 ELSE 0
  <2>1. /\ UNCHANGED <<copies, run, origin, published>>
        /\ sender[n]["bridge"].pc = "idle"
        /\ inbox[n] # <<>> /\ inbox' = [inbox EXCEPT ![n] = Tail(@)]
        /\ \/ UNCHANGED <<sender, broadcast>>
           \/ x.node # n /\ Dispatch(n, "bridge", x.room, x.msg)
    BY <1>13 DEF handleRedisMessage, OwnMessage, RoomOf
  <2>2. inbox \in [Nodes -> Seq(Published)] /\ x \in Published
    BY <2>1 DEF TypeOK
  <2>3. D \in {0, 1} /\ E \in {0, 1}
    BY DEF OneIf
  <2>4. /\ h = n => I = I1 + D
        /\ h # n => I = I1
    <3>1. CASE h = n
      BY <2>1, <2>2, <3>1, OccurrencesTail DEF I, I1
    <3>2. CASE h # n
      BY <1>0, <2>1, <2>2, <3>2 DEF I, I1
    <3> QED
      BY <3>1, <3>2
  <2>5. CASE UNCHANGED <<sender, broadcast>>
    <3> HIDE DEF D, E, x
    <3>1. I1 <= I
      BY <1>0, <1>00, <2>3, <2>4
    <3>2. K1 = K /\ R1 = R /\ O1 = O /\ P1 = P /\ B1 = B /\ S1 = S /\ T1 = T
      BY <1>2, <2>1, <2>5
    <3> QED
      BY <1>0, <1>00, <1>000, <3>1, <3>2
  <2>6. CASE x.node # n /\ Dispatch(n, "bridge", x.room, x.msg)
    <3>1. "bridge" \in Kinds /\ x.room \in Targets /\ x.msg \in Messages
      BY <2>2 DEF Kinds, Published
    <3>2. B1 + S1 + T1 <= B + S + T + E
      BY <2>1, <2>6, <3>1, DispatchFlight DEF B, B1, S, S1, T, T1, h
    <3>3. E = 1 => h = n /\ D = 1
      BY <2>2, <2>6 DEF Foreign, OneIf
    <3>4. K1 = K /\ R1 = R /\ O1 = O /\ P1 = P
      BY <1>2, <2>1
    <3> HIDE DEF D, E, x
    <3>5. I1 + E <= I
      BY <1>0, <1>00, <2>3, <2>4, <3>3
    <3> QED
      BY <1>0, <1>00, <1>000, <2>3, <3>2, <3>4, <3>5
  <2> QED
    BY <2>1, <2>5, <2>6
<1>14. "business" \in Kinds /\ "bridge" \in Kinds
  BY DEF Kinds
<1>15. ASSUME \A j \in Kinds : Carrying(c, m, sender'[h][j])
                                => Carrying(c, m, sender[h][j])
       PROVE  S1 <= S /\ T1 <= T
  BY <1>14, <1>15 DEF S, S1, T, T1, OneIf
<1>16. ASSUME NEW n \in Nodes, NEW k \in Kinds, NEW d \in Of(n), CheckClosed(n, k, d)
       PROVE  Goal
  <2> DEFINE L == sender[n][k].left \ {d}
  <2>1. /\ UNCHANGED <<copies, broadcast, run, inbox, origin, published>>
        /\ d \in sender[n][k].left
        /\ \/ Become(n, k, "send", L, {d})
           \/ Become(n, k, "next", L, {})
    BY <1>16 DEF CheckClosed
  <2>2. L \subseteq Clients /\ d \in Clients
    BY DEF TypeOK, Senders, Of
  <2> HIDE DEF L
  <2>3. /\ sender'[n][k].msg = sender[n][k].msg
        /\ sender'[n][k].left = L
        /\ sender'[n][k].to \subseteq {d}
        /\ \A l \in Nodes, j \in Kinds :
             l # n \/ j # k => sender'[l][j] = sender[l][j]
    <3>1. CASE Become(n, k, "send", L, {d})
      <4>1. /\ sender'[n][k] = [pc |-> "send", room |-> sender[n][k].room,
                                msg |-> sender[n][k].msg,
                                left |-> L, to |-> {d}]
            /\ \A l \in Nodes, j \in Kinds :
                 l # n \/ j # k => sender'[l][j] = sender[l][j]
        BY <2>2, <3>1, SendEffect
      <4> QED
        BY <4>1
    <3>2. CASE Become(n, k, "next", L, {})
      <4>1. /\ sender'[n][k] = [pc |-> "next", room |-> sender[n][k].room,
                                msg |-> sender[n][k].msg,
                                left |-> L, to |-> {}]
            /\ \A l \in Nodes, j \in Kinds :
                 l # n \/ j # k => sender'[l][j] = sender[l][j]
        BY <2>2, <3>2, NextEffect
      <4> QED
        BY <4>1
    <3> QED
      BY <2>1, <3>1, <3>2
  <2>4. \A j \in Kinds : Carrying(c, m, sender'[h][j]) => Carrying(c, m, sender[h][j])
    BY <1>0, <2>1, <2>3 DEF Carrying, L
  <2>5. K1 = K /\ B1 = B /\ R1 = R /\ I1 = I /\ O1 = O /\ P1 = P
    BY <1>2, <2>1
  <2> QED
    BY <1>0, <1>00, <1>000, <1>15, <2>4, <2>5
<1>17. ASSUME NEW n \in Nodes, NEW k \in Kinds, NEW d \in Of(n), SendOne(n, k, d)
       PROVE  Goal
  <2>1. /\ UNCHANGED <<broadcast, run, inbox, origin, published>>
        /\ sender[n][k].pc = "send" /\ d \in sender[n][k].to
        /\ \/ SenderIs(n, k, Idle) /\ UNCHANGED copies
           \/ /\ Enqueue(d, sender[n][k].msg)
              /\ Become(n, k, "next", sender[n][k].left, {})
    BY <1>17 DEF SendOne, At
  <2>2. /\ sender[n][k] \in Senders /\ sender[n][k].left \subseteq Clients
        /\ d \in Clients /\ Home[d] = n
    BY DEF TypeOK, Senders, Of
  <2>3. /\ sender[n][k].msg \in Messages
        /\ sender[n][k].left \cap sender[n][k].to = {}
    BY <2>1 DEF RoomsKnown, SenderKnown, SentTo, TypeOK
  <2>4. B1 = B /\ R1 = R /\ I1 = I /\ O1 = O /\ P1 = P
    BY <1>2, <2>1
  <2>5. CASE SenderIs(n, k, Idle) /\ UNCHANGED copies
    <3>1. /\ sender'[n][k] = Idle
          /\ \A l \in Nodes, j \in Kinds :
               l # n \/ j # k => sender'[l][j] = sender[l][j]
      BY <2>5, IdleEffect
    <3>2. \A j \in Kinds : Carrying(c, m, sender'[h][j]) => Carrying(c, m, sender[h][j])
      BY <1>0, <3>1 DEF Carrying, Idle
    <3>3. K1 = K
      BY <1>2, <2>5
    <3> QED
      BY <1>0, <1>00, <1>000, <1>15, <2>4, <3>2, <3>3
  <2>6. CASE /\ Enqueue(d, sender[n][k].msg)
             /\ Become(n, k, "next", sender[n][k].left, {})
    <3> DEFINE L == sender[n][k].left
    <3>00. L \subseteq Clients /\ Become(n, k, "next", L, {})
      BY <2>2, <2>6
    <3> HIDE DEF L
    <3>0. /\ sender'[n][k] = [pc |-> "next", room |-> sender[n][k].room,
                              msg |-> sender[n][k].msg,
                              left |-> L, to |-> {}]
          /\ \A l \in Nodes, j \in Kinds :
               l # n \/ j # k => sender'[l][j] = sender[l][j]
      BY <3>00, NextEffect
    <3>1. /\ sender'[n][k].msg = sender[n][k].msg
          /\ sender'[n][k].left = sender[n][k].left /\ sender'[n][k].to = {}
          /\ \A l \in Nodes, j \in Kinds :
               l # n \/ j # k => sender'[l][j] = sender[l][j]
      BY <3>0 DEF L
    <3>2. \A j \in Kinds : Carrying(c, m, sender'[h][j]) => Carrying(c, m, sender[h][j])
      BY <1>0, <3>1 DEF Carrying
    <3>3. /\ copies'[d][sender[n][k].msg] \in {copies[d][sender[n][k].msg],
                                               copies[d][sender[n][k].msg] + 1}
          /\ d # c \/ sender[n][k].msg # m => copies'[c][m] = copies[c][m]
      BY <2>2, <2>3, <2>6, EnqueueEffect
    <3>4. CASE d = c /\ sender[n][k].msg = m
      <4>1. h = n
        BY <2>2, <3>4 DEF h
      <4>2. Carrying(c, m, sender[h][k]) /\ ~ Carrying(c, m, sender'[h][k])
        BY <2>1, <2>3, <3>1, <3>4, <4>1 DEF Carrying
      <4>3. k \in {"business", "bridge"}
        BY DEF Kinds
      <4>4. S1 + T1 + 1 <= S + T
        <5>1. CASE k = "business"
          <6>1. S = 1 /\ S1 = 0
            BY <4>2, <5>1 DEF S, S1, OneIf
          <6> QED
            BY <1>0, <1>00, <1>15, <3>2, <6>1
        <5>2. CASE k = "bridge"
          <6>1. T = 1 /\ T1 = 0
            BY <4>2, <5>2 DEF T, T1, OneIf
          <6> QED
            BY <1>0, <1>00, <1>15, <3>2, <6>1
        <5> QED
          BY <4>3, <5>1, <5>2
      <4>5. K1 \in {K, K + 1}
        BY <3>3, <3>4 DEF K, K1
      <4> QED
        BY <1>0, <1>00, <1>000, <2>4, <4>4, <4>5
    <3>5. CASE d # c \/ sender[n][k].msg # m
      <4>1. K1 = K
        BY <3>3, <3>5 DEF K, K1
      <4> QED
        BY <1>0, <1>00, <1>000, <1>15, <2>4, <3>2, <4>1
    <3> QED
      BY <3>4, <3>5
  <2> QED
    BY <2>1, <2>5, <2>6
<1>18. ASSUME NEW n \in Nodes, NEW k \in Kinds, SenderPublishes(n, k)
       PROVE  Goal
  <2>1. /\ UNCHANGED <<copies, broadcast, run, origin>>
        /\ sender[n][k].pc = "next"
        /\ publishToRedis(n, sender[n][k].room, sender[n][k].msg)
        /\ SenderIs(n, k, Idle)
    BY <1>18 DEF SenderPublishes, At
  <2>2. sender[n][k].msg \in Messages /\ sender[n][k].room \in Targets
    BY <2>1 DEF RoomsKnown, SenderKnown, SentTo, TypeOK, Targets
  <2>3. /\ sender'[n][k] = Idle
        /\ \A l \in Nodes, j \in Kinds :
             l # n \/ j # k => sender'[l][j] = sender[l][j]
    BY <2>1, IdleEffect
  <2>4. \A j \in Kinds : Carrying(c, m, sender'[h][j]) => Carrying(c, m, sender[h][j])
    BY <1>0, <2>3 DEF Carrying, Idle
  <2>5. I1 + P <= I + P1
    BY <2>1, <2>2, PublishFlight DEF I, I1, P, P1, h
  <2>6. K1 = K /\ B1 = B /\ R1 = R /\ O1 = O
    BY <1>2, <2>1
  <2> QED
    BY <1>0, <1>00, <1>000, <1>15, <2>4, <2>5, <2>6
<1>19. ASSUME NEW n \in Nodes, NEW r \in Targets, NEW x \in Messages,
              BusinessBroadcasts(n, r, x)
       PROVE  Goal
  <2> DEFINE E == IF h = n /\ m = x THEN 1 ELSE 0
  <2>1. /\ UNCHANGED <<copies, run, inbox, published>>
        /\ sender[n]["business"].pc = "idle" /\ x \notin DOMAIN origin
        /\ origin' = [y \in DOMAIN origin \cup {x} |->
                        IF y = x THEN [node |-> n, room |-> r] ELSE origin[y]]
        /\ Dispatch(n, "business", r, x)
    BY <1>19 DEF BusinessBroadcasts
  <2>2. B1 + S1 + T1 <= B + S + T + E
    BY <1>14, <2>1, DispatchFlight DEF B, B1, S, S1, T, T1, h
  <2>3. K1 = K /\ R1 = R /\ I1 = I /\ P1 = P
    BY <1>2, <2>1
  <2>4. E \in {0, 1} /\ O1 >= O /\ (E = 1 => O = 0 /\ O1 = 1)
    <3>1. CASE m = x
      BY <2>1, <3>1 DEF O, O1, SentHere, OneIf, h
    <3>2. CASE m # x
      <4>1. O1 = O
        BY <2>1, <3>2 DEF O, O1, SentHere
      <4> QED
        BY <1>0, <3>2, <4>1
    <3> QED
      BY <3>1, <3>2
  <2> HIDE DEF E
  <2>5. E <= O1 - O
    BY <1>0, <1>00, <2>4
  <2> QED
    BY <1>0, <1>00, <1>000, <2>2, <2>3, <2>4, <2>5
<1>20. CASE UNCHANGED vars
  BY <1>3, <1>20 DEF vars
<1> QED
  BY StepCases, <1>4, <1>5, <1>6, <1>8, <1>9, <1>10, <1>11, <1>12, <1>13, <1>16,
     <1>17, <1>18, <1>19, <1>20

-----------------------------------------------------------------------------
(* The invariant holds at first, is kept, and makes the hub sound.         *)

(* At first nothing is on its way.                                         *)
LEMMA InitIInv == Init => IInv
<1> SUFFICES ASSUME Init PROVE IInv
  OBVIOUS
<1>1. TypeOK
  BY InitType
<1>2. RemovedForGood
  BY DEF Init, RemovedForGood
<1>3. GhostsLeaving
  BY DEF Init, GhostsLeaving
<1>4. RoomsKnown
  <2>1. \A n \in Nodes, k \in Kinds : sender[n][k] = Idle
    BY DEF Init
  <2>2. \A r \in Rooms : \A c \in rooms[r] : r \in ever[c]
    BY DEF Init
  <2>3. \A n \in Nodes : /\ BroadcastKnown(origin, broadcast[n])
                         /\ RunKnown(origin, run[n])
                         /\ InboxKnown(origin, inbox[n])
    BY DEF Init, BroadcastKnown, RunKnown, InboxKnown
  <2>4. \A c \in Clients, m \in Messages : copies[c][m] = 0
    BY DEF Init
  <2> QED
    BY <2>1, <2>2, <2>3, <2>4 DEF RoomsKnown, SenderKnown, Idle
<1>5. CopiesAccounted
  <2> SUFFICES ASSUME NEW c \in Clients, NEW m \in Messages
               PROVE  InFlight(c, m) <= SentHere(c, m) + OthersPublished(c, m)
    BY DEF CopiesAccounted
  <2>1. InFlight(c, m) = 0
    BY <1>1, <1>4, UnsentNowhere DEF Init
  <2>2. SentHere(c, m) \in {0, 1} /\ OthersPublished(c, m) \in Nat
    BY <1>1, FlightTypes
  <2> QED
    BY <2>1, <2>2
<1> QED
  BY <1>1, <1>2, <1>3, <1>4, <1>5 DEF IInv

(* Every step of every goroutine keeps the invariant.                      *)
LEMMA NextIInv == IInv /\ [Next]_vars => IInv'
<1> SUFFICES ASSUME IInv, [Next]_vars PROVE IInv'
  OBVIOUS
<1>0. TypeOK /\ RemovedForGood /\ GhostsLeaving /\ RoomsKnown /\ CopiesAccounted
  BY DEF IInv
<1>1. TypeOK'
  BY <1>0, TypeKept
<1>2. RemovedForGood' /\ GhostsLeaving' /\ RoomsKnown'
  BY <1>0, RemovedKept, GhostsKept, RoomsKnownKept
<1>3. CopiesAccounted'
  BY <1>0, <1>1, CopiesKept
<1> QED
  BY <1>1, <1>2, <1>3 DEF IInv

(* Where the invariant holds, the hub is sound.                            *)
LEMMA SoundByIInv == IInv => HubSound
<1> SUFFICES ASSUME IInv PROVE HubSound
  OBVIOUS
<1>0. TypeOK /\ RemovedForGood /\ GhostsLeaving /\ RoomsKnown /\ CopiesAccounted
  BY DEF IInv
<1>1. OnlyRoomsPanic
  BY <1>0 DEF RemovedForGood, OnlyRoomsPanic
<1>2. RoomIsolation
  <2>1. \A m \in DOMAIN origin : m \in Messages
    BY <1>0 DEF TypeOK
  <2> QED
    BY <1>0, <2>1 DEF RoomsKnown, Entitled, RoomIsolation
<1>3. GhostsJoinedLate
  BY <1>0 DEF RemovedForGood, GhostsLeaving, GhostsJoinedLate
<1>4. CopiesFromOthers
  <2> SUFFICES ASSUME NEW m \in DOMAIN origin, NEW c \in Clients
               PROVE  copies[c][m] <=
                        (IF origin[m].node = Home[c] THEN 1 ELSE 0)
                          + Cardinality(Publications(m, Nodes \ {Home[c]}))
    BY DEF CopiesFromOthers
  <2>1. m \in Messages
    BY <1>0 DEF TypeOK
  <2>2. SentHere(c, m) = IF origin[m].node = Home[c] THEN 1 ELSE 0
    BY DEF SentHere, OneIf
  <2>3. InFlight(c, m) <= SentHere(c, m) + OthersPublished(c, m)
    BY <1>0, <2>1 DEF CopiesAccounted
  <2>4. copies[c][m] <= InFlight(c, m) /\ InFlight(c, m) \in Nat
    <3> DEFINE n == Home[c]
               K == copies[c][m]
               B == Occurrences(broadcast[n], {m})
               R == OneIf(Sending(c, m, run[n]))
               S == OneIf(Carrying(c, m, sender[n]["business"]))
               T == OneIf(Carrying(c, m, sender[n]["bridge"]))
               I == Occurrences(inbox[n], Foreign(m, n))
    <3>1. /\ K \in Nat /\ B \in Nat /\ R \in {0, 1}
          /\ S \in {0, 1} /\ T \in {0, 1} /\ I \in Nat
      BY <1>0, <2>1, FlightTypes
    <3>2. InFlight(c, m) = K + B + R + S + T + I
      BY DEF InFlight
    <3> HIDE DEF n, K, B, R, S, T, I
    <3>3. K <= InFlight(c, m) /\ InFlight(c, m) \in Nat
      BY <3>1, <3>2
    <3> QED
      BY <3>3 DEF K
  <2>5. /\ copies[c][m] \in Nat /\ SentHere(c, m) \in {0, 1}
        /\ OthersPublished(c, m) \in Nat
    BY <1>0, <2>1, FlightTypes
  <2>6. copies[c][m] <= SentHere(c, m) + OthersPublished(c, m)
    BY <2>3, <2>4, <2>5
  <2> QED
    BY <2>2, <2>6 DEF OthersPublished
<1> QED
  BY <1>1, <1>2, <1>3, <1>4 DEF HubSound

(* The hubs keep their state well formed, and the invariant above.         *)
THEOREM InvariantHolds == Spec => []IInv
BY InitIInv, NextIInv, PTL DEF Spec

(* The state of the hubs, and of all that they hand to each other, keeps   *)
(* its shape.                                                              *)
THEOREM TypeCorrect == Spec => []TypeOK
<1>1. IInv => TypeOK
  BY DEF IInv
<1> QED
  BY <1>1, InvariantHolds, PTL

(* For any nodes, connections, rooms and messages, whoever cancels, breaks *)
(* or closes at whatever time: the broadcast of Run never sends on a       *)
(* closed channel, messages for a room stay in it, clients that are gone   *)
(* leave their rooms, and only what other nodes publish makes copies.      *)
THEOREM HubSoundAlways == Spec => []HubSound
BY InvariantHolds, SoundByIInv, PTL

-----------------------------------------------------------------------------
(* The other ways to push: server-sent events, the event bus and the       *)
(* callbacks and kicks of live streams, each with state of its own.        *)
CONSTANTS
  SseClients, Wants, SseMessages, EventOf, QueueSize,        \* SseManager
  Subs, Topic, Site, Retries, Events, All, Pubs,             \* EventBus
  Streams, MaxClients, MaxKicks                              \* Live

VARIABLES
  client, reading, send, written, message, checked, panicked,
  async, handlers, subscribed, everSubscribed, again, pub, ran,
  signed, publisher, lastCid, asked, answered, misled, kick, kicks, kicked, recording

Sse == INSTANCE SseManager WITH Clients <- SseClients, Messages <- SseMessages

Bus == INSTANCE EventBus

Srs == INSTANCE Live

(* What the proofs below need to know of the parameters.                   *)
ASSUME PushAssumption == Bus!EventBusAssumption

(* SSE clients are written what they subscribed to, in order; a successful *)
(* Publish has run every handler that was Kept, and cancelling takes away  *)
(* one that looks alike (InOrderToSubscribers, PublishReachesAll,          *)
(* OthersStaySubscribed).                                                  *)
EventsReachSubscribers ==
  /\ Sse!InOrderToSubscribers
  /\ Bus!OthersStaySubscribed /\ Bus!PublishReachesAll

(* Only those publish a live stream of whose callbacks none was refused,   *)
(* where signatures are asked for no handler runs for a forged callback,   *)
(* and a kick ends a publisher of the stream it names (ApprovedAndNamed of *)
(* Live).                                                                  *)
ApprovedAndNamed == Srs!ApprovedAndNamed

(* No stream is published and none is kicked at first.                     *)
LEMMA InitLive == Srs!Init => Srs!IInv
<1> SUFFICES ASSUME Srs!Init PROVE Srs!IInv
  OBVIOUS
<1>1. /\ Srs!TypeOK /\ Srs!FoundThere
      /\ kick.result = "ok" => Srs!Owner(kick.cid) = {} \/ kick.answer = "unread"
  BY DEF Srs!Init, Srs!noKick, Srs!TypeOK, Srs!Kicks, Srs!FoundThere
<1>2. Srs!IdsGiven /\ Srs!IdsApart /\ Srs!PassedSoFar
  BY DEF Srs!Init, Srs!IdsGiven, Srs!IdsApart, Srs!PassedSoFar
<1> QED
  BY <1>1, <1>2 DEF Srs!Init, Srs!IInv, Srs!ApprovedAndNamed

(* What the callbacks' part of the invariant asks of a client that is let  *)
(* in.                                                                     *)
LetIn(c) ==
  /\ \E r \in answered : r.cid = c /\ r.hook = "publish" /\ r.parses
  /\ \A r \in answered : r.cid = c =>
       /\ r.agrees /\ Srs!Verify(r.signature)
       /\ r.hook = "publish" => r.parses

AllLetIn == \A s \in Streams : publisher[s] # 0 => LetIn(publisher[s])

(* Nothing but the answer to a callback changes what is known of the       *)
(* callbacks.                                                              *)
LEMMA CallbacksStay ==
  ASSUME AllLetIn, UNCHANGED <<signed, answered>>,
         \A s \in Streams : publisher'[s] = publisher[s] \/ publisher'[s] = 0
  PROVE  AllLetIn'
<1>1. \A c : LetIn(c) => /\ \E r \in answered' : r.cid = c /\ r.hook = "publish" /\ r.parses
                        /\ \A r \in answered' : r.cid = c =>
                             /\ r.agrees /\ (signed' => r.signature)
                             /\ r.hook = "publish" => r.parses
  BY DEF LetIn, Srs!Verify
<1> QED
  BY <1>1 DEF AllLetIn, LetIn, Srs!Verify

(* The media server numbers its clients, so that an id KickStream found on *)
(* the stream it was told to kick is not that of a later publisher of      *)
(* another one.                                                            *)
LEMMA NextLive == Srs!IInv /\ [Srs!Next]_Srs!vars => Srs!IInv'
<1> SUFFICES ASSUME Srs!IInv, [Srs!Next]_Srs!vars PROVE Srs!IInv'
  OBVIOUS
<1> DEFINE Heeded == kick.result = "ok" => Srs!Owner(kick.cid) = {} \/ kick.answer = "unread"
           Named == \A k \in kicked : k.from = {k.name}
           Own == signed => misled = {}
<1>i. /\ Srs!TypeOK /\ Srs!IdsGiven /\ Srs!IdsApart /\ Srs!PassedSoFar /\ Srs!FoundThere
      /\ AllLetIn /\ Own /\ Named /\ Heeded
  BY DEF Srs!IInv, Srs!ApprovedAndNamed, AllLetIn, LetIn
<1>h. ASSUME NEW hook, NEW parses, NEW signature, signed' = signed,
             Srs!Heard(hook, parses, signature)
      PROVE  Own'
  BY <1>i, <1>h DEF Srs!Heard, Srs!Verify
<1>q. ASSUME Srs!TypeOK', Srs!IdsGiven', Srs!IdsApart', Srs!PassedSoFar', Srs!FoundThere',
             AllLetIn', Own', Named', Heeded'
      PROVE  Srs!IInv'
  BY <1>q DEF Srs!IInv, Srs!ApprovedAndNamed, AllLetIn, LetIn
<1> HIDE DEF Heeded, Named, Own
<1>t. /\ lastCid \in Nat /\ kick.cid \in Nat /\ \A s \in Streams : publisher[s] \in Nat
      /\ \A a \in asked : a.stream \in Streams /\ a.cid \in Nat
      /\ \A r \in answered : r.cid \in Nat
  <2>1. Srs!TypeOK
    BY <1>i
  <2>2. kick.cid \in Nat
    BY <2>1 DEF Srs!TypeOK, Srs!Kicks
  <2> QED
    BY <2>1, <2>2 DEF Srs!TypeOK, Srs!Asking, Srs!Answers
<1>1. ASSUME NEW s \in Streams, Srs!Ask(s) PROVE Srs!IInv'
  <2> DEFINE new == [stream |-> s, cid |-> lastCid + 1, hook |-> "connect"]
  <2>1. /\ new \in Srs!Asking /\ new.cid = lastCid + 1
        /\ asked' = asked \cup {new} /\ lastCid' = lastCid + 1
        /\ UNCHANGED <<signed, publisher, answered, misled, kick, kicked>>
    BY <1>1, <1>t DEF Srs!Ask, Srs!Asking
  <2> HIDE DEF new
  <2>2. Srs!TypeOK'
    BY <1>i, <2>1 DEF Srs!TypeOK
  <2>3. Srs!IdsGiven'
    BY <1>i, <1>t, <2>1 DEF Srs!IdsGiven
  <2>4. Srs!IdsApart' /\ Srs!PassedSoFar'
    <3>1. /\ \A a \in asked : a.cid # new.cid
          /\ \A r \in answered : r.cid # new.cid
          /\ \A t \in Streams : publisher[t] # new.cid
      BY <1>i, <1>t, <2>1 DEF Srs!IdsGiven
    <3>2. Srs!IdsApart'
      BY <1>i, <2>1, <3>1 DEF Srs!IdsApart
    <3>3. Srs!PassedSoFar'
      BY <1>i, <2>1, <3>1 DEF Srs!PassedSoFar, Srs!Verify
    <3> QED
      BY <3>2, <3>3
  <2>5. Srs!FoundThere' /\ Heeded'
    BY <1>i, <1>t, <2>1 DEF Srs!FoundThere, Srs!Owner, Heeded
  <2> QED
    BY <1>i, <1>q, <2>1, <2>2, <2>3, <2>4, <2>5, CallbacksStay DEF Own, Named, Heeded
<1>2. ASSUME NEW a \in asked, Srs!Answered(a) PROVE Srs!IInv'
  <2>1. PICK r \in Srs!Callbacks(a) :
          /\ (~ r.parses \/ ~ Srs!Verify(r.signature)) => r.agrees
          /\ answered' = answered \cup {r}
          /\ Srs!Heard(r.hook, r.parses, r.signature)
          /\ \/ /\ Srs!OK(r) /\ a.hook = "connect"
                /\ asked' = (asked \ {a}) \cup {[a EXCEPT !.hook = "publish"]}
                /\ UNCHANGED publisher
             \/ /\ Srs!OK(r) /\ a.hook = "publish"
                /\ asked' = asked \ {a}
                /\ publisher' = [publisher EXCEPT ![a.stream] = a.cid]
             \/ /\ ~ Srs!OK(r) /\ asked' = asked \ {a} /\ UNCHANGED publisher
    BY <1>2 DEF Srs!Answered
  <2>2. UNCHANGED <<signed, lastCid, kick, kicked>>
    BY <1>2 DEF Srs!Answered
  <2> DEFINE next == [a EXCEPT !.hook = "publish"]
  <2>3. /\ r \in Srs!Answers /\ r.cid = a.cid /\ r.hook = a.hook
        /\ next \in Srs!Asking /\ next.cid = a.cid /\ next.hook = "publish"
    BY <1>i DEF Srs!TypeOK, Srs!Callbacks, Srs!Asking, Srs!Answers
  <2> HIDE DEF next
  <2>4. \A b \in asked' : b = next \/ b \in asked \ {a}
    BY <2>1 DEF next
  <2>5. /\ \A s \in Streams : publisher'[s] = publisher[s] \/ publisher'[s] = a.cid
        /\ publisher' = publisher \/ asked' = asked \ {a}
        /\ \A s \in Streams : s # a.stream => publisher'[s] = publisher[s]
        /\ publisher' \in [Streams -> Nat]
    BY <1>i, <1>t, <2>1 DEF Srs!TypeOK
  <2>6. Srs!TypeOK'
    BY <1>i, <2>1, <2>2, <2>3, <2>4, <2>5 DEF Srs!TypeOK
  <2>7. Srs!IdsGiven'
    BY <1>i, <2>1, <2>2, <2>3, <2>4, <2>5 DEF Srs!IdsGiven
  <2>8. Srs!IdsApart'
    <3>1. \A b \in asked \ {a} : b.cid # a.cid
      BY <1>i DEF Srs!IdsApart
    <3>2. \A b, d \in asked' : b.cid = d.cid => b = d
      BY <1>i, <2>3, <2>4, <3>1 DEF Srs!IdsApart
    <3>3. ASSUME NEW b \in asked', NEW s \in Streams PROVE b.cid # publisher'[s]
      <4>1. b.cid # publisher[s]
        BY <1>i, <2>3, <2>4 DEF Srs!IdsApart
      <4>2. publisher' # publisher => b.cid # a.cid
        BY <2>5, <3>1
      <4> QED
        BY <2>5, <4>1, <4>2
    <3>4. \A s, t \in Streams : publisher'[s] = publisher'[t] /\ publisher'[s] # 0 => s = t
      <4>1. \A s \in Streams : publisher[s] # a.cid
        BY <1>i DEF Srs!IdsApart
      <4> QED
        BY <1>i, <2>5, <4>1 DEF Srs!IdsApart
    <3> QED
      BY <3>2, <3>3, <3>4 DEF Srs!IdsApart
  <2>9. ASSUME NEW b \in asked', NEW q \in answered', q.cid = b.cid
        PROVE  /\ b.hook = "publish" /\ q.hook = "connect"
               /\ q.agrees /\ Srs!Verify(q.signature)'
    <3>1. CASE b \in asked \ {a}
      <4>1. b.cid # a.cid
        BY <1>i, <3>1 DEF Srs!IdsApart
      <4>2. q \in answered
        BY <2>1, <2>3, <2>9, <4>1
      <4> QED
        BY <1>i, <2>2, <2>9, <3>1, <4>2 DEF Srs!PassedSoFar, Srs!Verify
    <3>2. CASE b \notin asked \ {a}
      <4>1. Srs!OK(r) /\ a.hook = "connect" /\ b = next
        BY <2>1, <2>4, <3>2
      <4>2. q \notin answered /\ q = r
        BY <1>i, <2>1, <2>3, <2>9, <4>1 DEF Srs!PassedSoFar
      <4>3. r.agrees /\ Srs!Verify(r.signature)
        BY <2>1, <2>3, <4>1 DEF Srs!OK, Srs!OnConnect
      <4> QED
        BY <2>2, <2>3, <4>1, <4>2, <4>3 DEF Srs!Verify
    <3> QED
      BY <3>1, <3>2
  <2>10. Srs!PassedSoFar'
    BY <2>9 DEF Srs!PassedSoFar
  <2>11. /\ kick.pc = "deleting" \/ kick.result = "ok" => kick.cid # a.cid
         /\ \A b \in asked' : \E d \in asked : b.cid = d.cid
    BY <1>i, <2>3, <2>4 DEF Srs!FoundThere
  <2>12. Srs!FoundThere'
    BY <1>i, <2>2, <2>5, <2>11 DEF Srs!FoundThere, Srs!Owner
  <2>13. Heeded'
    BY <1>i, <2>2, <2>5, <2>11 DEF Srs!Owner, Heeded
  <2>14. ASSUME NEW s \in Streams, publisher'[s] # 0 PROVE LetIn(publisher[s])'
    <3>1. CASE publisher'[s] = publisher[s]
      <4>1. publisher[s] # a.cid
        BY <1>i DEF Srs!IdsApart
      <4> QED
        BY <1>i, <2>1, <2>2, <2>3, <2>14, <3>1, <4>1 DEF AllLetIn, LetIn, Srs!Verify
    <3>2. CASE publisher'[s] # publisher[s]
      <4>1. Srs!OK(r) /\ a.hook = "publish" /\ publisher'[s] = a.cid
        BY <2>1, <2>5, <3>2
      <4>2. r.parses /\ r.agrees /\ Srs!Verify(r.signature)
        BY <2>3, <4>1 DEF Srs!OK, Srs!OnPublish
      <4>3. \A q \in answered : q.cid = a.cid =>
              q.hook = "connect" /\ q.agrees /\ Srs!Verify(q.signature)
        BY <1>i DEF Srs!PassedSoFar
      <4> QED
        BY <2>1, <2>2, <2>3, <4>1, <4>2, <4>3 DEF LetIn, Srs!Verify
    <3> QED
      BY <3>1, <3>2
  <2>15. Own'
    BY <1>h, <2>1, <2>2
  <2> QED
    BY <1>i, <1>q, <2>2, <2>6, <2>7, <2>8, <2>10, <2>12, <2>13, <2>14, <2>15 DEF AllLetIn, Named
<1>3. ASSUME NEW s \in Streams, Srs!Unpublish(s) PROVE Srs!IInv'
  <2>1. /\ publisher' = [publisher EXCEPT ![s] = 0]
        /\ UNCHANGED <<signed, lastCid, asked, answered, kick, kicked>>
    BY <1>3 DEF Srs!Unpublish
  <2>2. Own'
    BY <1>h, <1>3, <2>1 DEF Srs!Unpublish
  <2>3. Srs!TypeOK' /\ \A t \in Streams : publisher'[t] = publisher[t] \/ publisher'[t] = 0
    BY <1>i, <2>1 DEF Srs!TypeOK
  <2>4. Srs!IdsGiven' /\ Srs!PassedSoFar'
    BY <1>i, <1>t, <2>1, <2>3 DEF Srs!IdsGiven, Srs!PassedSoFar, Srs!Verify
  <2>5. Srs!IdsApart'
    BY <1>i, <1>t, <2>1, <2>3 DEF Srs!IdsApart, Srs!IdsGiven
  <2>6. Srs!FoundThere' /\ Heeded'
    BY <1>i, <1>t, <2>1, <2>3 DEF Srs!FoundThere, Srs!Owner, Heeded
  <2> QED
    BY <1>i, <1>q, <2>1, <2>2, <2>3, <2>4, <2>5, <2>6, CallbacksStay DEF Own, Named, Heeded
<1>4. ASSUME NEW hook, Srs!Forge(hook) PROVE Srs!IInv'
  <2>1. UNCHANGED <<signed, publisher, lastCid, asked, answered, kick, kicked>>
    BY <1>4 DEF Srs!Forge
  <2>2. Own'
    BY <1>i, <1>4, <2>1 DEF Srs!Forge, Srs!Heard, Srs!Verify, Own
  <2>3. Srs!TypeOK' /\ Srs!IdsGiven' /\ Srs!PassedSoFar' /\ Srs!IdsApart'
    BY <1>i, <2>1 DEF Srs!TypeOK, Srs!IdsGiven, Srs!PassedSoFar, Srs!Verify, Srs!IdsApart
  <2>4. Srs!FoundThere' /\ Heeded'
    BY <1>i, <2>1 DEF Srs!FoundThere, Srs!Owner, Heeded
  <2> QED
    BY <1>i, <1>q, <2>1, <2>2, <2>3, <2>4, CallbacksStay DEF Own, Named, Heeded
<1>k. ASSUME UNCHANGED <<signed, publisher, lastCid, asked, answered, misled, kicked>>,
             kick' \in Srs!Kicks, kick'.result # "ok",
             kick'.pc = "deleting" =>
               /\ kick'.name \in Streams /\ kick'.cid = publisher[kick'.name]
               /\ publisher[kick'.name] # 0
      PROVE  Srs!IInv'
  <2>1. Srs!TypeOK' /\ Srs!IdsGiven' /\ Srs!PassedSoFar' /\ Srs!IdsApart'
    BY <1>i, <1>k DEF Srs!TypeOK, Srs!IdsGiven, Srs!PassedSoFar, Srs!Verify, Srs!IdsApart
  <2>2. Srs!FoundThere'
    BY <1>i, <1>t, <1>k DEF Srs!FoundThere, Srs!IdsGiven, Srs!IdsApart, Srs!Owner
  <2> QED
    BY <1>i, <1>k, <1>q, <2>1, <2>2, CallbacksStay DEF Own, Named, Heeded
<1>5. ASSUME NEW name \in Streams, Srs!KickStream(name) PROVE Srs!IInv'
  <2> DEFINE found(cid) == [Srs!noKick EXCEPT !.pc = "deleting", !.name = name, !.cid = cid]
             failed(result) == [Srs!noKick EXCEPT !.pc = "done", !.name = name,
                                                  !.result = result]
  <2>1. ASSUME NEW cid \in Nat
        PROVE  /\ found(cid) \in Srs!Kicks /\ found(cid).result # "ok"
               /\ found(cid).name = name /\ found(cid).cid = cid
    BY DEF Srs!noKick, Srs!Kicks
  <2>2. ASSUME NEW result \in {"missing", "error"}
        PROVE  /\ failed(result) \in Srs!Kicks /\ failed(result).result # "ok"
               /\ failed(result).pc = "done"
    BY DEF Srs!noKick, Srs!Kicks
  <2>3. /\ UNCHANGED <<signed, publisher, lastCid, asked, answered, misled, kicked>>
        /\ \/ \E cid \in Srs!Found(name) : kick' = found(cid)
           \/ \E result \in {"missing", "error"} : kick' = failed(result)
    BY <1>5, Zenon DEF Srs!KickStream
  <2> HIDE DEF found, failed
  <2>4. ASSUME NEW cid \in Srs!Found(name), kick' = found(cid) PROVE Srs!IInv'
    <3>1. cid = publisher[name] /\ cid # 0 /\ cid \in Nat
      BY <1>t, <2>4 DEF Srs!Found
    <3> QED
      BY <1>k, <2>1, <2>3, <2>4, <3>1
  <2>5. ASSUME NEW result \in {"missing", "error"}, kick' = failed(result) PROVE Srs!IInv'
    <3>1. kick' \in Srs!Kicks /\ kick'.result # "ok" /\ kick'.pc = "done"
      BY <2>2, <2>5
    <3> QED
      BY <1>k, <2>3, <3>1
  <2> QED
    BY <2>3, <2>4, <2>5
<1>6. CASE Srs!KickClient
  <2> DEFINE k == [name |-> kick.name, from |-> Srs!Owner(kick.cid)]
  <2>1. PICK answer \in {"code0", "unread", "error"} :
          /\ \/ /\ Srs!Owner(kick.cid) # {}
                /\ publisher' = [s \in Streams |->
                                   IF publisher[s] = kick.cid THEN 0 ELSE publisher[s]]
                /\ kicked' = kicked \cup {k}
             \/ answer # "code0" /\ UNCHANGED <<publisher, kicked>>
          /\ kick' = [kick EXCEPT !.pc = "done", !.result = Srs!deleteJSON(answer),
                                  !.answer = answer]
    BY <1>6 DEF Srs!KickClient
  <2>2. k.name = kick.name /\ k.from = Srs!Owner(kick.cid)
    OBVIOUS
  <2> HIDE DEF k
  <2>3. kick.pc = "deleting" /\ UNCHANGED <<signed, lastCid, asked, answered, misled>>
    BY <1>6 DEF Srs!KickClient
  <2>4. /\ kick' \in Srs!Kicks /\ kick'.pc = "done" /\ kick'.cid = kick.cid
        /\ kick'.answer = answer /\ (kick'.result = "ok" => answer # "error")
        /\ kick.cid \in Nat
    <3>1. Srs!deleteJSON(answer) \in {"ok", "error"} /\ (answer = "error" => Srs!deleteJSON(answer) = "error")
      BY DEF Srs!deleteJSON
    <3> QED
      BY <1>i, <2>1, <3>1 DEF Srs!TypeOK, Srs!Kicks
  <2>5. kick.name \in Streams /\ 0 < kick.cid /\ kick.cid <= lastCid
    BY <1>i, <2>3 DEF Srs!FoundThere
  <2>6. /\ \A s \in Streams : publisher'[s] = publisher[s] \/ publisher'[s] = 0
        /\ publisher' \in [Streams -> Nat]
    BY <1>i, <1>t, <2>1 DEF Srs!TypeOK
  <2>7. Srs!TypeOK'
    BY <1>i, <2>3, <2>4, <2>6 DEF Srs!TypeOK
  <2>8. Srs!PassedSoFar' /\ Srs!IdsGiven'
    BY <1>i, <1>t, <2>3, <2>6 DEF Srs!PassedSoFar, Srs!Verify, Srs!IdsGiven
  <2>9. Srs!IdsApart'
    BY <1>i, <1>t, <2>3, <2>6 DEF Srs!IdsApart, Srs!IdsGiven
  <2>10. Srs!FoundThere'
    BY <1>i, <2>3, <2>4, <2>5 DEF Srs!FoundThere
  <2>11. Named'
    <3>1. Srs!Owner(kick.cid) \subseteq {kick.name}
      BY <1>i, <2>3 DEF Srs!FoundThere
    <3> QED
      BY <1>i, <2>1, <2>2, <3>1 DEF Named
  <2>12. Heeded'
    BY <2>1, <2>4, <2>5 DEF Srs!Owner, Heeded
  <2> QED
    BY <1>i, <1>q, <2>3, <2>6, <2>7, <2>8, <2>9, <2>10, <2>11, <2>12, CallbacksStay DEF Own, Named, Heeded
<1>7. CASE Srs!Return
  <2>1. kick' \in Srs!Kicks /\ kick'.result # "ok" /\ kick'.pc = "none"
    BY <1>7 DEF Srs!Return, Srs!noKick, Srs!Kicks
  <2> QED
    BY <1>7, <1>k, <2>1 DEF Srs!Return
<1>8. ASSUME UNCHANGED <<signed, publisher, lastCid, asked, answered, misled, kick, kicked>>
      PROVE  Srs!IInv'
  BY <1>8 DEF Srs!IInv, Srs!TypeOK, Srs!IdsGiven, Srs!IdsApart, Srs!PassedSoFar,
              Srs!FoundThere, Srs!ApprovedAndNamed, Srs!Verify, Srs!Owner
<1>9. ASSUME NEW s \in Streams, NEW on \in BOOLEAN, Srs!Record(s, on) PROVE Srs!IInv'
  BY <1>8, <1>9 DEF Srs!Record
<1>10. CASE UNCHANGED Srs!vars
  BY <1>8, <1>10 DEF Srs!vars
<1> QED
  BY <1>1, <1>2, <1>3, <1>4, <1>5, <1>6, <1>7, <1>9, <1>10 DEF Srs!Next

(* However callbacks, ends of streams and a kick interleave, a stream is   *)
(* published by one the callbacks let through, and KickStream ends no      *)
(* other stream than the one it names.                                     *)
THEOREM ApprovedAndNamedAlways == Srs!Spec => []ApprovedAndNamed
<1>1. Srs!IInv => Srs!ApprovedAndNamed
  BY DEF Srs!IInv
<1> QED
  BY <1>1, InitLive, NextLive, PTL DEF Srs!Spec, ApprovedAndNamed

(* What was written and what is queued stay in one order when the next     *)
(* message moves from the queue to the connection.                         *)
LEMMA HeadMoves ==
  ASSUME NEW T, NEW w \in Seq(T), NEW q \in Seq(T), q # <<>>
  PROVE  Append(w, Head(q)) \o Tail(q) = w \o q
<1>1. /\ Head(q) \in T /\ Tail(q) \in Seq(T) /\ Len(Tail(q)) = Len(q) - 1
      /\ Len(q) \in Nat \ {0} /\ Len(w) \in Nat /\ Head(q) = q[1]
      /\ \A i \in 1 .. Len(q) - 1 : Tail(q)[i] = q[i + 1]
  OBVIOUS
<1>2. /\ Append(w, Head(q)) \in Seq(T) /\ Len(Append(w, Head(q))) = Len(w) + 1
      /\ \A i \in 1 .. Len(w) : Append(w, Head(q))[i] = w[i]
      /\ Append(w, Head(q))[Len(w) + 1] = Head(q)
  BY <1>1
<1> DEFINE front == Append(w, Head(q))
           back == Tail(q)
<1>3. /\ front \o back \in Seq(T) /\ Len(front \o back) = Len(front) + Len(back)
      /\ \A i \in 1 .. Len(front) + Len(back) :
           (front \o back)[i] = IF i <= Len(front) THEN front[i] ELSE back[i - Len(front)]
  BY <1>1, <1>2
<1>4. /\ w \o q \in Seq(T) /\ Len(w \o q) = Len(w) + Len(q)
      /\ \A i \in 1 .. Len(w) + Len(q) :
           (w \o q)[i] = IF i <= Len(w) THEN w[i] ELSE q[i - Len(w)]
  OBVIOUS
<1> HIDE DEF front, back
<1>5. Len(front) = Len(w) + 1 /\ Len(back) = Len(q) - 1
  BY <1>1, <1>2 DEF front, back
<1>6. ASSUME NEW i \in 1 .. Len(w) + Len(q) PROVE (front \o back)[i] = (w \o q)[i]
  <2>1. CASE i <= Len(w)
    BY <1>1, <1>2, <1>3, <1>4, <1>5, <2>1 DEF front
  <2>2. CASE i = Len(w) + 1
    BY <1>1, <1>2, <1>3, <1>4, <1>5, <2>2 DEF front
  <2>3. CASE i > Len(w) + 1
    <3>1. /\ i - Len(w) - 1 \in 1 .. Len(q) - 1 /\ i - Len(front) = i - Len(w) - 1
          /\ (i - Len(w) - 1) + 1 = i - Len(w) /\ ~ (i <= Len(front)) /\ ~ (i <= Len(w))
      BY <1>1, <1>5, <2>3
    <3>2. back[i - Len(w) - 1] = q[i - Len(w)]
      BY <1>1, <3>1 DEF back
    <3>3. i \in 1 .. Len(front) + Len(back)
      BY <1>1, <1>5
    <3> QED
      BY <1>3, <1>4, <3>1, <3>2, <3>3
  <2>4. i \in Nat /\ Len(w) \in Nat
    BY <1>1
  <2>5. i <= Len(w) \/ i = Len(w) + 1 \/ i > Len(w) + 1
    BY ONLY <2>4
  <2> QED
    BY <2>1, <2>2, <2>3, <2>5
<1>7. front \o back = w \o q
  <2>1. Len(front \o back) = Len(w \o q) /\ Len(w \o q) = Len(w) + Len(q)
    BY <1>1, <1>3, <1>4, <1>5
  <2> QED
    BY <1>3, <1>4, <1>6, <2>1, SeqEqual
<1> QED
  BY <1>7 DEF front, back

(* The sequence r is q with m at its end.                                  *)
LongerBy(r, q, m) ==
  /\ Len(r) = Len(q) + 1 /\ Len(q) \in Nat /\ r[Len(q) + 1] = m
  /\ \A i \in 1 .. Len(q) : r[i] = q[i]

(* A message that is queued comes after all that was written and all that  *)
(* is queued.                                                              *)
LEMMA AppendAtEnd ==
  ASSUME NEW T, NEW w \in Seq(T), NEW q \in Seq(T), NEW m \in T
  PROVE  LongerBy(w \o Append(q, m), w \o q, m)
<1>1. /\ Append(q, m) \in Seq(T) /\ Len(Append(q, m)) = Len(q) + 1
      /\ Append(q, m)[Len(q) + 1] = m
      /\ \A i \in 1 .. Len(q) : Append(q, m)[i] = q[i]
      /\ Len(q) \in Nat /\ Len(w) \in Nat
  OBVIOUS
<1>2. /\ Len(w \o q) = Len(w) + Len(q)
      /\ \A i \in 1 .. Len(w) + Len(q) :
           (w \o q)[i] = IF i <= Len(w) THEN w[i] ELSE q[i - Len(w)]
  OBVIOUS
<1> DEFINE back == Append(q, m)
<1>3. /\ Len(w \o back) = Len(w) + Len(back)
      /\ \A i \in 1 .. Len(w) + Len(back) :
           (w \o back)[i] = IF i <= Len(w) THEN w[i] ELSE back[i - Len(w)]
  BY <1>1
<1> HIDE DEF back
<1>4. Len(back) = Len(q) + 1 /\ back[Len(q) + 1] = m /\ \A i \in 1 .. Len(q) : back[i] = q[i]
  BY <1>1 DEF back
<1>5. (w \o back)[Len(w) + Len(q) + 1] = m
  <2>1. /\ Len(w) + Len(q) + 1 \in 1 .. Len(w) + Len(back)
        /\ ~ (Len(w) + Len(q) + 1 <= Len(w)) /\ Len(w) + Len(q) + 1 - Len(w) = Len(q) + 1
    BY <1>1, <1>4
  <2> QED
    BY <1>3, <1>4, <2>1
<1>6. ASSUME NEW i \in 1 .. Len(w) + Len(q) PROVE (w \o back)[i] = (w \o q)[i]
  <2>1. CASE i <= Len(w)
    BY <1>1, <1>2, <1>3, <1>4, <2>1
  <2>2. CASE ~ (i <= Len(w))
    <3>1. i - Len(w) \in 1 .. Len(q) /\ i \in 1 .. Len(w) + Len(back)
      BY <1>1, <1>4, <2>2
    <3> QED
      BY <1>2, <1>3, <1>4, <2>2, <3>1
  <2> QED
    BY <2>1, <2>2
<1> QED
  BY <1>1, <1>2, <1>3, <1>4, <1>5, <1>6 DEF back, LongerBy

(* No message is sent at first.                                            *)
LEMMA InitSse == Sse!Init => Sse!IInv
<1> SUFFICES ASSUME Sse!Init PROVE Sse!IInv
  OBVIOUS
<1>1. \A c \in SseClients : Sse!SentTo(c) = <<>>
  BY DEF Sse!Init, Sse!SentTo
<1>2. \A c \in SseClients : Sse!SentInOrder(c)
  <2>1. 1 .. Len(<<>>) = {}
    OBVIOUS
  <2> QED
    BY <1>1, <2>1 DEF Sse!SentInOrder
<1> QED
  BY <1>2 DEF Sse!Init, Sse!IInv, Sse!TypeOK, Sse!MessagesStand, Sse!Stands, Sse!CheckedOK

(* What a client was sent are messages.                                    *)
LEMMA SentElements ==
  ASSUME Sse!IInv, NEW d \in SseClients, NEW i \in 1 .. Len(Sse!SentTo(d))
  PROVE  /\ Sse!SentTo(d)[i] \in SseMessages
         /\ message[Sse!SentTo(d)[i]].at # "new"
         /\ <<Sse!SentTo(d)[i], d>> \notin checked
         /\ d \notin message[Sse!SentTo(d)[i]].todo
<1>1. Sse!SentTo(d) \in Seq(SseMessages)
  BY DEF Sse!IInv, Sse!SentTo, Sse!TypeOK
<1>2. Sse!SentTo(d)[i] \in SseMessages
  BY <1>1
<1> QED
  BY <1>2 DEF Sse!IInv, Sse!SentInOrder

(* Whatever leaves the queues and what is said of the messages as they are *)
(* leaves the order.                                                       *)
LEMMA QueuesStay ==
  ASSUME Sse!IInv, Sse!TypeOK', UNCHANGED <<message, checked, panicked>>,
         \A c \in SseClients : Sse!SentTo(c)' = Sse!SentTo(c)
  PROVE  Sse!IInv'
<1>1. \A c \in SseClients : Sse!SentInOrder(c)'
  BY DEF Sse!IInv, Sse!SentInOrder
<1> QED
  BY <1>1 DEF Sse!IInv, Sse!MessagesStand, Sse!Stands, Sse!CheckedOK

(* Broadcasts overlap, but what began after another had ended is queued    *)
(* after it, and one that panics checks no client any more: what is queued *)
(* for a client has passed its check, once.                                *)
LEMMA NextSse == Sse!IInv /\ [Sse!Next]_Sse!sseVars => Sse!IInv'
<1> SUFFICES ASSUME Sse!IInv, [Sse!Next]_Sse!sseVars PROVE Sse!IInv'
  OBVIOUS
<1>i. /\ Sse!TypeOK /\ Sse!MessagesStand /\ Sse!CheckedOK
      /\ \A c \in SseClients : Sse!SentInOrder(c)
  BY DEF Sse!IInv
<1>1. ASSUME DOMAIN client' = SseClients,
             UNCHANGED <<send, written, message, checked, panicked>>
      PROVE  Sse!IInv'
  <2>1. Sse!TypeOK'
    BY <1>i, <1>1 DEF Sse!TypeOK
  <2>2. \A c \in SseClients : Sse!SentTo(c)' = Sse!SentTo(c)
    BY <1>1 DEF Sse!SentTo
  <2> QED
    BY <1>1, <2>1, <2>2, QueuesStay
<1>2. ASSUME NEW c \in SseClients,
             Sse!addClient(c) \/ Sse!Disconnect(c) \/ Sse!CloseClient(c) \/ Sse!removeClient(c)
      PROVE  Sse!IInv'
  <2>1. DOMAIN client' = SseClients
    BY <1>i, <1>2 DEF Sse!TypeOK, Sse!addClient, Sse!Disconnect, Sse!CloseClient,
                      Sse!removeClient
  <2> QED
    BY <1>1, <1>2, <2>1 DEF Sse!addClient, Sse!Disconnect, Sse!CloseClient, Sse!removeClient
<1>3. CASE Sse!Close
  BY <1>1, <1>3 DEF Sse!Close
<1>4. ASSUME NEW c \in SseClients, Sse!WriteNext(c) PROVE Sse!IInv'
  <2>1. /\ send[c] \in Seq(SseMessages) /\ written[c] \in Seq(SseMessages) /\ send[c] # <<>>
        /\ written' = [written EXCEPT ![c] = Append(written[c], Head(send[c]))]
        /\ send' = [send EXCEPT ![c] = Tail(send[c])]
        /\ UNCHANGED <<client, message, checked, panicked>>
    BY <1>i, <1>4 DEF Sse!WriteNext, Sse!TypeOK
  <2>2. Sse!TypeOK'
    <3>1. /\ Append(written[c], Head(send[c])) \in Seq(SseMessages)
          /\ Tail(send[c]) \in Seq(SseMessages)
      BY <2>1
    <3> QED
      BY <1>i, <2>1, <3>1 DEF Sse!TypeOK
  <2>3. ASSUME NEW d \in SseClients PROVE Sse!SentTo(d)' = Sse!SentTo(d)
    <3>1. CASE d = c
      BY <1>i, <2>1, <3>1, HeadMoves DEF Sse!SentTo, Sse!TypeOK
    <3>2. CASE d # c
      BY <1>i, <2>1, <3>2 DEF Sse!SentTo, Sse!TypeOK
    <3> QED
      BY <3>1, <3>2
  <2> QED
    BY <2>1, <2>2, <2>3, QueuesStay
<1>5. ASSUME NEW m \in SseMessages,
             NEW new \in [at : {"sending"}, todo : SUBSET SseClients, all : BOOLEAN,
                          after : {Sse!Sent}],
             message[m].at = "new", message' = [message EXCEPT ![m] = new],
             UNCHANGED <<client, send, written, panicked>>,
             \/ checked' = checked
             \/ \E c \in SseClients : /\ checked' = checked \cup {<<m, c>>}
                                     /\ EventOf[m] \in Wants[c] /\ new.todo = {}
      PROVE  Sse!IInv'
  <2>1. /\ new.at = "sending" /\ new.todo \subseteq SseClients
        /\ new.after = Sse!Sent /\ Sse!Sent \subseteq SseMessages
        /\ \A k \in Sse!Sent : message[k].at = "done" /\ k # m
    BY <1>5 DEF Sse!Sent
  <2>2. new \in [at : {"new", "sending", "done"}, todo : SUBSET SseClients, all : BOOLEAN,
                 after : SUBSET SseMessages]
    BY <1>5, <2>1
  <2>3. \A k \in SseMessages : message'[k] = IF k = m THEN new ELSE message[k]
    BY <1>i, <1>5 DEF Sse!TypeOK
  <2>4. Sse!TypeOK'
    BY <1>i, <1>5, <2>2 DEF Sse!TypeOK
  <2>5. Sse!MessagesStand'
    <3>1. \A k \in SseMessages : message[k].at = "done" => message'[k].at = "done"
      BY <1>5, <2>3
    <3>2. Sse!Stands(m)'
      <4>1. Sse!Stands(m) /\ message'[m] = new
        BY <1>i, <2>3 DEF Sse!MessagesStand
      <4>2. \A k \in Sse!Sent : message'[k].at = "done"
        BY <2>1, <3>1
      <4> QED
        BY <1>5, <2>1, <4>1, <4>2 DEF Sse!Stands
    <3>3. ASSUME NEW k \in SseMessages, k # m PROVE Sse!Stands(k)'
      <4>1. Sse!Stands(k) /\ message'[k] = message[k] /\ message[k].after \subseteq SseMessages
        BY <1>i, <2>3, <3>3 DEF Sse!MessagesStand, Sse!TypeOK
      <4>2. \A d \in SseClients : <<k, d>> \in checked' <=> <<k, d>> \in checked
        BY <1>5, <3>3
      <4> QED
        BY <1>5, <3>1, <4>1, <4>2 DEF Sse!Stands
    <3> QED
      BY <3>2, <3>3 DEF Sse!MessagesStand
  <2>6. Sse!CheckedOK'
    BY <1>i, <1>5, <2>1, <2>3 DEF Sse!CheckedOK, Sse!MessagesStand, Sse!Stands
  <2>7. ASSUME NEW d \in SseClients PROVE Sse!SentInOrder(d)'
    <3>1. Sse!SentTo(d)' = Sse!SentTo(d)
      BY <1>5 DEF Sse!SentTo
    <3>2. \A i \in 1 .. Len(Sse!SentTo(d)) :
            Sse!SentTo(d)[i] \in SseMessages /\ Sse!SentTo(d)[i] # m
      BY <1>5, SentElements
    <3>3. \A k \in SseMessages : k # m =>
            message'[k] = message[k] /\ (<<k, d>> \in checked' <=> <<k, d>> \in checked)
      BY <1>5, <2>3
    <3> DEFINE q == Sse!SentTo(d)
    <3>4. \A i \in 1 .. Len(q) :
            /\ EventOf[q[i]] \in Wants[d] /\ message'[q[i]].at # "new"
            /\ <<q[i], d>> \notin checked' /\ d \notin message'[q[i]].todo
      BY <1>i, <3>2, <3>3 DEF Sse!SentInOrder
    <3>5. ASSUME NEW i \in 1 .. Len(q), NEW j \in 1 .. Len(q), i < j
          PROVE  q[i] # q[j] /\ q[j] \notin message'[q[i]].after
      <4>1. q[i] # q[j] /\ q[j] \notin message[q[i]].after
        BY <1>i, <3>5 DEF Sse!SentInOrder
      <4>2. message'[q[i]] = message[q[i]]
        BY <3>2, <3>3
      <4> QED
        BY <4>1, <4>2
    <3> QED
      BY <3>1, <3>4, <3>5 DEF Sse!SentInOrder
  <2> QED
    BY <2>4, <2>5, <2>6, <2>7 DEF Sse!IInv
<1>6. ASSUME NEW m \in SseMessages,
             Sse!Broadcast(m) \/ \E c \in SseClients : Sse!SendTo(m, c)
      PROVE  Sse!IInv'
  <2>1. CASE Sse!Broadcast(m)
    <3> DEFINE new == [at |-> "sending", todo |-> Sse!Registered, all |-> TRUE,
                       after |-> Sse!Sent]
    <3>1. new \in [at : {"sending"}, todo : SUBSET SseClients, all : BOOLEAN, after : {Sse!Sent}]
      BY DEF Sse!Registered
    <3>2. /\ message[m].at = "new" /\ message' = [message EXCEPT ![m] = new]
          /\ UNCHANGED <<client, send, written, checked, panicked>>
      BY <2>1 DEF Sse!Broadcast
    <3> HIDE DEF new
    <3> QED
      BY <1>5, <3>1, <3>2
  <2>2. ASSUME NEW c \in SseClients, Sse!SendTo(m, c) PROVE Sse!IInv'
    <3> DEFINE new == [at |-> "sending", todo |-> {}, all |-> FALSE, after |-> Sse!Sent]
    <3>1. /\ new \in [at : {"sending"}, todo : SUBSET SseClients, all : BOOLEAN,
                      after : {Sse!Sent}]
          /\ new.todo = {}
      OBVIOUS
    <3>2. /\ message[m].at = "new" /\ message' = [message EXCEPT ![m] = new]
          /\ UNCHANGED <<client, send, written, panicked>>
          /\ \/ checked' = checked
             \/ checked' = checked \cup {<<m, c>>} /\ EventOf[m] \in Wants[c]
      BY <2>2 DEF Sse!SendTo, Sse!Subscribed
    <3> HIDE DEF new
    <3> QED
      BY <1>5, <3>1, <3>2
  <2> QED
    BY <1>6, <2>1, <2>2
<1>7. ASSUME NEW m \in SseMessages,
             NEW new \in [at : {"sending", "done"}, todo : SUBSET message[m].todo,
                          all : BOOLEAN, after : {message[m].after}],
             message[m].at = "sending", message' = [message EXCEPT ![m] = new],
             UNCHANGED <<client, send, written, panicked>>,
             \/ /\ checked' = checked
                /\ new.at = "sending" \/ \A d \in SseClients : <<m, d>> \notin checked
             \/ \E c \in SseClients :
                  /\ checked' = checked \cup {<<m, c>>} /\ EventOf[m] \in Wants[c]
                  /\ c \in message[m].todo \ new.todo /\ new.at = "sending"
                  /\ m \notin panicked /\ \A d \in SseClients : <<m, d>> \notin checked
      PROVE  Sse!IInv'
  <2>1. /\ message[m] \in [at : {"new", "sending", "done"}, todo : SUBSET SseClients,
                           all : BOOLEAN, after : SUBSET SseMessages]
        /\ new.todo \subseteq message[m].todo /\ new.after = message[m].after
    BY <1>i DEF Sse!TypeOK
  <2>2. new \in [at : {"new", "sending", "done"}, todo : SUBSET SseClients, all : BOOLEAN,
                 after : SUBSET SseMessages]
    BY <2>1
  <2>3. /\ \A k \in SseMessages : message'[k] = IF k = m THEN new ELSE message[k]
        /\ \A k \in SseMessages :
             /\ message'[k].todo \subseteq message[k].todo
             /\ message'[k].after = message[k].after
             /\ message[k].at = "done" => message'[k].at = "done"
             /\ message'[k].at = "new" <=> message[k].at = "new"
    BY <1>i, <1>7, <2>1 DEF Sse!TypeOK
  <2>4. Sse!TypeOK'
    BY <1>i, <1>7, <2>2 DEF Sse!TypeOK
  <2>5. Sse!MessagesStand'
    <3>1. ASSUME NEW k \in SseMessages PROVE Sse!Stands(k)'
      <4>1. Sse!Stands(k) /\ message[k].after \subseteq SseMessages
        BY <1>i DEF Sse!MessagesStand, Sse!TypeOK
      <4>2. CASE k # m
        <5>1. \A d \in SseClients : <<k, d>> \in checked' <=> <<k, d>> \in checked
          BY <1>7, <4>2
        <5>2. message'[k] = message[k]
          BY <2>3, <4>2
        <5> QED
          BY <1>7, <2>3, <4>1, <5>1, <5>2 DEF Sse!Stands
      <4>3. CASE k = m
        <5>1. message'[m] = new
          BY <2>3
        <5> QED
          BY <1>7, <2>1, <2>3, <4>1, <4>3, <5>1 DEF Sse!Stands
      <4> QED
        BY <4>2, <4>3
    <3> QED
      BY <3>1 DEF Sse!MessagesStand
  <2>6. Sse!CheckedOK'
    <3> SUFFICES ASSUME NEW k \in SseMessages, NEW d \in SseClients, <<k, d>> \in checked'
                 PROVE  EventOf[k] \in Wants[d] /\ d \notin message'[k].todo
      BY DEF Sse!CheckedOK
    <3>1. CASE <<k, d>> \in checked
      BY <1>i, <2>3, <3>1 DEF Sse!CheckedOK
    <3>2. CASE <<k, d>> \notin checked
      BY <1>7, <2>3, <3>2
    <3> QED
      BY <3>1, <3>2
  <2>7. ASSUME NEW d \in SseClients PROVE Sse!SentInOrder(d)'
    <3>1. Sse!SentTo(d)' = Sse!SentTo(d)
      BY <1>7 DEF Sse!SentTo
    <3>2. \A i \in 1 .. Len(Sse!SentTo(d)) :
            /\ Sse!SentTo(d)[i] \in SseMessages
            /\ <<Sse!SentTo(d)[i], d>> \notin checked'
      BY <1>7, SentElements
    <3> DEFINE q == Sse!SentTo(d)
    <3>3. \A i \in 1 .. Len(q) :
            /\ EventOf[q[i]] \in Wants[d] /\ message'[q[i]].at # "new"
            /\ <<q[i], d>> \notin checked' /\ d \notin message'[q[i]].todo
      BY <1>i, <2>3, <3>2 DEF Sse!SentInOrder
    <3>4. ASSUME NEW i \in 1 .. Len(q), NEW j \in 1 .. Len(q), i < j
          PROVE  q[i] # q[j] /\ q[j] \notin message'[q[i]].after
      <4>1. q[i] # q[j] /\ q[j] \notin message[q[i]].after
        BY <1>i, <3>4 DEF Sse!SentInOrder
      <4>2. message'[q[i]].after = message[q[i]].after
        BY <2>3, <3>2
      <4> QED
        BY <4>1, <4>2
    <3> QED
      BY <3>1, <3>3, <3>4 DEF Sse!SentInOrder
  <2> QED
    BY <2>4, <2>5, <2>6, <2>7 DEF Sse!IInv
<1>8. ASSUME NEW c \in SseClients, NEW m \in SseMessages, Sse!Deliver(m, c) PROVE Sse!IInv'
  <2>1. /\ <<m, c>> \in checked /\ checked' = checked \ {<<m, c>>}
        /\ UNCHANGED <<client, written, message>>
        /\ \/ /\ panicked' = panicked
              /\ \/ send' = send
                 \/ send' = [send EXCEPT ![c] = Append(send[c], m)]
           \/ panicked' = panicked \cup {m} /\ send' = send
    <3>1. send[c] = send[c] /\ [send EXCEPT ![c] = send[c]] = send
      BY <1>i DEF Sse!TypeOK
    <3> QED
      BY <1>8, <3>1 DEF Sse!Deliver
  <2>2. Sse!TypeOK'
    <3>1. send[c] \in Seq(SseMessages) /\ Append(send[c], m) \in Seq(SseMessages)
      BY <1>i DEF Sse!TypeOK
    <3>2. send \in [SseClients -> Seq(SseMessages)]
      BY <1>i DEF Sse!TypeOK
    <3>3. [send EXCEPT ![c] = Append(send[c], m)] \in [SseClients -> Seq(SseMessages)]
      BY <3>1, <3>2
    <3>4. send' \in [SseClients -> Seq(SseMessages)]
      BY <2>1, <3>2, <3>3
    <3>5. UNCHANGED <<client, written, message>> /\ checked' \subseteq checked
      BY <2>1
    <3> QED
      BY <1>i, <3>4, <3>5 DEF Sse!TypeOK
  <2>3. Sse!MessagesStand'
    <3>1. ASSUME NEW k \in SseMessages PROVE Sse!Stands(k)'
      <4>1. Sse!Stands(k)
        BY <1>i DEF Sse!MessagesStand
      <4> QED
        BY <1>i, <2>1, <4>1 DEF Sse!Stands
    <3> QED
      BY <1>i, <2>1, <3>1 DEF Sse!MessagesStand
  <2>4. Sse!CheckedOK'
    BY <1>i, <2>1 DEF Sse!CheckedOK
  <2>5. ASSUME NEW d \in SseClients, Sse!SentTo(d)' = Sse!SentTo(d) PROVE Sse!SentInOrder(d)'
    BY <1>i, <2>1, <2>5 DEF Sse!SentInOrder
  <2>6. ASSUME send' = [send EXCEPT ![c] = Append(send[c], m)] PROVE Sse!SentInOrder(c)'
    <3> DEFINE q == Sse!SentTo(c)
               r == Sse!SentTo(c)'
    <3>1. /\ Len(r) = Len(q) + 1 /\ Len(q) \in Nat /\ r[Len(q) + 1] = m
          /\ \A i \in 1 .. Len(q) : r[i] = q[i]
      <4>1. written[c] \in Seq(SseMessages) /\ send[c] \in Seq(SseMessages)
        BY <1>i DEF Sse!TypeOK
      <4>2. r = written[c] \o Append(send[c], m) /\ q = written[c] \o send[c]
        BY <1>i, <2>1, <2>6 DEF Sse!SentTo, Sse!TypeOK
      <4> HIDE DEF q, r
      <4>3. LongerBy(written[c] \o Append(send[c], m), written[c] \o send[c], m)
        BY <4>1, AppendAtEnd
      <4>4. LongerBy(r, q, m)
        BY <4>2, <4>3
      <4> QED
        BY <4>4 DEF LongerBy
    <3>2. \A i \in 1 .. Len(q) : q[i] \in SseMessages /\ q[i] # m
      BY <2>1, SentElements
    <3>3. \A i \in 1 .. Len(q) : m \notin message[q[i]].after
      <4>1. message[m].at # "done"
        BY <1>i, <2>1 DEF Sse!MessagesStand, Sse!Stands
      <4> QED
        BY <1>i, <3>2, <4>1 DEF Sse!MessagesStand, Sse!Stands
    <3>4. \A i \in 1 .. Len(q) :
            /\ EventOf[q[i]] \in Wants[c] /\ message[q[i]].at /= "new"
            /\ <<q[i], c>> \notin checked /\ c \notin message[q[i]].todo
      BY <1>i DEF Sse!SentInOrder
    <3>5. \A i, j \in 1 .. Len(q) : i < j => q[i] /= q[j] /\ q[j] \notin message[q[i]].after
      BY <1>i DEF Sse!SentInOrder
    <3>6. EventOf[m] \in Wants[c] /\ c \notin message[m].todo /\ message[m].at # "new"
      BY <1>i, <2>1 DEF Sse!CheckedOK, Sse!MessagesStand, Sse!Stands
    <3> HIDE DEF q, r
    <3>7. ASSUME NEW i \in 1 .. Len(r)
          PROVE  i \in 1 .. Len(q) \/ i = Len(q) + 1
      BY <3>1
    <3>8. \A i \in 1 .. Len(r) :
            /\ EventOf[r[i]] \in Wants[c] /\ message[r[i]].at /= "new"
            /\ <<r[i], c>> \notin checked' /\ c \notin message[r[i]].todo
      <4> SUFFICES ASSUME NEW i \in 1 .. Len(r)
                   PROVE  /\ EventOf[r[i]] \in Wants[c] /\ message[r[i]].at /= "new"
                          /\ <<r[i], c>> \notin checked' /\ c \notin message[r[i]].todo
        OBVIOUS
      <4>1. CASE i \in 1 .. Len(q)
        BY <2>1, <3>1, <3>4, <4>1
      <4>2. CASE i = Len(q) + 1
        BY <2>1, <3>1, <3>6, <4>2
      <4> QED
        BY <3>7, <4>1, <4>2
    <3>9. \A i, j \in 1 .. Len(r) : i < j => r[i] /= r[j] /\ r[j] \notin message[r[i]].after
      <4> SUFFICES ASSUME NEW i \in 1 .. Len(r), NEW j \in 1 .. Len(r), i < j
                   PROVE  r[i] /= r[j] /\ r[j] \notin message[r[i]].after
        OBVIOUS
      <4>1. i \in 1 .. Len(q) /\ r[i] = q[i]
        BY <3>1
      <4>2. CASE j \in 1 .. Len(q)
        BY <3>1, <3>5, <4>1, <4>2
      <4>3. CASE j = Len(q) + 1
        BY <3>1, <3>2, <3>3, <4>1, <4>3
      <4> QED
        BY <3>7, <4>2, <4>3
    <3> QED
      BY <2>1, <3>8, <3>9 DEF Sse!SentInOrder, r
  <2>7. ASSUME NEW d \in SseClients PROVE Sse!SentInOrder(d)'
    <3>1. CASE send' = send
      BY <2>1, <2>5, <3>1 DEF Sse!SentTo
    <3>2. CASE send' = [send EXCEPT ![c] = Append(send[c], m)] /\ d # c
      <4>1. Sse!SentTo(d)' = Sse!SentTo(d)
        BY <1>i, <2>1, <3>2 DEF Sse!SentTo, Sse!TypeOK
      <4> QED
        BY <2>5, <4>1
    <3> QED
      BY <2>1, <2>6, <3>1, <3>2
  <2> QED
    BY <2>2, <2>3, <2>4, <2>7 DEF Sse!IInv
<1>9. ASSUME NEW c \in SseClients, NEW m \in SseMessages, Sse!BroadcastChecks(m, c)
      PROVE  Sse!IInv'
  <2> DEFINE new == [message[m] EXCEPT !.todo = message[m].todo \ {c}]
  <2>1. /\ message[m].at = "sending" /\ m \notin panicked /\ c \in message[m].todo
        /\ \A d \in SseClients : <<m, d>> \notin checked
        /\ message' = [message EXCEPT ![m] = new]
        /\ UNCHANGED <<client, send, written, panicked>>
        /\ \/ checked' = checked
           \/ checked' = checked \cup {<<m, c>>} /\ EventOf[m] \in Wants[c]
    BY <1>9 DEF Sse!BroadcastChecks, Sse!Subscribed
  <2>2. /\ new \in [at : {"sending", "done"}, todo : SUBSET message[m].todo, all : BOOLEAN,
                    after : {message[m].after}]
        /\ new.at = "sending" /\ c \in message[m].todo \ new.todo
    <3>1. message[m] \in [at : {"new", "sending", "done"}, todo : SUBSET SseClients,
                          all : BOOLEAN, after : SUBSET SseMessages]
      BY <1>i DEF Sse!TypeOK
    <3>2. /\ new = [at |-> "sending", todo |-> message[m].todo \ {c},
                    all |-> message[m].all, after |-> message[m].after]
          /\ message[m].all \in BOOLEAN
      BY <2>1, <3>1
    <3> HIDE DEF new
    <3> QED
      BY <2>1, <3>2
  <2> HIDE DEF new
  <2> QED
    BY <1>7, <2>1, <2>2
<1>11. ASSUME NEW m \in SseMessages, Sse!SendEnds(m) PROVE Sse!IInv'
  <2> DEFINE new == [message[m] EXCEPT !.at = "done"]
  <2>1. /\ message[m].at = "sending" /\ message' = [message EXCEPT ![m] = new]
        /\ m \in panicked \/ \A d \in SseClients : <<m, d>> \notin checked
        /\ UNCHANGED <<client, send, written, checked, panicked>>
    BY <1>11 DEF Sse!SendEnds
  <2>2. new \in [at : {"sending", "done"}, todo : SUBSET message[m].todo, all : BOOLEAN,
                 after : {message[m].after}]
    BY <1>i DEF Sse!TypeOK
  <2>3. \A d \in SseClients : <<m, d>> \notin checked
    BY <1>i, <2>1 DEF Sse!MessagesStand, Sse!Stands
  <2> HIDE DEF new
  <2> QED
    BY <1>7, <2>1, <2>2, <2>3
<1>10. CASE UNCHANGED Sse!sseVars
  BY <1>i, <1>1, <1>10 DEF Sse!sseVars, Sse!TypeOK
<1> QED
  BY <1>2, <1>3, <1>4, <1>6, <1>8, <1>9, <1>10, <1>11 DEF Sse!Next

(* What has been written comes first in what was sent.                     *)
LEMMA SseNow == Sse!IInv => Sse!InOrderToSubscribers
<1> SUFFICES ASSUME Sse!IInv, NEW c \in SseClients,
                    NEW i \in 1 .. Len(written[c]), NEW j \in 1 .. Len(written[c])
             PROVE  /\ EventOf[written[c][i]] \in Wants[c]
                    /\ i < j => written[c][i] /= written[c][j]
                    /\ i < j => written[c][j] \notin message[written[c][i]].after
  BY DEF Sse!InOrderToSubscribers
<1>1. written[c] \in Seq(SseMessages) /\ send[c] \in Seq(SseMessages) /\ Sse!SentInOrder(c)
  BY DEF Sse!IInv, Sse!TypeOK
<1>2. /\ i \in 1 .. Len(Sse!SentTo(c)) /\ Sse!SentTo(c)[i] = written[c][i]
      /\ j \in 1 .. Len(Sse!SentTo(c)) /\ Sse!SentTo(c)[j] = written[c][j]
  <2> DEFINE w == written[c]
             b == send[c]
  <2>1. w \in Seq(SseMessages) /\ b \in Seq(SseMessages) /\ i \in 1 .. Len(w) /\ j \in 1 .. Len(w)
    BY <1>1
  <2> HIDE DEF w, b
  <2>2. Len(w \o b) = Len(w) + Len(b) /\ Len(w) \in Nat /\ Len(b) \in Nat
    BY <2>1
  <2>3. i \in 1 .. Len(w \o b) /\ j \in 1 .. Len(w \o b)
    BY <2>1, <2>2
  <2>4. (w \o b)[i] = w[i] /\ (w \o b)[j] = w[j]
    BY <2>1, <2>2, <2>3
  <2>5. Sse!SentTo(c) = w \o b
    BY DEF Sse!SentTo, w, b
  <2> QED
    BY <2>3, <2>4, <2>5 DEF w, b
<1>3. /\ EventOf[Sse!SentTo(c)[i]] \in Wants[c]
      /\ i < j => /\ Sse!SentTo(c)[i] /= Sse!SentTo(c)[j]
                  /\ Sse!SentTo(c)[j] \notin message[Sse!SentTo(c)[i]].after
  BY <1>1, <1>2 DEF Sse!SentInOrder
<1> QED
  BY <1>2, <1>3

(* Of the entries at one place of the code, one is the first.              *)
LEMMA FirstOf ==
  ASSUME NEW T, T \subseteq Nat, T # {}
  PROVE  \E i \in T : \A j \in T : i <= j
<1> DEFINE F == {1 .. k : k \in T}
           R == StrictSubsetOrdering(Nat)
<1>1. IsWellFoundedOn(R, FiniteSubsetsOf(Nat))
  BY FS_StrictSubsetOrderingWellFounded
<1>2. F \subseteq FiniteSubsetsOf(Nat) /\ F # {}
  <2>1. \A k \in T : IsFiniteSet(1 .. k) /\ 1 .. k \subseteq Nat
    BY FS_Interval
  <2> QED
    BY <2>1 DEF FiniteSubsetsOf
<1>3. \A x, y \in F : <<y, x>> \in R <=> y \subseteq x /\ y # x
  BY <1>2 DEF StrictSubsetOrdering
<1>4. \E x \in F : \A y \in F : ~ (<<y, x>> \in R)
  <2> HIDE DEF F, R
  <2> QED
    BY <1>1, <1>2, WFMin
<1>5. PICK x \in F : \A y \in F : ~ (y \subseteq x /\ y # x)
  BY <1>3, <1>4
<1>7. PICK i \in T : x = 1 .. i
  BY <1>5
<1>6. ASSUME NEW j \in T, ~ (i <= j) PROVE FALSE
  <2>1. i \in Nat /\ j \in Nat /\ j < i
    BY <1>6
  <2>2. 1 .. j \subseteq 1 .. i /\ i \in 1 .. i /\ i \notin 1 .. j
    BY <2>1
  <2> QED
    BY <1>5, <1>7, <2>2, 1 .. j \in F
<1> QED
  BY <1>6

(* What is before the entry removed stays, and what is behind it moves up  *)
(* by one.                                                                 *)
LEMMA RemovedElements ==
  ASSUME NEW T, NEW q \in Seq(T), NEW i \in 1 .. Len(q)
  PROVE  /\ Bus!RemoveAt(q, i) \in Seq(T)
         /\ Len(Bus!RemoveAt(q, i)) = Len(q) - 1
         /\ \A j \in 1 .. Len(q) - 1 :
              Bus!RemoveAt(q, i)[j] = IF j < i THEN q[j] ELSE q[j + 1]
<1> DEFINE front == SubSeq(q, 1, i - 1)
           back == SubSeq(q, i + 1, Len(q))
<1>1. Len(q) \in Nat /\ DOMAIN q = 1 .. Len(q) /\ \A j \in 1 .. Len(q) : q[j] \in T
  BY LenProperties, ElementOfSeq
<1>2. /\ front \in Seq(T) /\ Len(front) = i - 1
      /\ \A j \in 1 .. i - 1 : front[j] = q[j]
  BY <1>1, SubSeqProperties
<1>3. /\ back \in Seq(T) /\ Len(back) = Len(q) - i
      /\ \A j \in 1 .. Len(q) - i : back[j] = q[i + j]
  <2>1. /\ back \in Seq(T)
        /\ Len(back) = IF i + 1 <= Len(q) THEN Len(q) - (i + 1) + 1 ELSE 0
        /\ \A j \in 1 .. (Len(q) - (i + 1) + 1) : back[j] = q[(i + 1) + j - 1]
    BY <1>1, SubSeqProperties
  <2> HIDE DEF back
  <2>2. Len(q) \in Nat /\ i \in Nat /\ 1 <= i /\ i <= Len(q)
    BY <1>1
  <2>3. /\ Len(q) - (i + 1) + 1 = Len(q) - i
        /\ (IF i + 1 <= Len(q) THEN Len(q) - (i + 1) + 1 ELSE 0) = Len(q) - i
    BY ONLY <2>2
  <2>4. ASSUME NEW j \in 1 .. Len(q) - i PROVE (i + 1) + j - 1 = i + j
    BY ONLY <2>2
  <2>5. ASSUME NEW j \in 1 .. Len(q) - i PROVE back[j] = q[i + j]
    <3>1. j \in 1 .. (Len(q) - (i + 1) + 1)
      BY <2>2
    <3> QED
      BY <2>1, <2>4, <3>1
  <2>6. Len(back) = Len(q) - i
    <3>1. CASE i + 1 <= Len(q)
      BY <2>1, <2>2, <3>1
    <3>2. CASE ~ (i + 1 <= Len(q))
      BY <2>1, <2>2, <3>2
    <3> QED
      BY <3>1, <3>2
  <2> QED
    BY <2>1, <2>5, <2>6
<1> HIDE DEF front, back
<1>4. Bus!RemoveAt(q, i) = front \o back
  BY DEF Bus!RemoveAt, front, back
<1>5. /\ front \o back \in Seq(T)
      /\ Len(front \o back) = Len(front) + Len(back)
      /\ \A j \in 1 .. Len(front) + Len(back) :
           (front \o back)[j] = IF j <= Len(front) THEN front[j] ELSE back[j - Len(front)]
  BY <1>2, <1>3, ConcatProperties
<1>6. Len(front \o back) = Len(q) - 1
  BY <1>1, <1>2, <1>3, <1>5
<1>7. ASSUME NEW j \in 1 .. Len(q) - 1
      PROVE  (front \o back)[j] = IF j < i THEN q[j] ELSE q[j + 1]
  <2>1. CASE j < i
    BY <1>1, <1>2, <1>3, <1>5, <2>1
  <2>2. CASE ~ (j < i)
    <3>1. (front \o back)[j] = back[j - (i - 1)]
      BY <1>1, <1>2, <1>3, <1>5, <2>2
    <3>2. j - (i - 1) \in 1 .. Len(q) - i /\ i + (j - (i - 1)) = j + 1
      BY <1>1, <2>2
    <3> QED
      BY <1>3, <2>2, <3>1, <3>2
  <2> QED
    BY <2>1, <2>2
<1> QED
  BY <1>4, <1>5, <1>6, <1>7

(* Sets have the size the library's theorems give them.                    *)
LEMMA CardinalityOfBus == \A S : Bus!Cardinality(S) = Cardinality(S)
BY DEF Bus!Cardinality, Cardinality

LEMMA FinitenessOfBus == \A S : Bus!IsFiniteSet(S) <=> IsFiniteSet(S)
BY DEF Bus!IsFiniteSet, IsFiniteSet

(* The sequence r is q without what is at n.                               *)
WithoutAt(r, q, n) ==
  /\ r \in Seq(Subs) /\ Len(r) = Len(q) - 1
  /\ \A j \in 1 .. Len(q) - 1 : r[j] = IF j < n THEN q[j] ELSE q[j + 1]

(* What is in r comes from q, in its order, and only what is at n is not.  *)
FromAllBut(r, q, n) ==
  /\ \A i \in 1 .. Len(r) : \E k \in 1 .. Len(q) : k # n /\ r[i] = q[k]
  /\ \A i, j \in 1 .. Len(r) : i < j =>
       \E k, l \in 1 .. Len(q) :
         k < l /\ k # n /\ l # n /\ r[i] = q[k] /\ r[j] = q[l]
  /\ \A k \in 1 .. Len(q) : k # n => \E i \in 1 .. Len(r) : r[i] = q[k]

(* What is left comes from the rest, in its order, and nothing else goes.  *)
LEMMA Without ==
  ASSUME NEW q \in Seq(Subs), NEW n \in 1 .. Len(q), NEW r, WithoutAt(r, q, n)
  PROVE  FromAllBut(r, q, n)
<1> DEFINE g(j) == IF j < n THEN j ELSE j + 1
<1>1. Len(q) \in Nat /\ n \in Nat /\ 1 <= n /\ n <= Len(q)
  OBVIOUS
<1>2. Len(r) = Len(q) - 1 /\ \A j \in 1 .. Len(r) : r[j] = q[g(j)]
  BY DEF WithoutAt
<1>3. \A j \in 1 .. Len(r) : g(j) \in 1 .. Len(q) /\ g(j) # n
  BY <1>1, <1>2
<1>4. \A i, j \in 1 .. Len(r) : i < j => g(i) < g(j)
  BY <1>1, <1>2
<1>5. ASSUME NEW k \in 1 .. Len(q), k # n PROVE \E i \in 1 .. Len(r) : g(i) = k
  <2>1. CASE k < n
    <3>1. k \in 1 .. Len(r) /\ g(k) = k
      BY <1>1, <1>2, <2>1
    <3> QED
      BY <3>1
  <2>2. CASE ~ (k < n)
    <3>1. k - 1 \in 1 .. Len(r) /\ g(k - 1) = k
      BY <1>1, <1>2, <1>5, <2>2
    <3> QED
      BY <3>1
  <2> QED
    BY <2>1, <2>2
<1> HIDE DEF g
<1> QED
  BY <1>2, <1>3, <1>4, <1>5 DEF FromAllBut

(* One more run that succeeds is the last of its subscription; any other   *)
(* changes nothing.                                                        *)
LEMMA SucceededNext ==
  ASSUME NEW p, NEW s, NEW q, NEW r, NEW x, LongerBy(r, q, x)
  PROVE  /\ x.pub = p /\ x.sub = s /\ x.ok
              => Bus!Succeeded(p, s, r) = Bus!Succeeded(p, s, q) \cup {Len(q) + 1}
         /\ ~ (x.pub = p /\ x.sub = s /\ x.ok)
              => Bus!Succeeded(p, s, r) = Bus!Succeeded(p, s, q)
<1>1. /\ Len(q) \in Nat /\ Len(r) = Len(q) + 1 /\ r[Len(q) + 1] = x
      /\ \A i \in 1 .. Len(q) : r[i] = q[i]
  BY DEF LongerBy
<1>2. 1 .. Len(r) = (1 .. Len(q)) \cup {Len(q) + 1} /\ Len(q) + 1 \notin 1 .. Len(q)
  BY <1>1
<1> QED
  BY <1>1, <1>2 DEF Bus!Succeeded

(* The runs of one publication do not disturb another.                     *)
LEMMA OthersRun ==
  ASSUME NEW p, NEW left, NEW due, NEW q, NEW r, NEW x, LongerBy(r, q, x), x.pub # p
  PROVE  /\ Bus!RunOnce(p, left, q) => Bus!RunOnce(p, left, r)
         /\ Bus!InTurn(p, left, q) => Bus!InTurn(p, left, r)
         /\ Bus!DueReached(p, left, due, q) => Bus!DueReached(p, left, due, r)
<1>1. /\ Len(q) \in Nat /\ Len(r) = Len(q) + 1 /\ r[Len(q) + 1] = x
      /\ \A i \in 1 .. Len(q) : r[i] = q[i]
  BY DEF LongerBy
<1>2. \A i \in 1 .. Len(r) : i \in 1 .. Len(q) \/ r[i].pub # p
  BY <1>1
<1>3. \A s : Bus!Succeeded(p, s, r) = Bus!Succeeded(p, s, q)
  BY SucceededNext
<1>4. Bus!InTurn(p, left, q) => Bus!InTurn(p, left, r)
  BY <1>1, <1>2 DEF Bus!InTurn
<1> QED
  BY <1>3, <1>4 DEF Bus!RunOnce, Bus!DueReached

(* A handler that fails and is called again stays where it was.            *)
LEMMA RunFails ==
  ASSUME NEW p, NEW left, NEW due, NEW q, NEW r, NEW x, LongerBy(r, q, x),
         x.pub = p, ~ x.ok
  PROVE  /\ Bus!RunOnce(p, left, q) => Bus!RunOnce(p, left, r)
         /\ Bus!DueReached(p, left, due, q) => Bus!DueReached(p, left, due, r)
<1>1. \A s : Bus!Succeeded(p, s, r) = Bus!Succeeded(p, s, q)
  BY SucceededNext
<1> QED
  BY <1>1 DEF Bus!RunOnce, Bus!DueReached

(* One that is through is not left; the others have not run to success.    *)
LEMMA RunEnds ==
  ASSUME NEW p, NEW left, NEW rest, NEW q, NEW r, NEW x, LongerBy(r, q, x),
         Bus!RunOnce(p, left, q), NEW n \in 1 .. Len(left), WithoutAt(rest, left, n),
         x.pub = p, x.sub = left[n]
  PROVE  Bus!RunOnce(p, rest, r)
<1>1. /\ left \in Seq(Subs) /\ rest \in Seq(Subs)
      /\ \A i, j \in 1 .. Len(left) : left[i] = left[j] => i = j
      /\ \A i \in 1 .. Len(left) : Bus!Succeeded(p, left[i], q) = {}
  BY DEF Bus!RunOnce, WithoutAt
<1>2. FromAllBut(rest, left, n)
  BY <1>1, Without
<1>3. ASSUME NEW i \in 1 .. Len(rest) PROVE Bus!Succeeded(p, rest[i], r) = {}
  <2>1. PICK k \in 1 .. Len(left) : k # n /\ rest[i] = left[k]
    BY <1>2 DEF FromAllBut
  <2>2. left[k] # left[n]
    BY <1>1, <2>1
  <2>3. Bus!Succeeded(p, left[k], r) = Bus!Succeeded(p, left[k], q)
    BY <2>2, SucceededNext
  <2> QED
    BY <1>1, <2>1, <2>3
<1>4. \A i, j \in 1 .. Len(rest) : i < j => rest[i] # rest[j]
  <2> SUFFICES ASSUME NEW i \in 1 .. Len(rest), NEW j \in 1 .. Len(rest), i < j
               PROVE  rest[i] # rest[j]
    OBVIOUS
  <2>1. PICK k \in 1 .. Len(left), l \in 1 .. Len(left) :
               k < l /\ rest[i] = left[k] /\ rest[j] = left[l]
    BY <1>2 DEF FromAllBut
  <2>2. k # l
    BY <2>1
  <2> QED
    BY <1>1, <2>1, <2>2
<1>5. \A i, j \in 1 .. Len(rest) : i < j \/ j < i \/ i = j
  BY <1>1
<1>6. \A i, j \in 1 .. Len(rest) : rest[i] = rest[j] => i = j
  BY <1>4, <1>5
<1> QED
  BY <1>1, <1>3, <1>6 DEF Bus!RunOnce

(* One that is due and succeeds is reached.                                *)
LEMMA RunSucceeds ==
  ASSUME NEW p, NEW left \in Seq(Subs), NEW rest, NEW due, NEW q, NEW r, NEW x,
         LongerBy(r, q, x), Bus!DueReached(p, left, due, q),
         NEW n \in 1 .. Len(left), WithoutAt(rest, left, n),
         x.pub = p, x.sub = left[n], x.ok
  PROVE  Bus!DueReached(p, rest, due, r)
<1>1. \A s : \/ Bus!Succeeded(p, s, r) = Bus!Succeeded(p, s, q)
             \/ s = left[n] /\ Bus!Succeeded(p, s, r) = Bus!Succeeded(p, s, q) \cup {Len(q) + 1}
  BY SucceededNext
<1>2. Bus!Succeeded(p, left[n], r) # {}
  <2>1. Bus!Succeeded(p, left[n], r) = Bus!Succeeded(p, left[n], q) \cup {Len(q) + 1}
    BY SucceededNext
  <2> QED
    BY <2>1
<1>3. \A k \in 1 .. Len(left) : k # n => \E i \in 1 .. Len(rest) : rest[i] = left[k]
  BY Without DEF FromAllBut
<1> SUFFICES ASSUME NEW s \in due
             PROVE  (\E i \in 1 .. Len(rest) : rest[i] = s) \/ Bus!Succeeded(p, s, r) # {}
  BY DEF Bus!DueReached
<1>4. (\E i \in 1 .. Len(left) : left[i] = s) \/ Bus!Succeeded(p, s, q) # {}
  BY DEF Bus!DueReached
<1>5. CASE Bus!Succeeded(p, s, q) # {}
  BY <1>1, <1>5
<1>6. ASSUME NEW k \in 1 .. Len(left), left[k] = s
      PROVE  (\E i \in 1 .. Len(rest) : rest[i] = s) \/ Bus!Succeeded(p, s, r) # {}
  BY <1>2, <1>3, <1>6
<1> QED
  BY <1>4, <1>5, <1>6

(* The first entry left may run: of its topic none later has.              *)
LEMMA FirstInTurn ==
  ASSUME NEW p, NEW left, NEW q, NEW r, NEW x, LongerBy(r, q, x),
         Bus!RunOnce(p, left, q), Bus!InTurn(p, left, q), left # <<>>,
         x.pub = p, x.sub = left[1]
  PROVE  /\ 1 \in 1 .. Len(left) /\ Bus!InTurn(p, left, r)
         /\ \A rest : WithoutAt(rest, left, 1) => Bus!InTurn(p, rest, r)
<1>1. /\ Len(q) \in Nat /\ Len(r) = Len(q) + 1 /\ r[Len(q) + 1] = x
      /\ \A i \in 1 .. Len(q) : r[i] = q[i]
      /\ \A i \in 1 .. Len(r) : i \in 1 .. Len(q) \/ i = Len(q) + 1
  BY DEF LongerBy
<1>2. left \in Seq(Subs) /\ Subs \subseteq Nat
  BY PushAssumption DEF Bus!RunOnce, Bus!EventBusAssumption
<1>3. 1 \in 1 .. Len(left) /\ \A j \in 1 .. Len(left) : left[j] \in Nat /\ (j = 1 \/ 1 < j)
  <2>1. Len(left) \in Nat \ {0} /\ \A j \in 1 .. Len(left) : left[j] \in Subs
    BY <1>2
  <2>2. \A j \in 1 .. Len(left) : left[j] \in Nat
    BY <1>2, <2>1
  <2>3. 1 \in 1 .. Len(left) /\ \A j \in 1 .. Len(left) : j = 1 \/ 1 < j
    BY ONLY <2>1
  <2> QED
    BY <2>2, <2>3
<1>4. \A j \in 1 .. Len(left) : Topic[left[1]] = Topic[left[j]] => left[1] <= left[j]
  BY <1>3 DEF Bus!InTurn
<1>5. Bus!InTurn(p, left, r)
  <2>1. ASSUME NEW i \in 1 .. Len(r), NEW j \in 1 .. Len(left), r[i].pub = p,
               Topic[r[i].sub] = Topic[left[j]]
        PROVE  r[i].sub <= left[j]
    <3>1. CASE i \in 1 .. Len(q)
      BY <1>1, <2>1, <3>1 DEF Bus!InTurn
    <3>2. CASE i = Len(q) + 1
      BY <1>1, <1>4, <2>1, <3>2
    <3> QED
      BY <1>1, <3>1, <3>2
  <2> QED
    BY <2>1 DEF Bus!InTurn
<1>6. ASSUME NEW rest, WithoutAt(rest, left, 1) PROVE Bus!InTurn(p, rest, r)
  <2>1. FromAllBut(rest, left, 1)
    BY <1>2, <1>3, <1>6, Without
  <2>2. ASSUME NEW i \in 1 .. Len(rest), NEW j \in 1 .. Len(rest), i < j,
               Topic[rest[i]] = Topic[rest[j]]
        PROVE  rest[i] < rest[j]
    <3>1. PICK k \in 1 .. Len(left), l \in 1 .. Len(left) :
            k < l /\ rest[i] = left[k] /\ rest[j] = left[l]
      <4>1. \A a, b \in 1 .. Len(rest) : a < b =>
              \E k, l \in 1 .. Len(left) :
                k < l /\ k # 1 /\ l # 1 /\ rest[a] = left[k] /\ rest[b] = left[l]
        BY <2>1 DEF FromAllBut
      <4>2. i < j /\ i \in 1 .. Len(rest) /\ j \in 1 .. Len(rest)
        BY <2>2
      <4> QED
        BY ONLY <4>1, <4>2
    <3>2. \A m, o \in 1 .. Len(left) :
            m < o /\ Topic[left[m]] = Topic[left[o]] => left[m] < left[o]
      BY DEF Bus!InTurn
    <3>3. Topic[left[k]] = Topic[left[l]]
      BY <2>2, <3>1
    <3>4. left[k] < left[l]
      BY ONLY <3>1, <3>2, <3>3
    <3> QED
      BY <3>1, <3>4
  <2>3. ASSUME NEW i \in 1 .. Len(r), NEW j \in 1 .. Len(rest), r[i].pub = p,
               Topic[r[i].sub] = Topic[rest[j]]
        PROVE  r[i].sub <= rest[j]
    <3>1. PICK k \in 1 .. Len(left) : rest[j] = left[k]
      BY <2>1 DEF FromAllBut
    <3> QED
      BY <1>5, <2>3, <3>1 DEF Bus!InTurn
  <2> QED
    BY <2>2, <2>3 DEF Bus!InTurn
<1> QED
  BY <1>3, <1>5, <1>6

(* Nothing is subscribed or published at first.                            *)
LEMMA InitBus == Bus!Init => Bus!IInv
<1> SUFFICES ASSUME Bus!Init PROVE Bus!IInv
  OBVIOUS
<1>1. /\ handlers = [t \in Events \cup {All} |-> <<>>] /\ async \in BOOLEAN
      /\ subscribed = {} /\ everSubscribed = {} /\ again = {} /\ ran = <<>>
      /\ pub = [p \in Pubs |-> [at |-> "new"]]
  BY DEF Bus!Init
<1>2. Bus!TypeOK
  BY <1>1 DEF Bus!TypeOK
<1>3. Bus!OwnTopics
  BY <1>1 DEF Bus!OwnTopics
<1>4. Bus!OthersStaySubscribed
  <2> SUFFICES ASSUME NEW s \in Subs
               PROVE  Bus!Entered(s) = {} /\ Bus!Wanted(s) = {} /\ s \notin Bus!Kept
    BY CardinalityOfBus, FS_EmptySet DEF Bus!OthersStaySubscribed
  <2>1. handlers[Topic[s]] = <<>>
    BY <1>1, PushAssumption DEF Bus!EventBusAssumption
  <2>2. Bus!ToSet(<<>>) = {}
    BY DEF Bus!ToSet
  <2> QED
    BY <1>1, <2>1, <2>2 DEF Bus!Entered, Bus!Wanted, Bus!Kept
<1>5. Bus!PublicationsRun
  BY <1>1 DEF Bus!PublicationsRun, Bus!PublicationRuns
<1>6. Bus!PublishReachesAll
  BY <1>1 DEF Bus!PublishReachesAll, Bus!Succeeded
<1> QED
  BY <1>2, <1>3, <1>4, <1>5, <1>6 DEF Bus!IInv

(* The entries of every event and those of the one, in this order, are all *)
(* that is due, each once.                                                 *)
LEMMA PublishStarts ==
  ASSUME Bus!TypeOK, Bus!OwnTopics, Bus!OthersStaySubscribed,
         NEW p, NEW e \in Events, \A i \in 1 .. Len(ran) : ran[i].pub # p
  PROVE  LET left == handlers[All] \o handlers[e]
         IN /\ Bus!RunOnce(p, left, ran) /\ Bus!InTurn(p, left, ran)
            /\ Bus!DueReached(p, left, {s \in Bus!Kept : Topic[s] \in {All, e}}, ran)
<1> DEFINE a == handlers[All]
           b == handlers[e]
           due == {s \in Bus!Kept : Topic[s] \in {All, e}}
<1>1. /\ a \in Seq(Subs) /\ b \in Seq(Subs) /\ All # e /\ Subs \subseteq Nat
      /\ \A i \in 1 .. Len(a) : Topic[a[i]] = All /\ a[i] \in Nat
      /\ \A i \in 1 .. Len(b) : Topic[b[i]] = e /\ b[i] \in Nat
      /\ \A i, j \in 1 .. Len(a) : i < j => a[i] < a[j]
      /\ \A i, j \in 1 .. Len(b) : i < j => b[i] < b[j]
  BY PushAssumption DEF Bus!TypeOK, Bus!OwnTopics, Bus!EventBusAssumption
<1>2. \A s \in due : s \in Bus!ToSet(a) \/ s \in Bus!ToSet(b)
  BY DEF Bus!OthersStaySubscribed, Bus!Entered, Bus!Kept, Bus!TypeOK
<1>3. \A s \in due : (\E i \in 1 .. Len(a) : a[i] = s) \/ (\E i \in 1 .. Len(b) : b[i] = s)
  BY <1>1, <1>2 DEF Bus!ToSet
<1>4. \A s : Bus!Succeeded(p, s, ran) = {}
  BY DEF Bus!Succeeded
<1> HIDE DEF a, b, due
<1> DEFINE r == a \o b
<1>6. /\ r \in Seq(Subs) /\ Len(r) = Len(a) + Len(b) /\ Len(a) \in Nat /\ Len(b) \in Nat
      /\ \A i \in 1 .. Len(a) + Len(b) : r[i] = IF i <= Len(a) THEN a[i] ELSE b[i - Len(a)]
  BY <1>1
<1> HIDE DEF r
<1>7. \A i \in 1 .. Len(r) :
        \/ i \in 1 .. Len(a) /\ r[i] = a[i] /\ Topic[r[i]] = All
        \/ i \notin 1 .. Len(a) /\ i - Len(a) \in 1 .. Len(b) /\ r[i] = b[i - Len(a)]
             /\ Topic[r[i]] = e
  <2> SUFFICES ASSUME NEW i \in 1 .. Len(r)
               PROVE  \/ i \in 1 .. Len(a) /\ r[i] = a[i] /\ Topic[r[i]] = All
                      \/ i \notin 1 .. Len(a) /\ i - Len(a) \in 1 .. Len(b)
                           /\ r[i] = b[i - Len(a)] /\ Topic[r[i]] = e
    OBVIOUS
  <2>1. CASE i <= Len(a)
    BY <1>1, <1>6, <2>1
  <2>2. CASE ~ (i <= Len(a))
    BY <1>1, <1>6, <2>2
  <2> QED
    BY <2>1, <2>2
<1>8. ASSUME NEW i \in 1 .. Len(r), NEW j \in 1 .. Len(r), i < j,
             Topic[r[i]] = Topic[r[j]]
      PROVE  r[i] < r[j]
  <2>1. CASE i \in 1 .. Len(a)
    BY <1>1, <1>7, <1>8, <2>1
  <2>2. CASE i \notin 1 .. Len(a)
    <3> DEFINE k == i - Len(a)
               l == j - Len(a)
    <3>1. k \in 1 .. Len(b) /\ r[i] = b[k] /\ Topic[r[i]] = e
      BY <1>7, <2>2
    <3>2. j \notin 1 .. Len(a)
      BY <1>1, <1>7, <1>8, <3>1
    <3>3. l \in 1 .. Len(b) /\ r[j] = b[l]
      BY <1>7, <3>2
    <3>4. k < l
      BY <1>6, <1>8
    <3> HIDE DEF k, l
    <3> QED
      BY <1>1, <3>1, <3>3, <3>4
  <2> QED
    BY <2>1, <2>2
<1>9. ASSUME NEW i \in 1 .. Len(r), NEW j \in 1 .. Len(r), r[i] = r[j] PROVE i = j
  <2>1. i \in Nat /\ j \in Nat /\ r[i] \in Nat /\ Topic[r[i]] = Topic[r[j]]
    <3>1. r[i] \in Subs
      BY <1>6
    <3>2. r[i] \in Nat
      BY <1>1, <3>1
    <3>3. Topic[r[i]] = Topic[r[j]]
      BY <1>9
    <3>4. i \in Nat /\ j \in Nat
      OBVIOUS
    <3> QED
      BY <3>2, <3>3, <3>4
  <2>2. ~ (r[i] < r[j]) /\ ~ (r[j] < r[i])
    BY <1>9, <2>1
  <2>3. ~ (i < j) /\ ~ (j < i)
    BY <1>8, <2>1, <2>2
  <2> QED
    BY ONLY <2>1, <2>3
<1>10. ASSUME NEW s \in due PROVE \E i \in 1 .. Len(r) : r[i] = s
  <2>1. ASSUME NEW i \in 1 .. Len(a), a[i] = s PROVE \E k \in 1 .. Len(r) : r[k] = s
    <3>1. i \in 1 .. Len(r) /\ i <= Len(a) /\ i \in 1 .. Len(a) + Len(b)
      BY <1>6
    <3> QED
      BY <1>6, <2>1, <3>1
  <2>2. ASSUME NEW i \in 1 .. Len(b), b[i] = s PROVE \E k \in 1 .. Len(r) : r[k] = s
    <3>1. /\ Len(a) + i \in 1 .. Len(r) /\ ~ (Len(a) + i <= Len(a))
          /\ Len(a) + i - Len(a) = i /\ Len(a) + i \in 1 .. Len(a) + Len(b)
      BY <1>6
    <3>2. r[Len(a) + i] = b[Len(a) + i - Len(a)]
      BY <1>6, <3>1
    <3>3. r[Len(a) + i] = s
      BY <2>2, <3>1, <3>2
    <3> QED
      BY <3>1, <3>3
  <2> QED
    BY <1>3, <2>1, <2>2
<1>11. Bus!InTurn(p, r, ran)
  BY <1>8 DEF Bus!InTurn
<1>12. Bus!RunOnce(p, r, ran) /\ Bus!DueReached(p, r, due, ran)
  BY <1>4, <1>6, <1>9, <1>10 DEF Bus!RunOnce, Bus!DueReached
<1> QED
  BY <1>11, <1>12 DEF r, a, b, due

(* A publication that takes no step stays as it is.                        *)
LEMMA PublishedStay ==
  ASSUME Bus!PublicationsRun, NEW p \in Pubs, pub'[p] = pub[p], ran' = ran, async' = async
  PROVE  Bus!PublicationRuns(p)'
BY DEF Bus!PublicationsRun, Bus!PublicationRuns

(* So does one when a handler runs for another.                            *)
LEMMA OtherPublication ==
  ASSUME Bus!PublicationsRun, NEW p \in Pubs, NEW x, x.pub # p,
         pub'[p] = pub[p], LongerBy(ran', ran, x), async' = async
  PROVE  Bus!PublicationRuns(p)'
<1>1. Bus!PublicationRuns(p)
  BY DEF Bus!PublicationsRun
<1>2. (\A i \in 1 .. Len(ran) : ran[i].pub # p) => \A i \in 1 .. Len(ran') : ran'[i].pub # p
  BY DEF LongerBy
<1>3. /\ Bus!RunOnce(p, pub[p].left, ran) => Bus!RunOnce(p, pub[p].left, ran')
      /\ Bus!InTurn(p, pub[p].left, ran) => Bus!InTurn(p, pub[p].left, ran')
      /\ Bus!DueReached(p, pub[p].left, pub[p].due, ran)
           => Bus!DueReached(p, pub[p].left, pub[p].due, ran')
  BY OthersRun
<1> QED
  BY <1>1, <1>2, <1>3 DEF Bus!PublicationRuns

(* When nothing is left, all that was due has succeeded.                   *)
LEMMA DueWhenDone ==
  ASSUME Bus!PublicationsRun'
  PROVE  \A p \in Pubs : pub'[p].at = "ok" /\ ~ async' =>
           \A s \in pub'[p].due : Bus!Succeeded(p, s, ran') # {}
<1> SUFFICES ASSUME NEW p \in Pubs, pub'[p].at = "ok", ~ async', NEW s \in pub'[p].due
             PROVE  Bus!Succeeded(p, s, ran') # {}
  OBVIOUS
<1>1. pub'[p].left = <<>> /\ Bus!DueReached(p, pub'[p].left, pub'[p].due, ran')
  BY DEF Bus!PublicationsRun, Bus!PublicationRuns
<1>2. ~ \E i \in 1 .. Len(<<>>) : <<>>[i] = s
  OBVIOUS
<1> QED
  BY <1>1, <1>2 DEF Bus!DueReached

(* A run of one that is left to run, and in its turn on a synchronous bus, *)
(* leaves what all runs so far have in common.                             *)
LEMMA RunKeepsOrder ==
  ASSUME Bus!PublishReachesAll, ran \in Seq([pub : Pubs, sub : Subs, ok : BOOLEAN]),
         NEW p \in Pubs, NEW x \in [pub : Pubs, sub : Subs, ok : BOOLEAN],
         LongerBy(ran', ran, x), x.pub = p, async' = async,
         Bus!PublicationsRun', NEW left, NEW n \in 1 .. Len(left), Bus!RunOnce(p, left, ran), x.sub = left[n],
         ~ async => n = 1 /\ Bus!InTurn(p, left, ran)
  PROVE  Bus!PublishReachesAll'
<1>1. /\ Len(ran) \in Nat /\ Len(ran') = Len(ran) + 1 /\ ran'[Len(ran) + 1] = x
      /\ \A i \in 1 .. Len(ran) : ran'[i] = ran[i] /\ ran[i].sub \in Subs
      /\ \A i \in 1 .. Len(ran') : i \in 1 .. Len(ran) \/ i = Len(ran) + 1
  <2>1. \A i \in 1 .. Len(ran) : ran[i].sub \in Subs
    <3> DEFINE T == [pub : Pubs, sub : Subs, ok : BOOLEAN]
    <3>1. \A y \in T : y.sub \in Subs
      OBVIOUS
    <3>2. ran \in Seq(T)
      OBVIOUS
    <3> HIDE DEF T
    <3>3. \A i \in 1 .. Len(ran) : ran[i] \in T
      BY ONLY <3>2
    <3> QED
      BY ONLY <3>1, <3>3
  <2>2. /\ Len(ran) \in Nat /\ Len(ran') = Len(ran) + 1 /\ ran'[Len(ran) + 1] = x
        /\ \A i \in 1 .. Len(ran) : ran'[i] = ran[i]
    BY DEF LongerBy
  <2>3. \A i \in 1 .. Len(ran') : i \in 1 .. Len(ran) \/ i = Len(ran) + 1
    BY ONLY <2>2
  <2> QED
    BY <2>1, <2>2, <2>3
<1>2. Subs \subseteq Nat /\ x.sub \in Nat
  BY PushAssumption DEF Bus!EventBusAssumption
<1>3. \A k, s : \/ /\ Bus!Succeeded(k, s, ran') = Bus!Succeeded(k, s, ran)
                   /\ ~ (k = p /\ s = left[n] /\ x.ok)
                \/ /\ k = p /\ s = left[n]
                   /\ Bus!Succeeded(k, s, ran') = Bus!Succeeded(k, s, ran) \cup {Len(ran) + 1}
  BY SucceededNext
<1>4. Bus!Succeeded(p, left[n], ran) = {}
  BY DEF Bus!RunOnce
<1>5. ASSUME NEW k \in Pubs, NEW s \in Subs,
             NEW i \in Bus!Succeeded(k, s, ran'), NEW j \in Bus!Succeeded(k, s, ran')
      PROVE  i = j
  <2>1. CASE Bus!Succeeded(k, s, ran') = Bus!Succeeded(k, s, ran)
    BY <1>5, <2>1 DEF Bus!PublishReachesAll
  <2>2. CASE /\ k = p /\ s = left[n]
             /\ Bus!Succeeded(k, s, ran') = Bus!Succeeded(k, s, ran) \cup {Len(ran) + 1}
    BY <1>4, <1>5, <2>2
  <2> QED
    BY <1>3, <2>1, <2>2
<1>6. ASSUME NEW k \in Pubs, NEW i \in 1 .. Len(ran'), NEW j \in 1 .. Len(ran'),
             ~ async, ran'[i].pub = k, ran'[j].pub = k,
             Topic[ran'[i].sub] = Topic[ran'[j].sub], ran'[i].sub < ran'[j].sub
      PROVE  i < j
  <2>1. CASE i \in 1 .. Len(ran) /\ j \in 1 .. Len(ran)
    BY <1>1, <1>6, <2>1 DEF Bus!PublishReachesAll
  <2>2. CASE i \in 1 .. Len(ran) /\ j = Len(ran) + 1
    BY <1>1, <2>2
  <2>3. CASE i = Len(ran) + 1 /\ j \in 1 .. Len(ran)
    <3>1. ran[j].pub = p /\ Topic[ran[j].sub] = Topic[left[1]] /\ 1 \in 1 .. Len(left)
      BY <1>1, <1>6, <2>3
    <3>2. ran[j].sub <= left[1] /\ left[1] < ran[j].sub
      BY <1>1, <1>6, <2>3, <3>1 DEF Bus!InTurn
    <3>3. left[1] \in Nat /\ ran[j].sub \in Nat
      BY <1>1, <1>2, <1>6, <2>3
    <3> QED
      BY ONLY <3>2, <3>3
  <2>4. CASE i = Len(ran) + 1 /\ j = Len(ran) + 1
    BY <1>1, <1>2, <1>6, <2>4
  <2> QED
    BY <1>1, <2>1, <2>2, <2>3, <2>4
<1>7. \A k \in Pubs : pub'[k].at = "ok" /\ ~ async' =>
        \A s \in pub'[k].due : Bus!Succeeded(k, s, ran') # {}
  BY DueWhenDone
<1> QED
  BY <1>5, <1>6, <1>7 DEF Bus!PublishReachesAll

(* The entry that Unsubscribe takes away is at the same place of the code  *)
(* as the handler of the subscription; Publish looks its entries up once   *)
(* and runs each to success before the next, asynchronously each on its    *)
(* own.                                                                    *)
LEMMA NextBus == Bus!IInv /\ [Bus!Next]_Bus!busVars => Bus!IInv'
<1> SUFFICES ASSUME Bus!IInv, [Bus!Next]_Bus!busVars PROVE Bus!IInv'
  OBVIOUS
<1>i. /\ Bus!TypeOK /\ Bus!OwnTopics /\ Bus!OthersStaySubscribed
      /\ Bus!PublicationsRun /\ Bus!PublishReachesAll
  BY DEF Bus!IInv
<1>t. /\ async \in BOOLEAN /\ handlers \in [Events \cup {All} -> Seq(Subs)]
      /\ subscribed \subseteq everSubscribed /\ everSubscribed \subseteq Subs
      /\ again \subseteq everSubscribed /\ again \cap subscribed = {}
      /\ DOMAIN pub = Pubs /\ \A p \in Pubs : "at" \in DOMAIN pub[p]
      /\ ran \in Seq([pub : Pubs, sub : Subs, ok : BOOLEAN])
  BY <1>i DEF Bus!TypeOK, Bus!Cancelled
<1>a. /\ All \notin Events /\ Topic \in [Subs -> Events \cup {All}]
      /\ Subs \subseteq Nat /\ IsFiniteSet(Subs)
  BY PushAssumption, FinitenessOfBus DEF Bus!EventBusAssumption
\* What is published stays as it was.
<1>p. ASSUME pub' = pub, ran' = ran, async' = async
      PROVE  Bus!PublicationsRun' /\ Bus!PublishReachesAll'
  <2>1. ASSUME NEW p \in Pubs PROVE Bus!PublicationRuns(p)'
    BY <1>i, <1>p, PublishedStay
  <2> QED
    BY <1>i, <1>p, <2>1 DEF Bus!PublicationsRun, Bus!PublishReachesAll
\* The subscriptions stay as they were.
<1>h. ASSUME UNCHANGED <<handlers, subscribed, everSubscribed, again>>
      PROVE  Bus!OwnTopics' /\ Bus!OthersStaySubscribed'
  BY <1>i, <1>h DEF Bus!OwnTopics, Bus!OthersStaySubscribed, Bus!Entered, Bus!Wanted,
                    Bus!Kept, Bus!Cancelled
\* One publication takes a step in which no handler runs.
<1>o. ASSUME NEW p \in Pubs, NEW new, pub' = [pub EXCEPT ![p] = new], "at" \in DOMAIN new,
             UNCHANGED <<handlers, subscribed, everSubscribed, again, ran, async>>,
             Bus!PublicationRuns(p)'
      PROVE  Bus!IInv'
  <2>1. Bus!TypeOK'
    BY <1>i, <1>t, <1>o DEF Bus!TypeOK, Bus!Cancelled
  <2>2. ASSUME NEW k \in Pubs, k # p PROVE Bus!PublicationRuns(k)'
    <3>1. pub'[k] = pub[k] /\ ran' = ran /\ async' = async
      BY <1>t, <1>o, <2>2
    <3> QED
      BY <1>i, <3>1, PublishedStay
  <2>3. Bus!PublicationsRun'
    BY <1>o, <2>2 DEF Bus!PublicationsRun
  <2>4. Bus!PublishReachesAll'
    <3>1. \A k \in Pubs : pub'[k].at = "ok" /\ ~ async' =>
            \A s \in pub'[k].due : Bus!Succeeded(k, s, ran') # {}
      BY <2>3, DueWhenDone
    <3> QED
      BY <1>i, <1>o, <3>1 DEF Bus!PublishReachesAll
  <2> QED
    BY <1>h, <1>o, <2>1, <2>3, <2>4 DEF Bus!IInv
\* One publication takes a step in which a handler runs, one that is left.
<1>r. ASSUME NEW p \in Pubs, NEW new, pub' = [pub EXCEPT ![p] = new], "at" \in DOMAIN new,
             UNCHANGED <<handlers, subscribed, everSubscribed, again, async>>,
             NEW n \in 1 .. Len(pub[p].left), NEW x, x.pub = p, x.sub = pub[p].left[n],
             x \in [pub : Pubs, sub : Subs, ok : BOOLEAN], ran' = Append(ran, x),
             Bus!RunOnce(p, pub[p].left, ran), Bus!PublicationRuns(p)',
             ~ async => n = 1 /\ Bus!InTurn(p, pub[p].left, ran)
      PROVE  Bus!IInv'
  <2>1. LongerBy(ran', ran, x) /\ ran' \in Seq([pub : Pubs, sub : Subs, ok : BOOLEAN])
    BY <1>t, <1>r DEF LongerBy
  <2>2. DOMAIN pub' = Pubs /\ pub'[p] = new /\ \A k \in Pubs : k # p => pub'[k] = pub[k]
    BY <1>t, <1>r
  <2>3. Bus!TypeOK'
    BY <1>i, <1>t, <1>r, <2>1, <2>2 DEF Bus!TypeOK, Bus!Cancelled
  <2>4. ASSUME NEW k \in Pubs, k # p PROVE Bus!PublicationRuns(k)'
    <3>1. x.pub # k /\ pub'[k] = pub[k] /\ async' = async
      BY <1>r, <2>2, <2>4
    <3> QED
      BY <1>i, <2>1, <3>1, OtherPublication
  <2>5. Bus!PublicationsRun'
    BY <1>r, <2>4 DEF Bus!PublicationsRun
  <2>6. Bus!PublishReachesAll'
    <3> DEFINE left == pub[p].left
    <3>1. /\ n \in 1 .. Len(left) /\ Bus!RunOnce(p, left, ran) /\ x.sub = left[n]
          /\ ~ async => n = 1 /\ Bus!InTurn(p, left, ran)
      BY <1>r
    <3> HIDE DEF left
    <3> QED
      BY <1>i, <1>t, <1>r, <2>1, <2>5, <3>1, RunKeepsOrder
  <2> QED
    BY <1>h, <1>r, <2>3, <2>5, <2>6 DEF Bus!IInv
\* Among those that look like s, as many are entered and wanted as before.
<1>w. ASSUME NEW s \in Subs, NEW u \in Subs, u \notin Bus!LooksLike(s),
             Bus!Entered(u)' = Bus!Entered(u), Bus!Wanted(u)' = Bus!Wanted(u),
             again \subseteq again', subscribed' \subseteq subscribed \cup {s},
             everSubscribed \subseteq everSubscribed',
             Bus!Cancelled \subseteq Bus!Cancelled'
      PROVE  /\ Cardinality(Bus!Entered(u)') <= Cardinality(Bus!Wanted(u)')
             /\ Bus!LooksLike(u) \cap again' = {} =>
                  Cardinality(Bus!Entered(u)') = Cardinality(Bus!Wanted(u)')
             /\ u \in Bus!Kept' => u \in Bus!Entered(u)'
  <2>1. /\ Cardinality(Bus!Entered(u)) <= Cardinality(Bus!Wanted(u))
        /\ Bus!LooksLike(u) \cap again = {} =>
             Cardinality(Bus!Entered(u)) = Cardinality(Bus!Wanted(u))
        /\ u \in Bus!Kept => u \in Bus!Entered(u)
    BY <1>i, CardinalityOfBus DEF Bus!OthersStaySubscribed
  <2>2. s \in Bus!LooksLike(s)
    BY DEF Bus!LooksLike
  <2>3. u \in Bus!Kept' => u \in Bus!Kept
    BY <1>w, <2>2 DEF Bus!Kept
  <2> QED
    BY <1>w, <2>1, <2>3
<1>c. ASSUME \A u \in Subs :
               /\ Cardinality(Bus!Entered(u)') <= Cardinality(Bus!Wanted(u)')
               /\ Bus!LooksLike(u) \cap again' = {} =>
                    Cardinality(Bus!Entered(u)') = Cardinality(Bus!Wanted(u)')
               /\ u \in Bus!Kept' => u \in Bus!Entered(u)'
      PROVE  Bus!OthersStaySubscribed'
  BY <1>c, CardinalityOfBus DEF Bus!OthersStaySubscribed
\* Those that look like s are told by the same numbers as s.
<1>l. ASSUME NEW s \in Subs, NEW u \in Bus!LooksLike(s)
      PROVE  /\ u \in Subs /\ Topic[u] = Topic[s] /\ Bus!LooksLike(u) = Bus!LooksLike(s)
             /\ Bus!Entered(u) = Bus!Entered(s) /\ Bus!Wanted(u) = Bus!Wanted(s)
             /\ IsFiniteSet(Bus!Entered(u)) /\ IsFiniteSet(Bus!Wanted(u))
             /\ Cardinality(Bus!Entered(u)) \in Nat /\ Cardinality(Bus!Wanted(u)) \in Nat
             /\ Cardinality(Bus!Entered(u)) <= Cardinality(Bus!Wanted(u))
             /\ Bus!LooksLike(u) \cap again = {} =>
                  Cardinality(Bus!Entered(u)) = Cardinality(Bus!Wanted(u))
             /\ u \in Bus!Kept => u \in Bus!Entered(u)
  <2>1. /\ u \in Subs /\ Topic[u] = Topic[s] /\ Bus!LooksLike(u) = Bus!LooksLike(s)
    BY <1>l DEF Bus!LooksLike
  <2>2. Bus!Entered(u) \subseteq Subs /\ Bus!Wanted(u) \subseteq Subs
    BY DEF Bus!Entered, Bus!Wanted, Bus!LooksLike
  <2>3. /\ IsFiniteSet(Bus!Entered(u)) /\ IsFiniteSet(Bus!Wanted(u))
        /\ Cardinality(Bus!Entered(u)) \in Nat /\ Cardinality(Bus!Wanted(u)) \in Nat
    BY <1>a, <2>2, FS_Subset, FS_CardinalityType
  <2>4. Bus!Entered(u) = Bus!Entered(s) /\ Bus!Wanted(u) = Bus!Wanted(s)
    BY <2>1 DEF Bus!Entered, Bus!Wanted
  <2> QED
    BY <1>i, <2>1, <2>3, <2>4, CardinalityOfBus DEF Bus!OthersStaySubscribed
<1>1. ASSUME NEW s \in Subs, Bus!Subscribe(s) PROVE Bus!IInv'
  <2>1. /\ \A t \in everSubscribed : t < s
        /\ handlers' = [handlers EXCEPT ![Topic[s]] = Append(handlers[Topic[s]], s)]
        /\ subscribed' = subscribed \cup {s} /\ everSubscribed' = everSubscribed \cup {s}
        /\ again' = again /\ pub' = pub /\ ran' = ran /\ async' = async
    BY <1>1 DEF Bus!Subscribe
  <2>n. s \notin everSubscribed
    BY <1>a, <2>1
  <2> DEFINE q == handlers[Topic[s]]
             r == Append(q, s)
  <2>2. Topic[s] \in Events \cup {All} /\ q \in Seq(Subs)
    BY <1>a, <1>t
  <2>3. /\ r \in Seq(Subs) /\ Len(r) = Len(q) + 1 /\ Len(q) \in Nat
        /\ r[Len(q) + 1] = s /\ \A i \in 1 .. Len(q) : r[i] = q[i]
    BY <2>2
  <2>4. /\ handlers'[Topic[s]] = r
        /\ \A t \in Events \cup {All} : t # Topic[s] => handlers'[t] = handlers[t]
        /\ DOMAIN handlers' = Events \cup {All}
    BY <1>t, <2>1, <2>2
  <2>5. Bus!TypeOK'
    <3>1. handlers' \in [Events \cup {All} -> Seq(Subs)]
      BY <1>t, <2>1, <2>2, <2>3
    <3> QED
      BY <1>t, <2>1, <2>n, <3>1 DEF Bus!TypeOK, Bus!Cancelled
  <2> HIDE DEF r
  <2>6. \A i \in 1 .. Len(r) : i \in 1 .. Len(q) \/ i = Len(q) + 1
    BY <2>3
  <2>7. /\ \A i \in 1 .. Len(q) : q[i] \in everSubscribed /\ Topic[q[i]] = Topic[s]
        /\ \A i, j \in 1 .. Len(q) : i < j => q[i] < q[j]
    BY <1>i, <2>2 DEF Bus!OwnTopics
  <2>8. Bus!OwnTopics'
    <3>1. ASSUME NEW t \in Events \cup {All}
          PROVE  /\ \A i \in 1 .. Len(handlers'[t]) :
                      handlers'[t][i] \in everSubscribed' /\ Topic[handlers'[t][i]] = t
                 /\ \A i, j \in 1 .. Len(handlers'[t]) :
                      i < j => handlers'[t][i] < handlers'[t][j]
      <4>1. CASE t = Topic[s]
        <5>1. \A i \in 1 .. Len(r) : r[i] \in everSubscribed' /\ Topic[r[i]] = t
          BY <2>1, <2>3, <2>6, <2>7, <4>1
        <5>2. ASSUME NEW i \in 1 .. Len(r), NEW j \in 1 .. Len(r), i < j PROVE r[i] < r[j]
          <6>1. i \in 1 .. Len(q) /\ r[i] = q[i]
            BY <2>3, <5>2
          <6>2. CASE j \in 1 .. Len(q)
            BY <2>3, <2>7, <5>2, <6>1, <6>2
          <6>3. CASE j = Len(q) + 1
            BY <2>1, <2>3, <2>7, <6>1, <6>3
          <6> QED
            BY <2>6, <6>2, <6>3
        <5> QED
          BY <2>4, <4>1, <5>1, <5>2
      <4>2. CASE t # Topic[s]
        BY <1>i, <2>1, <2>4, <4>2 DEF Bus!OwnTopics
      <4> QED
        BY <4>1, <4>2
    <3> QED
      BY <3>1 DEF Bus!OwnTopics
  <2>e. Bus!ToSet(r) = Bus!ToSet(q) \cup {s}
    <3>1. DOMAIN r = 1 .. Len(q) + 1 /\ DOMAIN q = 1 .. Len(q) /\ Len(q) + 1 \in DOMAIN r
      BY <2>2, <2>3
    <3> QED
      BY <2>3, <2>6, <3>1 DEF Bus!ToSet
  <2>9. Bus!OthersStaySubscribed'
    <3>1. ASSUME NEW u \in Subs, u \notin Bus!LooksLike(s)
          PROVE  /\ Bus!Entered(u)' = Bus!Entered(u) /\ Bus!Wanted(u)' = Bus!Wanted(u)
                 /\ Bus!Cancelled \subseteq Bus!Cancelled'
      <4>1. s \notin Bus!LooksLike(u) /\ Topic[u] \in Events \cup {All}
        BY <1>a, <3>1 DEF Bus!LooksLike
      <4>2. Bus!ToSet(handlers'[Topic[u]]) \cap Bus!LooksLike(u)
              = Bus!ToSet(handlers[Topic[u]]) \cap Bus!LooksLike(u)
        BY <2>4, <2>e, <4>1
      <4> QED
        BY <2>1, <2>n, <4>1, <4>2 DEF Bus!Entered, Bus!Wanted, Bus!Cancelled
    <3>2. ASSUME NEW u \in Bus!LooksLike(s)
          PROVE  /\ Cardinality(Bus!Entered(u)') <= Cardinality(Bus!Wanted(u)')
                 /\ Bus!LooksLike(u) \cap again' = {} =>
                      Cardinality(Bus!Entered(u)') = Cardinality(Bus!Wanted(u)')
                 /\ u \in Bus!Kept' => u \in Bus!Entered(u)'
      <4>1. /\ u \in Subs /\ Topic[u] = Topic[s] /\ s \in Bus!LooksLike(u)
        BY <1>l, <3>2 DEF Bus!LooksLike
      <4>2. /\ Bus!Entered(u)' = Bus!Entered(u) \cup {s} /\ s \notin Bus!Entered(u)
            /\ Bus!Wanted(u)' = Bus!Wanted(u) \cup {s} /\ s \notin Bus!Wanted(u)
        <5>1. Bus!ToSet(handlers'[Topic[u]]) = Bus!ToSet(q) \cup {s}
          BY <2>4, <2>e, <4>1
        <5>2. s \notin Bus!ToSet(q)
          BY <2>2, <2>7, <2>n DEF Bus!ToSet
        <5> QED
          BY <1>t, <2>1, <2>n, <4>1, <5>1, <5>2 DEF Bus!Entered, Bus!Wanted
      <4>3. /\ Cardinality(Bus!Entered(u)') = Cardinality(Bus!Entered(u)) + 1
            /\ Cardinality(Bus!Wanted(u)') = Cardinality(Bus!Wanted(u)) + 1
        <5>1. IsFiniteSet(Bus!Entered(u)) /\ IsFiniteSet(Bus!Wanted(u))
          BY <1>l, <3>2
        <5> QED
          BY <4>2, <5>1, FS_AddElement
      <4>4. u \in Bus!Kept' => u = s \/ u \in Bus!Kept
        BY <2>1, <2>n DEF Bus!Kept, Bus!Cancelled
      <4>5. /\ Cardinality(Bus!Entered(u)) \in Nat /\ Cardinality(Bus!Wanted(u)) \in Nat
            /\ Cardinality(Bus!Entered(u)) <= Cardinality(Bus!Wanted(u))
            /\ Bus!LooksLike(u) \cap again = {} =>
                 Cardinality(Bus!Entered(u)) = Cardinality(Bus!Wanted(u))
            /\ u \in Bus!Kept => u \in Bus!Entered(u)
        BY <1>l, <3>2
      <4> QED
        BY <2>1, <4>2, <4>3, <4>4, <4>5
    <3>3. \A u \in Subs :
            /\ Cardinality(Bus!Entered(u)') <= Cardinality(Bus!Wanted(u)')
            /\ Bus!LooksLike(u) \cap again' = {} =>
                 Cardinality(Bus!Entered(u)') = Cardinality(Bus!Wanted(u)')
            /\ u \in Bus!Kept' => u \in Bus!Entered(u)'
      <4>1. /\ again \subseteq again' /\ subscribed' \subseteq subscribed \cup {s}
            /\ everSubscribed \subseteq everSubscribed'
        BY <2>1
      <4> QED
        BY <1>w, <3>1, <3>2, <4>1
    <3> QED
      BY <1>c, <3>3
  <2> QED
    BY <1>p, <2>1, <2>5, <2>8, <2>9 DEF Bus!IInv
<1>2. ASSUME NEW s \in Subs, Bus!Unsubscribe(s) PROVE Bus!IInv'
  <2> DEFINE q == handlers[Topic[s]]
             like == {i \in 1 .. Len(q) : Bus!Same(q[i], s)}
             n == CHOOSE i \in like : \A j \in like : i <= j
             r == Bus!RemoveAt(q, n)
  <2>1. /\ s \in everSubscribed
        /\ handlers' = IF like = {} THEN handlers ELSE [handlers EXCEPT ![Topic[s]] = r]
        /\ subscribed' = subscribed \ {s} /\ everSubscribed' = everSubscribed
        /\ again' = IF s \in subscribed THEN again ELSE again \cup {s}
        /\ pub' = pub /\ ran' = ran /\ async' = async
    BY <1>2 DEF Bus!Unsubscribe
  <2>2. Topic[s] \in Events \cup {All} /\ q \in Seq(Subs) /\ s \in Bus!LooksLike(s)
    BY <1>a, <1>t DEF Bus!LooksLike
  <2>3. /\ \A i \in 1 .. Len(q) : q[i] \in everSubscribed /\ q[i] \in Nat
                                 /\ Topic[q[i]] = Topic[s]
        /\ \A i, j \in 1 .. Len(q) : i < j => q[i] < q[j]
    BY <1>a, <1>i, <1>t, <2>2 DEF Bus!OwnTopics
  <2>4. \A i \in 1 .. Len(q) : i \in like <=> q[i] \in Bus!LooksLike(s)
    BY <1>t, <2>2, <2>3 DEF Bus!Same, Bus!LooksLike
  <2>d. /\ Bus!Cancelled' = Bus!Cancelled \cup {s} /\ again \subseteq again'
        /\ subscribed' \subseteq subscribed \cup {s}
        /\ everSubscribed \subseteq everSubscribed'
    BY <2>1 DEF Bus!Cancelled
  <2>k. ASSUME NEW u \in Bus!LooksLike(s) PROVE u \notin Bus!Kept' /\ s \in Bus!LooksLike(u)
    BY <1>l, <2>2, <2>d, <2>k DEF Bus!Kept
  <2>5. CASE like = {}
    <3>1. handlers' = handlers /\ \A i \in 1 .. Len(q) : q[i] \notin Bus!LooksLike(s)
      BY <2>1, <2>4, <2>5
    <3>e. Bus!Entered(s) = {}
      BY <2>2, <3>1 DEF Bus!Entered, Bus!ToSet
    <3> HIDE DEF q, like, n, r
    <3>2. Bus!TypeOK'
      BY <1>t, <2>1, <3>1 DEF Bus!TypeOK, Bus!Cancelled
    <3>3. Bus!OwnTopics'
      BY <1>i, <2>1, <3>1 DEF Bus!OwnTopics
    <3>4. ASSUME NEW u \in Subs, u \notin Bus!LooksLike(s)
          PROVE  /\ Bus!Entered(u)' = Bus!Entered(u) /\ Bus!Wanted(u)' = Bus!Wanted(u)
                 /\ Bus!Cancelled \subseteq Bus!Cancelled'
      BY <2>1, <2>d, <3>1, <3>4 DEF Bus!Entered, Bus!Wanted, Bus!LooksLike
    <3>5. ASSUME NEW u \in Bus!LooksLike(s)
          PROVE  /\ Cardinality(Bus!Entered(u)') <= Cardinality(Bus!Wanted(u)')
                 /\ Bus!LooksLike(u) \cap again' = {} =>
                      Cardinality(Bus!Entered(u)') = Cardinality(Bus!Wanted(u)')
                 /\ u \in Bus!Kept' => u \in Bus!Entered(u)'
      <4>1. Bus!Entered(u)' = {} /\ Bus!Entered(u) = {}
        BY <1>l, <3>1, <3>5, <3>e DEF Bus!Entered
      <4>2. Bus!Wanted(u)' \subseteq Bus!Wanted(u)
        BY <2>1 DEF Bus!Wanted
      <4>3. Cardinality(Bus!Wanted(u)') \in Nat /\ Cardinality({}) = 0
        BY <1>l, <3>5, <4>2, FS_Subset, FS_CardinalityType, FS_EmptySet
      <4>4. Bus!LooksLike(u) \cap again' # {}
        <5> SUFFICES ASSUME Bus!LooksLike(u) \cap again' = {} PROVE FALSE
          OBVIOUS
        <5>1. s \in subscribed /\ s \in Bus!Wanted(u) /\ Bus!LooksLike(u) \cap again = {}
          BY <2>1, <2>k, <3>5 DEF Bus!Wanted
        <5>2. Cardinality(Bus!Wanted(u)) = 0 /\ IsFiniteSet(Bus!Wanted(u))
          BY <1>l, <3>5, <4>1, <4>3, <5>1
        <5>3. Bus!Wanted(u) = {}
          BY <5>2, FS_EmptySet
        <5> QED
          BY <5>1, <5>3
      <4> QED
        BY <2>k, <3>5, <4>1, <4>3, <4>4
    <3>6. Bus!OthersStaySubscribed'
      BY <1>c, <1>w, <2>d, <3>4, <3>5
    <3> QED
      BY <1>p, <2>1, <3>2, <3>3, <3>6 DEF Bus!IInv
  <2>6. CASE like # {}
    <3>1. \E i \in like : \A j \in like : i <= j
      <4>1. like \subseteq Nat
        BY <2>2
      <4> HIDE DEF like
      <4> QED
        BY <2>6, <4>1, FirstOf
    <3>2. n \in like
      BY <3>1
    <3>3. n \in 1 .. Len(q) /\ q[n] \in Bus!LooksLike(s)
      BY <2>4, <3>2
    <3> HIDE DEF n, like
    <3>4. WithoutAt(r, q, n)
      <4>1. q \in Seq(Subs) /\ n \in 1 .. Len(q)
        BY <2>2, <3>3
      <4> HIDE DEF q
      <4> QED
        BY <4>1, RemovedElements DEF WithoutAt
    <3> HIDE DEF r
    <3>5. /\ r \in Seq(Subs) /\ handlers' = [handlers EXCEPT ![Topic[s]] = r]
          /\ handlers'[Topic[s]] = r
          /\ \A t \in Events \cup {All} : t # Topic[s] => handlers'[t] = handlers[t]
      BY <1>t, <2>1, <2>2, <2>6, <3>4 DEF WithoutAt
    <3>6. Bus!TypeOK'
      <4>1. handlers' \in [Events \cup {All} -> Seq(Subs)]
        BY <1>t, <3>5
      <4> QED
        BY <1>t, <2>1, <4>1 DEF Bus!TypeOK, Bus!Cancelled
    <3>7. FromAllBut(r, q, n)
      <4>1. q \in Seq(Subs) /\ n \in 1 .. Len(q)
        BY <2>2, <3>3
      <4> HIDE DEF q
      <4> QED
        BY <3>4, <4>1, Without
    <3>8. \A k \in 1 .. Len(q) : k # n => q[k] # q[n]
      <4> SUFFICES ASSUME NEW k \in 1 .. Len(q), k # n PROVE q[k] # q[n]
        OBVIOUS
      <4>1. k < n \/ n < k
        BY <2>2, <3>3
      <4>2. q[k] \in Nat /\ q[n] \in Nat /\ (q[k] < q[n] \/ q[n] < q[k])
        BY <2>3, <3>3, <4>1
      <4> QED
        BY ONLY <4>2
    <3>9. Bus!ToSet(r) = Bus!ToSet(q) \ {q[n]} /\ q[n] \in Bus!ToSet(q)
      <4>1. DOMAIN r = 1 .. Len(r) /\ DOMAIN q = 1 .. Len(q) /\ n \in 1 .. Len(q)
        BY <2>2, <3>3, <3>5
      <4> HIDE DEF q
      <4>2. ASSUME NEW i \in 1 .. Len(r) PROVE r[i] \in Bus!ToSet(q) /\ r[i] # q[n]
        <5>1. PICK k \in 1 .. Len(q) : k # n /\ r[i] = q[k]
          BY <3>7 DEF FromAllBut
        <5> QED
          BY <3>8, <4>1, <5>1 DEF Bus!ToSet
      <4>3. \A k \in 1 .. Len(q) : q[k] # q[n] => q[k] \in Bus!ToSet(r)
        BY <3>7, <4>1 DEF Bus!ToSet, FromAllBut
      <4> QED
        BY <4>1, <4>2, <4>3 DEF Bus!ToSet
    <3>10. Bus!OwnTopics'
      <4>1. ASSUME NEW t \in Events \cup {All}
            PROVE  /\ \A i \in 1 .. Len(handlers'[t]) :
                        handlers'[t][i] \in everSubscribed' /\ Topic[handlers'[t][i]] = t
                   /\ \A i, j \in 1 .. Len(handlers'[t]) :
                        i < j => handlers'[t][i] < handlers'[t][j]
        <5>1. CASE t = Topic[s]
          <6> HIDE DEF q
          <6>1. ASSUME NEW i \in 1 .. Len(r)
                PROVE  r[i] \in everSubscribed /\ Topic[r[i]] = Topic[s]
            <7>1. PICK k \in 1 .. Len(q) : r[i] = q[k]
              BY <3>7 DEF FromAllBut
            <7> QED
              BY <2>3, <7>1
          <6>2. ASSUME NEW i \in 1 .. Len(r), NEW j \in 1 .. Len(r), i < j PROVE r[i] < r[j]
            <7>1. PICK k \in 1 .. Len(q), l \in 1 .. Len(q) :
                    k < l /\ r[i] = q[k] /\ r[j] = q[l]
              BY <3>7, <6>2 DEF FromAllBut
            <7> QED
              BY <2>3, <7>1
          <6> QED
            BY <2>1, <3>5, <5>1, <6>1, <6>2
        <5>2. CASE t # Topic[s]
          BY <1>i, <2>1, <3>5, <5>2 DEF Bus!OwnTopics
        <5> QED
          BY <5>1, <5>2
      <4> QED
        BY <4>1 DEF Bus!OwnTopics
    <3>11. ASSUME NEW u \in Subs, u \notin Bus!LooksLike(s)
           PROVE  /\ Bus!Entered(u)' = Bus!Entered(u) /\ Bus!Wanted(u)' = Bus!Wanted(u)
                  /\ Bus!Cancelled \subseteq Bus!Cancelled'
      <4>1. /\ s \notin Bus!LooksLike(u) /\ q[n] \notin Bus!LooksLike(u)
            /\ Topic[u] \in Events \cup {All}
        BY <1>a, <3>3, <3>11 DEF Bus!LooksLike
      <4>2. Bus!ToSet(handlers'[Topic[u]]) \cap Bus!LooksLike(u)
              = Bus!ToSet(handlers[Topic[u]]) \cap Bus!LooksLike(u)
        BY <3>5, <3>9, <4>1
      <4> QED
        BY <2>1, <2>d, <4>1, <4>2 DEF Bus!Entered, Bus!Wanted
    <3>12. ASSUME NEW u \in Bus!LooksLike(s)
           PROVE  /\ Cardinality(Bus!Entered(u)') <= Cardinality(Bus!Wanted(u)')
                  /\ Bus!LooksLike(u) \cap again' = {} =>
                       Cardinality(Bus!Entered(u)') = Cardinality(Bus!Wanted(u)')
                  /\ u \in Bus!Kept' => u \in Bus!Entered(u)'
      <4>1. /\ Bus!Entered(u)' = Bus!Entered(u) \ {q[n]} /\ q[n] \in Bus!Entered(u)
            /\ Bus!Wanted(u)' = Bus!Wanted(u) \ {s}
        <5>1. Topic[u] = Topic[s] /\ Bus!LooksLike(u) = Bus!LooksLike(s)
          BY <1>l, <3>12
        <5>2. Bus!ToSet(handlers'[Topic[u]]) = Bus!ToSet(q) \ {q[n]}
          BY <3>5, <3>9, <5>1
        <5> QED
          BY <2>1, <3>3, <3>9, <5>1, <5>2 DEF Bus!Entered, Bus!Wanted
      <4>2. /\ Cardinality(Bus!Entered(u)') = Cardinality(Bus!Entered(u)) - 1
            /\ Cardinality(Bus!Wanted(u)') = IF s \in Bus!Wanted(u)
                                             THEN Cardinality(Bus!Wanted(u)) - 1
                                             ELSE Cardinality(Bus!Wanted(u))
        <5>1. IsFiniteSet(Bus!Entered(u)) /\ IsFiniteSet(Bus!Wanted(u))
          BY <1>l, <3>12
        <5>2. Cardinality(Bus!Entered(u) \ {q[n]}) = Cardinality(Bus!Entered(u)) - 1
          BY <4>1, <5>1, FS_RemoveElement
        <5>3. CASE s \in Bus!Wanted(u)
          <6>1. Cardinality(Bus!Wanted(u) \ {s}) = Cardinality(Bus!Wanted(u)) - 1
            BY <5>1, <5>3, FS_RemoveElement
          <6> QED
            BY <4>1, <5>2, <5>3, <6>1
        <5>4. CASE s \notin Bus!Wanted(u)
          <6>1. Bus!Wanted(u) \ {s} = Bus!Wanted(u)
            BY <5>4
          <6> QED
            BY <4>1, <5>2, <5>4, <6>1
        <5> QED
          BY <5>3, <5>4
      <4>3. s \in Bus!Wanted(u) <=> s \in subscribed
        BY <2>k, <3>12 DEF Bus!Wanted
      <4>4. Bus!LooksLike(u) \cap again' = {} =>
              s \in subscribed /\ Bus!LooksLike(u) \cap again = {}
        BY <2>1, <2>k, <3>12
      <4>5. /\ Cardinality(Bus!Entered(u)) \in Nat /\ Cardinality(Bus!Wanted(u)) \in Nat
            /\ Cardinality(Bus!Entered(u)) <= Cardinality(Bus!Wanted(u))
            /\ Bus!LooksLike(u) \cap again = {} =>
                 Cardinality(Bus!Entered(u)) = Cardinality(Bus!Wanted(u))
        BY <1>l, <3>12
      <4>6. u \notin Bus!Kept'
        BY <2>k, <3>12
      <4> QED
        BY <4>2, <4>3, <4>4, <4>5, <4>6
    <3>13. Bus!OthersStaySubscribed'
      BY <1>c, <1>w, <2>d, <3>11, <3>12
    <3> QED
      BY <1>p, <2>1, <3>6, <3>10, <3>13 DEF Bus!IInv
  <2> QED
    BY <2>5, <2>6
<1>3. ASSUME NEW p \in Pubs, Bus!BridgePublish(p) PROVE Bus!IInv'
  <2>1. /\ pub[p].at = "new" /\ pub' = [pub EXCEPT ![p] = [at |-> "bridged"]]
        /\ UNCHANGED <<handlers, subscribed, everSubscribed, again, ran, async>>
    BY <1>3 DEF Bus!BridgePublish
  <2>2. pub'[p].at = "bridged"
    BY <1>t, <2>1
  <2>3. Bus!PublicationRuns(p)'
    BY <1>i, <2>1, <2>2 DEF Bus!PublicationRuns, Bus!PublicationsRun
  <2> DEFINE new == [at |-> "bridged"]
  <2>4. "at" \in DOMAIN new
    OBVIOUS
  <2> QED
    BY <1>o, <2>1, <2>3, <2>4
<1>4. ASSUME NEW p \in Pubs, Bus!BridgeLoses(p) PROVE Bus!IInv'
  <2>1. /\ pub[p].at = "bridged" /\ pub' = [pub EXCEPT ![p] = [at |-> "lost"]]
        /\ UNCHANGED <<handlers, subscribed, everSubscribed, again, ran, async>>
    BY <1>4 DEF Bus!BridgeLoses
  <2>2. pub'[p].at = "lost"
    BY <1>t, <2>1
  <2>3. Bus!PublicationRuns(p)'
    BY <1>i, <2>1, <2>2 DEF Bus!PublicationRuns, Bus!PublicationsRun
  <2> DEFINE new == [at |-> "lost"]
  <2>4. "at" \in DOMAIN new
    OBVIOUS
  <2> QED
    BY <1>o, <2>1, <2>3, <2>4
<1>5. ASSUME NEW p \in Pubs, NEW e \in Events, Bus!Publish(p, e) PROVE Bus!IInv'
  <2> DEFINE new == [at |-> IF async THEN "ok" ELSE "running",
                     left |-> handlers[All] \o handlers[e], tries |-> [s \in Subs |-> 0],
                     due |-> {s \in Bus!Kept : Topic[s] \in {All, e}}]
             left == handlers[All] \o handlers[e]
             due == {s \in Bus!Kept : Topic[s] \in {All, e}}
  <2>1. /\ pub[p].at \in {"new", "bridged"} /\ pub' = [pub EXCEPT ![p] = new]
        /\ UNCHANGED <<handlers, subscribed, everSubscribed, again, ran, async>>
    BY <1>5 DEF Bus!Publish, Bus!entriesFor
  <2>2. /\ DOMAIN new = {"at", "left", "tries", "due"}
        /\ new.at = IF async THEN "ok" ELSE "running"
        /\ new.left = left /\ new.due = due
    OBVIOUS
  <2> HIDE DEF new
  <2>3. pub'[p] = new
    BY <1>t, <2>1
  <2>4. \A i \in 1 .. Len(ran) : ran[i].pub # p
    BY <1>i, <2>1 DEF Bus!PublicationRuns, Bus!PublicationsRun
  <2>5. /\ Bus!RunOnce(p, left, ran) /\ Bus!InTurn(p, left, ran)
        /\ Bus!DueReached(p, left, due, ran)
    BY <1>i, <2>4, PublishStarts
  <2> HIDE DEF left, due
  <2>6. Bus!PublicationRuns(p)'
    BY <1>t, <2>1, <2>2, <2>3, <2>5 DEF Bus!PublicationRuns
  <2> QED
    BY <1>o, <2>1, <2>2, <2>6
<1>6. ASSUME NEW p \in Pubs, Bus!RunHandler(p) PROVE Bus!IInv'
  <2> DEFINE s == Head(pub[p].left)
             good == [pub |-> p, sub |-> s, ok |-> TRUE]
             bad == [pub |-> p, sub |-> s, ok |-> FALSE]
             served == [pub[p] EXCEPT !.left = Tail(pub[p].left)]
             retried == [pub[p] EXCEPT !.tries =
                           [pub[p].tries EXCEPT ![s] = pub[p].tries[s] + 1]]
             failed == [pub[p] EXCEPT !.at = "failed"]
  <2>1. /\ pub[p].at = "running" /\ pub[p].left # <<>>
        /\ UNCHANGED <<handlers, subscribed, everSubscribed, again, async>>
        /\ \/ ran' = Append(ran, good) /\ pub' = [pub EXCEPT ![p] = served]
           \/ /\ ran' = Append(ran, bad)
              /\ \/ pub' = [pub EXCEPT ![p] = retried]
                 \/ pub' = [pub EXCEPT ![p] = failed]
    BY <1>6 DEF Bus!RunHandler, Bus!Logged, Bus!Retry
  <2>2. /\ ~ async /\ "at" \in DOMAIN pub[p]
        /\ {"left", "tries", "due"} \subseteq DOMAIN pub[p]
        /\ Bus!RunOnce(p, pub[p].left, ran) /\ Bus!InTurn(p, pub[p].left, ran)
        /\ Bus!DueReached(p, pub[p].left, pub[p].due, ran)
    BY <1>i, <1>t, <2>1 DEF Bus!PublicationsRun, Bus!PublicationRuns
  <2>3. /\ pub[p].left \in Seq(Subs) /\ s \in Subs /\ s = pub[p].left[1]
        /\ 1 \in 1 .. Len(pub[p].left) /\ WithoutAt(Tail(pub[p].left), pub[p].left, 1)
    BY <2>1, <2>2 DEF Bus!RunOnce, WithoutAt
  <2>4. /\ good \in [pub : Pubs, sub : Subs, ok : BOOLEAN] /\ good.pub = p /\ good.sub = s
        /\ bad \in [pub : Pubs, sub : Subs, ok : BOOLEAN] /\ bad.pub = p /\ bad.sub = s
        /\ good.ok /\ ~ bad.ok
    BY <2>3
  <2>5. /\ DOMAIN served = DOMAIN pub[p] /\ served.at = "running"
        /\ served.left = Tail(pub[p].left) /\ served.due = pub[p].due
        /\ DOMAIN retried = DOMAIN pub[p] /\ retried.at = "running"
        /\ retried.left = pub[p].left /\ retried.due = pub[p].due
        /\ DOMAIN failed = DOMAIN pub[p] /\ failed.at = "failed"
    BY <2>1, <2>2
  <2> HIDE DEF s, good, bad, served, retried, failed
  <2>6. CASE ran' = Append(ran, good) /\ pub' = [pub EXCEPT ![p] = served]
    <3>1. LongerBy(ran', ran, good) /\ pub'[p] = served
      BY <1>t, <2>4, <2>6 DEF LongerBy
    <3>2. /\ Bus!RunOnce(p, Tail(pub[p].left), ran')
          /\ Bus!InTurn(p, Tail(pub[p].left), ran')
          /\ Bus!DueReached(p, Tail(pub[p].left), pub[p].due, ran')
      BY <2>1, <2>2, <2>3, <2>4, <3>1, RunEnds, RunSucceeds, FirstInTurn
    <3>3. Bus!PublicationRuns(p)'
      BY <2>1, <2>2, <2>5, <3>1, <3>2 DEF Bus!PublicationRuns
    <3> QED
      BY <1>r, <2>1, <2>2, <2>3, <2>4, <2>5, <2>6, <3>3
  <2>7. CASE ran' = Append(ran, bad) /\ pub' = [pub EXCEPT ![p] = retried]
    <3>1. LongerBy(ran', ran, bad) /\ pub'[p] = retried
      BY <1>t, <2>4, <2>7 DEF LongerBy
    <3>2. /\ Bus!RunOnce(p, pub[p].left, ran') /\ Bus!InTurn(p, pub[p].left, ran')
          /\ Bus!DueReached(p, pub[p].left, pub[p].due, ran')
      BY <2>1, <2>2, <2>3, <2>4, <3>1, RunFails, FirstInTurn
    <3>3. Bus!PublicationRuns(p)'
      BY <2>1, <2>2, <2>5, <3>1, <3>2 DEF Bus!PublicationRuns
    <3> QED
      BY <1>r, <2>1, <2>2, <2>3, <2>4, <2>5, <2>7, <3>3
  <2>8. CASE ran' = Append(ran, bad) /\ pub' = [pub EXCEPT ![p] = failed]
    <3>1. pub'[p] = failed
      BY <1>t, <2>8
    <3>2. Bus!PublicationRuns(p)'
      BY <2>5, <3>1 DEF Bus!PublicationRuns
    <3> QED
      BY <1>r, <2>1, <2>2, <2>3, <2>4, <2>5, <2>8, <3>2
  <2> QED
    BY <2>1, <2>6, <2>7, <2>8
<1>7. ASSUME NEW p \in Pubs, Bus!PublishEnds(p) PROVE Bus!IInv'
  <2> DEFINE new == [pub[p] EXCEPT !.at = "ok"]
  <2>1. /\ pub[p].at = "running" /\ pub[p].left = <<>> /\ pub' = [pub EXCEPT ![p] = new]
        /\ UNCHANGED <<handlers, subscribed, everSubscribed, again, ran, async>>
    BY <1>7 DEF Bus!PublishEnds
  <2>2. /\ Bus!PublicationRuns(p) /\ ~ async /\ "at" \in DOMAIN pub[p]
        /\ {"left", "tries", "due"} \subseteq DOMAIN pub[p]
        /\ Bus!RunOnce(p, pub[p].left, ran) /\ Bus!InTurn(p, pub[p].left, ran)
        /\ Bus!DueReached(p, pub[p].left, pub[p].due, ran)
    BY <1>i, <1>t, <2>1 DEF Bus!PublicationsRun, Bus!PublicationRuns
  <2>3. /\ DOMAIN new = DOMAIN pub[p] /\ new.at = "ok" /\ new.left = pub[p].left
        /\ new.due = pub[p].due
    BY <2>2
  <2> HIDE DEF new
  <2>4. pub'[p] = new
    BY <1>t, <2>1
  <2>5. Bus!PublicationRuns(p)'
    BY <2>1, <2>2, <2>3, <2>4 DEF Bus!PublicationRuns
  <2> QED
    BY <1>o, <2>1, <2>2, <2>3, <2>5
<1>8. ASSUME NEW p \in Pubs, Bus!RunAsync(p) PROVE Bus!IInv'
  <2>1. /\ async /\ pub[p].at = "ok"
        /\ UNCHANGED <<handlers, subscribed, everSubscribed, again, async>>
    BY <1>8 DEF Bus!RunAsync
  <2>2. /\ "at" \in DOMAIN pub[p] /\ {"left", "tries", "due"} \subseteq DOMAIN pub[p]
        /\ Bus!RunOnce(p, pub[p].left, ran)
    BY <1>i, <1>t, <2>1 DEF Bus!PublicationsRun, Bus!PublicationRuns
  <2>3. PICK n \in 1 .. Len(pub[p].left) :
          LET s == pub[p].left[n]
          IN \/ Bus!Logged(p, s, FALSE) /\ Bus!Retry(p, s)
             \/ /\ Bus!Logged(p, s, TRUE) \/ Bus!Logged(p, s, FALSE)
                /\ pub' = [pub EXCEPT ![p].left = Bus!RemoveAt(pub[p].left, n)]
    BY <1>8 DEF Bus!RunAsync
  <2> DEFINE s == pub[p].left[n]
             retried == [pub[p] EXCEPT !.tries =
                           [pub[p].tries EXCEPT ![s] = pub[p].tries[s] + 1]]
             rest == Bus!RemoveAt(pub[p].left, n)
             served == [pub[p] EXCEPT !.left = rest]
  <2>4. \/ /\ ran' = Append(ran, [pub |-> p, sub |-> s, ok |-> FALSE])
           /\ pub' = [pub EXCEPT ![p] = retried]
        \/ \E ok \in BOOLEAN :
             /\ ran' = Append(ran, [pub |-> p, sub |-> s, ok |-> ok])
             /\ pub' = [pub EXCEPT ![p] = served]
    BY <2>3 DEF Bus!Logged, Bus!Retry
  <2>5. /\ DOMAIN served = DOMAIN pub[p] /\ served.at = "ok" /\ served.left = rest
        /\ DOMAIN retried = DOMAIN pub[p] /\ retried.at = "ok"
        /\ retried.left = pub[p].left
    BY <2>1, <2>2
  <2>6. s \in Subs /\ pub[p].left \in Seq(Subs)
    BY <2>2 DEF Bus!RunOnce
  <2>7. WithoutAt(rest, pub[p].left, n)
    BY <2>6, RemovedElements DEF WithoutAt
  <2> HIDE DEF s, retried, rest, served
  <2>8. ASSUME NEW ok \in BOOLEAN, ran' = Append(ran, [pub |-> p, sub |-> s, ok |-> ok]),
               NEW new \in {served, retried}, pub' = [pub EXCEPT ![p] = new],
               new = retried => ~ ok
        PROVE  Bus!IInv'
    <3> DEFINE x == [pub |-> p, sub |-> s, ok |-> ok]
    <3>1. x \in [pub : Pubs, sub : Subs, ok : BOOLEAN] /\ x.pub = p /\ x.sub = s /\ x.ok = ok
      BY <2>6
    <3> HIDE DEF x
    <3>2. ran' = Append(ran, x)
      BY <2>8 DEF x
    <3>3. LongerBy(ran', ran, x) /\ pub'[p] = new
      BY <1>t, <2>8, <3>1, <3>2 DEF LongerBy
    <3>4. Bus!RunOnce(p, new.left, ran')
      <4>1. CASE new = served
        BY <2>2, <2>5, <2>7, <3>1, <3>3, <4>1, RunEnds DEF s
      <4>2. CASE new = retried
        BY <2>2, <2>5, <2>8, <3>1, <3>3, <4>2, RunFails
      <4> QED
        BY <4>1, <4>2
    <3>5. Bus!PublicationRuns(p)'
      BY <2>1, <2>2, <2>5, <3>3, <3>4 DEF Bus!PublicationRuns
    <3>6. "at" \in DOMAIN new /\ x.sub = pub[p].left[n]
      BY <2>2, <2>5, <3>1 DEF s
    <3> QED
      BY <1>r, <2>1, <2>2, <2>8, <3>1, <3>2, <3>5, <3>6
  <2>9. CASE /\ ran' = Append(ran, [pub |-> p, sub |-> s, ok |-> FALSE])
             /\ pub' = [pub EXCEPT ![p] = retried]
    BY <2>8, <2>9
  <2>10. ASSUME NEW ok \in BOOLEAN,
                ran' = Append(ran, [pub |-> p, sub |-> s, ok |-> ok]),
                pub' = [pub EXCEPT ![p] = served]
         PROVE  Bus!IInv'
    <3>1. served # retried
      <4>1. Len(rest) # Len(pub[p].left)
        BY <2>6, <2>7 DEF WithoutAt
      <4> QED
        BY <2>5, <4>1
    <3> QED
      BY <2>8, <2>10, <3>1
  <2> QED
    BY <2>4, <2>9, <2>10
<1>9. CASE UNCHANGED Bus!busVars
  <2>1. /\ UNCHANGED <<handlers, subscribed, everSubscribed, again>>
        /\ pub' = pub /\ ran' = ran /\ async' = async
    BY <1>9 DEF Bus!busVars
  <2>2. Bus!TypeOK'
    BY <1>i, <2>1 DEF Bus!TypeOK, Bus!Cancelled
  <2> QED
    BY <1>h, <1>p, <2>1, <2>2 DEF Bus!IInv
<1> QED
  BY <1>1, <1>2, <1>3, <1>4, <1>5, <1>6, <1>7, <1>8, <1>9 DEF Bus!Next

(* However clients connect, lose messages and leave while the business     *)
(* sends, and however subscriptions come and go while handlers run, fail   *)
(* and are retried, SSE clients are written what they want in order, a     *)
(* Publish that returns nil has run every handler that was kept, and a     *)
(* cancellation takes away one handler that looks like its own.            *)
THEOREM EventsReachSubscribersAlways ==
  Sse!Spec /\ Bus!Spec => []EventsReachSubscribers
<1>1. Bus!IInv => Bus!OthersStaySubscribed /\ Bus!PublishReachesAll
  BY DEF Bus!IInv
<1> QED
  BY <1>1, InitSse, NextSse, SseNow, InitBus, NextBus, PTL
     DEF Sse!Spec, Bus!Spec, EventsReachSubscribers
=============================================================================
