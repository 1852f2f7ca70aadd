---------------------------- MODULE MqConnection ----------------------------
(***************************************************************************)
(* The RabbitMQ connection of framework/mq/connection.go, with the loop of *)
(* Consumer.Start (consumer.go) that relies on it.                         *)
(*                                                                         *)
(* One Connection holds one AMQP connection, a link here.  Dial makes the  *)
(* first one, watchReconnect waits for it to end, consumers open channels  *)
(* on it, and Close ends it for good.  A section under the mutex is one    *)
(* step; amqp.Dial, NotifyClose and the waits lie between such steps.      *)
(***************************************************************************)
EXTENDS Naturals, FiniteSets, TLAPS

CONSTANTS
  Consumers,   \* goroutines running Consumer.Start
  maxRetries,  \* WithReconnect; 0 means no limit
  MaxLinks,    \* bound: links dialled, successfully or not
  MaxDrops     \* bound: links the broker or the network ends

ASSUME MqConnectionAssumption ==
  /\ "dial" \notin Consumers /\ "watcher" \notin Consumers
  /\ maxRetries \in Nat
  /\ MaxLinks \in Nat
  /\ MaxDrops \in Nat

VARIABLES
  state,      \* Connection.state
  conn,       \* Connection.conn: a link, or 0 for nil
  closed,     \* Connection.closed; its context is cancelled with it
  up,         \* links that are alive
  links,      \* dials so far; they number the links
  drops,      \* links ended by the other side so far
  pc,         \* where Dial, watchReconnect and the consumers stand
  link,       \* the link each of them works with, or 0
  attempts,   \* the local variable of watchReconnect
  closing,    \* the link Close took out and has still to end, or 0
  cancelled   \* consumers whose context is cancelled

vars == <<state, conn, closed, up, links, drops, pc, link, attempts, closing,
          cancelled>>

Actors == {"dial", "watcher"} \cup Consumers

(* connect is called from three places; these are its own locations.       *)
InConnect == {"connect", "dialing", "dialled"}

TypeOK ==
  /\ state \in {"disconnected", "connecting", "connected", "closed"}
  /\ conn \in 0..MaxLinks
  /\ closed \in BOOLEAN
  /\ up \subseteq 1..MaxLinks
  /\ links \in 0..MaxLinks
  /\ drops \in 0..MaxDrops
  /\ pc \in [Actors -> InConnect \cup {"none", "stopped", "read", "listen",
               "retry", "wait", "ensure", "open", "consuming", "error"}]
  /\ link \in [Actors -> 0..MaxLinks]
  /\ \A a \in Actors : pc[a] \in {"dialled", "listen", "consuming"} => link[a] # 0
  /\ attempts \in Nat
  /\ closing \in 0..MaxLinks
  /\ cancelled \subseteq Consumers

Init ==
  /\ state = "disconnected"
  /\ conn = 0
  /\ closed = FALSE
  /\ up = {}
  /\ links = 0
  /\ drops = 0
  /\ pc = [a \in Actors |-> IF a = "dial" THEN "connect" ELSE "none"]
  /\ link = [a \in Actors |-> 0]
  /\ attempts = 0
  /\ closing = 0
  /\ cancelled = {}

GoTo(a, to) == pc' = [pc EXCEPT ![a] = to]

-----------------------------------------------------------------------------
(* connect.  What its caller does with the result: Dial hands the          *)
(* Connection out or gives it up; watchReconnect leaves or repeats its     *)
(* retry loop; Start goes on or returns the error.                         *)

Connected(a) ==
  IF a = "dial" THEN pc' = [pc EXCEPT ![a] = "stopped", !["watcher"] = "read"]
                ELSE GoTo(a, IF a = "watcher" THEN "read" ELSE "open")

ConnectFailed(a) ==
  GoTo(a, CASE a = "dial"    -> "none"
            [] a = "watcher" -> "retry"
            [] OTHER         -> "stopped")

ConnectBegin(a) ==
  /\ pc[a] = "connect"
  /\ IF closed THEN ConnectFailed(a) /\ UNCHANGED state
     ELSE IF state \in {"connecting", "connected"}
          THEN Connected(a) /\ UNCHANGED state
          ELSE GoTo(a, "dialing") /\ state' = "connecting"
  /\ UNCHANGED <<conn, closed, up, links, drops, link, attempts, closing, cancelled>>

DialSucceeds(a) ==
  /\ pc[a] = "dialing"
  /\ links < MaxLinks
  /\ links' = links + 1
  /\ up' = up \cup {links'}
  /\ link' = [link EXCEPT ![a] = links']
  /\ GoTo(a, "dialled")
  /\ UNCHANGED <<state, conn, closed, drops, attempts, closing, cancelled>>

DialFails(a) ==
  /\ pc[a] = "dialing"
  /\ state' = "disconnected"
  /\ ConnectFailed(a)
  /\ UNCHANGED <<conn, closed, up, links, drops, link, attempts, closing, cancelled>>

ConnectEnd(a) ==
  /\ pc[a] = "dialled"
  /\ link' = [link EXCEPT ![a] = 0]
  /\ IF closed
     THEN /\ up' = up \ {link[a]}
          /\ ConnectFailed(a)
          /\ UNCHANGED <<conn, state>>
     ELSE /\ conn' = link[a]
          /\ state' = "connected"
          /\ Connected(a)
          /\ UNCHANGED up
  /\ UNCHANGED <<closed, links, drops, attempts, closing, cancelled>>

(* The caller of a Dial that failed dials again.                           *)
DialAgain ==
  /\ pc["dial"] = "none"
  /\ GoTo("dial", "connect")
  /\ UNCHANGED <<state, conn, closed, up, links, drops, link, attempts, closing,
                 cancelled>>

-----------------------------------------------------------------------------
(* The other side ends a link.                                             *)
Drop(l) ==
  /\ l \in up
  /\ drops < MaxDrops
  /\ drops' = drops + 1
  /\ up' = up \ {l}
  /\ UNCHANGED <<state, conn, closed, links, pc, link, attempts, closing, cancelled>>

(* Mutant: Close forgets the link it takes out of the Connection.          *)
ToEndDropped(c) == 0

ToEnd(c) == c

(* Mutant: Close leaves the state as it is.                                *)
CloseKeepingState ==
  /\ pc["dial"] = "stopped"
  /\ ~closed
  /\ closed' = TRUE
  /\ conn' = 0
  /\ closing' = ToEnd(conn)
  /\ UNCHANGED <<state, up, links, drops, pc, link, attempts, cancelled>>

Close ==
  /\ pc["dial"] = "stopped"
  /\ ~closed
  /\ closed' = TRUE
  /\ state' = "closed"
  /\ conn' = 0
  /\ closing' = ToEnd(conn)
  /\ UNCHANGED <<up, links, drops, pc, link, attempts, cancelled>>

CloseLink ==
  /\ closing # 0
  /\ closing' = 0
  /\ up' = up \ {closing}
  /\ UNCHANGED <<state, conn, closed, links, drops, pc, link, attempts, cancelled>>

-----------------------------------------------------------------------------
(* watchReconnect.                                                         *)

(* The link is read under the lock; NotifyClose of a link that has ended   *)
(* already returns a closed channel, which reads as an ordinary close.     *)
WatchRead ==
  /\ pc["watcher"] = "read"
  /\ link' = [link EXCEPT !["watcher"] = conn]
  /\ GoTo("watcher", IF closed \/ conn \notin up THEN "stopped" ELSE "listen")
  /\ UNCHANGED <<state, conn, closed, up, links, drops, attempts, closing, cancelled>>

(* The channel delivers an error if the other side ended the link, and is  *)
(* closed if conn.Close ended it, which Close does after cancelling.       *)
WatchEnded ==
  /\ pc["watcher"] = "listen"
  /\ link["watcher"] \notin up
  /\ ~closed
  /\ attempts' = 0
  /\ GoTo("watcher", "retry")
  /\ UNCHANGED <<state, conn, closed, up, links, drops, link, closing, cancelled>>

(* The context is watched in both selects, closed on each turn of the loop.*)
WatchStops ==
  /\ pc["watcher"] \in {"listen", "retry", "wait"}
  /\ closed
  /\ GoTo("watcher", "stopped")
  /\ UNCHANGED <<state, conn, closed, up, links, drops, link, attempts, closing,
                 cancelled>>

WatchRetry ==
  /\ pc["watcher"] = "retry"
  /\ ~closed
  /\ IF maxRetries > 0 /\ attempts >= maxRetries
     THEN /\ state' = "disconnected"
          /\ GoTo("watcher", "stopped")
          /\ UNCHANGED attempts
     ELSE /\ attempts' = attempts + 1
          /\ GoTo("watcher", "wait")
          /\ UNCHANGED state
  /\ UNCHANGED <<conn, closed, up, links, drops, link, closing, cancelled>>

WatchWaited ==
  /\ pc["watcher"] = "wait"
  /\ GoTo("watcher", "connect")
  /\ UNCHANGED <<state, conn, closed, up, links, drops, link, attempts, closing,
                 cancelled>>

-----------------------------------------------------------------------------
(* Consumer.Start and runOnce; the messages are another module's.          *)

Start(c) ==
  /\ pc[c] = "none"
  /\ pc["dial"] = "stopped"
  /\ GoTo(c, "ensure")
  /\ UNCHANGED <<state, conn, closed, up, links, drops, link, attempts, closing,
                 cancelled>>

ensureConnected(c) ==
  /\ pc[c] = "ensure"
  /\ GoTo(c, CASE closed                          -> "stopped"
               [] ~closed /\ state = "connected"  -> "open"
               [] ~closed /\ state # "connected"  -> "connect")
  /\ UNCHANGED <<state, conn, closed, up, links, drops, link, attempts, closing,
                 cancelled>>

(* Channel and the declarations work on a link that is alive, and fail     *)
(* otherwise.                                                              *)
ChannelOpens == conn \in up

OpenChannel(c) ==
  /\ pc[c] = "open"
  /\ GoTo(c, CASE c \in cancelled                      -> "stopped"
               [] c \notin cancelled /\ ChannelOpens  -> "consuming"
               [] c \notin cancelled /\ ~ChannelOpens -> "error")
  /\ link' = [link EXCEPT ![c] = conn]
  /\ UNCHANGED <<state, conn, closed, up, links, drops, attempts, closing, cancelled>>

MessagesClosed(c) ==
  /\ pc[c] = "consuming"
  /\ link[c] \notin up
  /\ GoTo(c, "error")
  /\ UNCHANGED <<state, conn, closed, up, links, drops, link, attempts, closing,
                 cancelled>>

(* Mutant: Start does not ask whether the Connection is closed.            *)
AfterErrorAlways == "wait"

AfterError == IF closed THEN "stopped" ELSE "wait"

CheckClosed(c) ==
  /\ pc[c] = "error"
  /\ GoTo(c, AfterError)
  /\ UNCHANGED <<state, conn, closed, up, links, drops, link, attempts, closing,
                 cancelled>>

Waited(c) ==
  /\ pc[c] = "wait"
  /\ GoTo(c, IF c \in cancelled THEN "stopped" ELSE "open")
  /\ UNCHANGED <<state, conn, closed, up, links, drops, link, attempts, closing,
                 cancelled>>

ContextDone(c) ==
  /\ pc[c] \in {"consuming", "wait"}
  /\ c \in cancelled
  /\ GoTo(c, "stopped")
  /\ UNCHANGED <<state, conn, closed, up, links, drops, link, attempts, closing,
                 cancelled>>

Cancel(c) ==
  /\ c \notin cancelled
  /\ cancelled' = cancelled \cup {c}
  /\ UNCHANGED <<state, conn, closed, up, links, drops, pc, link, attempts, closing>>

-----------------------------------------------------------------------------
ConnectStep(a) ==
  ConnectBegin(a) \/ DialSucceeds(a) \/ DialFails(a) \/ ConnectEnd(a)

WatchStep == WatchRead \/ WatchEnded \/ WatchStops \/ WatchRetry \/ WatchWaited

ConsumerStep(c) ==
  \/ ensureConnected(c)
  \/ OpenChannel(c)
  \/ MessagesClosed(c)
  \/ CheckClosed(c)
  \/ Waited(c)
  \/ ContextDone(c)

Next ==
  \/ \E a \in Actors : ConnectStep(a)
  \/ DialAgain
  \/ \E l \in up : Drop(l)
  \/ Close
  \/ CloseLink
  \/ WatchStep
  \/ \E c \in Consumers : Start(c) \/ ConsumerStep(c) \/ Cancel(c)

Spec == Init /\ [][Next]_vars

(* Every goroutine keeps being scheduled, timers fire, and a broker that   *)
(* is dialled again and again answers at last.  Nobody has to call Close,  *)
(* cancel a consumer, or drop a link.                                      *)
Fairness ==
  /\ \A a \in Actors : WF_vars(ConnectStep(a)) /\ SF_vars(DialSucceeds(a))
  /\ WF_vars(DialAgain)
  /\ WF_vars(CloseLink)
  /\ WF_vars(WatchStep)
  /\ \A c \in Consumers : WF_vars(ConsumerStep(c))

FairSpec == Spec /\ Fairness

-----------------------------------------------------------------------------
(* Properties.                                                             *)

(* No link leaks: one that is alive is the Connection's, or in the hands   *)
(* of a connect that has just dialled it, or of the Close that is ending   *)
(* it.  In particular nothing is left open after Close.                    *)
NoOrphanLink ==
  up \subseteq {conn, closing} \cup {link[a] : a \in {b \in Actors : pc[b] = "dialled"}}

(* The state tells the truth about closing, and a connected Connection has *)
(* a link (which need not be alive).                                       *)
StateAgrees ==
  /\ closed <=> state = "closed"
  /\ state = "connected" => conn # 0
  /\ closed => conn = 0

(* No link of a Connection is left open or taken for another.              *)
LinksOwned == NoOrphanLink /\ StateAgrees

(* After Close the watcher and every consumer that runs come to an end.    *)
CloseStopsAll ==
  \A a \in {"watcher"} \cup Consumers :
    (closed /\ pc[a] # "none") ~> (pc[a] = "stopped")

-----------------------------------------------------------------------------
(* What the documentation says and the code does not do.                   *)

(* A connection that breaks is dialled again.                              *)
Reconnects ==
  (conn # 0 /\ conn \notin up) ~> (closed \/ conn \in up)

-----------------------------------------------------------------------------
(* Proofs.  The argument: until Dial returns a Connection nobody else has  *)
(* it; from then on its state is "connected" until Close, since nothing    *)
(* that happens to a link changes it.  So connect never dials again, and   *)
(* there is one link to lose.                                              *)

(* The Connection before Dial has returned it.                             *)
Fresh ==
  /\ ~closed /\ conn = 0 /\ closing = 0
  /\ \A a \in Actors : a # "dial" => pc[a] = "none"
  /\ \/ pc["dial"] \in {"none", "connect"} /\ state = "disconnected"
     \/ pc["dial"] \in {"dialing", "dialled"} /\ state = "connecting"

(* The Connection once it has been returned.                               *)
InUse ==
  /\ pc["dial"] = "stopped"
  /\ \A a \in Actors : pc[a] \notin {"dialing", "dialled"}
  /\ \/ ~closed /\ state = "connected" /\ conn # 0 /\ closing = 0
     \/ closed /\ state = "closed" /\ conn = 0
  /\ pc["watcher"] = "retry" => attempts = 0 \/ closed

IInv == TypeOK /\ (Fresh \/ InUse) /\ NoOrphanLink

(* The states of StateAgrees are those of Fresh and InUse.                 *)
LEMMA InvImplies == IInv => StateAgrees
BY DEF IInv, Fresh, InUse, StateAgrees

(* The first states.                                                       *)
LEMMA InitInv == Init => IInv
<1> SUFFICES ASSUME Init
             PROVE  IInv
  OBVIOUS
<1>1. TypeOK
  <2>1. \A a \in Actors : pc[a] \in {"none", "connect"} /\ link[a] = 0
    BY DEF Init
  <2>2. link \in [Actors -> 0..MaxLinks]
    BY <2>1, MqConnectionAssumption DEF Init
  <2>3. pc \in [Actors -> {"none", "connect"}]
    BY DEF Init
  <2>4. pc \in [Actors -> InConnect \cup {"none", "stopped", "read", "listen",
               "retry", "wait", "ensure", "open", "consuming", "error"}]
    BY <2>3 DEF InConnect
  <2>5. \A a \in Actors : pc[a] \notin {"dialled", "listen", "consuming"}
    BY <2>1
  <2>6. /\ state = "disconnected" /\ conn = 0 /\ closed = FALSE /\ up = {}
        /\ links = 0 /\ drops = 0 /\ attempts = 0 /\ closing = 0
        /\ cancelled = {}
    BY DEF Init
  <2>7. MaxLinks \in Nat /\ MaxDrops \in Nat
    BY MqConnectionAssumption
  <2>8. conn \in 0..MaxLinks /\ links \in 0..MaxLinks /\ closing \in 0..MaxLinks
        /\ drops \in 0..MaxDrops /\ attempts \in Nat
    BY <2>6, <2>7
  <2>9. state \in {"disconnected", "connecting", "connected", "closed"}
        /\ closed \in BOOLEAN
    BY <2>6
  <2>10. up \subseteq 1..MaxLinks /\ cancelled \subseteq Consumers
    BY <2>6
  <2>11. QED
    BY <2>2, <2>4, <2>5, <2>8, <2>9, <2>10 DEF TypeOK
<1>2. Fresh
  BY MqConnectionAssumption DEF Init, Fresh, Actors
<1>3. NoOrphanLink
  BY DEF Init, NoOrphanLink
<1>4. QED
  BY <1>1, <1>2, <1>3 DEF IInv

(* The types are kept by every step.                                       *)
LEMMA TypeStep ==
  ASSUME TypeOK, [Next]_vars
  PROVE  TypeOK'
<1> USE MqConnectionAssumption
<1>1. "dial" \in Actors /\ "watcher" \in Actors
      /\ \A c \in Consumers : c \in Actors /\ c # "dial" /\ c # "watcher"
  BY DEF Actors
<1>2. ASSUME NEW a \in Actors, ConnectBegin(a)
      PROVE  TypeOK'
  BY <1>1, <1>2 DEF TypeOK, ConnectBegin, ConnectFailed, Connected, GoTo, InConnect
<1>3. ASSUME NEW a \in Actors, DialSucceeds(a)
      PROVE  TypeOK'
  <2>1. links' \in 1 .. MaxLinks
    BY <1>3 DEF TypeOK, DialSucceeds
  <2>2. QED
    BY <1>1, <1>3, <2>1 DEF TypeOK, DialSucceeds, GoTo, InConnect
<1>4. ASSUME NEW a \in Actors, DialFails(a)
      PROVE  TypeOK'
  BY <1>1, <1>4 DEF TypeOK, DialFails, ConnectFailed, GoTo, InConnect
<1>5. ASSUME NEW a \in Actors, ConnectEnd(a)
      PROVE  TypeOK'
  BY <1>1, <1>5 DEF TypeOK, ConnectEnd, ConnectFailed, Connected, GoTo, InConnect
<1>6. CASE DialAgain
  BY <1>1, <1>6 DEF TypeOK, DialAgain, GoTo, InConnect
<1>7. ASSUME NEW l \in up, Drop(l)
      PROVE  TypeOK'
  BY <1>7 DEF TypeOK, Drop
<1>8. CASE Close \/ CloseLink
  <2>1. CASE Close
    BY <2>1 DEF TypeOK, Close, ToEnd
  <2>2. CASE CloseLink
    BY <2>2 DEF TypeOK, CloseLink
  <2>3. QED
    BY <1>8, <2>1, <2>2
<1>9. CASE WatchRead
  BY <1>1, <1>9 DEF TypeOK, WatchRead, GoTo, InConnect
<1>10. CASE WatchEnded \/ WatchStops \/ WatchRetry \/ WatchWaited
  <2>1. CASE WatchEnded
    BY <1>1, <2>1 DEF TypeOK, WatchEnded, GoTo, InConnect
  <2>2. CASE WatchStops
    BY <1>1, <2>2 DEF TypeOK, WatchStops, GoTo, InConnect
  <2>3. CASE WatchRetry
    BY <1>1, <2>3 DEF TypeOK, WatchRetry, GoTo, InConnect
  <2>4. CASE WatchWaited
    BY <1>1, <2>4 DEF TypeOK, WatchWaited, GoTo, InConnect
  <2>5. QED
    BY <1>10, <2>1, <2>2, <2>3, <2>4
<1>11. ASSUME NEW c \in Consumers, OpenChannel(c)
       PROVE  TypeOK'
  BY <1>1, <1>11 DEF TypeOK, OpenChannel, ChannelOpens, GoTo, InConnect
<1>12. ASSUME NEW c \in Consumers,
              \/ Start(c) \/ ensureConnected(c) \/ MessagesClosed(c)
              \/ CheckClosed(c) \/ Waited(c) \/ ContextDone(c)
       PROVE  TypeOK'
  BY <1>1, <1>12
     DEF TypeOK, Start, ensureConnected, MessagesClosed, CheckClosed, Waited,
         ContextDone, AfterError, GoTo, InConnect
<1>13. ASSUME NEW c \in Consumers, Cancel(c)
       PROVE  TypeOK'
  BY <1>13 DEF TypeOK, Cancel
<1>14. CASE UNCHANGED vars
  BY <1>14 DEF TypeOK, vars
<1>15. QED
  BY <1>2, <1>3, <1>4, <1>5, <1>6, <1>7, <1>8, <1>9, <1>10, <1>11, <1>12,
     <1>13, <1>14
     DEF Next, ConnectStep, WatchStep, ConsumerStep

(* A link in up is numbered, so that it is none of the absent links.       *)
LEMMA UpPositive ==
  ASSUME TypeOK, NEW l \in up
  PROVE  l # 0
BY MqConnectionAssumption DEF TypeOK

(* A step of an actor that moves it between places outside of a dial,      *)
(* and changes no link, orphans none.                                      *)
LEMMA NoLinkTouched ==
  ASSUME NoOrphanLink, up' \subseteq up, UNCHANGED <<conn, closing>>,
         \A a \in Actors : pc[a] = "dialled" => pc'[a] = "dialled" /\ link'[a] = link[a]
  PROVE  NoOrphanLink'
BY DEF NoOrphanLink

(* Steps before Dial has returned.                                         *)
LEMMA FreshStep ==
  ASSUME TypeOK, TypeOK', Fresh, NoOrphanLink, [Next]_vars
  PROVE  (Fresh \/ InUse)' /\ NoOrphanLink'
<1> USE MqConnectionAssumption
<1>1. "dial" \in Actors /\ "watcher" \in Actors
      /\ \A c \in Consumers : c \in Actors /\ c # "dial" /\ c # "watcher"
  BY DEF Actors
<1>2. /\ ~closed /\ conn = 0 /\ closing = 0
      /\ \A a \in Actors : a # "dial" => pc[a] = "none"
      /\ pc["dial"] \in {"none", "connect", "dialing", "dialled"}
      /\ pc["dial"] \in {"none", "connect"} => state = "disconnected"
      /\ pc["dial"] \in {"dialing", "dialled"} => state = "connecting"
  BY DEF Fresh
<1>3. pc \in [Actors -> InConnect \cup {"none", "stopped", "read", "listen",
               "retry", "wait", "ensure", "open", "consuming", "error"}]
      /\ link \in [Actors -> 0..MaxLinks]
  BY DEF TypeOK
<1>4. ASSUME NEW a \in Actors, ConnectBegin(a)
      PROVE  Fresh' /\ NoOrphanLink'
  <2>1. a = "dial"
    BY <1>2, <1>4 DEF ConnectBegin
  <2>2. pc' = [pc EXCEPT !["dial"] = "dialing"] /\ state' = "connecting"
    BY <1>2, <1>4, <2>1 DEF ConnectBegin, GoTo
  <2>3. UNCHANGED <<conn, closed, up, link, closing>>
    BY <1>4 DEF ConnectBegin
  <2>4. QED
    BY <1>1, <1>2, <1>3, <1>4, <2>1, <2>2, <2>3, NoLinkTouched DEF Fresh, ConnectBegin
<1>5. ASSUME NEW a \in Actors, DialSucceeds(a)
      PROVE  Fresh' /\ NoOrphanLink'
  <2>1. a = "dial"
    BY <1>2, <1>5 DEF DialSucceeds
  <2>2. pc' = [pc EXCEPT !["dial"] = "dialled"] /\ link'["dial"] = links'
    BY <1>3, <1>5, <2>1 DEF DialSucceeds, GoTo
  <2>3. Fresh'
    BY <1>1, <1>2, <1>3, <1>5, <2>1, <2>2 DEF Fresh, DialSucceeds
  <2>4. up = {}
    <3>1. \A b \in Actors : pc[b] # "dialled"
      BY <1>2, <1>5, <2>1 DEF DialSucceeds
    <3>2. QED
      BY <1>2, <3>1, UpPositive DEF NoOrphanLink
  <2>5. up' = {link'["dial"]} /\ pc'["dial"] = "dialled"
    BY <1>1, <1>3, <1>5, <2>2, <2>4 DEF DialSucceeds
  <2>6. QED
    BY <1>1, <2>3, <2>5 DEF NoOrphanLink
<1>6. ASSUME NEW a \in Actors, DialFails(a)
      PROVE  Fresh' /\ NoOrphanLink'
  <2>1. a = "dial"
    BY <1>2, <1>6 DEF DialFails
  <2>2. pc' = [pc EXCEPT !["dial"] = "none"] /\ state' = "disconnected"
    BY <1>6, <2>1 DEF DialFails, ConnectFailed, GoTo
  <2>3. UNCHANGED <<conn, closed, up, link, closing>>
    BY <1>6 DEF DialFails
  <2>4. pc["dial"] = "dialing"
    BY <1>6, <2>1 DEF DialFails
  <2>5. Fresh'
    BY <1>1, <1>2, <1>3, <2>2, <2>3 DEF Fresh
  <2>6. \A b \in Actors : pc[b] # "dialled"
    BY <1>2, <2>4
  <2>7. QED
    BY <2>3, <2>5, <2>6, NoLinkTouched
<1>7. ASSUME NEW a \in Actors, ConnectEnd(a)
      PROVE  InUse' /\ NoOrphanLink'
  <2>1. a = "dial"
    BY <1>2, <1>7 DEF ConnectEnd
  <2>2. pc' = [pc EXCEPT !["dial"] = "stopped", !["watcher"] = "read"]
    BY <1>2, <1>7, <2>1 DEF ConnectEnd, Connected
  <2>3. /\ conn' = link["dial"] /\ state' = "connected"
        /\ UNCHANGED <<up, closed, closing>>
    BY <1>2, <1>7, <2>1 DEF ConnectEnd
  <2>4. conn' # 0
    BY <1>1, <1>7, <2>1, <2>3 DEF TypeOK, ConnectEnd
  <2>5. InUse'
    BY <1>1, <1>2, <1>3, <2>2, <2>3, <2>4 DEF InUse
  <2>6. up \subseteq {conn, closing, link["dial"]}
    BY <1>2 DEF NoOrphanLink
  <2>7. up' \subseteq {conn'}
    BY <1>2, <2>3, <2>6, UpPositive
  <2>8. QED
    BY <2>5, <2>7 DEF NoOrphanLink
<1>8. CASE DialAgain
  <2>1. pc["dial"] = "none" /\ pc' = [pc EXCEPT !["dial"] = "connect"]
    BY <1>8 DEF DialAgain, GoTo
  <2>2. UNCHANGED <<state, conn, closed, up, link, closing>>
    BY <1>8 DEF DialAgain
  <2>3. Fresh'
    BY <1>1, <1>2, <1>3, <2>1, <2>2 DEF Fresh
  <2>4. \A b \in Actors : pc[b] # "dialled"
    BY <1>2, <2>1
  <2>5. QED
    BY <2>2, <2>3, <2>4, NoLinkTouched
<1>9. ASSUME NEW l \in up, Drop(l)
      PROVE  Fresh' /\ NoOrphanLink'
  BY <1>9, NoLinkTouched DEF Fresh, Drop
<1>10. ASSUME NEW c \in Consumers, Cancel(c)
       PROVE  Fresh' /\ NoOrphanLink'
  BY <1>10, NoLinkTouched DEF Fresh, Cancel
<1>11. CASE UNCHANGED vars
  BY <1>11, NoLinkTouched DEF Fresh, vars
<1>12. ~ Close /\ ~ CloseLink
  BY <1>2 DEF Close, CloseLink
<1>13. ~ WatchStep
  BY <1>1, <1>2
     DEF WatchStep, WatchRead, WatchEnded, WatchStops, WatchRetry, WatchWaited
<1>14. ASSUME NEW c \in Consumers, Start(c) \/ ConsumerStep(c)
       PROVE  FALSE
  <2>1. pc[c] = "none" /\ pc["dial"] # "stopped"
    BY <1>1, <1>2
  <2>2. QED
    BY <1>14, <2>1
       DEF Start, ConsumerStep, ensureConnected, OpenChannel, MessagesClosed,
           CheckClosed, Waited, ContextDone
<1>15. QED
  BY <1>4, <1>5, <1>6, <1>7, <1>8, <1>9, <1>10, <1>11, <1>12, <1>13, <1>14
     DEF Next, ConnectStep

(* Somebody but Dial goes on, without dialling and without touching the    *)
(* Connection.                                                             *)
Onward(a, to) ==
  /\ a \in Actors /\ a # "dial" /\ to \notin {"dialing", "dialled"}
  /\ GoTo(a, to)
  /\ a = "watcher" /\ to = "retry" => attempts' = 0 \/ closed
  /\ a # "watcher" => UNCHANGED attempts
  /\ UNCHANGED <<state, conn, closed, up, closing>>

(* Such a step leaves a Connection in use as it is.                        *)
LEMMA MovesOn ==
  ASSUME TypeOK, InUse, NoOrphanLink, NEW a, NEW to, Onward(a, to)
  PROVE  InUse' /\ NoOrphanLink'
<1>1. "dial" \in Actors /\ "watcher" \in Actors
  BY DEF Actors
<1>2. DOMAIN pc = Actors
  BY DEF TypeOK
<1>3. \A b \in Actors : pc'[b] = IF b = a THEN to ELSE pc[b]
  BY <1>2 DEF Onward, GoTo
<1>4. pc'["dial"] = "stopped" /\ \A b \in Actors : pc'[b] \notin {"dialing", "dialled"}
  BY <1>1, <1>3 DEF InUse, Onward
<1>5. pc'["watcher"] = "retry" => attempts' = 0 \/ closed
  BY <1>1, <1>3 DEF InUse, Onward
<1>6. InUse'
  BY <1>4, <1>5 DEF InUse, Onward
<1>7. up \subseteq {conn, closing}
  BY DEF InUse, NoOrphanLink
<1>8. QED
  BY <1>6, <1>7 DEF NoOrphanLink, Onward

(* Steps of a Connection in use: nothing dials, so the state stays as it   *)
(* is until Close, and the only link is the one Close takes out.           *)
LEMMA InUseStep ==
  ASSUME TypeOK, TypeOK', InUse, NoOrphanLink, [Next]_vars
  PROVE  InUse' /\ NoOrphanLink'
<1> USE MqConnectionAssumption
<1>1. "dial" \in Actors /\ "watcher" \in Actors
      /\ \A c \in Consumers : c \in Actors /\ c # "dial" /\ c # "watcher"
  BY DEF Actors
<1>2. /\ pc["dial"] = "stopped"
      /\ \A a \in Actors : pc[a] \notin {"dialing", "dialled"}
      /\ \/ ~closed /\ state = "connected" /\ conn # 0 /\ closing = 0
         \/ closed /\ state = "closed" /\ conn = 0
      /\ pc["watcher"] = "retry" => attempts = 0 \/ closed
  BY DEF InUse
<1>3. pc \in [Actors -> InConnect \cup {"none", "stopped", "read", "listen",
               "retry", "wait", "ensure", "open", "consuming", "error"}]
  BY DEF TypeOK
<1>4. up \subseteq {conn, closing}
  BY <1>2 DEF NoOrphanLink
<1>6. ASSUME NEW a \in Actors, ConnectBegin(a)
      PROVE  InUse' /\ NoOrphanLink'
  <2>1. a # "dial"
    BY <1>2, <1>6 DEF ConnectBegin
  <2>2. UNCHANGED <<state, conn, closed, up, closing, attempts>>
    BY <1>2, <1>6 DEF ConnectBegin
  <2>3. CASE closed /\ a = "watcher"
    <3>1. GoTo(a, "retry")
      BY <1>6, <2>3 DEF ConnectBegin, ConnectFailed
    <3>2. Onward(a, "retry")
      BY <2>1, <2>2, <2>3, <3>1 DEF Onward
    <3>3. QED
      BY <3>2, MovesOn
  <2>4. CASE closed /\ a # "watcher"
    <3>1. GoTo(a, "stopped")
      BY <1>6, <2>1, <2>4 DEF ConnectBegin, ConnectFailed
    <3>2. Onward(a, "stopped")
      BY <2>1, <2>2, <2>4, <3>1 DEF Onward
    <3>3. QED
      BY <3>2, MovesOn
  <2>5. CASE ~ closed
    <3>1. GoTo(a, "read") \/ GoTo(a, "open")
      BY <1>2, <1>6, <2>1, <2>5 DEF ConnectBegin, Connected
    <3>2. Onward(a, "read") \/ Onward(a, "open")
      BY <2>1, <2>2, <3>1 DEF Onward
    <3>3. QED
      BY <3>2, MovesOn
  <2>6. QED
    BY <2>3, <2>4, <2>5
<1>7. ASSUME NEW a \in Actors
      PROVE  ~ DialSucceeds(a) /\ ~ DialFails(a) /\ ~ ConnectEnd(a)
  BY <1>2 DEF DialSucceeds, DialFails, ConnectEnd
<1>8. ~ DialAgain
  BY <1>2 DEF DialAgain
<1>9. ASSUME NEW l \in up, Drop(l)
      PROVE  InUse' /\ NoOrphanLink'
  BY <1>4, <1>9 DEF InUse, NoOrphanLink, Drop
<1>10. CASE Close
  BY <1>2, <1>4, <1>10 DEF InUse, NoOrphanLink, Close, ToEnd
<1>11. CASE CloseLink
  BY <1>2, <1>4, <1>11 DEF InUse, NoOrphanLink, CloseLink
<1>12. CASE WatchStep
  <2>1. CASE WatchRead
    <3>1. GoTo("watcher", "stopped") \/ GoTo("watcher", "listen")
      BY <2>1 DEF WatchRead
    <3>2. Onward("watcher", "stopped") \/ Onward("watcher", "listen")
      BY <1>1, <2>1, <3>1 DEF Onward, WatchRead
    <3>3. QED
      BY <3>2, MovesOn
  <2>2. CASE WatchEnded
    <3>1. Onward("watcher", "retry")
      BY <1>1, <2>2 DEF Onward, WatchEnded
    <3>2. QED
      BY <3>1, MovesOn
  <2>3. CASE WatchStops
    <3>1. Onward("watcher", "stopped")
      BY <1>1, <2>3 DEF Onward, WatchStops
    <3>2. QED
      BY <3>1, MovesOn
  <2>4. CASE WatchRetry
    <3>1. attempts = 0 /\ ~ closed
      BY <1>2, <2>4 DEF WatchRetry
    <3>2. ~ (maxRetries > 0 /\ attempts >= maxRetries)
      BY <3>1
    <3>3. Onward("watcher", "wait")
      BY <1>1, <2>4, <3>2 DEF Onward, WatchRetry
    <3>4. QED
      BY <3>3, MovesOn
  <2>5. CASE WatchWaited
    <3>1. Onward("watcher", "connect")
      BY <1>1, <2>5 DEF Onward, WatchWaited
    <3>2. QED
      BY <3>1, MovesOn
  <2>6. QED
    BY <1>12, <2>1, <2>2, <2>3, <2>4, <2>5 DEF WatchStep
<1>13. ASSUME NEW c \in Consumers, Start(c) \/ ConsumerStep(c)
       PROVE  InUse' /\ NoOrphanLink'
  <2>1. UNCHANGED <<state, conn, closed, up, closing, attempts>>
    BY <1>13
       DEF Start, ConsumerStep, ensureConnected, OpenChannel, MessagesClosed,
           CheckClosed, Waited, ContextDone
  <2>2. \E to \in {"ensure", "stopped", "open", "connect", "consuming", "error",
                   "wait"} : GoTo(c, to)
    <3>1. CASE ensureConnected(c)
      BY <3>1 DEF ensureConnected
    <3>2. CASE OpenChannel(c)
      BY <3>2 DEF OpenChannel
    <3>3. CASE Start(c) \/ MessagesClosed(c) \/ ContextDone(c)
      BY <3>3 DEF Start, MessagesClosed, ContextDone
    <3>4. CASE CheckClosed(c) \/ Waited(c)
      BY <3>4 DEF CheckClosed, Waited, AfterError
    <3>5. QED
      BY <1>13, <3>1, <3>2, <3>3, <3>4 DEF ConsumerStep
  <2>3. PICK to \in {"ensure", "stopped", "open", "connect", "consuming", "error",
                     "wait"} : GoTo(c, to)
    BY <2>2
  <2>4. Onward(c, to)
    BY <1>1, <2>1, <2>3 DEF Onward
  <2>5. QED
    BY <2>4, MovesOn
<1>14. ASSUME NEW c \in Consumers, Cancel(c)
       PROVE  InUse' /\ NoOrphanLink'
  BY <1>14 DEF InUse, NoOrphanLink, Cancel
<1>15. CASE UNCHANGED vars
  BY <1>15 DEF InUse, NoOrphanLink, vars
<1>16. QED
  BY <1>6, <1>7, <1>8, <1>9, <1>10, <1>11, <1>12, <1>13, <1>14, <1>15
     DEF Next, ConnectStep

(* The types, where a Connection is in its life and that it leaks no link, *)
(* for any consumers and limits.                                           *)
THEOREM Invariance == Spec => []IInv
<1>1. IInv /\ [Next]_vars => IInv'
  <2> SUFFICES ASSUME IInv, [Next]_vars
               PROVE  IInv'
    OBVIOUS
  <2>1. TypeOK /\ TypeOK' /\ NoOrphanLink
    BY TypeStep DEF IInv
  <2>2. QED
    BY <2>1, FreshStep, InUseStep DEF IInv
<1>2. QED
  BY <1>1, InitInv, PTL DEF Spec

(* No link of connection.go leaks, and its state, its link and its closed  *)
(* flag agree, whatever drops, dials and closes come between the sections  *)
(* under its mutex.                                                        *)
THEOREM LinksOwnedAlways == Spec => []LinksOwned
<1>1. IInv => LinksOwned
  BY InvImplies DEF IInv, LinksOwned
<1>2. QED
  BY <1>1, Invariance, PTL

(* Why Reconnects fails: connect finds the state "connected" whenever      *)
(* watchReconnect or a consumer calls it, and no link is ever dialled      *)
(* after the one Dial made.                                                *)
DialsOnce ==
  pc["dial"] = "stopped" => \A a \in Actors : pc[a] \notin {"dialing", "dialled"}

(* DialsOnce for any limits, consumers and drops.                          *)
THEOREM DialsOnceAlways == Spec => []DialsOnce
<1>1. IInv => DialsOnce
  BY DEF IInv, Fresh, InUse, DialsOnce
<1>2. QED
  BY <1>1, Invariance, PTL

-----------------------------------------------------------------------------
(* The other message clients, each independent of the connection: the      *)
(* queue's producer and consumer, which meet the connection only where it  *)
(* has lost its link, the older interface, and the Kafka and MQTT clients. *)
CONSTANTS
  Messages, QueueConsumers, MaxRetries, QueueExchanges, Faults,
  MaxQueueDrops,                                          \* MqConsumer
  Receivers, Bodies, maxTryConnNums, Retries, Routed,
  MaxDials, MaxLegacyFaults,                              \* LegacyMq
  Members, MaxOffset, MaxKafkaFaults,                     \* KafkaQueue
  Topics, AutoReconnect, MaxClientDrops, MaxMessages      \* MqttClient

VARIABLES
  queueExchange, main, retry, delay, retryQueue, consumer, unacked, alive,
  linkDrops, published, failures, done, failed, panicked, lost, strayed, again,
  broker, open, connection, dials, maxTryNums, recv, ended, unsent, queue,
  delayed, ledger,
  produced, committed, owner, member, faults, handled, passedOver,
  client, cleanSession, global, session, callbacks, inFlight, clientDrops,
  messages, delivered, publishing

Q == INSTANCE MqConsumer WITH
       Consumers <- QueueConsumers, MaxDrops <- MaxQueueDrops,
       up <- alive, drops <- linkDrops, attempts <- failures

L == INSTANCE LegacyMq WITH MaxFaults <- MaxLegacyFaults, alive <- open

K == INSTANCE KafkaQueue WITH MaxFaults <- MaxKafkaFaults

M == INSTANCE MqttClient WITH
       MaxDrops <- MaxClientDrops, state <- client, drops <- clientDrops

(* What the proofs below need to know of the parameters.                   *)
ASSUME ClientsAssumption == Q!MqConsumerAssumption /\ L!LegacyMqAssumption

(* MessagesKept of MqConsumer.                                             *)
MessagesKept == Q!MessagesKept

(* The other clients: no message of the older interface is lost but where  *)
(* the model says so, Kafka passes over none, and what an MQTT session is  *)
(* subscribed to is what its callbacks answer (Accounted, AtLeastOnce,     *)
(* SessionFollowsCallbacks).                                               *)
OtherClientsSound ==
  /\ L!Accounted
  /\ K!AtLeastOnce
  /\ M!SessionFollowsCallbacks

(* Each copy of a message is handled, given up after its retries or lost   *)
(* where MqConsumer says, for any address of the queue.                    *)
THEOREM MessagesKeptAlways == Q!Spec => []MessagesKept
BY Q!MessagesKeptAlways, ClientsAssumption DEF MessagesKept

(* The Kafka client starts with its group's offset.                        *)
LEMMA InitKafka == K!Init => K!IInv
<1> SUFFICES ASSUME K!Init PROVE K!IInv
  OBVIOUS
<1> USE DEF K!Init, K!NewMember
<1>1. K!TypeOK
  BY DEF K!TypeOK
<1>2. K!AtLeastOnce
  BY DEF K!AtLeastOnce
<1>3. K!ReadersInOrder
  BY DEF K!ReadersInOrder, K!NothingOpen
<1> QED
  BY <1>1, <1>2, <1>3 DEF K!IInv

(* Whatever a reader has behind it was handled or passed over; a commit    *)
(* adds the one message that was handled, Consume again the one that was   *)
(* not.                                                                    *)
LEMMA NextKafka == K!IInv /\ [K!Next]_K!vars => K!IInv'
<1> SUFFICES ASSUME K!IInv, [K!Next]_K!vars PROVE K!IInv'
  OBVIOUS
<1> USE DEF K!IInv, K!TypeOK, K!ReadersInOrder, K!NothingOpen, K!AtLeastOnce
<1>1. CASE K!Send
  BY <1>1 DEF K!Send
<1>2. ASSUME NEW m \in Members, K!Fetch(m) PROVE K!IInv'
  BY <1>2 DEF K!Fetch
<1>3. ASSUME NEW m \in Members, K!Handle(m) PROVE K!IInv'
  BY <1>3 DEF K!Handle, K!Goto, K!AfterFailure
<1>4. ASSUME NEW m \in Members, K!Commit(m) PROVE K!IInv'
  BY <1>4 DEF K!Commit, K!Goto
<1>5. ASSUME NEW m \in Members, K!Restart(m) PROVE K!IInv'
  BY <1>5 DEF K!Restart, K!NewMember
<1>6. ASSUME NEW m \in Members, K!Rebalance(m) PROVE K!IInv'
  BY <1>6 DEF K!Rebalance
<1>7. ASSUME NEW m \in Members, K!ConsumeAgain(m) PROVE K!IInv'
  BY <1>7 DEF K!ConsumeAgain, K!Goto
<1>8. CASE UNCHANGED K!vars
  BY <1>8 DEF K!vars
<1> QED
  BY <1>1, <1>2, <1>3, <1>4, <1>5, <1>6, <1>7, <1>8 DEF K!Next

(* A new MQTT client has neither a subscription nor a callback.            *)
LEMMA InitMqtt == M!Init => M!IInv
BY DEF M!Init, M!IInv, M!TypeOK, M!SessionFollowsCallbacks, M!Handlers

(* Subscriptions and callbacks change together, but for the link that      *)
(* drops under a clean session.                                            *)
LEMMA NextMqtt == M!IInv /\ [M!Next]_M!vars => M!IInv'
<1> SUFFICES ASSUME M!IInv, [M!Next]_M!vars PROVE M!IInv'
  OBVIOUS
<1> USE DEF M!IInv, M!TypeOK, M!SessionFollowsCallbacks, M!Handlers, M!given
<1>1. ASSUME NEW t \in Topics, NEW h \in {"own", "nil"}, M!Subscribe(t, h)
      PROVE  M!IInv'
  BY <1>1 DEF M!Subscribe
<1>2. ASSUME NEW t \in Topics, M!Unsubscribe(t) PROVE M!IInv'
  BY <1>2 DEF M!Unsubscribe, M!SessionWithout
<1>3. CASE M!Drop
  BY <1>3 DEF M!Drop
<1>4. ASSUME UNCHANGED <<cleanSession, session, callbacks, clientDrops>>
      PROVE  M!IInv'
  BY <1>4
<1> QED
  BY <1>1, <1>2, <1>3, <1>4
     DEF M!Next, M!vars, M!NewClient, M!Arrives, M!Callback, M!Publish,
         M!Published, M!Reconnect, M!Close

(* The older interface starts with every message unsent.                   *)
LEMMA InitLegacy == L!Init => L!IInv
<1> SUFFICES ASSUME L!Init PROVE L!IInv
  OBVIOUS
<1>0. /\ connection = 1
      /\ dials = 1
      /\ recv = [r \in Receivers |-> [pc |-> "opening", link |-> 1, msg |-> L!none]]
      /\ unsent = Bodies
      /\ queue = {}
      /\ delayed = {}
      /\ ledger = [handled |-> {}, failed |-> {}, dropped |-> {}]
  BY Zenon DEF L!Init
<1>1. L!CopiesOK
  BY <1>0 DEF L!CopiesOK, L!Receiver
<1>2. L!AccountedWithoutAcking
  BY <1>0 DEF L!AccountedWithoutAcking
<1>3. L!DroppedForReason
  <2>1. broker = [up |-> TRUE, faults |-> 0]
    BY Zenon DEF L!Init
  <2> QED
    BY <1>0, <2>1 DEF L!DroppedForReason
<1> QED
  BY <1>1, <1>2, <1>3 DEF L!IInv

(* What receivers hold are copies of messages.                             *)
LEMMA HeldCopies == L!CopiesOK => \A rs \in SUBSET Receivers : L!Held(rs) \subseteq L!Copies
BY DEF L!CopiesOK, L!Held

(* Messages are dropped with a fault, or for want of an address.           *)
LEMMA DroppedStep ==
  L!IInv /\ [L!Next]_L!vars => L!DroppedForReason'
<1> SUFFICES ASSUME L!IInv, [L!Next]_L!vars PROVE L!DroppedForReason'
  OBVIOUS
<1>1. /\ broker \in [up : BOOLEAN, faults : Nat]
      /\ ledger.dropped # {} => broker.faults > 0 \/ ~ Routed
      /\ ledger \in [handled : SUBSET Bodies, failed : SUBSET L!Copies,
                     dropped : SUBSET Bodies]
  BY DEF L!IInv, L!DroppedForReason, L!CopiesOK
<1>2. CASE L!Restart
  BY <1>1, <1>2 DEF L!Restart, L!DroppedForReason
<1>3. CASE L!Up
  BY <1>1, <1>3 DEF L!Up, L!mail, L!DroppedForReason
<1>4. ASSUME NEW copy, L!Expire(copy) PROVE L!DroppedForReason'
  BY <1>1, <1>4 DEF L!Expire, L!DroppedForReason
<1>5. ASSUME NEW r \in Receivers, L!ChannelError(r) PROVE L!DroppedForReason'
  BY <1>1, <1>5 DEF L!ChannelError, L!mail, L!DroppedForReason
<1>6. ASSUME NEW r \in Receivers, L!retryMsg(r) PROVE L!DroppedForReason'
  <2>1. UNCHANGED broker /\ (ledger' = ledger \/ broker.faults > 0)
    BY <1>6 DEF L!retryMsg
  <2> QED
    BY <2>1, <1>1 DEF L!DroppedForReason
<1>7. ASSUME UNCHANGED broker, ledger'.dropped = ledger.dropped
      PROVE  L!DroppedForReason'
  BY <1>1, <1>7 DEF L!DroppedForReason
<1>8. ASSUME NEW r \in Receivers,
             \/ L!FailAction(r) \/ \E ok \in BOOLEAN : L!Consumer(r, ok)
      PROVE  L!DroppedForReason'
  BY <1>1, <1>7, <1>8 DEF L!FailAction, L!Consumer
<1>9. ASSUME NEW r \in Receivers,
             \/ L!Open(r) \/ L!Quit(r) \/ L!Ack(r) \/ L!TakeQuit(r)
             \/ L!TakeLinked(r) \/ L!TakeTooMany(r)
             \/ \E ok \in BOOLEAN : L!tryToLink(r, ok)
             \/ \E copy \in queue : L!Deliver(r, copy)
      PROVE  L!DroppedForReason'
  <2>1. UNCHANGED <<broker, ledger>>
    BY <1>9, Zenon DEF L!Open, L!Quit, L!Ack, L!TakeQuit, L!TakeLinked,
       L!TakeTooMany, L!tryToLink, L!Deliver, L!mail
  <2> QED
    BY <2>1, <1>7
<1>10. ASSUME NEW b \in Bodies, L!Send(b) \/ L!SendDelayMsg(b)
       PROVE  L!DroppedForReason'
  BY <1>7, <1>10 DEF L!Send, L!SendDelayMsg
<1>11. CASE UNCHANGED L!vars
  BY <1>7, <1>11 DEF L!vars, L!mail
<1> QED
  BY <1>2, <1>3, <1>4, <1>5, <1>6, <1>8, <1>9, <1>10, <1>11
     DEF L!Next, L!Step

(* A receiver may go on to another record when nothing is lost on the      *)
(* way: what it worked on is there, settled, or worked on still.           *)
LEMMA ReceiverStep ==
  ASSUME L!IInv, L!DroppedForReason',
         NEW r \in Receivers, NEW new \in L!Receiver,
         recv' = [recv EXCEPT ![r] = new],
         new.pc \in {"handling", "failed", "acking"} => new.msg \in L!Copies,
         queue' \subseteq L!Copies, delayed' \subseteq L!Copies,
         connection' \in Nat, dials' \in Nat, unsent' = unsent,
         ledger' \in [handled : SUBSET Bodies, failed : SUBSET L!Copies,
                      dropped : SUBSET Bodies],
         ledger.handled \subseteq ledger'.handled,
         ledger.failed \subseteq ledger'.failed,
         ledger.dropped \subseteq ledger'.dropped,
         \A copy \in ledger'.failed : copy.retry_nums = Retries,
         \A copy \in queue \cup delayed :
           \/ copy \in queue' \cup delayed'
           \/ new.pc = "handling" /\ new.msg = copy,
         recv[r].pc \in {"handling", "failed"} =>
           \/ new.pc \in {"handling", "failed"} /\ new.msg = recv[r].msg
           \/ \E copy \in queue' \cup delayed' : copy.body = recv[r].msg.body
           \/ recv[r].msg.body \in ledger'.handled \cup ledger'.dropped
           \/ \E copy \in ledger'.failed : copy.body = recv[r].msg.body
  PROVE  L!IInv'
<1>1. L!CopiesOK'
  BY DEF L!IInv, L!CopiesOK
<1>2. /\ recv'[r] = new
      /\ \A s \in Receivers \ {r} : recv'[s] = recv[s]
  BY DEF L!IInv, L!CopiesOK
<1>3. L!AccountedWithoutAcking'
  <2> SUFFICES ASSUME NEW b \in Bodies
               PROVE  \/ b \in unsent'
                      \/ \E copy \in queue' \cup delayed' : copy.body = b
                      \/ L!InWork(b)'
                      \/ L!Settled(b)'
    BY DEF L!AccountedWithoutAcking
  <2>1. CASE L!InWork(b)
    <3> PICK s \in Receivers : /\ recv[s].pc \in {"handling", "failed"}
                               /\ recv[s].msg.body = b
      BY <2>1 DEF L!InWork
    <3>1. CASE s = r
      BY <1>2, <3>1 DEF L!InWork, L!Settled
    <3>2. CASE s # r
      BY <1>2, <3>2 DEF L!InWork
    <3> QED
      BY <3>1, <3>2
  <2>2. CASE L!Settled(b)
    BY <2>2 DEF L!Settled
  <2>3. ASSUME NEW copy \in queue \cup delayed, copy.body = b
        PROVE  \/ \E c \in queue' \cup delayed' : c.body = b
               \/ L!InWork(b)'
    BY <1>2, <2>3 DEF L!InWork
  <2> QED
    BY <2>1, <2>2, <2>3 DEF L!IInv, L!AccountedWithoutAcking
<1> QED
  BY <1>1, <1>3 DEF L!IInv

(* No step of the older interface loses a message.                        *)
LEMMA NextLegacy == L!IInv /\ [L!Next]_L!vars => L!IInv'
<1> SUFFICES ASSUME L!IInv, [L!Next]_L!vars PROVE L!IInv'
  OBVIOUS
<1>0. Retries \in Nat
  BY ClientsAssumption DEF L!LegacyMqAssumption
<1>a. L!CopiesOK /\ L!AccountedWithoutAcking
  BY DEF L!IInv
<1>e. L!DroppedForReason'
  BY DroppedStep
<1>b. ASSUME L!CopiesOK', L!AccountedWithoutAcking' PROVE L!IInv'
  BY <1>b, <1>e DEF L!IInv
<1> USE DEF L!mail, L!loop, L!Goto
<1>1. CASE L!Restart
  <2> DEFINE back == queue \cup L!Held({r \in Receivers : recv[r].link \in open})
             gone == {copy.body : copy \in {c \in queue \cup delayed : ~ c.persistent}}
  <2>1. back \subseteq L!Copies
    BY <1>a, HeldCopies DEF L!CopiesOK
  <2>2. gone \subseteq Bodies
    BY <1>a DEF L!CopiesOK, L!Copies
  <2>3. /\ queue' = {copy \in back : copy.persistent}
        /\ delayed' = {copy \in delayed : copy.persistent}
        /\ ledger' = [ledger EXCEPT !.dropped = @ \cup gone]
        /\ UNCHANGED <<connection, dials, recv, unsent>>
    BY <1>1 DEF L!Restart
  <2>4. \A copy \in queue \cup delayed : \/ copy \in queue' \cup delayed'
                                         \/ copy.body \in gone
    BY <2>3
  <2> HIDE DEF back, gone
  <2>5. /\ ledger' \in [handled : SUBSET Bodies, failed : SUBSET L!Copies,
                        dropped : SUBSET Bodies]
        /\ ledger'.handled = ledger.handled
        /\ ledger'.failed = ledger.failed
        /\ ledger'.dropped = ledger.dropped \cup gone
    BY <2>2, <2>3, <1>a DEF L!CopiesOK
  <2>6. L!CopiesOK'
    BY <2>1, <2>3, <2>5, <1>a DEF L!CopiesOK
  <2>7. L!AccountedWithoutAcking'
    BY <2>3, <2>4, <2>5, <1>a DEF L!AccountedWithoutAcking, L!InWork, L!Settled
  <2> QED
    BY <2>6, <2>7, <1>b
<1>2. CASE L!Up
  <2>1. L!CopiesOK'
    BY <1>2, <1>a DEF L!Up, L!CopiesOK
  <2>2. L!AccountedWithoutAcking'
    BY <1>2, <1>a DEF L!Up, L!AccountedWithoutAcking, L!InWork, L!Settled
  <2> QED
    BY <2>1, <2>2, <1>b
<1>3. ASSUME NEW b \in Bodies, L!Send(b) PROVE L!IInv'
  <2> DEFINE copy == [body |-> b, retry_nums |-> 0, persistent |-> TRUE]
  <2>1. copy \in L!Copies
    BY <1>0 DEF L!Copies
  <2>2. /\ queue' = queue \cup {copy}
        /\ unsent' = unsent \ {b}
        /\ UNCHANGED <<connection, dials, recv, delayed, ledger>>
    BY <1>3 DEF L!Send
  <2>3. copy.body = b
    OBVIOUS
  <2> HIDE DEF copy
  <2>4. L!CopiesOK'
    BY <2>1, <2>2, <1>a DEF L!CopiesOK
  <2>5. L!AccountedWithoutAcking'
    BY <2>2, <2>3, <1>a DEF L!AccountedWithoutAcking, L!InWork, L!Settled
  <2> QED
    BY <2>4, <2>5, <1>b
<1>4. ASSUME NEW b \in Bodies, L!SendDelayMsg(b) PROVE L!IInv'
  <2> DEFINE copy == [body |-> b, retry_nums |-> 0, persistent |-> FALSE]
  <2>1. copy \in L!Copies
    BY <1>0 DEF L!Copies
  <2>2. /\ delayed' = delayed \cup {copy}
        /\ unsent' = unsent \ {b}
        /\ UNCHANGED <<connection, dials, recv, queue, ledger>>
    BY <1>4 DEF L!SendDelayMsg
  <2>3. copy.body = b
    OBVIOUS
  <2> HIDE DEF copy
  <2>4. L!CopiesOK'
    BY <2>1, <2>2, <1>a DEF L!CopiesOK
  <2>5. L!AccountedWithoutAcking'
    BY <2>2, <2>3, <1>a DEF L!AccountedWithoutAcking, L!InWork, L!Settled
  <2> QED
    BY <2>4, <2>5, <1>b
<1>5. ASSUME NEW copy \in delayed, L!Expire(copy) PROVE L!IInv'
  <2>1. copy.body \in Bodies
    BY <1>a DEF L!CopiesOK, L!Copies
  <2>2. CASE Routed
    <3>1. L!CopiesOK'
      BY <1>5, <1>a, <2>2 DEF L!Expire, L!CopiesOK
    <3>2. L!AccountedWithoutAcking'
      BY <1>5, <1>a, <2>2 DEF L!Expire, L!AccountedWithoutAcking, L!InWork, L!Settled
    <3> QED
      BY <3>1, <3>2, <1>b
  <2>3. CASE ~ Routed
    <3>1. /\ delayed' = delayed \ {copy}
          /\ ledger' = [ledger EXCEPT !.dropped = @ \cup {copy.body}]
          /\ UNCHANGED <<connection, dials, recv, queue, unsent>>
      BY <1>5, <2>3 DEF L!Expire
    <3>2. /\ ledger' \in [handled : SUBSET Bodies, failed : SUBSET L!Copies,
                          dropped : SUBSET Bodies]
          /\ ledger'.handled = ledger.handled
          /\ ledger'.failed = ledger.failed
          /\ ledger'.dropped = ledger.dropped \cup {copy.body}
      BY <3>1, <2>1, <1>a DEF L!CopiesOK
    <3>3. L!CopiesOK'
      BY <3>1, <3>2, <1>a DEF L!CopiesOK
    <3>4. L!AccountedWithoutAcking'
      BY <3>1, <3>2, <1>a DEF L!AccountedWithoutAcking, L!InWork, L!Settled
    <3> QED
      BY <3>3, <3>4, <1>b
  <2> QED
    BY <2>2, <2>3
<1>c. recv \in [Receivers -> L!Receiver] /\ connection \in Nat /\ dials \in Nat
  BY <1>a DEF L!CopiesOK
<1>d. /\ queue \subseteq L!Copies /\ delayed \subseteq L!Copies
      /\ ledger \in [handled : SUBSET Bodies, failed : SUBSET L!Copies,
                     dropped : SUBSET Bodies]
      /\ \A copy \in ledger.failed : copy.retry_nums = Retries
      /\ \A r \in Receivers : recv[r].pc \in {"handling", "failed", "acking"} =>
                               recv[r].msg \in L!Copies
  BY <1>a DEF L!CopiesOK, L!AccountedWithoutAcking
<1>6. ASSUME NEW r \in Receivers, L!ChannelError(r) PROVE L!IInv'
  <2> DEFINE new == [recv[r] EXCEPT !.pc = "quit"]
  <2>1. /\ recv[r].pc = "listening"
        /\ UNCHANGED <<connection, dials, unsent, queue, delayed, ledger>>
    BY <1>6 DEF L!ChannelError
  <2>2. recv' = [recv EXCEPT ![r] = new]
    BY <1>6, <1>c DEF L!ChannelError, L!Receiver
  <2>3. new \in L!Receiver
    BY <1>c, <1>d, <2>1 DEF L!Receiver
  <2>4. new.pc \in {"handling", "failed", "acking"} => new.msg \in L!Copies
    BY <2>1, <1>d
  <2> HIDE DEF new
  <2> QED
    BY <2>1, <2>2, <2>3, <2>4, <1>c, <1>d, <1>e, ReceiverStep
<1>9. ASSUME NEW r \in Receivers, L!Quit(r) PROVE L!IInv'
  <2> DEFINE new == [recv[r] EXCEPT !.pc = "quit"]
  <2>1. /\ recv[r].pc = "listening"
        /\ UNCHANGED <<connection, dials, unsent, queue, delayed, ledger>>
    BY <1>9 DEF L!Quit
  <2>2. recv' = [recv EXCEPT ![r] = new]
    BY <1>9, <1>c DEF L!Quit, L!Receiver
  <2>3. new \in L!Receiver
    BY <1>c, <1>d, <2>1 DEF L!Receiver
  <2>4. new.pc \in {"handling", "failed", "acking"} => new.msg \in L!Copies
    BY <2>1, <1>d
  <2> HIDE DEF new
  <2> QED
    BY <2>1, <2>2, <2>3, <2>4, <1>c, <1>d, <1>e, ReceiverStep
<1>12. ASSUME NEW r \in Receivers, L!Ack(r) PROVE L!IInv'
  <2> DEFINE new == [recv[r] EXCEPT !.pc = "listening", !.msg = L!none]
  <2>1. /\ recv[r].pc = "acking"
        /\ UNCHANGED <<connection, dials, unsent, queue, delayed, ledger>>
    BY <1>12 DEF L!Ack
  <2>2. recv' = [recv EXCEPT ![r] = new]
    BY <1>12, <1>c DEF L!Ack, L!Receiver
  <2>3. new \in L!Receiver
    BY <1>c, <1>d, <2>1 DEF L!Receiver
  <2>4. new.pc \in {"handling", "failed", "acking"} => new.msg \in L!Copies
    BY <2>1, <1>d
  <2> HIDE DEF new
  <2> QED
    BY <2>1, <2>2, <2>3, <2>4, <1>c, <1>d, <1>e, ReceiverStep
<1>13. ASSUME NEW r \in Receivers, L!TakeQuit(r) PROVE L!IInv'
  <2> DEFINE new == [recv[r] EXCEPT !.pc = "linking"]
  <2>1. /\ recv[r].pc = "quit"
        /\ UNCHANGED <<connection, dials, unsent, queue, delayed, ledger>>
    BY <1>13, Zenon DEF L!TakeQuit
  <2>2. recv' = [recv EXCEPT ![r] = new]
    BY <1>13, <1>c, Zenon DEF L!TakeQuit, L!Receiver
  <2>3. new \in L!Receiver
    BY <1>c, <1>d, <2>1 DEF L!Receiver
  <2>4. new.pc \in {"handling", "failed", "acking"} => new.msg \in L!Copies
    BY <2>1, <1>d
  <2> HIDE DEF new
  <2> QED
    BY <2>1, <2>2, <2>3, <2>4, <1>c, <1>d, <1>e, ReceiverStep
<1>14. ASSUME NEW r \in Receivers, L!TakeLinked(r) PROVE L!IInv'
  <2> DEFINE new == [recv[r] EXCEPT !.pc = "opening", !.link = connection]
  <2>1. /\ recv[r].pc = "linked"
        /\ UNCHANGED <<connection, dials, unsent, queue, delayed, ledger>>
    BY <1>14, Zenon DEF L!TakeLinked
  <2>2. recv' = [recv EXCEPT ![r] = new]
    BY <1>14, <1>c, Zenon DEF L!TakeLinked, L!Receiver
  <2>3. new \in L!Receiver
    BY <1>c, <1>d, <2>1 DEF L!Receiver
  <2>4. new.pc \in {"handling", "failed", "acking"} => new.msg \in L!Copies
    BY <2>1, <1>d
  <2> HIDE DEF new
  <2> QED
    BY <2>1, <2>2, <2>3, <2>4, <1>c, <1>d, <1>e, ReceiverStep
<1>15. ASSUME NEW r \in Receivers, L!TakeTooMany(r) PROVE L!IInv'
  <2> DEFINE new == [recv[r] EXCEPT !.pc = "gone"]
  <2>1. /\ recv[r].pc = "tooMany"
        /\ UNCHANGED <<connection, dials, unsent, queue, delayed, ledger>>
    BY <1>15, Zenon DEF L!TakeTooMany
  <2>2. recv' = [recv EXCEPT ![r] = new]
    BY <1>15, <1>c, Zenon DEF L!TakeTooMany, L!Receiver
  <2>3. new \in L!Receiver
    BY <1>c, <1>d, <2>1 DEF L!Receiver
  <2>4. new.pc \in {"handling", "failed", "acking"} => new.msg \in L!Copies
    BY <2>1, <1>d
  <2> HIDE DEF new
  <2> QED
    BY <2>1, <2>2, <2>3, <2>4, <1>c, <1>d, <1>e, ReceiverStep
<1>7. ASSUME NEW r \in Receivers, NEW copy \in queue, L!Deliver(r, copy) PROVE L!IInv'
  <2> DEFINE new == [recv[r] EXCEPT !.pc = "handling", !.msg = copy]
  <2>1. /\ recv[r].pc = "listening"
        /\ queue' = queue \ {copy}
        /\ UNCHANGED <<connection, dials, unsent, delayed, ledger>>
    BY <1>7 DEF L!Deliver
  <2>2. recv' = [recv EXCEPT ![r] = new]
    BY <1>7, <1>c DEF L!Deliver, L!Receiver
  <2>3. new \in L!Receiver
    BY <1>c, <1>d, <2>1 DEF L!Receiver
  <2>4. new.pc \in {"handling", "failed", "acking"} => new.msg \in L!Copies
    BY <2>1, <1>d
  <2>5. new.pc = "handling" /\ new.msg = copy
    BY <1>c DEF L!Receiver
  <2> HIDE DEF new
  <2> QED
    BY <2>5, <2>1, <2>2, <2>3, <2>4, <1>c, <1>d, <1>e, ReceiverStep
<1>8. ASSUME NEW r \in Receivers, L!Open(r) PROVE L!IInv'
  <2>1. /\ recv[r].pc = "opening"
        /\ UNCHANGED <<connection, dials, unsent, queue, delayed, ledger>>
    BY <1>8 DEF L!Open
  <2>2. CASE recv[r].link = 0
    <3>1. UNCHANGED recv
      BY <1>8, <2>2 DEF L!Open
    <3> QED
      BY <3>1, <2>1, <1>a, <1>b
         DEF L!CopiesOK, L!AccountedWithoutAcking, L!InWork, L!Settled
  <2>3. CASE recv[r].link # 0
    <3> DEFINE new == [recv[r] EXCEPT !.pc = IF recv[r].link \in open THEN "listening" ELSE "quit"]
    <3>1. recv' = [recv EXCEPT ![r] = new]
      BY <1>8, <2>3, <1>c DEF L!Open
    <3>2. new \in L!Receiver /\ new.pc \in {"listening", "quit"}
      BY <1>c DEF L!Receiver
    <3> HIDE DEF new
    <3> QED
      BY <3>1, <3>2, <2>1, <1>c, <1>d, <1>e, ReceiverStep
  <2> QED
    BY <2>2, <2>3
<1>10. ASSUME NEW r \in Receivers, L!FailAction(r) PROVE L!IInv'
  <2> DEFINE new == [recv[r] EXCEPT !.pc = "acking"]
  <2>1. /\ recv[r].pc = "failed"
        /\ recv[r].msg.retry_nums >= Retries
        /\ ledger' = [ledger EXCEPT !.failed = @ \cup {recv[r].msg}]
        /\ UNCHANGED <<connection, dials, unsent, queue, delayed>>
    BY <1>10 DEF L!FailAction, L!LastRetry
  <2>2. recv' = [recv EXCEPT ![r] = new]
    BY <1>10, <1>c DEF L!FailAction, L!LastRetry, L!Receiver
  <2>3. new \in L!Receiver
    BY <1>c, <1>d, <2>1 DEF L!Receiver
  <2>4. new.pc \in {"handling", "failed", "acking"} => new.msg \in L!Copies
    BY <2>1, <1>d
  <2>5. recv[r].msg \in L!Copies /\ recv[r].msg.retry_nums = Retries
    BY <2>1, <1>0, <1>d DEF L!Copies
  <2>6. /\ ledger' \in [handled : SUBSET Bodies, failed : SUBSET L!Copies,
                        dropped : SUBSET Bodies]
        /\ ledger'.handled = ledger.handled
        /\ ledger'.failed = ledger.failed \cup {recv[r].msg}
        /\ ledger'.dropped = ledger.dropped
    BY <2>1, <2>5, <1>d
  <2>7. new.pc = "acking"
    BY <1>c DEF L!Receiver
  <2> HIDE DEF new
  <2> QED
    BY <2>5, <2>6, <2>7, <2>1, <2>2, <2>3, <2>4, <1>c, <1>d, <1>e, ReceiverStep
<1>11. ASSUME NEW r \in Receivers, L!retryMsg(r) PROVE L!IInv'
  <2> DEFINE new == [recv[r] EXCEPT !.pc = "acking"]
             copy == [body |-> recv[r].msg.body,
                      retry_nums |-> recv[r].msg.retry_nums + 1,
                      persistent |-> FALSE]
  <2>1. /\ recv[r].pc = "failed"
        /\ ~ (recv[r].msg.retry_nums >= Retries)
        /\ UNCHANGED <<connection, dials, unsent, queue>>
    BY <1>11 DEF L!retryMsg, L!LastRetry
  <2>2. recv[r].msg \in L!Copies
    BY <2>1, <1>d
  <2>3. copy \in L!Copies /\ copy.body = recv[r].msg.body
    BY <2>1, <2>2, <1>0 DEF L!Copies
  <2>4. new \in L!Receiver /\ new.pc = "acking" /\ new.msg \in L!Copies
    BY <1>c, <2>2 DEF L!Receiver
  <2>5. CASE /\ delayed' = delayed \cup {copy}
             /\ recv' = [recv EXCEPT ![r] = new]
             /\ UNCHANGED ledger
    <3> HIDE DEF new, copy
    <3> QED
      BY <2>1, <2>3, <2>4, <2>5, <1>c, <1>d, <1>e, ReceiverStep
  <2>6. CASE /\ ledger' = [ledger EXCEPT !.dropped = @ \cup {recv[r].msg.body}]
             /\ recv' = [recv EXCEPT ![r] = new]
             /\ UNCHANGED delayed
    <3>1. /\ ledger' \in [handled : SUBSET Bodies, failed : SUBSET L!Copies,
                          dropped : SUBSET Bodies]
          /\ ledger'.handled = ledger.handled
          /\ ledger'.failed = ledger.failed
          /\ ledger'.dropped = ledger.dropped \cup {recv[r].msg.body}
      BY <2>2, <2>6, <1>d DEF L!Copies
    <3> HIDE DEF new, copy
    <3> QED
      BY <3>1, <2>1, <2>4, <2>6, <1>c, <1>d, <1>e, ReceiverStep
  <2>7. CASE UNCHANGED <<recv, delayed, ledger>>
    BY <2>1, <2>7, <1>a, <1>b
       DEF L!CopiesOK, L!AccountedWithoutAcking, L!InWork, L!Settled
  <2> QED
    BY <1>11, <2>5, <2>6, <2>7 DEF L!retryMsg
<1>16. ASSUME NEW r \in Receivers, NEW ok \in BOOLEAN, L!Consumer(r, ok)
       PROVE  L!IInv'
  <2> DEFINE new == [recv[r] EXCEPT !.pc = IF ok THEN "acking" ELSE "failed"]
  <2>1. /\ recv[r].pc = "handling"
        /\ UNCHANGED <<connection, dials, unsent, queue, delayed>>
    BY <1>16 DEF L!Consumer
  <2>2. recv[r].msg \in L!Copies /\ recv[r].msg.body \in Bodies
    BY <2>1, <1>d DEF L!Copies
  <2>3. recv' = [recv EXCEPT ![r] = new]
    BY <1>16, <1>c DEF L!Consumer
  <2>4. /\ new \in L!Receiver /\ new.msg = recv[r].msg
        /\ new.pc = IF ok THEN "acking" ELSE "failed"
    BY <1>c DEF L!Receiver
  <2>5. /\ ledger' \in [handled : SUBSET Bodies, failed : SUBSET L!Copies,
                        dropped : SUBSET Bodies]
        /\ ledger'.handled = IF ok THEN ledger.handled \cup {recv[r].msg.body}
                                    ELSE ledger.handled
        /\ ledger'.failed = ledger.failed
        /\ ledger'.dropped = ledger.dropped
    BY <1>16, <2>2, <1>d DEF L!Consumer
  <2> HIDE DEF new
  <2> QED
    BY <2>1, <2>2, <2>3, <2>4, <2>5, <1>c, <1>d, <1>e, ReceiverStep
<1>17. ASSUME NEW r \in Receivers, NEW ok \in BOOLEAN, L!tryToLink(r, ok)
       PROVE  L!IInv'
  <2> PICK p \in {"linked", "tooMany", "linking"} :
             recv' = [recv EXCEPT ![r].pc = p]
    BY <1>17 DEF L!tryToLink
  <2> DEFINE new == [recv[r] EXCEPT !.pc = p]
  <2>1. /\ recv[r].pc = "linking"
        /\ connection' \in Nat /\ dials' \in Nat
        /\ UNCHANGED <<unsent, queue, delayed, ledger>>
    BY <1>17, <1>c DEF L!tryToLink
  <2>2. recv' = [recv EXCEPT ![r] = new]
    BY <1>c
  <2>3. new \in L!Receiver /\ new.pc = p
    BY <1>c DEF L!Receiver
  <2> HIDE DEF new
  <2> QED
    BY <2>1, <2>2, <2>3, <1>c, <1>d, <1>e, ReceiverStep
<1>18. CASE UNCHANGED L!vars
  <2>1. UNCHANGED <<connection, dials, recv, unsent, queue, delayed, ledger>>
    BY <1>18, Zenon DEF L!vars
  <2> QED
    BY <2>1, <1>a, <1>b DEF L!CopiesOK, L!AccountedWithoutAcking, L!InWork, L!Settled
<1>19. ASSUME NEW r \in Receivers, L!Step(r) PROVE L!IInv'
  BY <1>19, <1>8, <1>9, <1>10, <1>11, <1>12, <1>13, <1>14, <1>15, <1>16, <1>17,
     Zenon DEF L!Step
<1> QED
  BY <1>1, <1>2, <1>3, <1>4, <1>5, <1>6, <1>7, <1>18, <1>19, Zenon DEF L!Next

(* What is still worked on is held.                                        *)
LEMMA AccountedNow == L!IInv => L!Accounted
<1> SUFFICES ASSUME L!IInv PROVE L!Accounted
  OBVIOUS
<1>1. ASSUME NEW b \in Bodies
      PROVE  \/ b \in unsent
             \/ \E copy \in queue \cup delayed \cup L!Held(Receivers) : copy.body = b
             \/ b \in ledger.handled \cup ledger.dropped
             \/ \E copy \in ledger.failed : copy.body = b
  <2>1. ASSUME NEW r \in Receivers, recv[r].pc \in {"handling", "failed"}
        PROVE  recv[r].msg \in L!Held(Receivers)
    BY <2>1 DEF L!Held
  <2> QED
    BY <2>1 DEF L!IInv, L!AccountedWithoutAcking, L!InWork, L!Settled
<1>2. \A copy \in ledger.failed : copy.retry_nums = Retries
  BY DEF L!IInv, L!AccountedWithoutAcking
<1>3. L!DroppedForReason
  BY DEF L!IInv
<1> QED
  BY <1>1, <1>2, <1>3 DEF L!Accounted, L!DroppedForReason

(* However often consumers restart, partitions move, links drop and        *)
(* messages are tried again, in the three other clients no message is      *)
(* passed over and no subscription goes without its callback.              *)
THEOREM OtherClientsSoundAlways ==
  L!Spec /\ K!Spec /\ M!Spec => []OtherClientsSound
<1>1. L!Init => L!IInv
  BY InitLegacy
<1>2. L!IInv /\ [L!Next]_L!vars => L!IInv'
  BY NextLegacy
<1>3. L!IInv => L!Accounted
  BY AccountedNow
<1>4. K!IInv => K!AtLeastOnce
  BY DEF K!IInv
<1>5. M!IInv => M!SessionFollowsCallbacks
  BY DEF M!IInv
<1> QED
  BY <1>1, <1>2, <1>3, <1>4, <1>5, InitKafka, NextKafka, InitMqtt, NextMqtt, PTL
     DEF L!Spec, K!Spec, M!Spec, OtherClientsSound
=============================================================================
