------------------------------ MODULE LegacyMq ----------------------------
(***************************************************************************)
(* The older RabbitMQ interface, mq/index.go: ReceiveMsg supervises        *)
(* runNums goroutines of Recv2 over one shared object, redials when one of *)
(* them ends, and retries a message by publishing it again.                *)
(*                                                                         *)
(* A receiver is one turn of the wheel Recv2 -> taskQuit -> tryToLink ->   *)
(* tryToLinkC -> Recv2; the channels between them hold its token.          *)
(***************************************************************************)
EXTENDS Naturals, FiniteSets

CONSTANTS
  Receivers,       \* the runNums goroutines
  Bodies,          \* the messages sent
  maxTryConnNums,  \* 6 for each minute of ReceiveMsg's last parameter
  Retries,         \* the 3 of listenReceiver
  Routed,          \* the queue is reached by the dead-letter address
  MaxDials,        \* bound: links made by ReceiveMsg
  MaxFaults        \* bound: broker restarts and channel errors

VARIABLES
  broker,      \* is it up, and how many faults so far
  alive,       \* links of ReceiveMsg that are open
  connection,  \* RabbitMQ.connection of ReceiveMsg's mq; 0 is nil
  dials,       \* links made
  maxTryNums,  \* attempts of tryToLink, never reset
  recv,        \* per receiver: pc, the link it copied, the message it holds
  ended,       \* ReceiveMsg: "" while it runs, then how it ended
  unsent,      \* messages whose Send has not succeeded
  queue,       \* the queue: messages with their retry_nums, persistent or not
  delayed,     \* the queue <name>_retry_3
  ledger       \* history: what became of messages

loop == <<connection, dials, maxTryNums, ended>>

mail == <<unsent, queue, delayed, ledger>>

vars == <<broker, alive, loop, recv, mail>>

none == [body |-> 0, retry_nums |-> 0, persistent |-> FALSE]

TypeOK ==
  /\ broker \in [up : BOOLEAN, faults : 0 .. MaxFaults]
  /\ alive \subseteq 1 .. MaxDials
  /\ connection \in 0 .. MaxDials
  /\ dials \in 0 .. MaxDials
  /\ maxTryNums \in 0 .. MaxDials + maxTryConnNums + Cardinality(Receivers)
  /\ \A r \in Receivers :
       recv[r].pc \in {"opening", "listening", "handling", "failed", "acking",
                       "quit", "linking", "linked", "tooMany", "gone"}
  /\ ended \in {"", "tooMany", "crash"}
  /\ \A copy \in queue \cup delayed : copy.retry_nums \in 0 .. Retries

Init ==
  /\ broker = [up |-> TRUE, faults |-> 0]
  /\ alive = {1}
  /\ connection = 1
  /\ dials = 1
  /\ maxTryNums = 0
  /\ recv = [r \in Receivers |-> [pc |-> "opening", link |-> 1, msg |-> none]]
  /\ ended = ""
  /\ unsent = Bodies
  /\ queue = {}
  /\ delayed = {}
  /\ ledger = [handled |-> {}, failed |-> {}, dropped |-> {}]

Running == ended # "crash"

Goto(r, pc) == recv' = [recv EXCEPT ![r].pc = pc]

-----------------------------------------------------------------------------
(* The broker: it restarts and closes every link, or closes one channel;   *)
(* what was delivered and not acknowledged goes back to the queue.  The    *)
(* queues are durable and survive it, but of the messages only those that  *)
(* were published with DeliveryMode 2, which is what SendMsg does.         *)
Held(rs) == {recv[r].msg : r \in {q \in rs :
               recv[q].pc \in {"handling", "failed", "acking"}}}

Restart ==
  /\ broker.up
  /\ broker.faults < MaxFaults
  /\ broker' = [up |-> FALSE, faults |-> broker.faults + 1]
  /\ alive' = {}
  /\ LET back == queue \cup Held({r \in Receivers : recv[r].link \in alive})
     IN queue' = {copy \in back : copy.persistent}
  /\ delayed' = {copy \in delayed : copy.persistent}
  /\ ledger' = [ledger EXCEPT !.dropped =
                  @ \cup {copy.body : copy \in {c \in queue \cup delayed : ~ c.persistent}}]
  /\ UNCHANGED <<loop, recv, unsent>>

Up ==
  /\ ~broker.up
  /\ broker' = [broker EXCEPT !.up = TRUE]
  /\ UNCHANGED <<alive, loop, recv, mail>>

ChannelError(r) ==
  /\ Running
  /\ broker.faults < MaxFaults
  /\ recv[r].pc = "listening"
  /\ recv[r].link \in alive
  /\ broker' = [broker EXCEPT !.faults = @ + 1]
  /\ Goto(r, "quit")
  /\ UNCHANGED <<alive, loop, mail>>

(* A message of the retry queue expires and is dead-lettered; without a    *)
(* routing key no binding takes it from a named exchange back to the queue.*)
Expire(copy) ==
  /\ broker.up
  /\ copy \in delayed
  /\ delayed' = delayed \ {copy}
  /\ IF Routed
     THEN /\ queue' = queue \cup {copy}
          /\ UNCHANGED ledger
     ELSE /\ ledger' = [ledger EXCEPT !.dropped = @ \cup {copy.body}]
          /\ UNCHANGED queue
  /\ UNCHANGED <<broker, alive, loop, recv, unsent>>

(* Send, from any process: a link of its own, the queue declared, the      *)
(* message published; every error is returned.                             *)
Send(b) ==
  /\ broker.up
  /\ b \in unsent
  /\ unsent' = unsent \ {b}
  /\ queue' = queue \cup {[body |-> b, retry_nums |-> 0, persistent |-> TRUE]}
  /\ UNCHANGED <<broker, alive, loop, recv, delayed, ledger>>

(* SendDelayMsg: by way of the queue <name>_delay_<ttl>, transient.        *)
SendDelayMsg(b) ==
  /\ broker.up
  /\ b \in unsent
  /\ unsent' = unsent \ {b}
  /\ delayed' = delayed \cup {[body |-> b, retry_nums |-> 0, persistent |-> FALSE]}
  /\ UNCHANGED <<broker, alive, loop, recv, queue, ledger>>

-----------------------------------------------------------------------------
(* Recv2 and listenReceiver.  A channel of the nil connection panics, and  *)
(* nothing recovers in this goroutine.                                     *)
Open(r) ==
  /\ Running
  /\ recv[r].pc = "opening"
  /\ IF recv[r].link = 0
     THEN /\ ended' = "crash"
          /\ UNCHANGED recv
     ELSE /\ Goto(r, IF recv[r].link \in alive THEN "listening" ELSE "quit")
          /\ UNCHANGED ended
  /\ UNCHANGED <<broker, alive, connection, dials, maxTryNums, mail>>

Deliver(r, copy) ==
  /\ Running
  /\ recv[r].pc = "listening"
  /\ recv[r].link \in alive
  /\ copy \in queue
  /\ queue' = queue \ {copy}
  /\ recv' = [recv EXCEPT ![r].pc = "handling", ![r].msg = copy]
  /\ UNCHANGED <<broker, alive, loop, unsent, delayed, ledger>>

(* The range over msgList ends when the link is lost.                      *)
Quit(r) ==
  /\ Running
  /\ recv[r].pc = "listening"
  /\ recv[r].link \notin alive
  /\ Goto(r, "quit")
  /\ UNCHANGED <<broker, alive, loop, mail>>

Consumer(r, ok) ==
  /\ Running
  /\ recv[r].pc = "handling"
  /\ Goto(r, IF ok THEN "acking" ELSE "failed")
  /\ ledger' = IF ok
               THEN [ledger EXCEPT !.handled = @ \cup {recv[r].msg.body}]
               ELSE ledger
  /\ UNCHANGED <<broker, alive, loop, unsent, queue, delayed>>

(* Mutant: the attempt that failed is counted with the retries.            *)
LastRetrySoon(copy) == copy.retry_nums + 1 >= Retries

LastRetry(copy) == copy.retry_nums >= Retries

(* The last failure is reported, never published again.                    *)
FailAction(r) ==
  /\ Running
  /\ recv[r].pc = "failed"
  /\ LastRetry(recv[r].msg)
  /\ ledger' = [ledger EXCEPT !.failed = @ \cup {recv[r].msg}]
  /\ Goto(r, "acking")
  /\ UNCHANGED <<broker, alive, loop, unsent, queue, delayed>>

(* retryMsg and SendRetryMsg on a link of their own.  The dial may fail,   *)
(* and then the nil connection is used; every later error is dropped.      *)
retryMsg(r) ==
  /\ Running
  /\ recv[r].pc = "failed"
  /\ ~LastRetry(recv[r].msg)
  /\ \/ /\ broker.up
        /\ delayed' = delayed \cup {[body |-> recv[r].msg.body,
                                       retry_nums |-> recv[r].msg.retry_nums + 1,
                                       persistent |-> FALSE]}
        /\ Goto(r, "acking")
        /\ UNCHANGED <<ledger, ended>>
     \/ /\ broker.faults > 0
        /\ Goto(r, "acking")
        /\ ledger' = [ledger EXCEPT !.dropped = @ \cup {recv[r].msg.body}]
        /\ UNCHANGED <<delayed, ended>>
     \/ /\ ~broker.up
        /\ ended' = "crash"
        /\ UNCHANGED <<recv, delayed, ledger>>
  /\ UNCHANGED <<broker, alive, connection, dials, maxTryNums,
                 unsent, queue>>

(* Ack is lost with the link: the broker has taken the message back.       *)
Ack(r) ==
  /\ Running
  /\ recv[r].pc = "acking"
  /\ recv' = [recv EXCEPT ![r].pc = "listening", ![r].msg = none]
  /\ UNCHANGED <<broker, alive, loop, mail>>

-----------------------------------------------------------------------------
(* The loop of ReceiveMsg and tryToLink.                                   *)
TakeQuit(r) ==
  /\ ended = ""
  /\ recv[r].pc = "quit"
  /\ Goto(r, "linking")
  /\ UNCHANGED <<broker, alive, loop, mail>>

(* Mutant: a link made gives the later outages all attempts back, but a    *)
(* failed one is never counted.                                            *)
TriesOfLinksOnly(ok) == IF ok THEN 0 ELSE maxTryNums

Tries(ok) == maxTryNums + 1

(* One turn of tryToLink; goroutines of several receivers share the        *)
(* connection and the counter.  A failed dial leaves the connection nil.   *)
tryToLink(r, ok) ==
  /\ Running
  /\ recv[r].pc = "linking"
  /\ ok => broker.up /\ dials < MaxDials
  /\ ~ok => ~broker.up
  /\ maxTryNums' = Tries(ok)
  /\ IF ok
     THEN /\ dials' = dials + 1
          /\ connection' = dials + 1
          /\ alive' = alive \cup {dials + 1}
          /\ Goto(r, "linked")
     ELSE /\ connection' = 0
          /\ Goto(r, IF Tries(ok) > maxTryConnNums THEN "tooMany" ELSE "linking")
          /\ UNCHANGED <<dials, alive>>
  /\ UNCHANGED <<broker, ended, mail>>

(* go Recv2(mq, ...) copies the object as it is now.                       *)
TakeLinked(r) ==
  /\ ended = ""
  /\ recv[r].pc = "linked"
  /\ recv' = [recv EXCEPT ![r].pc = "opening", ![r].link = connection]
  /\ UNCHANGED <<broker, alive, loop, mail>>

TakeTooMany(r) ==
  /\ ended = ""
  /\ recv[r].pc = "tooMany"
  /\ ended' = "tooMany"
  /\ Goto(r, "gone")
  /\ UNCHANGED <<broker, alive, connection, dials, maxTryNums, mail>>

-----------------------------------------------------------------------------
Step(r) ==
  \/ Open(r) \/ Quit(r) \/ FailAction(r) \/ retryMsg(r) \/ Ack(r)
  \/ TakeQuit(r) \/ TakeLinked(r) \/ TakeTooMany(r)
  \/ \E ok \in BOOLEAN : Consumer(r, ok) \/ tryToLink(r, ok)

Next ==
  \/ Restart
  \/ Up
  \/ \E b \in Bodies : Send(b) \/ SendDelayMsg(b)
  \/ \E copy \in delayed : Expire(copy)
  \/ \E r \in Receivers :
       \/ ChannelError(r)
       \/ \E copy \in queue : Deliver(r, copy)
       \/ Step(r)

Spec == Init /\ [][Next]_vars

(* Goroutines are scheduled; nothing is assumed of the broker.             *)
Fairness == \A r \in Receivers : WF_vars(Step(r))

FairSpec == Spec /\ Fairness

-----------------------------------------------------------------------------
(* Properties.                                                             *)

(* A message is nowhere only when it was handled, reported to FailAction   *)
(* after its Retries, or dropped: for want of a way back from the retry    *)
(* queue, or with a fault, which takes the messages that were delayed or   *)
(* tried again and not yet acknowledged, and one whose retry fails.  Links *)
(* and receivers may come and go at any moment.                            *)
Accounted ==
  /\ \A b \in Bodies :
       \/ b \in unsent
       \/ \E copy \in queue \cup delayed \cup Held(Receivers) : copy.body = b
       \/ b \in ledger.handled \cup ledger.dropped
       \/ \E copy \in ledger.failed : copy.body = b
  /\ \A copy \in ledger.failed : copy.retry_nums = Retries
  /\ ledger.dropped # {} => broker.faults > 0 \/ ~ Routed

(* A receiver whose link is lost listens again, or ReceiveMsg ends, or it  *)
(* meets the bound on links; the broker may stay down for ever.            *)
ReceiverComesBack ==
  \A r \in Receivers :
    recv[r].pc = "quit" ~>
      \/ recv[r].pc = "listening" \/ ended # ""
      \/ recv[r].pc = "linking" /\ dials = MaxDials
-----------------------------------------------------------------------------
(* What Accounted rests on.  A message that is being acknowledged does not *)
(* need its receiver any more: it was handled, reported, dropped or sent   *)
(* again before, and that copy is accounted for in its turn.               *)
LegacyMqAssumption == Retries \in Nat

Copies == [body : Bodies, retry_nums : 0 .. Retries, persistent : BOOLEAN]

Receiver ==
  [pc : {"opening", "listening", "handling", "failed", "acking", "quit",
         "linking", "linked", "tooMany", "gone"},
   link : Nat,
   msg : Copies \cup {none}]

CopiesOK ==
  /\ queue \subseteq Copies
  /\ delayed \subseteq Copies
  /\ recv \in [Receivers -> Receiver]
  /\ \A r \in Receivers :
       recv[r].pc \in {"handling", "failed", "acking"} => recv[r].msg \in Copies
  /\ connection \in Nat
  /\ dials \in Nat
  /\ ledger \in [handled : SUBSET Bodies, failed : SUBSET Copies,
                 dropped : SUBSET Bodies]

InWork(b) ==
  \E r \in Receivers : /\ recv[r].pc \in {"handling", "failed"}
                       /\ recv[r].msg.body = b

Settled(b) ==
  \/ b \in ledger.handled \cup ledger.dropped
  \/ \E copy \in ledger.failed : copy.body = b

DroppedForReason ==
  /\ broker \in [up : BOOLEAN, faults : Nat]
  /\ ledger.dropped # {} => broker.faults > 0 \/ ~ Routed

AccountedWithoutAcking ==
  /\ \A b \in Bodies :
       \/ b \in unsent
       \/ \E copy \in queue \cup delayed : copy.body = b
       \/ InWork(b)
       \/ Settled(b)
  /\ \A copy \in ledger.failed : copy.retry_nums = Retries

IInv == CopiesOK /\ AccountedWithoutAcking /\ DroppedForReason
=============================================================================
