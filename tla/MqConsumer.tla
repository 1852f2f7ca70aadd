----------------------------- MODULE MqConsumer -----------------------------
(***************************************************************************)
(* How a message travels between Producer and Consumer of framework/mq     *)
(* (producer.go, consumer.go): published, delivered, handled, sent to the  *)
(* retry queue, given up and acknowledged.                                 *)
(*                                                                         *)
(* The broker is RabbitMQ as this code uses it: declaring a queue that     *)
(* exists with other arguments fails, a delivery that is not acknowledged  *)
(* when its link ends goes back to its queue, and a dead letter whose      *)
(* routing key leads nowhere is discarded.  A Connection whose link has    *)
(* ended stays without one (MqConnection) until the process starts anew.   *)
(* The order of messages is left out: a queue is a bag.                    *)
(***************************************************************************)
EXTENDS Naturals, FiniteSets, Bags, FiniteSetTheorems, TLAPS

LOCAL INSTANCE BagsExt

CONSTANTS
  Messages,       \* messages, each published at most once
  Consumers,      \* consumers of the queue, each with a Connection of its own
  MaxRetries,     \* WithConsumerMaxRetries
  QueueExchanges, \* the addresses Init chooses from: is ExName set, and which
                  \* key is RtKey: "none", "queue" (= QuName) or "other"
  Faults,         \* which of "panic" and "drop" may happen
  MaxDrops        \* bound: links that end

MqConsumerAssumption ==
  /\ MaxRetries \in Nat
  /\ QueueExchanges \subseteq [ExName : BOOLEAN, RtKey : {"none", "queue", "other"}]
  /\ Faults \subseteq {"panic", "drop"}
  /\ MaxDrops \in Nat

VARIABLES
  queueExchange, \* the address of the queue; never changes
  main,        \* the queue QuName
  retry,       \* the queue QuName_retry_3
  delay,       \* the queue of PublishDelay
  retryQueue,  \* how the retry queue is declared
  consumer,    \* where each consumer stands and the delivery it works on
  unacked,     \* consumers whose delivery the broker waits to be acknowledged
  up,          \* consumers whose link is alive
  drops,       \* links that have ended
  published,   \* messages that have been published
  attempts,    \* history: handler calls that failed, per message
  done,        \* history: handler calls that succeeded
  failed,      \* history: calls of FailAction
  panicked,    \* history: handler calls that panicked
  lost,        \* history: copies of a message that vanished unhandled
  strayed,     \* history: those of them that dead-lettering sent nowhere
  again        \* history: copies the broker kept of a delivery handled already

broker == <<queueExchange, main, retry, delay, retryQueue>>

history == <<attempts, done, failed, panicked, lost, strayed, again>>

vars == <<broker, consumer, unacked, up, drops, published, history>>

Delivery == [msg : Messages, retries : 0..MaxRetries]

NoDelivery == [msg |-> "none", retries |-> 0]

Steps == {"handle", "declare", "declareTTL", "publish", "ack"}

(* The delivery has not been decided on yet.                               *)
Unsettled == {"handle", "declare", "declareTTL", "publish"}

TypeOK ==
  /\ \A q \in {main, retry, delay} : IsABag(q) /\ BagToSet(q) \subseteq Delivery
  /\ queueExchange \in QueueExchanges
  /\ retryQueue \in {"absent", "plain", "ttl"}
  /\ consumer \in [Consumers -> [pc : Steps \cup {"idle"},
                                 task : Delivery \cup {NoDelivery}]]
  /\ \A c \in Consumers :
       consumer[c].pc \in Steps => consumer[c].task \in Delivery
  /\ unacked \subseteq up
  /\ up \subseteq Consumers
  /\ drops \in Nat
  /\ published \subseteq Messages
  /\ attempts \in [Messages -> Nat]
  /\ done \in [Messages -> Nat]
  /\ failed \in [Messages -> Nat]
  /\ panicked \in [Messages -> Nat]
  /\ lost \in [Messages -> Nat]
  /\ strayed \in [Messages -> Nat]
  /\ again \in [Messages -> Nat]

Zero == [m \in Messages |-> 0]

Plus(f, m) == [f EXCEPT ![m] = @ + 1]

(* The retry queue may be there already, as an earlier run left it.        *)
Init ==
  /\ queueExchange \in QueueExchanges
  /\ main = EmptyBag
  /\ retry = EmptyBag
  /\ delay = EmptyBag
  /\ retryQueue \in {"absent", "ttl"}
  /\ consumer = [c \in Consumers |-> [pc |-> "idle", task |-> NoDelivery]]
  /\ unacked = {}
  /\ up = Consumers
  /\ drops = 0
  /\ published = {}
  /\ attempts = Zero
  /\ done = Zero
  /\ failed = Zero
  /\ panicked = Zero
  /\ lost = Zero
  /\ strayed = Zero
  /\ again = Zero

-----------------------------------------------------------------------------
(* Producer.                                                               *)

First(m) == [msg |-> m, retries |-> 0]

(* By its key through the exchange, or by name: either leads to QuName.    *)
Publish(m) ==
  /\ m \notin published
  /\ published' = published \cup {m}
  /\ main' = BagAdd(main, First(m))
  /\ UNCHANGED <<queueExchange, retry, delay, retryQueue, consumer, unacked,
                 up, drops, history>>

PublishDelay(m) ==
  /\ m \notin published
  /\ published' = published \cup {m}
  /\ delay' = BagAdd(delay, First(m))
  /\ UNCHANGED <<queueExchange, main, retry, retryQueue, consumer, unacked, up,
                 drops, history>>

(* Where the dead-letter arguments of the delay queue lead: through the    *)
(* exchange only by a key that is bound, without one by the queue's name.  *)
DelayReturns ==
  IF queueExchange.ExName THEN queueExchange.RtKey # "none"
  ELSE queueExchange.RtKey = "queue"

DelayExpires(d) ==
  /\ d \in BagToSet(delay)
  /\ delay' = BagRemove(delay, d)
  /\ IF DelayReturns
     THEN main' = BagAdd(main, d) /\ UNCHANGED <<lost, strayed>>
     ELSE /\ lost' = Plus(lost, d.msg)
          /\ strayed' = Plus(strayed, d.msg)
          /\ UNCHANGED main
  /\ UNCHANGED <<queueExchange, retry, retryQueue, consumer, unacked, up,
                 drops, published, attempts, done, failed, panicked, again>>

(* Mutant: the retry queue is declared without x-message-ttl.              *)
RetryExpiresNever(d) == FALSE

(* retryMessage names the queue itself as the way back.  Nothing gets here *)
(* with a named exchange, where it might not be bound: see DeclareRetry.   *)
RetryExpires(d) ==
  /\ d \in BagToSet(retry)
  /\ retry' = BagRemove(retry, d)
  /\ main' = BagAdd(main, d)
  /\ UNCHANGED <<queueExchange, delay, retryQueue, consumer, unacked, up,
                 drops, published, history>>

-----------------------------------------------------------------------------
(* Consumer.process.                                                       *)

At(c, pc) == consumer[c].pc = pc

Task(c) == consumer[c].task

GoTo(c, pc) == consumer' = [consumer EXCEPT ![c].pc = pc]

(* Mutant: Consume is called with autoAck.                                 *)
AwaitingAckNever(c) == unacked

AwaitingAck(c) == unacked \cup {c}

Deliver(c, d) ==
  /\ At(c, "idle")
  /\ c \in up
  /\ d \in BagToSet(main)
  /\ main' = BagRemove(main, d)
  /\ consumer' = [consumer EXCEPT ![c] = [pc |-> "handle", task |-> d]]
  /\ unacked' = AwaitingAck(c)
  /\ UNCHANGED <<queueExchange, retry, delay, retryQueue, up, drops, published,
                 history>>

(* A delivery is decided on although the broker has taken it back.         *)
AlsoTakenBack(c) == IF c \in unacked THEN again ELSE Plus(again, Task(c).msg)

HandlerSucceeds(c) ==
  /\ At(c, "handle")
  /\ GoTo(c, "ack")
  /\ done' = Plus(done, Task(c).msg)
  /\ again' = AlsoTakenBack(c)
  /\ UNCHANGED <<broker, unacked, up, drops, published, attempts, failed,
                 panicked, lost, strayed>>

(* The panic is logged and the delivery acknowledged, not retried.         *)
HandlerPanics(c) ==
  /\ "panic" \in Faults
  /\ At(c, "handle")
  /\ GoTo(c, "ack")
  /\ panicked' = Plus(panicked, Task(c).msg)
  /\ again' = AlsoTakenBack(c)
  /\ UNCHANGED <<broker, unacked, up, drops, published, attempts, done, failed,
                 lost, strayed>>

(* Mutant: PublishRetry declares the plain queue without an exchange, too. *)
DeclaresPlainAlways == TRUE

DeclaresPlain == queueExchange.ExName

(* Mutant: the limit itself is retried once more.                          *)
MayRetryOffByOne(r) == r <= MaxRetries

MayRetry(r) == r < MaxRetries

HandlerFails(c) ==
  /\ At(c, "handle")
  /\ attempts' = Plus(attempts, Task(c).msg)
  /\ IF MayRetry(Task(c).retries)
     THEN /\ GoTo(c, IF DeclaresPlain THEN "declare" ELSE "declareTTL")
          /\ UNCHANGED <<failed, again>>
     ELSE /\ GoTo(c, "ack")
          /\ failed' = Plus(failed, Task(c).msg)
          /\ again' = AlsoTakenBack(c)
  /\ UNCHANGED <<broker, unacked, up, drops, published, done, panicked, lost, strayed>>

(* PublishRetry returned an error: it is logged and the delivery is        *)
(* acknowledged all the same.  The message is gone unless the broker took  *)
(* the delivery back.                                                      *)
RetryFailed(c) ==
  /\ GoTo(c, "ack")
  /\ lost' = IF c \in unacked THEN Plus(lost, Task(c).msg) ELSE lost

(* declareQueueComponents with the name of the retry queue.                *)
DeclareRetry(c) ==
  /\ At(c, "declare")
  /\ IF c \in up /\ retryQueue # "ttl"
     THEN /\ retryQueue' = "plain"
          /\ GoTo(c, "declareTTL")
          /\ UNCHANGED lost
     ELSE RetryFailed(c) /\ UNCHANGED retryQueue
  /\ UNCHANGED <<queueExchange, main, retry, delay, unacked, up, drops,
                 published, attempts, done, failed, panicked, strayed,
                 again>>

DeclareRetryTTL(c) ==
  /\ At(c, "declareTTL")
  /\ IF c \in up /\ retryQueue # "plain"
     THEN /\ retryQueue' = "ttl"
          /\ GoTo(c, "publish")
          /\ UNCHANGED lost
     ELSE RetryFailed(c) /\ UNCHANGED retryQueue
  /\ UNCHANGED <<queueExchange, main, retry, delay, unacked, up, drops,
                 published, attempts, done, failed, panicked, strayed,
                 again>>

(* Mutant: retryMessage and PublishRetry both count the retry.             *)
NextRetryTwice(r) == IF r + 2 > MaxRetries THEN MaxRetries ELSE r + 2

NextRetry(r) == r + 1

PublishRetry(c) ==
  /\ At(c, "publish")
  /\ IF c \in up
     THEN /\ retry' = BagAdd(retry, [msg |-> Task(c).msg,
                                     retries |-> NextRetry(Task(c).retries)])
          /\ GoTo(c, "ack")
          /\ UNCHANGED lost
     ELSE RetryFailed(c) /\ UNCHANGED retry
  /\ UNCHANGED <<queueExchange, main, delay, retryQueue, unacked, up, drops,
                 published, attempts, done, failed, panicked, strayed,
                 again>>

(* message.Ack; on a link that has ended it is an error that is ignored.   *)
Ack(c) ==
  /\ At(c, "ack")
  /\ consumer' = [consumer EXCEPT ![c] = [pc |-> "idle", task |-> NoDelivery]]
  /\ unacked' = unacked \ {c}
  /\ UNCHANGED <<broker, up, drops, published, history>>

-----------------------------------------------------------------------------
(* The link of a consumer ends: the broker takes the delivery back, the    *)
(* process goes on with it.                                                *)
Drop(c) ==
  /\ "drop" \in Faults
  /\ drops < MaxDrops
  /\ c \in up
  /\ drops' = drops + 1
  /\ up' = up \ {c}
  /\ unacked' = unacked \ {c}
  /\ main' = IF c \in unacked THEN BagAdd(main, Task(c)) ELSE main
  /\ again' = IF c \in unacked /\ consumer[c].pc \notin Unsettled
              THEN Plus(again, Task(c).msg) ELSE again
  /\ UNCHANGED <<queueExchange, retry, delay, retryQueue, consumer, published,
                 attempts, done, failed, panicked, lost, strayed>>

(* The process of a consumer without a link is started anew.               *)
Restart(c) ==
  /\ c \notin up
  /\ up' = up \cup {c}
  /\ consumer' = [consumer EXCEPT ![c] = [pc |-> "idle", task |-> NoDelivery]]
  /\ UNCHANGED <<broker, unacked, drops, published, history>>

-----------------------------------------------------------------------------
Process(c) ==
  \/ \E d \in BagToSet(main) : Deliver(c, d)
  \/ HandlerSucceeds(c)
  \/ HandlerPanics(c)
  \/ HandlerFails(c)
  \/ DeclareRetry(c)
  \/ DeclareRetryTTL(c)
  \/ PublishRetry(c)
  \/ Ack(c)

Next ==
  \/ \E m \in Messages : Publish(m) \/ PublishDelay(m)
  \/ \E d \in BagToSet(delay) : DelayExpires(d)
  \/ \E d \in BagToSet(retry) : RetryExpires(d)
  \/ \E c \in Consumers : Process(c) \/ Drop(c) \/ Restart(c)

Spec == Init /\ [][Next]_vars

(* Consumers are scheduled, handlers return and messages expire; nobody    *)
(* need start a process again that has lost its link.                      *)
Fairness ==
  /\ \A c \in Consumers : WF_vars(Process(c))
  /\ \A d \in Delivery : WF_vars(DelayExpires(d)) /\ WF_vars(RetryExpires(d))

FairSpec == Spec /\ Fairness

-----------------------------------------------------------------------------
(* Properties.                                                             *)

(* The deliveries of m in a queue, those that are equal numbered.          *)
Copies(bag, m) ==
  UNION {{d} \X (1..bag[d]) : d \in {e \in BagToSet(bag) : e.msg = m}}

CountOf(bag, m) == Cardinality(Copies(bag, m))

(* The consumers u, as h has them, that work on m at these steps.          *)
Holding(h, u, steps, m) ==
  {c \in u : h[c].pc \in steps /\ h[c].task.msg = m}

InHand(m) == Cardinality(Holding(consumer, unacked, Unsettled, m))

(* Copies of m that will still be handled.                                 *)
Waiting(m) ==
  CountOf(main, m) + CountOf(retry, m) + CountOf(delay, m) + InHand(m)

(* The copies a retry made and then had its delivery taken back are the    *)
(* only ones beside the message itself; each copy is waiting, handled to   *)
(* the end, or lost.                                                       *)
MessageLedger ==
  \A m \in Messages :
    Waiting(m) + done[m] + failed[m] + panicked[m] + lost[m]
      = (IF m \in published THEN 1 ELSE 0) + again[m]

(* FailAction is called only after MaxRetries + 1 failed attempts, however *)
(* often the message was taken back and delivered to someone else.         *)
GivenUpAfterAllRetries ==
  \A m \in Messages : failed[m] > 0 => attempts[m] >= MaxRetries + 1

(* A copy is lost in one of two ways only.  An expiring delay sends it     *)
(* nowhere, which is where its dead letter carries a key that is not bound *)
(* or, without an exchange, is not the name of the queue.  Or a failing    *)
(* handler does, which is where an exchange is named, so that the retry    *)
(* queue is declared once by name and once with its arguments, and no      *)
(* oftener than the handler has failed.                                    *)
LostOnTheWayBack ==
  \A m \in Messages :
    /\ strayed[m] > 0 => ~ DelayReturns
    /\ lost[m] > strayed[m] => queueExchange.ExName
    /\ lost[m] <= strayed[m] + attempts[m]

(* No message is lost, given up early or passed over but where the model   *)
(* says so.                                                                *)
MessagesKept == MessageLedger /\ GivenUpAfterAllRetries /\ LostOnTheWayBack

(* While one consumer has its link, every published message is handled,    *)
(* given up or dropped with a panic: it does not go round for ever,        *)
(* however often its delivery is taken back.  A consumer that has lost its *)
(* link waits for a reconnection that does not come (MqConnection).        *)
EventuallyHandled ==
  <>[](up # {}) => \A m \in Messages : (m \in published) ~> (Waiting(m) = 0)

-----------------------------------------------------------------------------
(* What the documentation says and the code does not do.                   *)

(* A message whose handler failed enters the retry queue and comes back:   *)
(* none disappears.                                                        *)
NothingLost == \A m \in Messages : lost[m] = 0

-----------------------------------------------------------------------------
(* Proofs, for any messages, consumers, number of retries and faults.      *)

(* A delivery is awaited as long as its consumer has its link.             *)
HandsAwaited ==
  \A c \in Consumers : c \in unacked <=> c \in up /\ consumer[c].pc \in Steps

(* The retry queue is declared by its name only with a named exchange.     *)
PlainOnlyNamed ==
  /\ retryQueue = "plain" => queueExchange.ExName
  /\ \A c \in Consumers : At(c, "declare") => queueExchange.ExName

(* A queue of deliveries, in each of which every retry that it has counted *)
(* is a failed attempt at its message.                                     *)
QueueOK(bag) == IsABag(bag) /\ BagToSet(bag) \subseteq Delivery

Backed(bag, count) == \A d \in BagToSet(bag) : d.retries <= count[d.msg]

(* The queues, the links, the consumers and the counters, in turn.         *)
QueuesInv ==
  /\ QueueOK(main) /\ QueueOK(retry) /\ QueueOK(delay)
  /\ Backed(main, attempts) /\ Backed(retry, attempts) /\ Backed(delay, attempts)

ConsumersInv ==
  /\ consumer \in [Consumers -> [pc : Steps \cup {"idle"},
                                 task : Delivery \cup {NoDelivery}]]
  /\ \A c \in Consumers :
       consumer[c].pc \in Steps => consumer[c].task \in Delivery
  /\ unacked \subseteq up
  /\ up \subseteq Consumers
  /\ HandsAwaited

(* The delivery that is being sent on has one failed attempt more.         *)
Redeclaring == {"declare", "declareTTL", "publish"}

TasksBacked ==
  \A c \in Consumers :
    /\ consumer[c].pc \in Steps => Task(c).retries <= attempts[Task(c).msg]
    /\ consumer[c].pc \in Redeclaring =>
         Task(c).retries < MaxRetries /\ Task(c).retries < attempts[Task(c).msg]

CountersInv ==
  /\ drops \in Nat
  /\ published \subseteq Messages
  /\ attempts \in [Messages -> Nat]
  /\ done \in [Messages -> Nat]
  /\ failed \in [Messages -> Nat]
  /\ panicked \in [Messages -> Nat]
  /\ lost \in [Messages -> Nat]
  /\ strayed \in [Messages -> Nat]
  /\ again \in [Messages -> Nat]

RetryQueueInv ==
  /\ queueExchange \in QueueExchanges
  /\ retryQueue \in {"absent", "plain", "ttl"}
  /\ PlainOnlyNamed

IInv ==
  /\ QueuesInv /\ ConsumersInv /\ TasksBacked /\ CountersInv /\ RetryQueueInv
  /\ GivenUpAfterAllRetries

(* What adding one and taking one makes of a queue.                        *)
LEMMA AddToBag ==
  ASSUME NEW bag, IsABag(bag), BagToSet(bag) \subseteq Delivery,
         NEW d \in Delivery
  PROVE  /\ IsABag(BagAdd(bag, d))
         /\ BagToSet(BagAdd(bag, d)) = BagToSet(bag) \cup {d}
         /\ \A e \in BagToSet(bag) \ {d} : BagAdd(bag, d)[e] = bag[e]
         /\ BagAdd(bag, d)[d] = IF d \in BagToSet(bag) THEN bag[d] + 1 ELSE 1
BY DEF IsABag, BagToSet, BagAdd

(* What taking one out of a queue leaves.                                  *)
LEMMA RemoveFromBag ==
  ASSUME NEW bag, IsABag(bag), BagToSet(bag) \subseteq Delivery,
         NEW d \in BagToSet(bag)
  PROVE  /\ IsABag(BagRemove(bag, d))
         /\ bag[d] \in Nat \ {0}
         /\ BagToSet(BagRemove(bag, d)) =
              IF bag[d] = 1 THEN BagToSet(bag) \ {d} ELSE BagToSet(bag)
         /\ \A e \in BagToSet(bag) \ {d} : BagRemove(bag, d)[e] = bag[e]
         /\ bag[d] # 1 => BagRemove(bag, d)[d] = bag[d] - 1
BY DEF IsABag, BagToSet, BagRemove

(* What is added is a delivery whose retries are backed.                   *)
LEMMA AddKeepsQueue ==
  ASSUME NEW bag, NEW d \in Delivery, NEW count \in [Messages -> Nat],
         QueueOK(bag), Backed(bag, count), d.retries <= count[d.msg]
  PROVE  QueueOK(BagAdd(bag, d)) /\ Backed(BagAdd(bag, d), count)
BY AddToBag DEF QueueOK, Backed

(* What is taken out is one, too.                                          *)
LEMMA RemoveKeepsQueue ==
  ASSUME NEW bag, NEW d \in BagToSet(bag), NEW count,
         QueueOK(bag), Backed(bag, count)
  PROVE  /\ QueueOK(BagRemove(bag, d)) /\ Backed(BagRemove(bag, d), count)
         /\ d \in Delivery /\ d.retries <= count[d.msg]
BY RemoveFromBag DEF QueueOK, Backed

(* A failed attempt only adds to what backs the retries.                   *)
LEMMA PlusKeepsQueue ==
  ASSUME NEW bag, NEW count \in [Messages -> Nat], NEW m \in Messages,
         QueueOK(bag), Backed(bag, count)
  PROVE  Backed(bag, Plus(count, m))
<1> SUFFICES ASSUME NEW d \in BagToSet(bag)
             PROVE  d.retries <= Plus(count, m)[d.msg]
  BY DEF Backed
<1>1. d \in Delivery /\ d.retries <= count[d.msg]
  BY DEF QueueOK, Backed
<1>2. d.retries \in Int /\ d.msg \in Messages /\ count[d.msg] \in Nat
  BY <1>1 DEF Delivery
<1>3. Plus(count, m)[d.msg] \in {count[d.msg], count[d.msg] + 1}
  BY <1>2 DEF Plus
<1> QED
  BY <1>1, <1>2, <1>3

(* One count goes up by one.                                               *)
LEMMA PlusType ==
  ASSUME NEW f \in [Messages -> Nat], NEW m \in Messages
  PROVE  /\ Plus(f, m) \in [Messages -> Nat]
         /\ Plus(f, m)[m] = f[m] + 1
         /\ \A n \in Messages : Plus(f, m)[n] \in {f[n], f[n] + 1}
         /\ \A n \in Messages : f[n] <= Plus(f, m)[n]
BY DEF Plus

(* Init establishes the invariant: every queue is empty.                   *)
LEMMA InitInv == MqConsumerAssumption /\ Init => IInv
<1> SUFFICES ASSUME MqConsumerAssumption, Init PROVE IInv
  OBVIOUS
<1>1. QueueOK(EmptyBag) /\ Backed(EmptyBag, attempts)
  BY DEF QueueOK, Backed, EmptyBag, SetToBag, IsABag, BagToSet
<1>2. QueuesInv
  BY <1>1 DEF Init, QueuesInv
<1>3. ConsumersInv
  BY DEF Init, ConsumersInv, HandsAwaited, Steps, NoDelivery
<1>4. TasksBacked /\ RetryQueueInv
  BY DEF Init, TasksBacked, RetryQueueInv, PlainOnlyNamed, At, Steps,
         Redeclaring, MqConsumerAssumption
<1>5. CountersInv /\ GivenUpAfterAllRetries
  BY DEF Init, CountersInv, Zero, GivenUpAfterAllRetries
<1> QED
  BY <1>2, <1>3, <1>4, <1>5  DEF IInv

(* Steps of the queues: the consumers stay where they are.                 *)
LEMMA QueueInv ==
  ASSUME MqConsumerAssumption, IInv,
         \/ \E m \in Messages : Publish(m) \/ PublishDelay(m)
         \/ \E d \in BagToSet(delay) : DelayExpires(d)
         \/ \E d \in BagToSet(retry) : RetryExpires(d)
  PROVE  IInv'
<1> USE DEF IInv
<1>1. /\ UNCHANGED <<consumer, unacked, up, drops, attempts, failed>>
      /\ UNCHANGED <<queueExchange, retryQueue, done, panicked, again>>
  BY DEF Publish, PublishDelay, DelayExpires, RetryExpires, history
<1>2. ConsumersInv' /\ TasksBacked' /\ RetryQueueInv' /\ GivenUpAfterAllRetries'
  BY <1>1
     DEF ConsumersInv, HandsAwaited, TasksBacked, Task, RetryQueueInv, At,
         PlainOnlyNamed, GivenUpAfterAllRetries
<1>3. /\ QueuesInv' /\ published' \subseteq Messages
      /\ lost' \in [Messages -> Nat] /\ strayed' \in [Messages -> Nat]
  <2>1. ASSUME NEW m \in Messages, Publish(m) \/ PublishDelay(m)
        PROVE  /\ QueuesInv' /\ published' \subseteq Messages
               /\ UNCHANGED <<lost, strayed>>
    <3>1. First(m) \in Delivery /\ First(m).retries <= attempts[First(m).msg]
      BY DEF First, Delivery, CountersInv, MqConsumerAssumption
    <3> QED
      BY <1>1, <2>1, <3>1, AddKeepsQueue
         DEF Publish, PublishDelay, QueuesInv, CountersInv, history
  <2>2. ASSUME NEW d \in BagToSet(delay), DelayExpires(d)
        PROVE  /\ QueuesInv' /\ published' \subseteq Messages
               /\ lost' \in [Messages -> Nat] /\ strayed' \in [Messages -> Nat]
    <3>1. d \in Delivery /\ d.retries <= attempts[d.msg]
      BY DEF QueuesInv, QueueOK, Backed
    <3>2. QueueOK(delay') /\ Backed(delay', attempts)
      BY <2>2, RemoveKeepsQueue DEF QueuesInv, DelayExpires
    <3>3. QueueOK(main') /\ Backed(main', attempts)
      BY <2>2, <3>1, AddKeepsQueue DEF QueuesInv, DelayExpires, CountersInv
    <3>4. lost' \in [Messages -> Nat] /\ strayed' \in [Messages -> Nat]
      <4>1. d.msg \in Messages
        BY <3>1 DEF Delivery
      <4> QED
        BY <2>2, <4>1, PlusType DEF DelayExpires, CountersInv
    <3> QED
      BY <1>1, <2>2, <3>2, <3>3, <3>4 DEF DelayExpires, QueuesInv, CountersInv
  <2>3. ASSUME NEW d \in BagToSet(retry), RetryExpires(d)
        PROVE  /\ QueuesInv' /\ published' \subseteq Messages
               /\ lost' \in [Messages -> Nat] /\ strayed' \in [Messages -> Nat]
    <3>1. d \in Delivery /\ d.retries <= attempts[d.msg]
      BY DEF QueuesInv, QueueOK, Backed
    <3>2. QueueOK(retry') /\ Backed(retry', attempts)
      BY <2>3, RemoveKeepsQueue DEF QueuesInv, RetryExpires
    <3>3. QueueOK(main') /\ Backed(main', attempts)
      BY <2>3, <3>1, AddKeepsQueue DEF QueuesInv, RetryExpires, CountersInv
    <3> QED
      BY <1>1, <2>3, <3>2, <3>3 DEF RetryExpires, QueuesInv, CountersInv, history
  <2> QED
    BY <2>1, <2>2, <2>3 DEF CountersInv
<1>4. CountersInv'
  BY <1>1, <1>3 DEF CountersInv
<1> QED
  BY <1>2, <1>3, <1>4

-----------------------------------------------------------------------------
(* A consumer at work goes on to another step of the same delivery.        *)
LEMMA GoToKeeps ==
  ASSUME ConsumersInv, NEW c \in Consumers, NEW pc \in Steps,
         consumer[c].pc \in Steps, GoTo(c, pc), UNCHANGED <<unacked, up>>
  PROVE  /\ ConsumersInv'
         /\ consumer'[c].pc = pc
         /\ consumer'[c].task = consumer[c].task
         /\ Task(c) \in Delivery
         /\ \A d \in Consumers \ {c} : consumer'[d] = consumer[d]
<1>1. /\ consumer'[c].pc = pc
      /\ consumer'[c].task = consumer[c].task
      /\ \A d \in Consumers \ {c} : consumer'[d] = consumer[d]
      /\ consumer' \in [Consumers -> [pc : Steps \cup {"idle"},
                                      task : Delivery \cup {NoDelivery}]]
  BY DEF GoTo, ConsumersInv
<1>2. \A d \in Consumers :
        consumer'[d].pc \in Steps => consumer'[d].task \in Delivery
  BY <1>1 DEF ConsumersInv
<1>3. HandsAwaited'
  BY <1>1 DEF ConsumersInv, HandsAwaited
<1>4. Task(c) \in Delivery
  BY DEF ConsumersInv, Task
<1> QED
  BY <1>1, <1>2, <1>3, <1>4 DEF ConsumersInv

(* A consumer without a delivery.                                          *)
LEMMA IdleKeeps ==
  ASSUME ConsumersInv, NEW c \in Consumers, c \notin unacked',
         consumer' = [consumer EXCEPT ![c] = [pc |-> "idle", task |-> NoDelivery]],
         unacked' \ {c} = unacked \ {c}, up' \in {up, up \cup {c}}
  PROVE  /\ ConsumersInv'
         /\ consumer'[c].pc = "idle"
         /\ \A d \in Consumers \ {c} : consumer'[d] = consumer[d]
<1> "idle" \notin Steps
  BY DEF Steps
<1>1. /\ consumer'[c] = [pc |-> "idle", task |-> NoDelivery]
      /\ \A d \in Consumers \ {c} : consumer'[d] = consumer[d]
      /\ consumer' \in [Consumers -> [pc : Steps \cup {"idle"},
                                      task : Delivery \cup {NoDelivery}]]
  BY DEF ConsumersInv
<1>2. \A d \in Consumers \ {c} :
        /\ d \in unacked' <=> d \in unacked
        /\ d \in up' <=> d \in up
  OBVIOUS
<1>3. HandsAwaited'
  BY <1>1, <1>2 DEF ConsumersInv, HandsAwaited
<1> QED
  BY <1>1, <1>2, <1>3 DEF ConsumersInv

(* The broker hands a delivery to a consumer with a link.                  *)
LEMMA DeliverInv ==
  ASSUME IInv, NEW c \in Consumers, NEW d \in BagToSet(main), Deliver(c, d)
  PROVE  IInv'
<1> USE DEF IInv
<1>1. /\ consumer[c].pc = "idle" /\ c \in up
      /\ main' = BagRemove(main, d)
      /\ consumer' = [consumer EXCEPT ![c] = [pc |-> "handle", task |-> d]]
      /\ unacked' = unacked \cup {c}
      /\ UNCHANGED <<queueExchange, retry, delay, retryQueue, up, drops,
                     published, history>>
  BY DEF Deliver, At, AwaitingAck
<1>2. /\ QueueOK(main') /\ Backed(main', attempts)
      /\ d \in Delivery /\ d.retries <= attempts[d.msg]
  BY <1>1, RemoveKeepsQueue DEF QueuesInv
<1>3. "handle" \in Steps /\ "handle" \notin Redeclaring
      /\ "handle" # "declare"
  BY DEF Steps, Redeclaring
<1>4. /\ consumer'[c].pc = "handle" /\ consumer'[c].task = d
      /\ \A e \in Consumers \ {c} : consumer'[e] = consumer[e]
      /\ consumer' \in [Consumers -> [pc : Steps \cup {"idle"},
                                      task : Delivery \cup {NoDelivery}]]
  BY <1>1, <1>2, <1>3 DEF ConsumersInv
<1>5. ConsumersInv'
  BY <1>1, <1>2, <1>3, <1>4 DEF ConsumersInv, HandsAwaited
<1>6. QueuesInv' /\ CountersInv'
  BY <1>1, <1>2 DEF QueuesInv, CountersInv, history
<1>7. TasksBacked' /\ RetryQueueInv' /\ GivenUpAfterAllRetries'
  BY <1>1, <1>2, <1>3, <1>4
     DEF TasksBacked, RetryQueueInv, PlainOnlyNamed, At, Task, history,
         GivenUpAfterAllRetries
<1> QED
  BY <1>5, <1>6, <1>7

(* The handler, or the error path of a retry, has decided on the delivery: *)
(* it is acknowledged next.                                                *)
LEMMA SettleInv ==
  ASSUME IInv, NEW c \in Consumers, consumer[c].pc \in Steps, GoTo(c, "ack"),
         UNCHANGED <<broker, unacked, up, drops, published, attempts, failed>>,
         CountersInv'
  PROVE  IInv'
<1> USE DEF IInv
<1>1. "ack" \in Steps /\ "ack" \notin Redeclaring /\ "ack" # "declare"
  BY DEF Steps, Redeclaring
<1>2. /\ ConsumersInv'
      /\ consumer'[c].pc = "ack"
      /\ consumer'[c].task = consumer[c].task
      /\ \A d \in Consumers \ {c} : consumer'[d] = consumer[d]
  BY <1>1, GoToKeeps
<1>3. QueuesInv' /\ RetryQueueInv' /\ GivenUpAfterAllRetries'
  BY <1>1, <1>2
     DEF QueuesInv, RetryQueueInv, PlainOnlyNamed, At, broker,
         GivenUpAfterAllRetries
<1>4. TasksBacked'
  BY <1>1, <1>2 DEF TasksBacked, Task
<1> QED
  BY <1>2, <1>3, <1>4

(* The message of a delivery at work is a message.                         *)
LEMMA TaskAtWork ==
  ASSUME ConsumersInv, NEW c \in Consumers, consumer[c].pc \in Steps
  PROVE  /\ Task(c) \in Delivery /\ Task(c).msg \in Messages
         /\ Task(c).retries \in 0..MaxRetries
BY DEF ConsumersInv, Delivery, Task

(* The handler has returned or panicked.                                   *)
LEMMA SettledInv ==
  ASSUME IInv, NEW c \in Consumers, HandlerSucceeds(c) \/ HandlerPanics(c)
  PROVE  IInv'
<1> USE DEF IInv
<1>1. consumer[c].pc \in Steps /\ GoTo(c, "ack")
      /\ UNCHANGED <<broker, unacked, up, drops, published, attempts, failed>>
  BY DEF HandlerSucceeds, HandlerPanics, At, Steps
<1>2. Task(c).msg \in Messages
  BY <1>1, TaskAtWork
<1>3. again' \in [Messages -> Nat]
  BY <1>2, PlusType
     DEF HandlerSucceeds, HandlerPanics, AlsoTakenBack, CountersInv
<1>4. done' \in [Messages -> Nat] /\ panicked' \in [Messages -> Nat]
      /\ UNCHANGED <<lost, strayed>>
  BY <1>2, PlusType DEF HandlerSucceeds, HandlerPanics, CountersInv
<1>5. CountersInv'
  BY <1>1, <1>3, <1>4 DEF CountersInv
<1> QED
  BY <1>1, <1>5, SettleInv

(* The handler has failed: one attempt more, which backs a retry.          *)
LEMMA FailsInv ==
  ASSUME MqConsumerAssumption, IInv, NEW c \in Consumers, HandlerFails(c)
  PROVE  IInv'
<1> USE DEF IInv
<1> DEFINE m == Task(c).msg
<1>1. /\ consumer[c].pc = "handle" /\ consumer[c].pc \in Steps
      /\ attempts' = Plus(attempts, m)
      /\ UNCHANGED <<broker, unacked, up, drops, published, done, panicked, lost, strayed>>
  BY DEF HandlerFails, At, Steps
<1>2. /\ Task(c) \in Delivery /\ m \in Messages
      /\ Task(c).retries \in 0..MaxRetries
      /\ Task(c).retries <= attempts[m]
  BY <1>1, TaskAtWork DEF TasksBacked
<1> HIDE DEF m
<1>3. /\ attempts' \in [Messages -> Nat] /\ attempts'[m] = attempts[m] + 1
      /\ \A n \in Messages : attempts[n] <= attempts'[n]
      /\ attempts \in [Messages -> Nat]
  BY <1>1, <1>2, PlusType DEF CountersInv
<1>4. QueuesInv'
  BY <1>1, <1>2, PlusKeepsQueue DEF QueuesInv, CountersInv, broker
<1>5. PICK pc \in {"declare", "declareTTL", "ack"} :
        /\ GoTo(c, pc)
        /\ pc # "ack" => Task(c).retries < MaxRetries
        /\ pc = "declare" => queueExchange.ExName
  BY DEF HandlerFails, MayRetry, DeclaresPlain
<1>6. /\ pc \in Steps /\ pc # "handle"
      /\ pc \in Redeclaring <=> pc # "ack"
  BY DEF Steps, Redeclaring
<1>7. /\ ConsumersInv'
      /\ consumer'[c].pc = pc
      /\ consumer'[c].task = consumer[c].task
      /\ \A d \in Consumers \ {c} : consumer'[d] = consumer[d]
  BY <1>1, <1>5, <1>6, GoToKeeps
<1>8. TasksBacked'
  <2> SUFFICES ASSUME NEW d \in Consumers
               PROVE  /\ consumer'[d].pc \in Steps =>
                           consumer'[d].task.retries
                             <= attempts'[consumer'[d].task.msg]
                      /\ consumer'[d].pc \in Redeclaring =>
                           /\ consumer'[d].task.retries < MaxRetries
                           /\ consumer'[d].task.retries
                                < attempts'[consumer'[d].task.msg]
    BY DEF TasksBacked, Task
  <2>1. CASE d = c
    <3>1. consumer'[d].task.retries = Task(c).retries /\ consumer'[d].task.msg = m
      BY <1>7, <2>1 DEF Task, m
    <3>2. Task(c).retries <= attempts'[m] /\ Task(c).retries < attempts'[m]
      BY <1>2, <1>3
    <3> QED
      BY <1>5, <1>6, <1>7, <2>1, <3>1, <3>2
  <2>2. CASE d # c
    <3>1. CASE consumer[d].pc \in Steps
      <4>1. /\ Task(d).msg \in Messages /\ Task(d).retries \in 0..MaxRetries
            /\ Task(d).retries <= attempts[Task(d).msg]
            /\ consumer[d].pc \in Redeclaring =>
                 Task(d).retries < MaxRetries /\ Task(d).retries < attempts[Task(d).msg]
        BY <3>1, TaskAtWork DEF TasksBacked
      <4>2. /\ attempts[Task(d).msg] <= attempts'[Task(d).msg]
            /\ attempts[Task(d).msg] \in Nat /\ attempts'[Task(d).msg] \in Nat
        BY <1>3, <4>1
      <4>3. consumer'[d] = consumer[d]
        BY <1>7, <2>2
      <4>4. /\ Task(d).retries <= attempts'[Task(d).msg]
            /\ Task(d).retries < attempts[Task(d).msg] =>
                 Task(d).retries < attempts'[Task(d).msg]
        BY <4>1, <4>2
      <4> QED
        BY <4>1, <4>3, <4>4 DEF Task
    <3>2. CASE consumer[d].pc \notin Steps
      BY <1>7, <2>2, <3>2 DEF Redeclaring, Steps
    <3> QED
      BY <3>1, <3>2
  <2> QED
    BY <2>1, <2>2
<1>9. CountersInv' /\ GivenUpAfterAllRetries'
  <2>1. CASE MayRetry(Task(c).retries)
    <3>1. failed' = failed /\ again' = again
      BY <2>1 DEF HandlerFails
    <3>2. CountersInv'
      BY <1>1, <1>3, <3>1 DEF CountersInv
    <3>3. GivenUpAfterAllRetries'
      <4> SUFFICES ASSUME NEW n \in Messages, failed[n] > 0
                   PROVE  attempts'[n] >= MaxRetries + 1
        BY <3>1 DEF GivenUpAfterAllRetries
      <4>1. /\ attempts[n] >= MaxRetries + 1 /\ attempts[n] <= attempts'[n]
            /\ attempts[n] \in Nat /\ attempts'[n] \in Nat
        BY <1>3 DEF GivenUpAfterAllRetries
      <4> QED
        BY <4>1 DEF MqConsumerAssumption
    <3> QED
      BY <3>2, <3>3
  <2>2. CASE ~MayRetry(Task(c).retries)
    <3>1. failed' = Plus(failed, m) /\ again' \in {again, Plus(again, m)}
      BY <2>2 DEF HandlerFails, AlsoTakenBack, m
    <3>2. /\ failed' \in [Messages -> Nat] /\ again' \in [Messages -> Nat]
          /\ \A n \in Messages : n # m => failed'[n] = failed[n]
      <4>1. failed \in [Messages -> Nat] /\ again \in [Messages -> Nat]
        BY DEF CountersInv
      <4>2. \A n \in Messages : n # m => Plus(failed, m)[n] = failed[n]
        BY <4>1 DEF Plus
      <4> QED
        BY <1>2, <3>1, <4>1, <4>2, PlusType
    <3>3. CountersInv'
      BY <1>1, <1>3, <3>2 DEF CountersInv
    <3>4. attempts'[m] >= MaxRetries + 1
      <4>1. Task(c).retries >= MaxRetries
        BY <1>2, <2>2 DEF MayRetry, MqConsumerAssumption
      <4>2. attempts[m] \in Nat
        BY <1>2, <1>3
      <4> QED
        BY <1>2, <1>3, <4>1, <4>2 DEF MqConsumerAssumption
    <3>5. GivenUpAfterAllRetries'
      <4> SUFFICES ASSUME NEW n \in Messages, failed'[n] > 0
                   PROVE  attempts'[n] >= MaxRetries + 1
        BY DEF GivenUpAfterAllRetries
      <4>1. CASE n = m
        BY <3>4, <4>1
      <4>2. CASE n # m
        <5>1. /\ attempts[n] >= MaxRetries + 1 /\ attempts[n] <= attempts'[n]
              /\ attempts[n] \in Nat /\ attempts'[n] \in Nat
          BY <1>3, <3>2, <4>2 DEF GivenUpAfterAllRetries
        <5> QED
          BY <5>1 DEF MqConsumerAssumption
      <4> QED
        BY <4>1, <4>2
    <3> QED
      BY <3>3, <3>5
  <2> QED
    BY <2>1, <2>2
<1>10. RetryQueueInv'
  BY <1>1, <1>5, <1>7 DEF RetryQueueInv, PlainOnlyNamed, At, broker
<1> QED
  BY <1>4, <1>7, <1>8, <1>9, <1>10

(* The error path of a retry.                                              *)
LEMMA RetryFailedInv ==
  ASSUME IInv, NEW c \in Consumers, consumer[c].pc \in Steps, RetryFailed(c),
         UNCHANGED <<broker, unacked, up, drops, published, attempts, done,
                     failed, panicked, strayed, again>>
  PROVE  IInv'
<1>1. Task(c).msg \in Messages
  BY TaskAtWork DEF IInv
<1>2. CountersInv'
  BY <1>1, PlusType DEF RetryFailed, IInv, CountersInv
<1> QED
  BY <1>2, SettleInv DEF RetryFailed

(* The retry queue is declared, by name or with its arguments.             *)
LEMMA DeclareInv ==
  ASSUME IInv, NEW c \in Consumers, DeclareRetry(c) \/ DeclareRetryTTL(c)
  PROVE  IInv'
<1> USE DEF IInv
<1>0. /\ consumer[c].pc \in {"declare", "declareTTL"}
      /\ consumer[c].pc \in Steps /\ consumer[c].pc \in Redeclaring
      /\ UNCHANGED <<queueExchange, main, retry, delay, unacked, up, drops,
                     published, attempts, done, failed, panicked, strayed,
                     again>>
  BY DEF DeclareRetry, DeclareRetryTTL, At, Steps, Redeclaring
<1>1. CASE RetryFailed(c) /\ UNCHANGED retryQueue
  BY <1>0, <1>1, RetryFailedInv DEF broker
<1>2. ASSUME NEW pc \in {"declareTTL", "publish"}, GoTo(c, pc), lost' = lost,
             retryQueue' \in {"plain", "ttl"},
             retryQueue' = "plain" => queueExchange.ExName
      PROVE  IInv'
  <2>1. pc \in Steps /\ pc \in Redeclaring /\ pc # "declare"
    BY <1>2 DEF Steps, Redeclaring
  <2>2. /\ ConsumersInv'
        /\ consumer'[c].pc = pc
        /\ consumer'[c].task = consumer[c].task
        /\ \A d \in Consumers \ {c} : consumer'[d] = consumer[d]
    BY <1>0, <1>2, <2>1, GoToKeeps
  <2>3. TasksBacked'
    BY <1>0, <2>2 DEF TasksBacked, Task
  <2>4. QueuesInv' /\ CountersInv' /\ GivenUpAfterAllRetries'
    BY <1>0, <1>2 DEF QueuesInv, CountersInv, GivenUpAfterAllRetries
  <2>5. RetryQueueInv'
    BY <1>0, <1>2, <2>1, <2>2 DEF RetryQueueInv, PlainOnlyNamed, At
  <2> QED
    BY <2>2, <2>3, <2>4, <2>5
<1>3. CASE DeclareRetry(c)
  <2>1. queueExchange.ExName
    BY <1>3 DEF DeclareRetry, RetryQueueInv, PlainOnlyNamed
  <2> QED
    BY <1>1, <1>2, <1>3, <2>1 DEF DeclareRetry
<1>4. CASE DeclareRetryTTL(c)
  BY <1>1, <1>2, <1>4 DEF DeclareRetryTTL
<1> QED
  BY <1>3, <1>4

(* The copy that is sent on counts the failed attempt.                     *)
LEMMA PublishRetryInv ==
  ASSUME MqConsumerAssumption, IInv, NEW c \in Consumers, PublishRetry(c)
  PROVE  IInv'
<1> USE DEF IInv
<1>0. /\ consumer[c].pc \in Steps /\ consumer[c].pc \in Redeclaring
      /\ UNCHANGED <<queueExchange, main, delay, retryQueue, unacked, up, drops,
                     published, attempts, done, failed, panicked, strayed,
                     again>>
  BY DEF PublishRetry, At, Steps, Redeclaring
<1>1. CASE c \notin up
  <2>1. RetryFailed(c) /\ retry' = retry
    BY <1>1 DEF PublishRetry
  <2> QED
    BY <1>0, <2>1, RetryFailedInv DEF broker
<1>2. CASE c \in up
  <2> DEFINE d == [msg |-> Task(c).msg, retries |-> Task(c).retries + 1]
  <2>1. /\ retry' = BagAdd(retry, d) /\ lost' = lost /\ GoTo(c, "ack")
    BY <1>2 DEF PublishRetry, NextRetry
  <2>2. /\ Task(c).msg \in Messages /\ Task(c).retries \in 0..MaxRetries
        /\ Task(c).retries < MaxRetries
        /\ Task(c).retries < attempts[Task(c).msg]
        /\ attempts \in [Messages -> Nat]
    BY <1>0, TaskAtWork DEF TasksBacked, CountersInv
  <2>3. d \in Delivery /\ d.retries <= attempts[d.msg]
    BY <2>2 DEF Delivery, MqConsumerAssumption
  <2> HIDE DEF d
  <2>4. QueueOK(retry') /\ Backed(retry', attempts)
    BY <2>1, <2>2, <2>3, AddKeepsQueue DEF QueuesInv
  <2>5. "ack" \in Steps /\ "ack" \notin Redeclaring /\ "ack" # "declare"
    BY DEF Steps, Redeclaring
  <2>6. /\ ConsumersInv'
        /\ consumer'[c].pc = "ack"
        /\ consumer'[c].task = consumer[c].task
        /\ \A e \in Consumers \ {c} : consumer'[e] = consumer[e]
    BY <1>0, <2>1, <2>5, GoToKeeps
  <2>7. TasksBacked'
    BY <1>0, <2>5, <2>6 DEF TasksBacked, Task
  <2>8. QueuesInv' /\ CountersInv' /\ GivenUpAfterAllRetries'
    BY <1>0, <2>1, <2>4 DEF QueuesInv, CountersInv, GivenUpAfterAllRetries
  <2>9. RetryQueueInv'
    BY <1>0, <2>5, <2>6 DEF RetryQueueInv, PlainOnlyNamed, At
  <2> QED
    BY <2>6, <2>7, <2>8, <2>9
<1> QED
  BY <1>1, <1>2

(* A consumer is without a delivery again.                                 *)
LEMMA LeaveInv ==
  ASSUME IInv, NEW c \in Consumers, Ack(c) \/ Restart(c)
  PROVE  IInv'
<1> USE DEF IInv
<1>0. /\ consumer' = [consumer EXCEPT ![c] = [pc |-> "idle", task |-> NoDelivery]]
      /\ UNCHANGED <<broker, drops, published, history>>
      /\ up' \in {up, up \cup {c}}
      /\ unacked' \ {c} = unacked \ {c}
      /\ c \notin unacked'
  BY DEF Ack, Restart, ConsumersInv
<1>1. "idle" \notin Steps /\ "idle" \notin Redeclaring /\ "idle" # "declare"
  BY DEF Steps, Redeclaring
<1>2. /\ ConsumersInv'
      /\ consumer'[c].pc = "idle"
      /\ \A d \in Consumers \ {c} : consumer'[d] = consumer[d]
  BY <1>0, IdleKeeps
<1>3. QueuesInv' /\ CountersInv' /\ GivenUpAfterAllRetries'
  BY <1>0 DEF QueuesInv, CountersInv, GivenUpAfterAllRetries, broker, history
<1>4. TasksBacked' /\ RetryQueueInv'
  BY <1>0, <1>1, <1>2
     DEF TasksBacked, Task, RetryQueueInv, PlainOnlyNamed, At, broker, history
<1> QED
  BY <1>2, <1>3, <1>4

(* The delivery that the broker takes back is the one it gave out.         *)
LEMMA DropInv ==
  ASSUME IInv, NEW c \in Consumers, Drop(c)
  PROVE  IInv'
<1> USE DEF IInv
<1>0. /\ up' = up \ {c} /\ unacked' = unacked \ {c} /\ drops' = drops + 1
      /\ UNCHANGED <<queueExchange, retry, delay, retryQueue, consumer,
                     published, attempts, done, failed, panicked, lost, strayed>>
  BY DEF Drop
<1>1. ConsumersInv'
  BY <1>0 DEF ConsumersInv, HandsAwaited
<1>2. TasksBacked' /\ RetryQueueInv' /\ GivenUpAfterAllRetries'
  BY <1>0
     DEF TasksBacked, Task, RetryQueueInv, PlainOnlyNamed, At,
         GivenUpAfterAllRetries
<1>3. ASSUME c \in unacked
      PROVE  /\ Task(c) \in Delivery /\ Task(c).msg \in Messages
             /\ Task(c).retries <= attempts[Task(c).msg]
  <2>1. consumer[c].pc \in Steps
    BY <1>3 DEF ConsumersInv, HandsAwaited
  <2> QED
    BY <2>1, TaskAtWork DEF TasksBacked
<1>4. QueueOK(main') /\ Backed(main', attempts)
  BY <1>3, AddKeepsQueue DEF Drop, QueuesInv, CountersInv
<1>5. again' \in [Messages -> Nat]
  BY <1>3, PlusType DEF Drop, CountersInv
<1>6. QueuesInv' /\ CountersInv'
  BY <1>0, <1>4, <1>5 DEF QueuesInv, CountersInv
<1> QED
  BY <1>1, <1>2, <1>6

(* Every step keeps the invariant.                                         *)
LEMMA NextInv ==
  ASSUME MqConsumerAssumption, IInv, [Next]_vars
  PROVE  IInv'
<1>1. CASE UNCHANGED vars
  BY <1>1
     DEF vars, broker, history, IInv, QueuesInv, ConsumersInv, HandsAwaited,
         TasksBacked, Task, CountersInv, RetryQueueInv, PlainOnlyNamed, At,
         GivenUpAfterAllRetries
<1>2. CASE \/ \E m \in Messages : Publish(m) \/ PublishDelay(m)
           \/ \E d \in BagToSet(delay) : DelayExpires(d)
           \/ \E d \in BagToSet(retry) : RetryExpires(d)
  BY <1>2, QueueInv
<1>3. ASSUME NEW c \in Consumers, Process(c) PROVE IInv'
  BY <1>3, DeliverInv, SettledInv, FailsInv, DeclareInv, PublishRetryInv,
     LeaveInv DEF Process
<1>4. ASSUME NEW c \in Consumers, Drop(c) \/ Restart(c) PROVE IInv'
  BY <1>4, DropInv, LeaveInv
<1> QED
  BY <1>1, <1>2, <1>3, <1>4 DEF Next

(* The queues hold deliveries whose retries are failed attempts, and a     *)
(* delivery is awaited exactly while its consumer has its link.            *)
THEOREM Invariance ==
  ASSUME MqConsumerAssumption
  PROVE  Spec => []IInv
<1>1. Init => IInv
  BY InitInv
<1>2. IInv /\ [Next]_vars => IInv'
  BY NextInv
<1> QED
  BY <1>1, <1>2, PTL DEF Spec

(* FailAction is called only after MaxRetries + 1 failed attempts, however *)
(* often the message was taken back and delivered to someone else.         *)
THEOREM GivenUpAlways ==
  ASSUME MqConsumerAssumption
  PROVE  Spec => []GivenUpAfterAllRetries
<1>1. IInv => GivenUpAfterAllRetries
  BY DEF IInv
<1> QED
  BY <1>1, Invariance, PTL

(* Types of the whole state.                                               *)
THEOREM TypeCorrect ==
  ASSUME MqConsumerAssumption
  PROVE  Spec => []TypeOK
<1>1. IInv => TypeOK
  BY DEF IInv, TypeOK, QueuesInv, QueueOK, ConsumersInv, CountersInv,
         RetryQueueInv
<1> QED
  BY <1>1, Invariance, PTL

-----------------------------------------------------------------------------
(* The ledger is not inductive: what cannot be counted, infinitely many    *)
(* copies or hands, is no number.                                          *)
LedgerInv ==
  /\ IsFiniteSet(unacked)
  /\ \A m \in Messages :
       /\ IsFiniteSet(Copies(main, m))
       /\ IsFiniteSet(Copies(retry, m))
       /\ IsFiniteSet(Copies(delay, m))
  /\ MessageLedger

(* One or nothing: whether a delivery of n counts for m.                   *)
Is(n, m) == IF n = m THEN 1 ELSE 0

(* It is a number.                                                         *)
LEMMA IsNat == \A n, m : Is(n, m) \in Nat
BY DEF Is

(* A counter counts the message it is told of.                             *)
LEMMA PlusCount ==
  ASSUME NEW f \in [Messages -> Nat], NEW n \in Messages, NEW m \in Messages
  PROVE  Plus(f, n)[m] = f[m] + Is(n, m)
BY DEF Plus, Is

(* The copies of m, as pairs.                                              *)
LEMMA CopiesOf ==
  ASSUME NEW bag, NEW m, NEW e, NEW n
  PROVE  <<e, n>> \in Copies(bag, m) <=>
           e \in BagToSet(bag) /\ e.msg = m /\ n \in 1..bag[e]
BY DEF Copies

(* There is nothing else among them.                                       *)
LEMMA CopiesArePairs ==
  ASSUME NEW bag, NEW m, NEW p \in Copies(bag, m)
  PROVE  \E e, n : p = <<e, n>>
BY DEF Copies

(* Sets of pairs are equal when they have the same pairs.                  *)
LEMMA AddCopy ==
  ASSUME NEW bag, NEW d \in Delivery, NEW m, QueueOK(bag),
         IsFiniteSet(Copies(bag, m))
  PROVE  /\ IsFiniteSet(Copies(BagAdd(bag, d), m))
         /\ CountOf(BagAdd(bag, d), m) = CountOf(bag, m) + Is(d.msg, m)
<1> DEFINE A == BagAdd(bag, d)
           n == IF d \in BagToSet(bag) THEN bag[d] + 1 ELSE 1
<1>1. /\ BagToSet(A) = BagToSet(bag) \cup {d}
      /\ \A e \in BagToSet(bag) \ {d} : A[e] = bag[e]
      /\ A[d] = n
      /\ n \in Nat \ {0}
      /\ d \in BagToSet(bag) => bag[d] = n - 1
      /\ d \notin BagToSet(bag) => n = 1
  <2>1. d \in BagToSet(bag) => bag[d] \in Nat \ {0}
    BY DEF QueueOK, IsABag, BagToSet
  <2>2. /\ BagToSet(A) = BagToSet(bag) \cup {d}
        /\ \A e \in BagToSet(bag) \ {d} : A[e] = bag[e]
        /\ A[d] = n
    BY AddToBag DEF QueueOK
  <2> HIDE DEF A
  <2> QED
    BY <2>1, <2>2
<1> HIDE DEF A, n
<1>2. CASE d.msg # m
  <2>1. \A e \in BagToSet(A) : e.msg = m => e \in BagToSet(bag) /\ A[e] = bag[e]
    BY <1>1, <1>2
  <2>2. {e \in BagToSet(A) : e.msg = m} = {e \in BagToSet(bag) : e.msg = m}
    BY <1>1, <1>2
  <2>3. Copies(A, m) = Copies(bag, m)
    BY <2>1, <2>2 DEF Copies
  <2>4. Cardinality(Copies(bag, m)) \in Nat /\ Is(d.msg, m) = 0
    BY <1>2, FS_CardinalityType DEF Is
  <2> QED
    BY <2>3, <2>4 DEF CountOf, A
<1>3. CASE d.msg = m
  <2>1. <<d, n>> \notin Copies(bag, m)
    <3>1. d \in BagToSet(bag) => n \notin 1..bag[d]
      BY <1>1
    <3> QED
      BY <3>1, CopiesOf
  <2>2. ASSUME NEW e, NEW k
        PROVE  <<e, k>> \in Copies(A, m) <=>
                 <<e, k>> \in Copies(bag, m) \/ (e = d /\ k = n)
    <3>1. CASE e = d
      <4>1. k \in 1..n <=> (k \in 1..(n - 1) \/ k = n)
        BY <1>1
      <4>2. k \in 1..(n - 1) <=> d \in BagToSet(bag) /\ k \in 1..bag[d]
        BY <1>1
      <4> QED
        BY <1>1, <1>3, <3>1, <4>1, <4>2, CopiesOf
    <3>2. CASE e # d
      BY <1>1, <3>2, CopiesOf
    <3> QED
      BY <3>1, <3>2
  <2>3. Copies(A, m) = Copies(bag, m) \cup {<<d, n>>}
    <3>1. ASSUME NEW p \in Copies(A, m)
          PROVE  p \in Copies(bag, m) \cup {<<d, n>>}
      <4> PICK e, k : p = <<e, k>>
        BY CopiesArePairs
      <4> QED
        BY <2>2
    <3>2. ASSUME NEW p \in Copies(bag, m) PROVE p \in Copies(A, m)
      <4> PICK e, k : p = <<e, k>>
        BY CopiesArePairs
      <4> QED
        BY <2>2
    <3> QED
      BY <2>2, <3>1, <3>2
  <2>4. Is(d.msg, m) = 1
    BY <1>3 DEF Is
  <2>5. /\ IsFiniteSet(Copies(bag, m) \cup {<<d, n>>})
        /\ Cardinality(Copies(bag, m) \cup {<<d, n>>})
             = Cardinality(Copies(bag, m)) + 1
    BY <2>1, FS_AddElement
  <2> QED
    BY <2>3, <2>4, <2>5 DEF CountOf, A
<1> QED
  BY <1>2, <1>3

(* Taking a delivery out is the reverse.                                   *)
LEMMA RemoveCopy ==
  ASSUME NEW bag, NEW d \in BagToSet(bag), NEW m, QueueOK(bag),
         IsFiniteSet(Copies(bag, m))
  PROVE  /\ IsFiniteSet(Copies(BagRemove(bag, d), m))
         /\ CountOf(bag, m) = CountOf(BagRemove(bag, d), m) + Is(d.msg, m)
<1> DEFINE R == BagRemove(bag, d)
<1>1. /\ bag[d] \in Nat \ {0}
      /\ BagToSet(R) = IF bag[d] = 1 THEN BagToSet(bag) \ {d} ELSE BagToSet(bag)
      /\ \A e \in BagToSet(bag) \ {d} : R[e] = bag[e]
      /\ bag[d] # 1 => R[d] = bag[d] - 1
  BY RemoveFromBag DEF QueueOK
<1> HIDE DEF R
<1>2. CASE d.msg # m
  <2>1. {e \in BagToSet(R) : e.msg = m} = {e \in BagToSet(bag) : e.msg = m}
    BY <1>1, <1>2
  <2>2. \A e \in BagToSet(bag) : e.msg = m => R[e] = bag[e]
    BY <1>1, <1>2
  <2>3. Copies(R, m) = Copies(bag, m)
    BY <2>1, <2>2 DEF Copies
  <2>4. Cardinality(Copies(bag, m)) \in Nat /\ Is(d.msg, m) = 0
    BY <1>2, FS_CardinalityType DEF Is
  <2> QED
    BY <2>3, <2>4 DEF CountOf, R
<1>3. CASE d.msg = m
  <2>1. <<d, bag[d]>> \in Copies(bag, m)
    <3>1. bag[d] \in 1..bag[d]
      BY <1>1
    <3> QED
      BY <1>3, <3>1, CopiesOf
  <2>2. ASSUME NEW e, NEW k
        PROVE  <<e, k>> \in Copies(R, m) <=>
                 <<e, k>> \in Copies(bag, m) /\ ~(e = d /\ k = bag[d])
    <3>1. CASE e = d
      <4>1. k \in 1..(bag[d] - 1) <=> k \in 1..bag[d] /\ k # bag[d]
        BY <1>1
      <4>2. k \in 1..(bag[d] - 1) <=> d \in BagToSet(R) /\ k \in 1..R[d]
        BY <1>1
      <4> QED
        BY <1>3, <3>1, <4>1, <4>2, CopiesOf
    <3>2. CASE e # d
      BY <1>1, <3>2, CopiesOf
    <3> QED
      BY <3>1, <3>2
  <2>3. Copies(R, m) = Copies(bag, m) \ {<<d, bag[d]>>}
    <3>1. ASSUME NEW p \in Copies(R, m)
          PROVE  p \in Copies(bag, m) \ {<<d, bag[d]>>}
      <4> PICK e, k : p = <<e, k>>
        BY CopiesArePairs
      <4> QED
        BY <2>2
    <3>2. ASSUME NEW p \in Copies(bag, m) \ {<<d, bag[d]>>}
          PROVE  p \in Copies(R, m)
      <4> PICK e, k : p = <<e, k>>
        BY CopiesArePairs
      <4> QED
        BY <2>2
    <3> QED
      BY <3>1, <3>2
  <2>4. Is(d.msg, m) = 1
    BY <1>3 DEF Is
  <2>5. /\ IsFiniteSet(Copies(bag, m) \ {<<d, bag[d]>>})
        /\ Cardinality(Copies(bag, m) \ {<<d, bag[d]>>})
             = Cardinality(Copies(bag, m)) - 1
        /\ Cardinality(Copies(bag, m)) \in Nat
    BY <2>1, FS_RemoveElement, FS_CardinalityType
  <2> QED
    BY <2>3, <2>4, <2>5 DEF CountOf, R
<1> QED
  BY <1>2, <1>3

(* What one consumer holds of m.                                           *)
Held(h, u, c, steps, m) ==
  IF c \in u /\ h[c].pc \in steps THEN Is(h[c].task.msg, m) ELSE 0

(* When one consumer moves, the others hold what they held.                *)
LEMMA HandCount ==
  ASSUME NEW h, NEW k, NEW u, NEW v, NEW c, NEW steps, NEW m,
         IsFiniteSet(u), u \ {c} = v \ {c},
         \A d \in u \ {c} : k[d] = h[d]
  PROVE  /\ IsFiniteSet(v)
         /\ Cardinality(Holding(h, u, steps, m)) \in Nat
         /\ Cardinality(Holding(k, v, steps, m)) \in Nat
         /\ Cardinality(Holding(k, v, steps, m)) + Held(h, u, c, steps, m)
              = Cardinality(Holding(h, u, steps, m)) + Held(k, v, c, steps, m)
<1> DEFINE H == Holding(h, u, steps, m)
           K == Holding(k, v, steps, m)
<1>1. v \subseteq u \cup {c}
  OBVIOUS
<1>2. IsFiniteSet(v)
  BY <1>1, FS_AddElement, FS_Subset
<1>3. H \subseteq u /\ K \subseteq v
  BY DEF Holding
<1>4. IsFiniteSet(H) /\ IsFiniteSet(K)
  BY <1>2, <1>3, FS_Subset
<1>5. H \ {c} = K \ {c}
  BY DEF Holding
<1>6. /\ c \in H <=> c \in u /\ h[c].pc \in steps /\ h[c].task.msg = m
      /\ c \in K <=> c \in v /\ k[c].pc \in steps /\ k[c].task.msg = m
  BY DEF Holding
<1>7. /\ Held(h, u, c, steps, m) = IF c \in H THEN 1 ELSE 0
      /\ Held(k, v, c, steps, m) = IF c \in K THEN 1 ELSE 0
  BY <1>6 DEF Held, Is
<1> HIDE DEF H, K
<1>8. /\ Cardinality(H) \in Nat /\ Cardinality(K) \in Nat
      /\ Cardinality(H \ {c}) = IF c \in H THEN Cardinality(H) - 1 ELSE Cardinality(H)
      /\ Cardinality(K \ {c}) = IF c \in K THEN Cardinality(K) - 1 ELSE Cardinality(K)
  BY <1>4, FS_CardinalityType, FS_RemoveElement
<1>9. Cardinality(H \ {c}) = Cardinality(K \ {c})
  BY <1>5
<1>10. Cardinality(K) + Held(h, u, c, steps, m)
         = Cardinality(H) + Held(k, v, c, steps, m)
  BY <1>7, <1>8, <1>9
<1> QED
  BY <1>2, <1>8, <1>10 DEF H, K

(* The books of one message: its copies in the queues, in hand and at the  *)
(* end of their way, and what they come from.                              *)
InQueues(q, r, m) == CountOf(q, m) + CountOf(r, m)

Ended(x, y, z, l, m) == x[m] + y[m] + z[m] + l[m]

Out(p, m) == IF m \in p THEN 1 ELSE 0

InHands(h, u, m) == Cardinality(Holding(h, u, Unsettled, m))

(* Published or not is one or nothing.                                     *)
LEMMA OutNat == \A p, m : Out(p, m) \in Nat
BY DEF Out

Numbers(m) ==
  /\ CountOf(main, m) \in Nat /\ CountOf(retry, m) \in Nat
  /\ InQueues(main, retry, m) \in Nat /\ CountOf(delay, m) \in Nat
  /\ InHands(consumer, unacked, m) \in Nat
  /\ Ended(done, failed, panicked, lost, m) \in Nat
  /\ Out(published, m) \in Nat /\ again[m] \in Nat

(* The ledger, in these terms.                                             *)
LEMMA LedgerTerms ==
  ASSUME IInv, LedgerInv, NEW m \in Messages
  PROVE  /\ Numbers(m)
         /\ InQueues(main, retry, m) + CountOf(delay, m)
              + InHands(consumer, unacked, m)
              + Ended(done, failed, panicked, lost, m)
            = Out(published, m) + again[m]
<1>1. /\ CountOf(main, m) \in Nat /\ CountOf(retry, m) \in Nat
      /\ CountOf(delay, m) \in Nat
  BY FS_CardinalityType DEF LedgerInv, CountOf
<1>2. InHands(consumer, unacked, m) \in Nat
  <2>1. Holding(consumer, unacked, Unsettled, m) \subseteq unacked
    BY DEF Holding
  <2> QED
    BY <2>1, FS_Subset, FS_CardinalityType DEF LedgerInv, InHands
<1>3. /\ done[m] \in Nat /\ failed[m] \in Nat /\ panicked[m] \in Nat
      /\ lost[m] \in Nat /\ again[m] \in Nat
  BY DEF IInv, CountersInv
<1>4. Out(published, m) \in Nat
  BY OutNat
<1>5. Waiting(m) + done[m] + failed[m] + panicked[m] + lost[m]
        = Out(published, m) + again[m]
  BY DEF LedgerInv, MessageLedger, Out
<1>6. Waiting(m) = InQueues(main, retry, m) + CountOf(delay, m)
                     + InHands(consumer, unacked, m)
  BY DEF Waiting, InQueues, InHand, InHands
<1>7. /\ InQueues(main, retry, m) \in Nat
      /\ Ended(done, failed, panicked, lost, m)
           = done[m] + failed[m] + panicked[m] + lost[m]
      /\ Ended(done, failed, panicked, lost, m) \in Nat
  BY <1>1, <1>3 DEF InQueues, Ended
<1>8. Waiting(m) \in Nat
  BY <1>1, <1>2, <1>6, <1>7
<1>9. Waiting(m) + done[m] + failed[m] + panicked[m] + lost[m]
        = Waiting(m) + (done[m] + failed[m] + panicked[m] + lost[m])
  BY <1>3, <1>8
<1> QED
  BY <1>1, <1>2, <1>3, <1>4, <1>5, <1>6, <1>7, <1>9 DEF Numbers

(* The ledger after a step, in the same terms.                             *)
LEMMA LedgerAfter ==
  ASSUME IInv', IsFiniteSet(unacked'),
         \A m \in Messages :
           /\ IsFiniteSet(Copies(main', m))
           /\ IsFiniteSet(Copies(retry', m))
           /\ IsFiniteSet(Copies(delay', m))
           /\ InQueues(main', retry', m) + CountOf(delay', m)
                + InHands(consumer', unacked', m)
                + Ended(done', failed', panicked', lost', m)
              = Out(published', m) + again'[m]
  PROVE  LedgerInv'
<1>1. MessageLedger'
  <2> SUFFICES ASSUME NEW m \in Messages
               PROVE  InQueues(main', retry', m) + CountOf(delay', m)
                        + InHands(consumer', unacked', m)
                        + done'[m] + failed'[m] + panicked'[m] + lost'[m]
                      = Out(published', m) + again'[m]
    BY DEF MessageLedger, Waiting, InHand, CountOf, InQueues, InHands, Out
  <2>1. /\ done'[m] \in Nat /\ failed'[m] \in Nat /\ panicked'[m] \in Nat
        /\ lost'[m] \in Nat
    BY DEF IInv, CountersInv
  <2> DEFINE w == InQueues(main', retry', m) + CountOf(delay', m)
                    + InHands(consumer', unacked', m)
  <2>2. w \in Nat
    <3>1. /\ CountOf(main', m) \in Nat /\ CountOf(retry', m) \in Nat
          /\ CountOf(delay', m) \in Nat
      BY FS_CardinalityType DEF CountOf
    <3>2. InHands(consumer', unacked', m) \in Nat
      <4>1. Holding(consumer', unacked', Unsettled, m) \subseteq unacked'
        BY DEF Holding
      <4> QED
        BY <4>1, FS_Subset, FS_CardinalityType DEF InHands
    <3> QED
      BY <3>1, <3>2 DEF InQueues
  <2>3. w + Ended(done', failed', panicked', lost', m)
          = Out(published', m) + again'[m]
    OBVIOUS
  <2> HIDE DEF w
  <2>4. w + done'[m] + failed'[m] + panicked'[m] + lost'[m]
          = w + Ended(done', failed', panicked', lost', m)
    BY <2>1, <2>2 DEF Ended
  <2> QED
    BY <2>3, <2>4 DEF w
<1> QED
  BY <1>1 DEF LedgerInv

(* What one consumer changes, and what it must conserve.                   *)
OnlyOf(c) ==
  /\ \A d \in Consumers \ {c} : consumer'[d] = consumer[d]
  /\ unacked' \ {c} = unacked \ {c}
  /\ UNCHANGED <<delay, published>>

HeldBefore(c, m) == Held(consumer, unacked, c, Unsettled, m)

HeldAfter(c, m) == Held(consumer', unacked', c, Unsettled, m)

Conserves(c, m) ==
  /\ IsFiniteSet(Copies(main', m)) /\ IsFiniteSet(Copies(retry', m))
  /\ InQueues(main', retry', m) + Ended(done', failed', panicked', lost', m)
         + HeldAfter(c, m) + again[m]
       = InQueues(main, retry, m) + Ended(done, failed, panicked, lost, m)
         + HeldBefore(c, m) + again'[m]

(* What one consumer holds is a number.                                    *)
LEMMA HeldNat == \A c, m : HeldBefore(c, m) \in Nat /\ HeldAfter(c, m) \in Nat
BY IsNat DEF HeldBefore, HeldAfter, Held

(* What the queues and the ends of the ledger add up to after a step.      *)
LEMMA NumbersAfter ==
  ASSUME IInv', NEW m \in Messages,
         IsFiniteSet(Copies(main', m)), IsFiniteSet(Copies(retry', m))
  PROVE  /\ CountOf(main', m) \in Nat /\ CountOf(retry', m) \in Nat
         /\ InQueues(main', retry', m) \in Nat
         /\ Ended(done', failed', panicked', lost', m) \in Nat
         /\ again'[m] \in Nat
<1>1. /\ done'[m] \in Nat /\ failed'[m] \in Nat /\ panicked'[m] \in Nat
      /\ lost'[m] \in Nat /\ again'[m] \in Nat
  BY DEF IInv, CountersInv
<1>2. CountOf(main', m) \in Nat /\ CountOf(retry', m) \in Nat
  BY FS_CardinalityType DEF CountOf
<1> QED
  BY <1>1, <1>2 DEF InQueues, Ended

(* A step of one consumer keeps the ledger when it conserves its copies.   *)
LEMMA ConsumerLedger ==
  ASSUME IInv, IInv', LedgerInv, NEW c \in Consumers, OnlyOf(c),
         \A m \in Messages : Conserves(c, m)
  PROVE  LedgerInv'
<1>1. /\ IsFiniteSet(unacked) /\ unacked' \ {c} = unacked \ {c}
      /\ \A d \in unacked \ {c} : consumer'[d] = consumer[d]
  BY DEF LedgerInv, OnlyOf, IInv, ConsumersInv
<1>2. IsFiniteSet(unacked')
  <2>1. unacked' \subseteq unacked \cup {c}
    BY <1>1
  <2> QED
    BY <1>1, <2>1, FS_AddElement, FS_Subset
<1>3. ASSUME NEW m \in Messages
      PROVE  /\ IsFiniteSet(Copies(main', m)) /\ IsFiniteSet(Copies(retry', m))
             /\ IsFiniteSet(Copies(delay', m))
             /\ InQueues(main', retry', m) + CountOf(delay', m)
                  + InHands(consumer', unacked', m)
                  + Ended(done', failed', panicked', lost', m)
                = Out(published', m) + again'[m]
  <2> DEFINE q == InQueues(main, retry, m)
             q2 == InQueues(main', retry', m)
             e == Ended(done, failed, panicked, lost, m)
             e2 == Ended(done', failed', panicked', lost', m)
             h == InHands(consumer, unacked, m)
             h2 == InHands(consumer', unacked', m)
             t == CountOf(delay, m)
             o == Out(published, m)
             g == again[m]
             g2 == again'[m]
             x == HeldBefore(c, m)
             x2 == HeldAfter(c, m)
  <2>1. /\ IsFiniteSet(Copies(main', m)) /\ IsFiniteSet(Copies(retry', m))
        /\ q2 + e2 + x2 + g = q + e + x + g2
    BY DEF Conserves
  <2>2. q + t + h + e = o + g
    BY LedgerTerms
  <2>3. /\ q \in Nat /\ e \in Nat /\ h \in Nat /\ t \in Nat /\ o \in Nat
        /\ g \in Nat
    BY LedgerTerms DEF Numbers
  <2>4. q2 \in Nat /\ e2 \in Nat /\ g2 \in Nat
    BY <2>1, NumbersAfter
  <2>5. x \in Nat /\ x2 \in Nat
    BY HeldNat
  <2>6. h2 \in Nat /\ h2 + x = h + x2
    BY <1>1, HandCount DEF HeldBefore, HeldAfter, InHands
  <2>7. /\ delay' = delay /\ Out(published', m) = o
        /\ IsFiniteSet(Copies(delay, m))
    BY DEF OnlyOf, LedgerInv
  <2> HIDE DEF q, q2, e, e2, h, h2, t, o, g, g2, x, x2
  <2>8. q2 + t + h2 + e2 = o + g2
    BY <2>1, <2>2, <2>3, <2>4, <2>5, <2>6
  <2> QED
    BY <2>1, <2>7, <2>8 DEF q2, e2, h2, t, g2
<1> QED
  BY <1>2, <1>3, LedgerAfter

(* In the beginning nothing is published and nothing is there.             *)
LEMMA InitLedger == MqConsumerAssumption /\ Init => LedgerInv
<1> SUFFICES ASSUME Init PROVE LedgerInv
  OBVIOUS
<1>1. \A m : Copies(EmptyBag, m) = {}
  BY DEF Copies, EmptyBag, SetToBag, BagToSet
<1>2. \A m : Holding(consumer, unacked, Unsettled, m) = {}
  BY DEF Init, Holding
<1>3. IsFiniteSet({}) /\ Cardinality({}) = 0
  BY FS_EmptySet
<1>4. MessageLedger
  <2> SUFFICES ASSUME NEW m \in Messages
               PROVE  Waiting(m) + done[m] + failed[m] + panicked[m] + lost[m]
                        = (IF m \in published THEN 1 ELSE 0) + again[m]
    BY DEF MessageLedger
  <2>1. /\ CountOf(main, m) = 0 /\ CountOf(retry, m) = 0
        /\ CountOf(delay, m) = 0 /\ InHand(m) = 0
    BY <1>1, <1>2, <1>3 DEF Init, CountOf, InHand
  <2>2. /\ done[m] = 0 /\ failed[m] = 0 /\ panicked[m] = 0 /\ lost[m] = 0
        /\ again[m] = 0 /\ m \notin published
    BY DEF Init, Zero
  <2> QED
    BY <2>1, <2>2 DEF Waiting
<1> QED
  BY <1>1, <1>3, <1>4 DEF LedgerInv, Init

(* Publishing and expiring move one copy, in nobody's hand.                *)
QueueStep ==
  \/ \E m \in Messages : Publish(m) \/ PublishDelay(m)
  \/ \E d \in BagToSet(delay) : DelayExpires(d)
  \/ \E d \in BagToSet(retry) : RetryExpires(d)

Moves(m) ==
  /\ IsFiniteSet(Copies(main', m))
  /\ IsFiniteSet(Copies(retry', m))
  /\ IsFiniteSet(Copies(delay', m))
  /\ InQueues(main', retry', m) + CountOf(delay', m)
         + Ended(done, failed, panicked, lost', m) + Out(published, m)
       = InQueues(main, retry, m) + CountOf(delay, m)
         + Ended(done, failed, panicked, lost, m) + Out(published', m)

(* One copy more of n among the messages that were published.              *)
LEMMA PublishMoves ==
  ASSUME MqConsumerAssumption, IInv, LedgerInv, NEW n \in Messages,
         Publish(n) \/ PublishDelay(n), NEW m \in Messages
  PROVE  Moves(m)
<1>1. /\ n \notin published /\ published' = published \cup {n}
      /\ retry' = retry /\ lost' = lost
      /\ \/ main' = BagAdd(main, First(n)) /\ delay' = delay
         \/ main' = main /\ delay' = BagAdd(delay, First(n))
  BY DEF Publish, PublishDelay, history
<1>2. First(n) \in Delivery /\ First(n).msg = n
  BY DEF First, Delivery, MqConsumerAssumption
<1>3. /\ QueueOK(main) /\ QueueOK(delay)
      /\ IsFiniteSet(Copies(main, m)) /\ IsFiniteSet(Copies(retry, m))
      /\ IsFiniteSet(Copies(delay, m))
  BY DEF IInv, QueuesInv, LedgerInv
<1> DEFINE a == CountOf(main, m)
           a2 == CountOf(main', m)
           r == CountOf(retry, m)
           t == CountOf(delay, m)
           t2 == CountOf(delay', m)
           e == Ended(done, failed, panicked, lost, m)
           o == Out(published, m)
           o2 == Out(published', m)
           i == Is(n, m)
<1>4. /\ a \in Nat /\ r \in Nat /\ t \in Nat /\ e \in Nat /\ o \in Nat
      /\ i \in Nat
  BY LedgerTerms, IsNat DEF Numbers
<1>5. o2 = o + i
  BY <1>1 DEF Out, Is
<1>6. /\ IsFiniteSet(Copies(main', m)) /\ IsFiniteSet(Copies(delay', m))
      /\ \/ a2 = a + i /\ t2 = t
         \/ a2 = a /\ t2 = t + i
  <2>1. CASE main' = BagAdd(main, First(n)) /\ delay' = delay
    BY <1>2, <1>3, <2>1, AddCopy
  <2>2. CASE main' = main /\ delay' = BagAdd(delay, First(n))
    BY <1>2, <1>3, <2>2, AddCopy
  <2> QED
    BY <1>1, <2>1, <2>2
<1>7. /\ InQueues(main, retry, m) = a + r
      /\ InQueues(main', retry', m) = a2 + r
      /\ Ended(done, failed, panicked, lost', m) = e
  BY <1>1 DEF InQueues
<1> HIDE DEF a, a2, r, t, t2, e, o, o2, i
<1>8. (a2 + r) + t2 + e + o = (a + r) + t + e + o2
  BY <1>4, <1>5, <1>6
<1> QED
  BY <1>1, <1>3, <1>6, <1>7, <1>8 DEF Moves, t, t2, e, o, o2

(* One copy goes back to the queue, or nowhere.                            *)
LEMMA DelayMoves ==
  ASSUME IInv, LedgerInv, NEW d \in BagToSet(delay), DelayExpires(d),
         NEW m \in Messages
  PROVE  Moves(m)
<1>1. /\ delay' = BagRemove(delay, d) /\ retry' = retry /\ published' = published
      /\ \/ main' = BagAdd(main, d) /\ lost' = lost
         \/ main' = main /\ lost' = Plus(lost, d.msg)
  BY DEF DelayExpires
<1>2. /\ QueueOK(main) /\ QueueOK(delay)
      /\ IsFiniteSet(Copies(main, m)) /\ IsFiniteSet(Copies(retry, m))
      /\ IsFiniteSet(Copies(delay, m))
      /\ lost \in [Messages -> Nat] /\ lost[m] \in Nat
      /\ done[m] \in Nat /\ failed[m] \in Nat /\ panicked[m] \in Nat
  BY DEF IInv, QueuesInv, LedgerInv, CountersInv
<1>3. d \in Delivery /\ d.msg \in Messages
  BY <1>2 DEF QueueOK, Delivery
<1> DEFINE a == CountOf(main, m)
           a2 == CountOf(main', m)
           r == CountOf(retry, m)
           t == CountOf(delay, m)
           t2 == CountOf(delay', m)
           f == done[m] + failed[m] + panicked[m]
           l == lost[m]
           l2 == lost'[m]
           o == Out(published, m)
           i == Is(d.msg, m)
<1>4. /\ a \in Nat /\ r \in Nat /\ f \in Nat /\ l \in Nat /\ o \in Nat
      /\ i \in Nat
  BY <1>2, LedgerTerms, IsNat DEF Numbers
<1>5. IsFiniteSet(Copies(delay', m)) /\ t2 \in Nat /\ t = t2 + i
  BY <1>1, <1>2, RemoveCopy, FS_CardinalityType DEF CountOf
<1>6. /\ IsFiniteSet(Copies(main', m))
      /\ \/ a2 = a + i /\ l2 = l
         \/ a2 = a /\ l2 = l + i
  <2>1. CASE main' = BagAdd(main, d) /\ lost' = lost
    BY <1>2, <1>3, <2>1, AddCopy
  <2>2. CASE main' = main /\ lost' = Plus(lost, d.msg)
    BY <1>2, <1>3, <2>2, PlusCount
  <2> QED
    BY <1>1, <2>1, <2>2
<1>7. /\ InQueues(main, retry, m) = a + r
      /\ InQueues(main', retry', m) = a2 + r
      /\ Ended(done, failed, panicked, lost, m) = f + l
      /\ Ended(done, failed, panicked, lost', m) = f + l2
      /\ Out(published', m) = o
  BY <1>1 DEF InQueues, Ended
<1> HIDE DEF a, a2, r, t, t2, f, l, l2, o, i
<1>8. (a2 + r) + t2 + (f + l2) + o = (a + r) + t + (f + l) + o
  BY <1>4, <1>5, <1>6
<1> QED
  BY <1>1, <1>2, <1>5, <1>6, <1>7, <1>8 DEF Moves, t, t2, o

(* One copy goes from the retry queue to the queue.                        *)
LEMMA RetryMoves ==
  ASSUME IInv, LedgerInv, NEW d \in BagToSet(retry), RetryExpires(d),
         NEW m \in Messages
  PROVE  Moves(m)
<1>1. /\ retry' = BagRemove(retry, d) /\ main' = BagAdd(main, d)
      /\ UNCHANGED <<delay, published, lost, strayed>>
  BY DEF RetryExpires, history
<1>2. /\ QueueOK(main) /\ QueueOK(retry)
      /\ IsFiniteSet(Copies(main, m)) /\ IsFiniteSet(Copies(retry, m))
      /\ IsFiniteSet(Copies(delay, m))
  BY DEF IInv, QueuesInv, LedgerInv
<1>3. d \in Delivery
  BY <1>2 DEF QueueOK
<1> DEFINE a == CountOf(main, m)
           a2 == CountOf(main', m)
           r == CountOf(retry, m)
           r2 == CountOf(retry', m)
           i == Is(d.msg, m)
<1>4. a \in Nat /\ i \in Nat
  BY LedgerTerms, IsNat DEF Numbers
<1>5. IsFiniteSet(Copies(retry', m)) /\ r2 \in Nat /\ r = r2 + i
  BY <1>1, <1>2, RemoveCopy, FS_CardinalityType DEF CountOf
<1>6. IsFiniteSet(Copies(main', m)) /\ a2 = a + i
  BY <1>1, <1>2, <1>3, AddCopy
<1>7. InQueues(main', retry', m) = InQueues(main, retry, m)
  <2> HIDE DEF a, a2, r, r2, i
  <2>1. a2 + r2 = a + r
    BY <1>4, <1>5, <1>6
  <2> QED
    BY <2>1 DEF InQueues, a, a2, r, r2
<1> QED
  BY <1>1, <1>2, <1>5, <1>6, <1>7 DEF Moves

(* What the producer and the broker do keeps the ledger.                   *)
LEMMA QueueLedger ==
  ASSUME MqConsumerAssumption, IInv, IInv', LedgerInv, QueueStep
  PROVE  LedgerInv'
<1>1. UNCHANGED <<consumer, unacked, done, failed, panicked, again>>
  BY DEF QueueStep, Publish, PublishDelay, DelayExpires, RetryExpires, history
<1>2. IsFiniteSet(unacked')
  BY <1>1 DEF LedgerInv
<1>3. \A m \in Messages : Moves(m)
  BY PublishMoves, DelayMoves, RetryMoves DEF QueueStep
<1>4. ASSUME NEW m \in Messages
      PROVE  /\ IsFiniteSet(Copies(main', m)) /\ IsFiniteSet(Copies(retry', m))
             /\ IsFiniteSet(Copies(delay', m))
             /\ InQueues(main', retry', m) + CountOf(delay', m)
                  + InHands(consumer', unacked', m)
                  + Ended(done', failed', panicked', lost', m)
                = Out(published', m) + again'[m]
  <2> DEFINE q == InQueues(main, retry, m)
             q2 == InQueues(main', retry', m)
             e == Ended(done, failed, panicked, lost, m)
             e2 == Ended(done, failed, panicked, lost', m)
             h == InHands(consumer, unacked, m)
             t == CountOf(delay, m)
             t2 == CountOf(delay', m)
             o == Out(published, m)
             o2 == Out(published', m)
             g == again[m]
  <2>1. /\ IsFiniteSet(Copies(main', m)) /\ IsFiniteSet(Copies(retry', m))
        /\ IsFiniteSet(Copies(delay', m))
        /\ q2 + t2 + e2 + o = q + t + e + o2
    BY <1>3 DEF Moves
  <2>2. /\ q + t + h + e = o + g
        /\ q \in Nat /\ e \in Nat /\ h \in Nat /\ t \in Nat /\ o \in Nat
        /\ g \in Nat
    BY LedgerTerms DEF Numbers
  <2>3. /\ InHands(consumer', unacked', m) = h
        /\ Ended(done', failed', panicked', lost', m) = e2
        /\ again'[m] = g
    BY <1>1
  <2>4. q2 \in Nat /\ e2 \in Nat /\ t2 \in Nat /\ o2 \in Nat
    BY <2>1, <2>3, NumbersAfter, OutNat, FS_CardinalityType DEF CountOf
  <2> HIDE DEF q, q2, e, e2, h, t, t2, o, o2, g
  <2>5. q2 + t2 + h + e2 = o2 + g
    BY <2>1, <2>2, <2>4
  <2> QED
    BY <2>1, <2>3, <2>5 DEF q2, t2, o2
<1> QED
  BY <1>2, <1>4, LedgerAfter

(* What goes to the queues and to the ends, x and y, was in hand, or is a  *)
(* copy that the broker kept, z.                                           *)
Shifts(c, m, x, y, z) ==
  /\ IsFiniteSet(Copies(main', m)) /\ IsFiniteSet(Copies(retry', m))
  /\ x \in Nat /\ y \in Nat /\ z \in Nat
  /\ InQueues(main', retry', m) = InQueues(main, retry, m) + x
  /\ Ended(done', failed', panicked', lost', m)
       = Ended(done, failed, panicked, lost, m) + y
  /\ again'[m] = again[m] + z
  /\ x + y + HeldAfter(c, m) = HeldBefore(c, m) + z

(* Such a step conserves the copies of m.                                  *)
LEMMA ConservesBy ==
  ASSUME IInv, LedgerInv, NEW c \in Consumers, NEW m \in Messages,
         NEW x, NEW y, NEW z, Shifts(c, m, x, y, z)
  PROVE  Conserves(c, m)
<1> DEFINE q == InQueues(main, retry, m)
           e == Ended(done, failed, panicked, lost, m)
           g == again[m]
           h == HeldBefore(c, m)
           h2 == HeldAfter(c, m)
<1>1. /\ q \in Nat /\ e \in Nat /\ g \in Nat /\ h \in Nat /\ h2 \in Nat
      /\ x \in Nat /\ y \in Nat /\ z \in Nat
      /\ x + y + h2 = h + z
  BY LedgerTerms, HeldNat DEF Numbers, Shifts
<1> HIDE DEF q, e, g, h, h2
<1>2. (q + x) + (e + y) + h2 + g = q + e + h + (g + z)
  BY <1>1
<1> QED
  BY <1>2 DEF Conserves, Shifts, q, e, g, h, h2

(* What the ledger counts before a step.                                   *)
LEMMA LedgerFinite ==
  ASSUME IInv, LedgerInv, NEW m \in Messages
  PROVE  /\ IsFiniteSet(Copies(main, m)) /\ IsFiniteSet(Copies(retry, m))
         /\ QueueOK(main) /\ QueueOK(retry)
         /\ CountOf(main, m) \in Nat /\ CountOf(retry, m) \in Nat
         /\ done[m] \in Nat /\ failed[m] \in Nat /\ panicked[m] \in Nat
         /\ lost[m] \in Nat /\ again[m] \in Nat
BY LedgerTerms DEF IInv, QueuesInv, LedgerInv, CountersInv, Numbers

(* A consumer that decides on its delivery lets it go.                     *)
LEMMA LetsGo ==
  ASSUME IInv, NEW c \in Consumers, consumer[c].pc \in Unsettled, GoTo(c, "ack"),
         UNCHANGED <<unacked, delay, published>>, NEW m \in Messages
  PROVE  /\ OnlyOf(c)
         /\ Task(c) \in Delivery /\ Task(c).msg \in Messages
         /\ HeldBefore(c, m) = IF c \in unacked THEN Is(Task(c).msg, m) ELSE 0
         /\ HeldAfter(c, m) = 0
<1>1. "ack" \in Steps /\ "ack" \notin Unsettled /\ consumer[c].pc \in Steps
  BY DEF Steps, Unsettled
<1>2. /\ consumer'[c].pc = "ack"
      /\ \A d \in Consumers \ {c} : consumer'[d] = consumer[d]
  BY <1>1 DEF GoTo, IInv, ConsumersInv
<1>3. Task(c) \in Delivery /\ Task(c).msg \in Messages
  BY <1>1, TaskAtWork DEF IInv
<1> QED
  BY <1>1, <1>2, <1>3 DEF OnlyOf, HeldBefore, HeldAfter, Held, Task

(* The delivery comes to one end, and to a second one later if the broker  *)
(* has taken it back.                                                      *)
LEMMA EndsLedger ==
  ASSUME IInv, LedgerInv, NEW c \in Consumers, consumer[c].pc \in Unsettled,
         GoTo(c, "ack"), UNCHANGED <<broker, unacked, published, lost, strayed>>,
         again' = AlsoTakenBack(c),
         \/ done' = Plus(done, Task(c).msg) /\ UNCHANGED <<failed, panicked>>
         \/ failed' = Plus(failed, Task(c).msg) /\ UNCHANGED <<done, panicked>>
         \/ panicked' = Plus(panicked, Task(c).msg) /\ UNCHANGED <<done, failed>>,
         NEW m \in Messages
  PROVE  OnlyOf(c) /\ Conserves(c, m)
<1> DEFINE i == Is(Task(c).msg, m)
           z == IF c \in unacked THEN 0 ELSE i
<1>1. /\ OnlyOf(c) /\ Task(c).msg \in Messages
      /\ HeldBefore(c, m) = IF c \in unacked THEN i ELSE 0
      /\ HeldAfter(c, m) = 0
      /\ main' = main /\ retry' = retry
  BY LetsGo DEF broker
<1>2. i \in Nat /\ z \in Nat
  BY IsNat
<1>3. /\ done \in [Messages -> Nat] /\ failed \in [Messages -> Nat]
      /\ panicked \in [Messages -> Nat] /\ again \in [Messages -> Nat]
      /\ again[m] \in Nat
  BY DEF IInv, CountersInv
<1>4. again'[m] = again[m] + z
  BY <1>1, <1>3, PlusCount DEF AlsoTakenBack
<1>5. Ended(done', failed', panicked', lost', m)
        = Ended(done, failed, panicked, lost, m) + i
  <2>1. /\ lost'[m] = lost[m]
        /\ \/ /\ done'[m] = done[m] + i /\ failed'[m] = failed[m]
              /\ panicked'[m] = panicked[m]
           \/ /\ failed'[m] = failed[m] + i /\ done'[m] = done[m]
              /\ panicked'[m] = panicked[m]
           \/ /\ panicked'[m] = panicked[m] + i /\ done'[m] = done[m]
              /\ failed'[m] = failed[m]
    BY <1>1, <1>3, PlusCount
  <2>2. /\ done[m] \in Nat /\ failed[m] \in Nat /\ panicked[m] \in Nat
        /\ lost[m] \in Nat
    BY LedgerFinite
  <2> HIDE DEF i
  <2> QED
    BY <1>2, <2>1, <2>2 DEF Ended
<1>6. /\ IsFiniteSet(Copies(main', m)) /\ IsFiniteSet(Copies(retry', m))
      /\ InQueues(main', retry', m) = InQueues(main, retry, m) + 0
  BY <1>1, LedgerFinite DEF InQueues
<1>7. 0 + i + HeldAfter(c, m) = HeldBefore(c, m) + z
  BY <1>1, <1>2
<1> HIDE DEF i, z
<1>8. Shifts(c, m, 0, i, z)
  BY <1>2, <1>4, <1>5, <1>6, <1>7 DEF Shifts
<1> QED
  BY <1>1, <1>8, ConservesBy

(* The delivery is gone, or it has been taken back.                        *)
LEMMA RetryFailedLedger ==
  ASSUME IInv, LedgerInv, NEW c \in Consumers, consumer[c].pc \in Unsettled,
         RetryFailed(c),
         UNCHANGED <<main, retry, delay, unacked, published, done, failed,
                     panicked, again>>,
         NEW m \in Messages
  PROVE  OnlyOf(c) /\ Conserves(c, m)
<1> DEFINE i == Is(Task(c).msg, m)
           y == IF c \in unacked THEN i ELSE 0
<1>1. /\ OnlyOf(c) /\ Task(c).msg \in Messages
      /\ HeldBefore(c, m) = IF c \in unacked THEN i ELSE 0
      /\ HeldAfter(c, m) = 0
      /\ lost' = IF c \in unacked THEN Plus(lost, Task(c).msg) ELSE lost
  BY LetsGo DEF RetryFailed
<1>2. i \in Nat /\ y \in Nat
  BY IsNat
<1>3. lost'[m] = lost[m] + y
  <2>1. lost \in [Messages -> Nat] /\ lost[m] \in Nat
    BY DEF IInv, CountersInv
  <2> QED
    BY <1>1, <2>1, PlusCount
<1>4. Ended(done', failed', panicked', lost', m)
        = Ended(done, failed, panicked, lost, m) + y
  <2>1. /\ done[m] \in Nat /\ failed[m] \in Nat /\ panicked[m] \in Nat
        /\ lost[m] \in Nat
    BY LedgerFinite
  <2> HIDE DEF y
  <2> QED
    BY <1>2, <1>3, <2>1 DEF Ended
<1>5. /\ IsFiniteSet(Copies(main', m)) /\ IsFiniteSet(Copies(retry', m))
      /\ InQueues(main', retry', m) = InQueues(main, retry, m) + 0
      /\ again'[m] = again[m] + 0
  BY LedgerFinite DEF InQueues
<1>6. 0 + y + HeldAfter(c, m) = HeldBefore(c, m) + 0
  BY <1>1, <1>2
<1> HIDE DEF i, y
<1>7. Shifts(c, m, 0, y, 0)
  BY <1>2, <1>4, <1>5, <1>6 DEF Shifts
<1> QED
  BY <1>1, <1>7, ConservesBy

(* A step towards the retry queue moves no copy.                           *)
LEMMA KeepsHold ==
  ASSUME IInv, LedgerInv, NEW c \in Consumers, consumer[c].pc \in Unsettled,
         NEW pc \in Unsettled, GoTo(c, pc),
         UNCHANGED <<main, retry, delay, unacked, published, done, failed,
                     panicked, lost, strayed, again>>,
         NEW m \in Messages
  PROVE  OnlyOf(c) /\ Conserves(c, m)
<1>1. pc \in Steps /\ consumer[c].pc \in Steps
  BY DEF Steps, Unsettled
<1>2. /\ consumer'[c].pc = pc
      /\ consumer'[c].task = consumer[c].task
      /\ \A d \in Consumers \ {c} : consumer'[d] = consumer[d]
  BY <1>1 DEF GoTo, IInv, ConsumersInv
<1>3. OnlyOf(c) /\ HeldAfter(c, m) = HeldBefore(c, m)
  BY <1>2 DEF OnlyOf, HeldAfter, HeldBefore, Held
<1>4. Shifts(c, m, 0, 0, 0)
  BY <1>3, LedgerFinite, LedgerTerms, HeldNat DEF Numbers, Shifts
<1> QED
  BY <1>3, <1>4, ConservesBy

(* The delivery that is sent on is in hand: its link is alive.             *)
LEMMA SentOnLedger ==
  ASSUME IInv, LedgerInv, NEW c \in Consumers, consumer[c].pc = "publish",
         c \in up, GoTo(c, "ack"), NEW d \in Delivery, d.msg = Task(c).msg,
         retry' = BagAdd(retry, d),
         UNCHANGED <<main, delay, unacked, published, done, failed, panicked,
                     lost, strayed, again>>,
         NEW m \in Messages
  PROVE  OnlyOf(c) /\ Conserves(c, m)
<1> DEFINE i == Is(Task(c).msg, m)
<1>1. consumer[c].pc \in Unsettled /\ c \in unacked
  BY DEF Unsettled, Steps, IInv, ConsumersInv, HandsAwaited
<1>2. OnlyOf(c) /\ HeldBefore(c, m) = i /\ HeldAfter(c, m) = 0
  BY <1>1, LetsGo
<1>3. /\ IsFiniteSet(Copies(main, m)) /\ IsFiniteSet(Copies(retry, m))
      /\ QueueOK(retry) /\ CountOf(main, m) \in Nat /\ CountOf(retry, m) \in Nat
  BY LedgerFinite
<1>4. /\ IsFiniteSet(Copies(retry', m))
      /\ CountOf(retry', m) = CountOf(retry, m) + i
  BY <1>3, AddCopy
<1>5. i \in Nat
  BY IsNat
<1> HIDE DEF i
<1>6. InQueues(main', retry', m) = InQueues(main, retry, m) + i
  BY <1>3, <1>4, <1>5 DEF InQueues
<1>7. Shifts(c, m, i, 0, 0)
  BY <1>2, <1>3, <1>4, <1>5, <1>6, LedgerTerms DEF Numbers, Shifts
<1> QED
  BY <1>2, <1>7, ConservesBy

(* A delivery is one copy less in the queue and one more in hand.          *)
LEMMA DeliverLedger ==
  ASSUME IInv, LedgerInv, NEW c \in Consumers, NEW d \in BagToSet(main),
         Deliver(c, d), NEW m \in Messages
  PROVE  OnlyOf(c) /\ Conserves(c, m)
<1>1. /\ consumer[c].pc = "idle" /\ main' = BagRemove(main, d)
      /\ consumer' = [consumer EXCEPT ![c] = [pc |-> "handle", task |-> d]]
      /\ unacked' = unacked \cup {c}
      /\ UNCHANGED <<retry, delay, published, done, failed, panicked, lost, strayed,
                     again>>
  BY DEF Deliver, At, AwaitingAck, history
<1> DEFINE i == Is(d.msg, m)
           a == CountOf(main, m)
           a2 == CountOf(main', m)
           r == CountOf(retry, m)
           e == Ended(done, failed, panicked, lost, m)
           g == again[m]
<1>2. /\ consumer'[c].pc = "handle" /\ consumer'[c].task = d
      /\ \A b \in Consumers \ {c} : consumer'[b] = consumer[b]
  BY <1>1 DEF IInv, ConsumersInv
<1>3. c \notin unacked
  BY <1>1 DEF IInv, ConsumersInv, HandsAwaited, Steps
<1>4. OnlyOf(c) /\ HeldBefore(c, m) = 0 /\ HeldAfter(c, m) = i
  BY <1>1, <1>2, <1>3 DEF OnlyOf, HeldBefore, HeldAfter, Held, Unsettled
<1>5. /\ IsFiniteSet(Copies(main, m)) /\ IsFiniteSet(Copies(retry, m))
      /\ QueueOK(main)
  BY LedgerFinite
<1>6. IsFiniteSet(Copies(main', m)) /\ a = a2 + i /\ a2 \in Nat
  BY <1>1, <1>5, RemoveCopy, FS_CardinalityType DEF CountOf
<1>7. i \in Nat /\ r \in Nat /\ e \in Nat /\ g \in Nat
  BY IsNat, LedgerTerms DEF Numbers
<1>8. /\ InQueues(main, retry, m) = a + r
      /\ InQueues(main', retry', m) = a2 + r
      /\ Ended(done', failed', panicked', lost', m) = e
      /\ again'[m] = g
  BY <1>1 DEF InQueues
<1> HIDE DEF i, a, a2, r, e, g
<1>9. (a2 + r) + e + i + g = (a + r) + e + 0 + g
  BY <1>6, <1>7
<1> QED
  BY <1>1, <1>4, <1>5, <1>6, <1>8, <1>9 DEF Conserves, e, g

(* The end of a delivery that was decided on.                              *)
LEMMA LeaveLedger ==
  ASSUME IInv, LedgerInv, NEW c \in Consumers, Ack(c) \/ Restart(c),
         NEW m \in Messages
  PROVE  OnlyOf(c) /\ Conserves(c, m)
<1>1. /\ consumer' = [consumer EXCEPT ![c] = [pc |-> "idle", task |-> NoDelivery]]
      /\ UNCHANGED <<main, retry, delay, published, done, failed, panicked,
                     lost, strayed, again>>
      /\ unacked' \ {c} = unacked \ {c}
      /\ c \notin unacked'
      /\ consumer[c].pc = "ack" \/ c \notin unacked
  BY DEF Ack, Restart, At, broker, history, IInv, ConsumersInv
<1>2. \A d \in Consumers \ {c} : consumer'[d] = consumer[d]
  BY <1>1 DEF IInv, ConsumersInv
<1>3. OnlyOf(c) /\ HeldBefore(c, m) = 0 /\ HeldAfter(c, m) = 0
  BY <1>1, <1>2 DEF OnlyOf, HeldBefore, HeldAfter, Held, Unsettled
<1>4. Shifts(c, m, 0, 0, 0)
  BY <1>1, <1>3, LedgerFinite, LedgerTerms DEF Numbers, Shifts
<1> QED
  BY <1>3, <1>4, ConservesBy

(* What the broker takes back is a copy more, unless it was in hand.       *)
LEMMA DropLedger ==
  ASSUME IInv, LedgerInv, NEW c \in Consumers, Drop(c), NEW m \in Messages
  PROVE  OnlyOf(c) /\ Conserves(c, m)
<1>1. /\ unacked' = unacked \ {c}
      /\ main' = IF c \in unacked THEN BagAdd(main, Task(c)) ELSE main
      /\ again' = IF c \in unacked /\ consumer[c].pc \notin Unsettled
                  THEN Plus(again, Task(c).msg) ELSE again
      /\ UNCHANGED <<consumer, retry, delay, published, done, failed, panicked,
                     lost, strayed>>
  BY DEF Drop
<1>2. OnlyOf(c) /\ HeldAfter(c, m) = 0
  BY <1>1 DEF OnlyOf, HeldAfter, Held
<1>3. CASE c \notin unacked
  <2>1. HeldBefore(c, m) = 0 /\ main' = main /\ again' = again
    BY <1>1, <1>3 DEF HeldBefore, Held
  <2>2. Shifts(c, m, 0, 0, 0)
    BY <1>1, <1>2, <2>1, LedgerFinite, LedgerTerms DEF Numbers, Shifts
  <2> QED
    BY <1>2, <2>2, ConservesBy
<1>4. CASE c \in unacked
  <2> DEFINE i == Is(Task(c).msg, m)
             z == IF consumer[c].pc \in Unsettled THEN 0 ELSE i
  <2>1. consumer[c].pc \in Steps
    BY <1>4 DEF IInv, ConsumersInv, HandsAwaited
  <2>2. Task(c) \in Delivery /\ Task(c).msg \in Messages
    BY <2>1, TaskAtWork DEF IInv
  <2>3. HeldBefore(c, m) = IF consumer[c].pc \in Unsettled THEN i ELSE 0
    BY <1>4 DEF HeldBefore, Held, Task
  <2>4. /\ IsFiniteSet(Copies(main, m)) /\ IsFiniteSet(Copies(retry, m))
        /\ QueueOK(main) /\ CountOf(main, m) \in Nat /\ CountOf(retry, m) \in Nat
        /\ again[m] \in Nat
    BY LedgerFinite
  <2>5. /\ IsFiniteSet(Copies(main', m))
        /\ CountOf(main', m) = CountOf(main, m) + i
    BY <1>1, <1>4, <2>2, <2>4, AddCopy
  <2>6. again'[m] = again[m] + z
    <3>1. again \in [Messages -> Nat]
      BY DEF IInv, CountersInv
    <3> QED
      BY <1>1, <1>4, <2>2, <2>4, <3>1, PlusCount
  <2>7. i \in Nat /\ z \in Nat
    BY IsNat
  <2>8. i + 0 + HeldAfter(c, m) = HeldBefore(c, m) + z
    BY <1>2, <2>3, <2>7
  <2> HIDE DEF i, z
  <2>9. InQueues(main', retry', m) = InQueues(main, retry, m) + i
    BY <1>1, <2>4, <2>5, <2>7 DEF InQueues
  <2>10. /\ IsFiniteSet(Copies(retry', m))
         /\ Ended(done', failed', panicked', lost', m)
              = Ended(done, failed, panicked, lost, m) + 0
    BY <1>1, <2>4, LedgerTerms DEF Numbers
  <2>11. Shifts(c, m, i, 0, z)
    BY <2>5, <2>6, <2>7, <2>8, <2>9, <2>10 DEF Shifts
  <2> QED
    BY <1>2, <2>11, ConservesBy
<1> QED
  BY <1>3, <1>4

(* Each step of a consumer conserves the copies of every message.          *)
LEMMA StepLedger ==
  ASSUME MqConsumerAssumption, IInv, LedgerInv, NEW c \in Consumers,
         Process(c) \/ Drop(c) \/ Restart(c), NEW m \in Messages
  PROVE  OnlyOf(c) /\ Conserves(c, m)
<1> USE DEF Unsettled
<1>1. CASE HandlerSucceeds(c) \/ HandlerPanics(c)
  <2>1. /\ consumer[c].pc \in Unsettled /\ GoTo(c, "ack")
        /\ UNCHANGED <<broker, unacked, published, lost, strayed>>
        /\ again' = AlsoTakenBack(c)
        /\ \/ done' = Plus(done, Task(c).msg) /\ UNCHANGED <<failed, panicked>>
           \/ panicked' = Plus(panicked, Task(c).msg) /\ UNCHANGED <<done, failed>>
    BY <1>1 DEF HandlerSucceeds, HandlerPanics, At
  <2> QED
    BY <2>1, EndsLedger
<1>2. CASE HandlerFails(c)
  <2>1. /\ consumer[c].pc \in Unsettled
        /\ UNCHANGED <<broker, unacked, published, done, panicked, lost, strayed>>
    BY <1>2 DEF HandlerFails, At
  <2>2. CASE MayRetry(Task(c).retries)
    <3>1. UNCHANGED <<failed, again>>
      BY <1>2, <2>2 DEF HandlerFails
    <3>2. PICK pc \in Unsettled : GoTo(c, pc)
      BY <1>2, <2>2 DEF HandlerFails
    <3> QED
      BY <2>1, <3>1, <3>2, KeepsHold DEF broker
  <2>3. CASE ~MayRetry(Task(c).retries)
    <3>1. /\ GoTo(c, "ack") /\ failed' = Plus(failed, Task(c).msg)
          /\ again' = AlsoTakenBack(c)
      BY <1>2, <2>3 DEF HandlerFails
    <3> QED
      BY <2>1, <3>1, EndsLedger
  <2> QED
    BY <2>2, <2>3
<1>3. CASE DeclareRetry(c) \/ DeclareRetryTTL(c)
  <2>1. /\ consumer[c].pc \in Unsettled
        /\ UNCHANGED <<main, retry, delay, unacked, published, done, failed,
                       panicked, strayed, again>>
    BY <1>3 DEF DeclareRetry, DeclareRetryTTL, At
  <2>2. CASE RetryFailed(c)
    BY <2>1, <2>2, RetryFailedLedger
  <2>3. CASE ~RetryFailed(c)
    <3>1. lost' = lost /\ \E pc \in Unsettled : GoTo(c, pc)
      BY <1>3, <2>3 DEF DeclareRetry, DeclareRetryTTL
    <3> QED
      BY <2>1, <3>1, KeepsHold
  <2> QED
    BY <2>2, <2>3
<1>4. CASE PublishRetry(c)
  <2>1. /\ consumer[c].pc = "publish" /\ consumer[c].pc \in Unsettled
        /\ UNCHANGED <<main, delay, unacked, published, done, failed, panicked,
                       strayed, again>>
    BY <1>4 DEF PublishRetry, At
  <2>2. CASE c \in up
    <3> DEFINE d == [msg |-> Task(c).msg, retries |-> NextRetry(Task(c).retries)]
    <3>1. consumer[c].pc \in Steps /\ consumer[c].pc \in Redeclaring
      BY <2>1 DEF Steps, Redeclaring
    <3>2. /\ Task(c).msg \in Messages /\ Task(c).retries \in 0..MaxRetries
          /\ Task(c).retries < MaxRetries
      BY <3>1, TaskAtWork DEF IInv, TasksBacked
    <3>3. d \in Delivery /\ d.msg = Task(c).msg
      BY <3>2 DEF Delivery, NextRetry, MqConsumerAssumption
    <3>4. retry' = BagAdd(retry, d) /\ GoTo(c, "ack") /\ lost' = lost
      BY <1>4, <2>2 DEF PublishRetry
    <3> HIDE DEF d
    <3> QED
      BY <2>1, <2>2, <3>3, <3>4, SentOnLedger
  <2>3. CASE c \notin up
    <3>1. RetryFailed(c) /\ retry' = retry
      BY <1>4, <2>3 DEF PublishRetry
    <3> QED
      BY <2>1, <3>1, RetryFailedLedger
  <2> QED
    BY <2>2, <2>3
<1>5. CASE \E d \in BagToSet(main) : Deliver(c, d)
  BY <1>5, DeliverLedger
<1>6. CASE Ack(c) \/ Restart(c)
  BY <1>6, LeaveLedger
<1>7. CASE Drop(c)
  BY <1>7, DropLedger
<1> QED
  BY <1>1, <1>2, <1>3, <1>4, <1>5, <1>6, <1>7 DEF Process

(* Every step keeps the ledger.                                            *)
LEMMA NextLedger ==
  ASSUME MqConsumerAssumption, IInv, IInv', LedgerInv, [Next]_vars
  PROVE  LedgerInv'
<1>1. CASE UNCHANGED vars
  BY <1>1
     DEF vars, broker, history, LedgerInv, MessageLedger, Waiting, InHand
<1>2. CASE QueueStep
  BY <1>2, QueueLedger
<1>3. ASSUME NEW c \in Consumers, Process(c) \/ Drop(c) \/ Restart(c)
      PROVE  LedgerInv'
  <2>1. \A m \in Messages : OnlyOf(c) /\ Conserves(c, m)
    BY <1>3, StepLedger
  <2>2. CASE Messages = {}
    <3>1. IsFiniteSet(unacked')
      <4>1. unacked' \subseteq unacked \cup {c}
        BY <1>3
           DEF Process, Deliver, AwaitingAck, HandlerSucceeds, HandlerPanics,
               HandlerFails, DeclareRetry, DeclareRetryTTL, PublishRetry, Ack,
               Drop, Restart
      <4> QED
        BY <4>1, FS_AddElement, FS_Subset DEF LedgerInv
    <3> QED
      BY <2>2, <3>1 DEF LedgerInv, MessageLedger
  <2>3. CASE Messages # {}
    BY <2>1, <2>3, ConsumerLedger
  <2> QED
    BY <2>2, <2>3
<1> QED
  BY <1>1, <1>2, <1>3 DEF Next, QueueStep

(* Each copy of a message is waiting, handled to the end or lost, and the  *)
(* only ones beside the message itself are those the broker kept of a      *)
(* delivery that its consumer had decided on, or was to decide on, without *)
(* its link.                                                               *)
THEOREM MessageLedgerAlways ==
  ASSUME MqConsumerAssumption
  PROVE  Spec => []MessageLedger
<1>1. Init => IInv /\ LedgerInv
  BY InitInv, InitLedger
<1>2. IInv /\ LedgerInv /\ [Next]_vars => IInv' /\ LedgerInv'
  BY NextInv, NextLedger
<1>3. LedgerInv => MessageLedger
  BY DEF LedgerInv
<1> QED
  BY <1>1, <1>2, <1>3, PTL DEF Spec

-----------------------------------------------------------------------------
(* The deliveries of m that are about to be sent on.                       *)
Redeclared(h, u, m) == Cardinality(Holding(h, u, Redeclaring, m))

(* A delivery that is about to be sent on has a failure of its own: it is  *)
(* what the message loses with it.                                         *)
LostInv ==
  /\ IsFiniteSet(unacked)
  /\ queueExchange \in QueueExchanges
  /\ \A m \in Messages :
       /\ lost[m] + Redeclared(consumer, unacked, m) <= strayed[m] + attempts[m]
       /\ lost[m] > strayed[m] => queueExchange.ExName
       /\ strayed[m] > 0 => ~ DelayReturns

(* Before and after a step of one consumer.                                *)
SendsBefore(c, m) == Held(consumer, unacked, c, Redeclaring, m)

SendsAfter(c, m) == Held(consumer', unacked', c, Redeclaring, m)

LosesOnlySent(c, m) ==
  /\ \A d \in Consumers \ {c} : consumer'[d] = consumer[d]
  /\ unacked' \ {c} = unacked \ {c}
  /\ lost'[m] + SendsAfter(c, m) + attempts[m]
       <= lost[m] + SendsBefore(c, m) + attempts'[m]
  /\ lost'[m] > lost[m] => queueExchange.ExName
  /\ strayed' = strayed

(* Such a step, of whichever consumer, keeps the invariant.                *)
LEMMA LosesLittle ==
  ASSUME IInv, IInv', LostInv, NEW c \in Consumers, NEW m \in Messages,
         queueExchange' = queueExchange, LosesOnlySent(c, m)
  PROVE  /\ IsFiniteSet(unacked')
         /\ queueExchange' \in QueueExchanges
         /\ lost'[m] + Redeclared(consumer', unacked', m) <= strayed'[m] + attempts'[m]
         /\ lost'[m] > strayed'[m] => queueExchange'.ExName
         /\ strayed'[m] > 0 => ~ DelayReturns'
<1>1. /\ IsFiniteSet(unacked) /\ unacked' \ {c} = unacked \ {c}
      /\ \A d \in unacked \ {c} : consumer'[d] = consumer[d]
  BY DEF LosesOnlySent, LostInv, IInv, ConsumersInv
<1> DEFINE l == lost[m]
           l2 == lost'[m]
           n == attempts[m]
           n2 == attempts'[m]
           t == strayed[m]
           h == Redeclared(consumer, unacked, m)
           h2 == Redeclared(consumer', unacked', m)
           x == SendsBefore(c, m)
           x2 == SendsAfter(c, m)
<1>2. /\ l \in Nat /\ l2 \in Nat /\ n \in Nat /\ n2 \in Nat
      /\ x \in Nat /\ x2 \in Nat /\ t \in Nat /\ strayed'[m] = t
  BY IsNat, Zenon
     DEF IInv, CountersInv, SendsBefore, SendsAfter, Held, LosesOnlySent
<1>3. IsFiniteSet(unacked') /\ h \in Nat /\ h2 \in Nat /\ h2 + x = h + x2
  <2>1. /\ IsFiniteSet(unacked') /\ h \in Nat /\ h2 \in Nat
        /\ h2 + Held(consumer, unacked, c, Redeclaring, m)
             = h + Held(consumer', unacked', c, Redeclaring, m)
    <3> SUFFICES
          /\ IsFiniteSet(unacked')
          /\ Cardinality(Holding(consumer, unacked, Redeclaring, m)) \in Nat
          /\ Cardinality(Holding(consumer', unacked', Redeclaring, m)) \in Nat
          /\ Cardinality(Holding(consumer', unacked', Redeclaring, m))
               + Held(consumer, unacked, c, Redeclaring, m)
             = Cardinality(Holding(consumer, unacked, Redeclaring, m))
               + Held(consumer', unacked', c, Redeclaring, m)
      BY DEF Redeclared
    <3> DEFINE k == consumer'
               v == unacked'
    <3>1. \A d \in unacked \ {c} : k[d] = consumer[d]
      BY <1>1
    <3>2. IsFiniteSet(unacked) /\ unacked \ {c} = v \ {c}
      BY <1>1
    <3> HIDE DEF k, v
    <3>3. /\ IsFiniteSet(v)
          /\ Cardinality(Holding(consumer, unacked, Redeclaring, m)) \in Nat
          /\ Cardinality(Holding(k, v, Redeclaring, m)) \in Nat
          /\ Cardinality(Holding(k, v, Redeclaring, m))
               + Held(consumer, unacked, c, Redeclaring, m)
             = Cardinality(Holding(consumer, unacked, Redeclaring, m))
               + Held(k, v, c, Redeclaring, m)
      BY <3>1, <3>2, HandCount
    <3> QED
      BY <3>3 DEF k, v
  <2> QED
    BY <2>1 DEF SendsBefore, SendsAfter
<1>4. /\ l + h <= t + n
      /\ l2 + x2 + n <= l + x + n2
      /\ l > t => queueExchange.ExName
      /\ l2 > l => queueExchange.ExName
      /\ queueExchange \in QueueExchanges
  BY DEF LostInv, LosesOnlySent
<1>5. t > 0 => ~ DelayReturns'
  BY DEF LostInv, DelayReturns
<1> HIDE DEF l, l2, n, n2, t, h, h2, x, x2
<1>6. l2 + h2 <= t + n2
  BY <1>2, <1>3, <1>4
<1>7. l2 > t => l > t \/ l2 > l
  BY <1>2
<1> QED
  BY <1>2, <1>3, <1>4, <1>5, <1>6, <1>7 DEF l2, h2, n2

(* A consumer that sends nothing on before the step.                       *)
LEMMA TakesLittle ==
  ASSUME MqConsumerAssumption, IInv, NEW c \in Consumers,
         \/ \E d \in BagToSet(main) : Deliver(c, d)
         \/ HandlerSucceeds(c)
         \/ HandlerPanics(c)
         \/ Ack(c)
         \/ Drop(c)
         \/ Restart(c),
         NEW m \in Messages
  PROVE  LosesOnlySent(c, m)
<1>1. /\ \A d \in Consumers \ {c} : consumer'[d] = consumer[d]
      /\ unacked' \ {c} = unacked \ {c}
      /\ UNCHANGED <<lost, strayed, attempts>>
  BY DEF Deliver, AwaitingAck, HandlerSucceeds, HandlerPanics, GoTo, Ack, Drop,
         Restart, history, IInv, ConsumersInv
<1>2. c \in unacked' => consumer'[c].pc \notin Redeclaring
  BY DEF Deliver, HandlerSucceeds, HandlerPanics, GoTo, Ack, Drop, Restart,
         Redeclaring, IInv, ConsumersInv
<1>3. SendsAfter(c, m) = 0 /\ SendsBefore(c, m) \in Nat
  BY <1>2, IsNat DEF SendsAfter, SendsBefore, Held
<1>4. lost[m] \in Nat /\ attempts[m] \in Nat
  BY DEF IInv, CountersInv
<1> QED
  BY <1>1, <1>3, <1>4 DEF LosesOnlySent

(* A failure is counted before its delivery is sent on.                    *)
LEMMA FailsLittle ==
  ASSUME IInv, NEW c \in Consumers, HandlerFails(c), NEW m \in Messages
  PROVE  LosesOnlySent(c, m)
<1>1. /\ consumer[c].pc = "handle" /\ consumer[c].pc \in Steps
      /\ consumer[c].pc \notin Redeclaring
      /\ attempts' = Plus(attempts, Task(c).msg)
      /\ UNCHANGED <<unacked, lost, strayed>>
  BY DEF HandlerFails, At, Steps, Redeclaring
<1>2. PICK pc : GoTo(c, pc)
  BY DEF HandlerFails
<1>3. /\ consumer'[c].task = consumer[c].task
      /\ \A d \in Consumers \ {c} : consumer'[d] = consumer[d]
  BY <1>2 DEF GoTo, IInv, ConsumersInv
<1> DEFINE i == Is(Task(c).msg, m)
<1>4. attempts'[m] = attempts[m] + i
  BY <1>1, TaskAtWork, PlusCount DEF IInv, CountersInv
<1>5. SendsBefore(c, m) = 0 /\ SendsAfter(c, m) \in {0, i} /\ i \in Nat
  BY <1>1, <1>3, IsNat DEF SendsBefore, SendsAfter, Held, Task
<1>6. lost[m] \in Nat /\ attempts[m] \in Nat /\ lost'[m] = lost[m]
  BY <1>1 DEF IInv, CountersInv
<1> HIDE DEF i
<1>7. lost[m] + SendsAfter(c, m) + attempts[m]
        <= lost[m] + SendsBefore(c, m) + (attempts[m] + i)
  BY <1>5, <1>6
<1> QED
  BY <1>1, <1>3, <1>4, <1>6, <1>7 DEF LosesOnlySent

(* With its link a consumer fails to send on only where the retry queue    *)
(* has been declared both ways.                                            *)
LEMMA SendsLittle ==
  ASSUME IInv, NEW c \in Consumers,
         DeclareRetry(c) \/ DeclareRetryTTL(c) \/ PublishRetry(c),
         NEW m \in Messages
  PROVE  LosesOnlySent(c, m)
<1>1. /\ consumer[c].pc \in Steps /\ consumer[c].pc \in Redeclaring
      /\ UNCHANGED <<unacked, attempts, strayed>>
  BY DEF DeclareRetry, DeclareRetryTTL, PublishRetry, At, Steps, Redeclaring
<1>2. \E pc \in Steps : GoTo(c, pc)
  BY DEF DeclareRetry, DeclareRetryTTL, PublishRetry, RetryFailed, Steps
<1>3. /\ consumer'[c].task = consumer[c].task
      /\ \A d \in Consumers \ {c} : consumer'[d] = consumer[d]
  BY <1>2 DEF GoTo, IInv, ConsumersInv
<1> DEFINE i == Is(Task(c).msg, m)
<1>4. /\ i \in Nat /\ lost[m] \in Nat /\ attempts[m] \in Nat
      /\ lost \in [Messages -> Nat]
      /\ Task(c).msg \in Messages
  BY <1>1, IsNat, TaskAtWork DEF IInv, CountersInv
<1>5. SendsBefore(c, m) = IF c \in unacked THEN i ELSE 0
  BY <1>1 DEF SendsBefore, Held, Task
<1>6. CASE RetryFailed(c)
  <2>1. SendsAfter(c, m) = 0
    <3>1. consumer'[c].pc \notin Redeclaring
      BY <1>6 DEF RetryFailed, GoTo, Redeclaring, IInv, ConsumersInv
    <3> QED
      BY <3>1 DEF SendsAfter, Held
  <2>2. lost' = IF c \in unacked THEN Plus(lost, Task(c).msg) ELSE lost
    BY <1>6 DEF RetryFailed
  <2>3. CASE c \in unacked
    <3>1. lost'[m] = lost[m] + i
      BY <1>4, <2>2, <2>3, PlusCount
    <3>2. queueExchange.ExName
      <4>1. c \in up
        BY <2>3 DEF IInv, ConsumersInv
      <4>2. CASE DeclareRetry(c)
        BY <4>2 DEF DeclareRetry, IInv, RetryQueueInv, PlainOnlyNamed
      <4>3. CASE DeclareRetryTTL(c)
        <5>1. retryQueue = "plain"
          <6>1. GoTo(c, "ack")
            BY <1>6 DEF RetryFailed
          <6>2. ~GoTo(c, "publish")
            BY <6>1 DEF GoTo, IInv, ConsumersInv
          <6> QED
            BY <4>1, <4>3, <6>2 DEF DeclareRetryTTL
        <5> QED
          BY <5>1 DEF IInv, RetryQueueInv, PlainOnlyNamed
      <4>4. CASE PublishRetry(c)
        <5>1. lost' = lost
          BY <4>1, <4>4 DEF PublishRetry
        <5>2. lost'[Task(c).msg] = lost[Task(c).msg] + 1
          BY <1>4, <2>2, <2>3, PlusType
        <5>3. lost[Task(c).msg] \in Nat
          BY <1>4
        <5> QED
          BY <5>1, <5>2, <5>3
      <4> QED
        BY <4>2, <4>3, <4>4
    <3> HIDE DEF i
    <3>3. (lost[m] + i) + 0 + attempts[m] <= lost[m] + i + attempts[m]
      BY <1>4
    <3> QED
      BY <1>1, <1>3, <1>5, <2>1, <2>3, <3>1, <3>2, <3>3 DEF LosesOnlySent
  <2>4. CASE c \notin unacked
    BY <1>1, <1>3, <1>4, <1>5, <2>1, <2>2, <2>4 DEF LosesOnlySent
  <2> QED
    BY <2>3, <2>4
<1>7. CASE ~RetryFailed(c)
  <2>1. lost' = lost
    BY <1>7 DEF DeclareRetry, DeclareRetryTTL, PublishRetry
  <2>2. SendsAfter(c, m) \in {0, SendsBefore(c, m)}
    BY <1>1, <1>3 DEF SendsAfter, SendsBefore, Held
  <2>3. SendsBefore(c, m) \in Nat
    BY <1>4, <1>5
  <2> QED
    BY <1>1, <1>3, <1>4, <2>1, <2>2, <2>3 DEF LosesOnlySent
<1> QED
  BY <1>6, <1>7

(* What the delay queue sends nowhere has strayed; publishing and the      *)
(* retry queue lose nothing.                                               *)
LEMMA QueuesLoseStrays ==
  ASSUME IInv, LostInv, QueueStep
  PROVE  LostInv'
<1>1. UNCHANGED <<queueExchange, consumer, unacked, attempts>>
  BY DEF QueueStep, Publish, PublishDelay, DelayExpires, RetryExpires, history
<1>2. CASE UNCHANGED <<lost, strayed>>
  BY <1>1, <1>2 DEF LostInv, DelayReturns
<1>3. CASE ~ UNCHANGED <<lost, strayed>>
  <2>1. PICK d \in BagToSet(delay) : DelayExpires(d)
    BY <1>3 DEF QueueStep, Publish, PublishDelay, RetryExpires, history
  <2>2. d.msg \in Messages
    BY DEF IInv, QueuesInv, QueueOK, Delivery
  <2>3. /\ ~ DelayReturns
        /\ lost' = Plus(lost, d.msg)
        /\ strayed' = Plus(strayed, d.msg)
    BY <1>3, <2>1 DEF DelayExpires
  <2>4. lost \in [Messages -> Nat] /\ strayed \in [Messages -> Nat]
        /\ attempts \in [Messages -> Nat]
    BY DEF IInv, CountersInv
  <2> SUFFICES ASSUME NEW m \in Messages
               PROVE  /\ lost'[m] + Redeclared(consumer, unacked, m)
                           <= strayed'[m] + attempts[m]
                      /\ lost'[m] > strayed'[m] => queueExchange.ExName
    BY <1>1, <2>3 DEF LostInv, DelayReturns
  <2>5. /\ lost'[m] = lost[m] + Is(d.msg, m)
        /\ strayed'[m] = strayed[m] + Is(d.msg, m)
    BY <2>2, <2>3, <2>4, PlusCount
  <2>6. Redeclared(consumer, unacked, m) \in Nat
    <3>1. Holding(consumer, unacked, Redeclaring, m) \subseteq unacked
      BY DEF Holding
    <3> QED
      BY <3>1, FS_Subset, FS_CardinalityType DEF LostInv, Redeclared
  <2>7. /\ lost[m] + Redeclared(consumer, unacked, m) <= strayed[m] + attempts[m]
        /\ lost[m] > strayed[m] => queueExchange.ExName
    BY DEF LostInv
  <2>8. Is(d.msg, m) \in Nat
    BY IsNat
  <2> QED
    BY <2>4, <2>5, <2>6, <2>7, <2>8
<1> QED
  BY <1>2, <1>3

(* Every step keeps the invariant.                                         *)
LEMMA NextLost ==
  ASSUME MqConsumerAssumption, IInv, IInv', LostInv, [Next]_vars
  PROVE  LostInv'
<1>1. CASE UNCHANGED vars
  BY <1>1 DEF vars, broker, history, LostInv, DelayReturns
<1>2. CASE QueueStep
  BY <1>2, QueuesLoseStrays
<1>3. ASSUME NEW c \in Consumers, Process(c) \/ Drop(c) \/ Restart(c)
      PROVE  LostInv'
  <2>1. queueExchange' = queueExchange
    BY <1>3
       DEF Process, Deliver, HandlerSucceeds, HandlerPanics, HandlerFails,
           DeclareRetry, DeclareRetryTTL, PublishRetry, Ack, Drop, Restart, broker
  <2>2. \A m \in Messages : LosesOnlySent(c, m)
    BY <1>3, TakesLittle, FailsLittle, SendsLittle DEF Process
  <2>3. \A m \in Messages :
          /\ IsFiniteSet(unacked')
          /\ queueExchange' \in QueueExchanges
          /\ lost'[m] + Redeclared(consumer', unacked', m) <= strayed'[m] + attempts'[m]
          /\ lost'[m] > strayed'[m] => queueExchange'.ExName
          /\ strayed'[m] > 0 => ~ DelayReturns'
    BY <2>1, <2>2, LosesLittle
  <2>4. IsFiniteSet(unacked') /\ queueExchange' \in QueueExchanges
    <3>1. unacked' \subseteq unacked \cup {c}
      BY <1>3
         DEF Process, Deliver, AwaitingAck, HandlerSucceeds, HandlerPanics,
             HandlerFails, DeclareRetry, DeclareRetryTTL, PublishRetry, Ack,
             Drop, Restart
    <3> QED
      BY <2>1, <3>1, FS_AddElement, FS_Subset DEF LostInv
  <2> QED
    BY <2>3, <2>4 DEF LostInv
<1> QED
  BY <1>1, <1>2, <1>3 DEF Next, QueueStep

(* A copy is lost only where the retry queue is declared both ways, for a  *)
(* failure of its own, or where the delay queue leads nowhere, for any     *)
(* address of the queue.                                                   *)
THEOREM LostOnTheWayBackAlways ==
  ASSUME MqConsumerAssumption
  PROVE  Spec => []LostOnTheWayBack
<1>1. Init => IInv /\ LostInv
  <2> SUFFICES ASSUME Init PROVE IInv /\ LostInv
    OBVIOUS
  <2>1. \A m : Holding(consumer, unacked, Redeclaring, m) = {}
    BY DEF Init, Holding
  <2>2. IsFiniteSet({}) /\ Cardinality({}) = 0
    BY FS_EmptySet
  <2> QED
    BY <2>1, <2>2, InitInv DEF Init, Zero, LostInv, Redeclared
<1>2. IInv /\ LostInv /\ [Next]_vars => IInv' /\ LostInv'
  BY NextInv, NextLost
<1>3. IInv /\ LostInv => LostOnTheWayBack
  <2> SUFFICES ASSUME IInv, LostInv, NEW m \in Messages
               PROVE  lost[m] <= strayed[m] + attempts[m]
    BY DEF LostOnTheWayBack, LostInv
  <2>1. /\ lost[m] + Redeclared(consumer, unacked, m) <= strayed[m] + attempts[m]
        /\ lost[m] \in Nat /\ strayed[m] \in Nat /\ attempts[m] \in Nat
    BY DEF LostInv, IInv, CountersInv
  <2>2. Redeclared(consumer, unacked, m) \in Nat
    <3>1. Holding(consumer, unacked, Redeclaring, m) \subseteq unacked
      BY DEF Holding
    <3> QED
      BY <3>1, FS_Subset, FS_CardinalityType DEF LostInv, Redeclared
  <2> QED
    BY <2>1, <2>2
<1> QED
  BY <1>1, <1>2, <1>3, PTL DEF Spec

(* All of it together.                                                     *)
THEOREM MessagesKeptAlways ==
  ASSUME MqConsumerAssumption
  PROVE  Spec => []MessagesKept
BY MessageLedgerAlways, GivenUpAlways, LostOnTheWayBackAlways, PTL
   DEF MessagesKept

=============================================================================
