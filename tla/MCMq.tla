-------------------------------- MODULE MCMq --------------------------------
(***************************************************************************)
(* Instances for TLC of the message clients: the two halves of             *)
(* framework/mq, which are independent of each other, its older interface, *)
(* the Kafka and the MQTT client.  `part' names the one that runs.         *)
(***************************************************************************)
EXTENDS MqConnection

CONSTANT Parts   \* the clients to run

VARIABLE part

queueVars == <<queueExchange, main, retry, delay, retryQueue, consumer,
               unacked, alive, linkDrops, published, failures, done, failed,
               panicked, lost, strayed, again>>

legacyVars == <<broker, open, connection, dials, maxTryNums, recv, ended,
                unsent, queue, delayed, ledger>>

kafkaVars == <<produced, committed, owner, member, faults, handled, passedOver>>

mqttVars == <<client, cleanSession, global, session, callbacks, inFlight,
              clientDrops, messages, delivered, publishing>>

(* With an exchange and without; without, the dead letters of the delay    *)
(* queue reach the queue, or nobody.                                       *)
MCQueueExchanges ==
  {[ExName |-> TRUE, RtKey |-> "queue"], [ExName |-> FALSE, RtKey |-> "queue"],
   [ExName |-> FALSE, RtKey |-> "none"]}

MCInit ==
  /\ part \in Parts
  /\ Init /\ Q!Init /\ L!Init /\ K!Init /\ M!Init
  /\ part # "queue" => /\ queueExchange = [ExName |-> FALSE, RtKey |-> "queue"]
                       /\ retryQueue = "absent"
  /\ part = "kafka" \/ owner = "c1"
  /\ part = "mqtt" \/ (~ cleanSession /\ ~ global)

MCNext ==
  /\ IF part = "connection" THEN TRUE ELSE UNCHANGED vars
  /\ IF part = "queue" THEN TRUE ELSE UNCHANGED queueVars
  /\ IF part = "legacy" THEN TRUE ELSE UNCHANGED legacyVars
  /\ IF part = "kafka" THEN TRUE ELSE UNCHANGED kafkaVars
  /\ IF part = "mqtt" THEN TRUE ELSE UNCHANGED mqttVars
  /\ \/ part = "connection" /\ Next
     \/ part = "queue" /\ Q!Next
     \/ part = "legacy" /\ L!Next
     \/ part = "kafka" /\ K!Next
     \/ part = "mqtt" /\ M!Next
  /\ UNCHANGED part

(* The fairness of each client, on its part.                               *)
MCSpec ==
  /\ MCInit
  /\ [][MCNext]_<<part, vars, queueVars, legacyVars, kafkaVars, mqttVars>>
  /\ \A a \in Actors : WF_vars(part = "connection" /\ ConnectStep(a))
  /\ SF_vars(part = "connection" /\ \E a \in Actors : DialSucceeds(a))
  /\ WF_vars(part = "connection" /\ DialAgain)
  /\ WF_vars(part = "connection" /\ CloseLink)
  /\ WF_vars(part = "connection" /\ WatchStep)
  /\ \A c \in Consumers : WF_vars(part = "connection" /\ ConsumerStep(c))
  /\ \A c \in QueueConsumers : WF_queueVars(part = "queue" /\ Q!Process(c))
  /\ WF_queueVars(/\ part = "queue"
                  /\ \E d \in Q!Delivery : Q!DelayExpires(d) \/ Q!RetryExpires(d))
  /\ \A r \in Receivers : WF_legacyVars(part = "legacy" /\ L!Step(r))

(* After Close everybody stops; every message is handled or given up while *)
(* a consumer has its link, and a receiver of the older interface that     *)
(* lost its link gets another.                                             *)
EverythingSettles ==
  CloseStopsAll /\ Q!EventuallyHandled /\ L!ReceiverComesBack
=============================================================================
