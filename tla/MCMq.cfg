\* The connection with a link that may drop and a Close at any time; the
\* queues with and without a named exchange, while links drop and handlers
\* panic at any moment.
CONSTANTS
  Consumers = {"c1", "c2"}
  maxRetries = 1
  MaxLinks = 2
  MaxDrops = 1
  Messages = {m1}
  QueueConsumers = {c1, c2}
  MaxRetries = 2
  QueueExchanges <- MCQueueExchanges
  Faults = {"drop", "panic"}
  MaxQueueDrops = 2
  Receivers = {"r1", "r2"}
  Bodies = {"b"}
  maxTryConnNums = 1
  Retries = 1
  Routed = TRUE
  MaxDials = 2
  MaxLegacyFaults = 2
  Members = {"c1", "c2"}
  MaxOffset = 3
  MaxKafkaFaults = 2
  Topics = {"t1", "t2"}
  AutoReconnect = TRUE
  MaxClientDrops = 1
  MaxMessages = 1
  Parts = {"connection", "queue", "legacy", "kafka", "mqtt"}
SPECIFICATION MCSpec
INVARIANTS LinksOwned MessagesKept 
PROPERTIES EverythingSettles
CHECK_DEADLOCK FALSE
