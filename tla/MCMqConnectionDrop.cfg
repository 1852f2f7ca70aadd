\* The connection alone, with one consumer: the link drops once and nobody
\* calls Close.
CONSTANTS
  Consumers = {"c1"}
  maxRetries = 1
  MaxLinks = 2
  MaxDrops = 1
  Messages = {m1}
  QueueConsumers = {c1, c2}
  MaxRetries = 2
  QueueExchanges <- MCQueueExchanges
  Faults = {"drop", "panic"}
  MaxQueueDrops = 2
  Receivers = {"r1", "r2"}
  Bodies = {"b"}
  maxTryConnNums = 1
  Retries = 1
  Routed = TRUE
  MaxDials = 2
  MaxLegacyFaults = 2
  Members = {"c1", "c2"}
  MaxOffset = 3
  MaxKafkaFaults = 2
  Topics = {"t1", "t2"}
  AutoReconnect = TRUE
  MaxClientDrops = 1
  MaxMessages = 1
  Parts = {"connection"}
SPECIFICATION MCSpec
PROPERTY Reconnects
CHECK_DEADLOCK FALSE
