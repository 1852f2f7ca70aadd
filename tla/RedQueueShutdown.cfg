\* The context of a consumer is cancelled while its handler runs.
CONSTANTS
  Payloads = {"a"}
  Consumers = {c1}
  Operators = {}
  MaxRetries = 1
  MoveLimit = 1
  Delays = {0}
  Faults = {"cancel"}
  MaxSubmits = 2
  MaxRequeues = 2
  MaxTime = 1
  LegacyBacklogs <- StartEmpty
SPECIFICATION Spec
INVARIANT NoTaskLost
