\* Two consumers that may crash or be cancelled, one operator.
CONSTANTS
  Payloads = {"a", "b"}
  Consumers = {c1, c2}
  Operators = {o1}
  MaxRetries = 1
  MoveLimit = 1
  Delays = {0, 1}
  Faults = {"crash", "cancel", "redis"}
  MaxSubmits = 2
  MaxRequeues = 1
  MaxTime = 1
  LegacyBacklogs <- EmptyOrLegacy
SPECIFICATION FairSpec
INVARIANTS TaskLedger RetryBudget
PROPERTIES DelayedUntilDue EventuallySettled
