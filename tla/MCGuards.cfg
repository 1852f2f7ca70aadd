\* Three callers of the breaker, three results per window, one probe beside
\* the first; of the same three, two are clients of a partner and the third
\* is a plain one.  Then the lock, the bucket, the notifier and the counters.
CONSTANTS
  Callers = {"g1", "g2", "g3"}
  MinRequests = 3
  ThresholdNum = 1
  ThresholdDen = 2
  Window = 2
  Cooldown = 2
  HalfOpenMaxRequests = 1
  MaxTime = 5
  MaxPanics = 1
  Plain = {"g3"}
  maxRetries = 2
  RetryBase = 1
  MaxBackoff = 1
  LockCallers = {"c1", "c2"}
  Ttl = 2
  Wait = 1
  LockMaxTime = 4
  MaxAttempts = 2
  Units = 2
  Burst = 2
  Draws = {1, 2}
  Readings = {1, 2, 3, 4, 5}
  MaxMilli = 10
  MaxElapsed = 6
  Askers = {"a1", "a2"}
  Channels = {"mail", "sms"}
  HitWindow = 3
  MaxHits = 2
  MaxMinute = 6
  Visitors = {"v1", "v2", "v3"}
  MaxCounters = 2
  MaxVisits = 1
  Removes = TRUE
SPECIFICATION MCSpec
INVARIANTS ProbesBounded TrippedOnEvidence CallsAgreeWithPartner
  LeaseExclusive LimitsHeld CountsExact
PROPERTIES BreakerHalfOpenDecides CallersReturn
CHECK_DEADLOCK FALSE
