\* Two calls of Run, one worker, three tasks; three entries to log and two
\* calls of Close; two names of tasks and three goroutines of the scheduler.
CONSTANTS
  Runs = {r1, r2}
  Workers = 1
  Delays = {0, 1}
  MaxTasks = 3
  MaxTime = 1
  Entries = {1, 2, 3}
  Closers = {"k1", "k2"}
  Buffer = 2
  MaxBatch = 2
  Limit = 2
  TaskNames = {"a", "b"}
  SchedulerRuns = {"g1", "g2", "g3"}
  MaxEntries = 3
  Name <- MCName
  Consecutive <- MCConsecutive
  MaxTicks = 5
SPECIFICATION MCSpec
INVARIANTS TaskLedger WithinWorkers ReturnedIsIdle
  BackgroundSound MessagesOnEvidence
PROPERTIES TakenInOrder EventuallyExecuted HubSettles
CHECK_DEADLOCK FALSE
