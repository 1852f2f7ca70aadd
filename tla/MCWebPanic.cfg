\* A handler that panics behind the security baseline.
CONSTANTS
  Configurations <- Applications
  MaxExits = 2
  Parts = {"bare", "web"}
  Beans = {1, 2}
  Prototypes = {}
  Needs <- MCNeeds
  Getters = {"g1", "g2"}
  Starter = "starter"
  MaxRuns = 3
  Requests = {"r1", "r2"}
  Kinds <- RequestKinds
  DefaultBody = 2
  MaxBodyBytes = 4
  ReadLimit = 3
  Burst = 1
  Rows <- RowKinds
  MaxCalls = 3
  ModuleSets <- Enabled
SPECIFICATION MCSpec
INVARIANT PanicsAnswered
CHECK_DEADLOCK FALSE
