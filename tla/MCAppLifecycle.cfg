\* Three kinds of applications; every step may fail.
CONSTANTS
  Configurations <- Applications
  MaxExits = 2
  Parts = {"application", "container", "web", "bare", "builder"}
  Beans = {1, 2}
  Prototypes = {}
  Needs <- MCNeeds
  Getters = {"g1", "g2"}
  Starter = "starter"
  MaxRuns = 3
  Requests = {"r1", "r2"}
  Kinds <- RequestKinds
  DefaultBody = 2
  MaxBodyBytes = 4
  ReadLimit = 3
  Burst = 1
  Rows <- RowKinds
  MaxCalls = 3
  ModuleSets <- Enabled
SPECIFICATION MCSpec
INVARIANTS ShutdownSound BeansSound RequestsGuarded BuiltAsAsked
PROPERTIES ExitsAreHeeded
CHECK_DEADLOCK FALSE
