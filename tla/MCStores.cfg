\* Two nodes make identifiers, two in a millisecond at most.
CONSTANTS
  Nodes = {n1, n2}
  snowflakeMaxSeq = 1
  maxClockBackoff = 1
  MaxStamp = 3
  MaxIds = 3
  Parts = {"snowflake", "rbac", "config", "migrate", "database",
           "rediscache", "i18n", "settings", "idempotent", "openapi",
           "captcha", "helpers"}
  Deciders = {"d1", "d2"}
  GrantTtl = 1
  LongestLoad = 1
  MaxVersion = 3
  MaxMoment = 4
  Procs = {"p1", "p2"}
  LocalTtl = 2
  DefaultTtl = 1
  Ttls = {0}
  MaxValues = 2
  CacheClock = 2
  Calls = {1, 2, 3}
  MarkTtl = 2
  GuardClock = 5
  Requests = {1, 2}
  Sendable <- MCSendable
  Apps <- MCApps
  TimestampWindow = 2
  NonceTTL = 4
  DefaultRate = 1
  ApiTime = 5
  CaptchaIds = {"c1", "c2"}
  CaptchaTtl = 2
  CaptchaClock = 4
  Processes = {"p1", "p2"}
  Migrations <- MCMigrations
  Irreversible = {"m1"}
  MaxCalls = 4
  InstanceNames = {"", "report"}
  DefaultInstance = ""
  Drivers = {"pg", "mysql"}
  Callers = {"c1", "c2"}
  MaxPools = 3
  Keys <- MCKeys
  BuiltIn <- MCBuiltIn
  PoolKey <- Camel
  Environments <- MCEnvironments
  GlobalFiles <- MCGlobalFiles
  ProjectFiles <- MCProjectFiles
  MaxFileEdits = 2
SPECIFICATION MCSpec
INVARIANTS Increasing StaleForBoundedTime RecordsAgree
  AcceptedOnce SettingsLayered ComputedRight
PROPERTIES CopiesCatchUp
CHECK_DEADLOCK FALSE
