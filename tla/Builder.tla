------------------------------- MODULE Builder ------------------------------
(***************************************************************************)
(* The builder of an application: application.builder.go,                  *)
(* application.autoconfigure.go and the logger they set up.                *)
(*                                                                         *)
(* The builder function calls the setters in any order, some of them more  *)
(* than once and some through AutoConfigure, and Start reads what they     *)
(* have left.  A nil argument is Nil, and so is a field never set.  The    *)
(* token, the static files and the shutdown timeout, which nothing else    *)
(* touches, are left out.  An empty string is Empty.                       *)
(***************************************************************************)
EXTENDS Naturals, Sequences, FiniteSets, SequencesExt

CONSTANTS
  MaxCalls,     \* bound: calls of the builder function
  ModuleSets    \* the sets of modules a configuration file may enable

VARIABLES
  asked,    \* history: the calls, as [op, arg, models]
  builder,  \* the ApplicationBuild and the admin service it made
  logger,   \* the package zaplog: CONFIG, the logger and its writers
  outcome   \* of Start: "none" before, then "started" or "failed"

builderVars == <<asked, builder, logger, outcome>>

Nil == "nil"
Empty == "empty"

Levels == <<"debug", "info", "warn", "error">>
SetOfLevels == {Levels[i] : i \in DOMAIN Levels}

Init ==
  /\ asked = <<>>
  /\ builder =
       [irisApp |-> Nil, routes |-> <<>>, IsEnableDB |-> FALSE,
        dbConfig |-> Nil, databaseConfig |-> Nil, dbModels |-> {},
        modelProvider |-> {}, named |-> <<>>, admin |-> Nil,
        adminRoutes |-> {}, redis |-> Nil, mongo |-> Nil,
        IsRunningCronJob |-> FALSE,
        beforeSetups |-> <<>>, afterSetups |-> <<>>, seeds |-> <<>>,
        hooks |-> <<>>,
        IsEnableZapLogs |-> FALSE, logInitErr |-> FALSE]
  /\ logger = [Director |-> ".", Level |-> "debug", minimum |-> Nil,
               console |-> "info", logWriters |-> {}]
  /\ outcome = "none"

-----------------------------------------------------------------------------
(* The logger.                                                             *)

(* The files of a logger: one for each level from the minimum on.          *)
newEncoderCore(minimum) ==
  LET from == CHOOSE i \in DOMAIN Levels : Levels[i] = minimum
  IN  {Levels[i] : i \in from .. Len(Levels)}

(* Init of zaplog on CONFIG: the outcome and the package afterwards.  The  *)
(* writers of the logger before are closed first, and the level of the     *)
(* console is set although that of CONFIG does not parse.                  *)
LogInit(l) ==
  LET parses  == l.Level \in SetOfLevels
      level   == IF parses THEN l.Level ELSE "info"
      closed  == [l EXCEPT !.logWriters = {}]
      levelled == [closed EXCEPT !.console = level]
  IN  IF l.Director = "unwritable" THEN [failed |-> TRUE, zaplog |-> closed]
      ELSE IF ~ parses THEN [failed |-> TRUE, zaplog |-> levelled]
      ELSE [failed |-> FALSE,
            zaplog |-> [levelled EXCEPT !.minimum = level,
                          !.logWriters = newEncoderCore(level)]]

(* An argument that is empty leaves what CONFIG has.                       *)
Configured(l, dir, level) ==
  [l EXCEPT !.Director = IF dir = Empty THEN @ ELSE dir,
            !.Level = IF level = Empty THEN @ ELSE level]

(* InitLog, on the builder and on the package.                             *)
InitLog(s, dir, level) ==
  LET done == LogInit(Configured(s.zaplog, dir, level))
  IN  [zaplog |-> done.zaplog,
       build  |-> [s.build EXCEPT !.IsEnableZapLogs = TRUE,
                                  !.logInitErr = done.failed]]

-----------------------------------------------------------------------------
(* The setters.                                                            *)

(* EnableWeb and EnableWebWithConfig; an address that is not valid is kept *)
(* as the error that Run returns.                                          *)
EnableWeb(b, address, routes) ==
  [b EXCEPT !.irisApp = address, !.routes = routes]

EnableDb(b, config, models) ==
  [b EXCEPT !.IsEnableDB = TRUE, !.dbConfig = config, !.dbModels = models]

EnableDatabase(b, config, models) ==
  [b EXCEPT !.IsEnableDB = TRUE, !.databaseConfig = config,
            !.dbModels = models]

EnableNamedDatabase(b, name) == [b EXCEPT !.named = Append(@, name)]

(* A new service, which has the built-in routes only.                      *)
EnableAdmin(b, listen) == [b EXCEPT !.admin = listen, !.adminRoutes = {}]

EnableAdminRoutes(b, route) ==
  LET made == IF b.admin = Nil THEN EnableAdmin(b, ":6060") ELSE b
  IN  [made EXCEPT !.adminRoutes = @ \cup {route}]

EnableCache(b, options) == [b EXCEPT !.redis = options]

(* Mutant: the flag of the relational database is set.                     *)
EnableMongoWithDb(b, config) ==
  IF config = Nil THEN b ELSE [b EXCEPT !.mongo = config, !.IsEnableDB = TRUE]

EnableMongoDB(b, config) ==
  IF config = Nil THEN b ELSE [b EXCEPT !.mongo = config]

InitCronJob(b) == [b EXCEPT !.IsRunningCronJob = TRUE]

RegisterModels(b, models) == [b EXCEPT !.modelProvider = models]

(* The functions that are not nil, in order.                               *)
NotNil(fs) ==
  FlattenSeq([i \in DOMAIN fs |-> IF fs[i] = Nil THEN <<>> ELSE <<fs[i]>>])

appendSetupFunctions(target, fs) == target \o NotNil(fs)

BeforeSetup(b, fs) ==
  [b EXCEPT !.beforeSetups = appendSetupFunctions(@, fs)]

AfterSetup(b, fs) == [b EXCEPT !.afterSetups = appendSetupFunctions(@, fs)]

(* Mutant: the scheduler is enabled whether or not a callback was kept.    *)
SetSeedsAlways(b, fs) ==
  InitCronJob([b EXCEPT !.seeds = appendSetupFunctions(@, fs)])

SetSeeds(b, fs) ==
  LET set == [b EXCEPT !.seeds = appendSetupFunctions(@, fs)]
  IN  IF Len(set.seeds) > Len(b.seeds) THEN InitCronJob(set) ELSE set

OnShutdown(b, name, f) ==
  IF name = Empty \/ f = Nil THEN b ELSE [b EXCEPT !.hooks = Append(@, name)]

-----------------------------------------------------------------------------
(* AutoConfigure.                                                          *)

(* The routes of the web service, in the order of their registration.      *)
AutoRoutes(ms) ==
  SelectSeq(<<"baseline", "health", "monitor", "openapi", "business">>,
            LAMBDA m : m \in ms \cup {"health", "business"})

(* Mutant: a web service asked for in the code is replaced.                *)
AutoWebAlways(b, ms) ==
  IF "web" \in ms THEN EnableWeb(b, ":auto", AutoRoutes(ms)) ELSE b

AutoWeb(b, ms) ==
  IF "web" \in ms /\ b.irisApp = Nil
  THEN EnableWeb(b, ":auto", AutoRoutes(ms)) ELSE b

(* Each module that is enabled, with the setter it stands for, in order.   *)
AutoConfigure(s, ms) ==
  LET On(m, set, b) == IF m \in ms THEN set ELSE b
      logged == IF "log" \in ms THEN InitLog(s, "auto", "info") ELSE s
      b1 == logged.build
      b2 == On("database", EnableDatabase(b1, "auto", {}), b1)
      b3 == On("cache", EnableCache(b2, "auto"), b2)
      b4 == On("mongo", EnableMongoDB(b3, "auto"), b3)
      b5 == On("cron", InitCronJob(b4), b4)
      b6 == On("admin", EnableAdmin(b5, ":auto"), b5)
  IN  [logged EXCEPT !.build = AutoWeb(b6, ms)]

-----------------------------------------------------------------------------
(* The calls of the builder function.                                      *)

Building == outcome = "none" /\ Len(asked) < MaxCalls

Call(op, arg, models) ==
  /\ Building
  /\ asked' = Append(asked, [op |-> op, arg |-> arg, models |-> models])
  /\ UNCHANGED outcome

Sets(b) == builder' = b /\ UNCHANGED logger
Configures(s) == builder' = s.build /\ logger' = s.zaplog

Whole == [build |-> builder, zaplog |-> logger]

CallWeb ==
  \E address \in {":8080", "invalid"} :
    /\ Call("EnableWeb", address, {})
    /\ Sets(EnableWeb(builder, address, <<"business">>))

CallDatabase ==
  \/ /\ Call("EnableDb", "pg", {"User"})
     /\ Sets(EnableDb(builder, "pg", {"User"}))
  \/ \E config \in {Nil, "unified", "auto-migrate"} :
       /\ Call("EnableDatabase", config, {"Order"})
       /\ Sets(EnableDatabase(builder, config, {"Order"}))
  \/ /\ Call("EnableNamedDatabase", "audit", {})
     /\ Sets(EnableNamedDatabase(builder, "audit"))
  \/ /\ Call("RegisterModels", "All", {"Role"})
     /\ Sets(RegisterModels(builder, {"Role"}))

CallAdmin ==
  \/ /\ Call("EnableAdmin", ":7000", {})
     /\ Sets(EnableAdmin(builder, ":7000"))
  \/ /\ Call("EnableAdminRoutes", "stats", {})
     /\ Sets(EnableAdminRoutes(builder, "stats"))

CallStores ==
  \/ /\ Call("EnableCache", "redis", {})
     /\ Sets(EnableCache(builder, "redis"))
  \/ \E config \in {Nil, "mongo"} :
       /\ Call("EnableMongoDB", config, {})
       /\ Sets(EnableMongoDB(builder, config))

CallCallbacks ==
  \/ Call("InitCronJob", Nil, {}) /\ Sets(InitCronJob(builder))
  \/ /\ Call("BeforeSetup", <<Nil, "warm">>, {})
     /\ Sets(BeforeSetup(builder, <<Nil, "warm">>))
  \/ /\ Call("AfterSetup", <<"serve", Nil, "warm">>, {})
     /\ Sets(AfterSetup(builder, <<"serve", Nil, "warm">>))
  \/ \E fs \in {<<Nil>>, <<"daily">>} :
       Call("SetSeeds", fs, {}) /\ Sets(SetSeeds(builder, fs))
  \/ \E f \in {Nil, "stop"} :
       /\ Call("OnShutdown", <<"queue", f>>, {})
       /\ Sets(OnShutdown(builder, "queue", f))

CallLog ==
  \E arg \in {<<"logs", "warn">>, <<"unwritable", Empty>>, <<Empty, "wrong">>} :
    /\ Call("InitLog", arg, {})
    /\ Configures(InitLog(Whole, arg[1], arg[2]))

CallAutoConfigure ==
  \E ms \in ModuleSets :
    /\ Call("AutoConfigure", "modules", ms)
    /\ Configures(AutoConfigure(Whole, ms))

-----------------------------------------------------------------------------
(* Start.                                                                  *)

(* Mutant: the configuration of the older call is taken first.             *)
OlderDatabase(b) ==
  IF b.dbConfig # Nil THEN b.dbConfig ELSE b.databaseConfig

Database(b) ==
  IF b.databaseConfig # Nil THEN b.databaseConfig ELSE b.dbConfig

(* runModelMigrations: the models of RegisterModels too, when the unified  *)
(* configuration says so.                                                  *)
Migrated(b) ==
  IF b.databaseConfig = "auto-migrate"
  THEN b.dbModels \cup b.modelProvider ELSE {}

(* An error before anything is opened, or one of the steps after.          *)
StartFails(b) ==
  \/ b.logInitErr
  \/ b.IsEnableDB /\ Database(b) = Nil
  \/ b.irisApp = "invalid"

SetUp(b) ==
  [database |-> IF b.IsEnableDB THEN Database(b) ELSE Nil,
   migrated |-> IF b.IsEnableDB THEN Migrated(b) ELSE {},
   redis |-> b.redis, mongo |-> b.mongo, named |-> b.named,
   web |-> b.irisApp, routes |-> b.routes,
   before |-> IF b.irisApp = Nil THEN <<>> ELSE b.beforeSetups,
   after |-> IF b.irisApp = Nil THEN <<>> ELSE b.afterSetups,
   seeds |-> b.seeds, cron |-> b.IsRunningCronJob,
   admin |-> b.admin, adminRoutes |-> b.adminRoutes, hooks |-> b.hooks]

Start ==
  LET s == IF builder.IsEnableZapLogs THEN Whole
           ELSE InitLog(Whole, ".", "debug")
  IN  /\ outcome = "none"
      /\ Configures(s)
      /\ outcome' = IF StartFails(s.build) THEN "failed" ELSE "started"
      /\ UNCHANGED asked

Next ==
  \/ CallWeb \/ CallDatabase \/ CallAdmin \/ CallStores \/ CallCallbacks
  \/ CallLog \/ CallAutoConfigure \/ Start

Spec == Init /\ [][Next]_builderVars

-----------------------------------------------------------------------------
(* Properties.                                                             *)

Autos(m) ==
  {i \in DOMAIN asked : asked[i].op = "AutoConfigure" /\ m \in asked[i].models}
CallsOf(op) == {i \in DOMAIN asked : asked[i].op = op}
After(i, S) == \A j \in S : j < i

(* The callbacks the calls of op were made with, in order.                 *)
Arguments(op) ==
  FlattenSeq([i \in DOMAIN asked |->
                IF asked[i].op = op THEN NotNil(asked[i].arg) ELSE <<>>])

(* Start sets up what the calls of the builder function have asked for, in *)
(* whatever order they came, and nothing else: a component is there if and *)
(* only if somebody asked for it, with the arguments of the last call, the *)
(* unified database configuration before the older one and a web service   *)
(* of the code before one of AutoConfigure; callbacks keep their order; no *)
(* application starts on a logger that could not be made.                  *)
BuiltAsAsked ==
  LET started == SetUp(builder) IN
  /\ outcome = "failed" =>
       \/ CallsOf("InitLog") # {}
       \/ \E i \in CallsOf("EnableDatabase") : asked[i].arg = Nil
       \/ \E i \in CallsOf("EnableWeb") : asked[i].arg = "invalid"
  /\ outcome = "started" =>
    /\ (started.database = Nil) <=>
         (CallsOf("EnableDb") \cup CallsOf("EnableDatabase")
            \cup Autos("database") = {})
    /\ \A i \in CallsOf("EnableDatabase") :
         After(i, (CallsOf("EnableDatabase") \cup Autos("database")) \ {i}) =>
           started.database = IF asked[i].arg = Nil THEN "pg"
                              ELSE asked[i].arg
    /\ \A i \in CallsOf("EnableCache") :
         After(i, Autos("cache")) => started.redis = "redis"
    /\ (started.mongo = Nil) <=>
         (Autos("mongo") = {}
            /\ \A i \in CallsOf("EnableMongoDB") : asked[i].arg = Nil)
    /\ started.cron <=>
         (CallsOf("InitCronJob") \cup Autos("cron") # {} \/ started.seeds # <<>>)
    /\ \A i \in CallsOf("EnableWeb") :
         After(i, CallsOf("EnableWeb") \ {i}) => started.web = asked[i].arg
    /\ (started.web # Nil) <=> (CallsOf("EnableWeb") \cup Autos("web") # {})
    /\ started.seeds = Arguments("SetSeeds")
    /\ started.web # Nil => started.before = Arguments("BeforeSetup")
    /\ Len(started.hooks) =
         Cardinality({i \in CallsOf("OnShutdown") :
                        asked[i].arg = <<"queue", "stop">>})
    /\ \A i \in CallsOf("EnableAdminRoutes") :
         started.adminRoutes = {} =>
           \E j \in CallsOf("EnableAdmin") \cup Autos("admin") : j > i
    /\ started.migrated # {} => started.database = "auto-migrate"
    /\ logger.minimum = logger.Level
    /\ logger.console = logger.Level
    /\ logger.logWriters = newEncoderCore(logger.Level)

-----------------------------------------------------------------------------
(* What BuiltAsAsked rests on: at any time the builder has what the calls  *)
(* so far have asked for.                                                  *)
Fields ==
  {"irisApp", "routes", "IsEnableDB", "dbConfig", "databaseConfig", "dbModels",
   "modelProvider", "named", "admin", "adminRoutes", "redis", "mongo",
   "IsRunningCronJob", "beforeSetups", "afterSetups", "seeds", "hooks",
   "IsEnableZapLogs", "logInitErr"}

LoggerFields == {"Director", "Level", "minimum", "console", "logWriters"}

Callbacks == {Nil, "warm", "serve", "daily"}

TypeOK ==
  /\ asked \in Seq(Range(asked))
  /\ \A i \in CallsOf("SetSeeds") \cup CallsOf("BeforeSetup") :
       asked[i].arg \in Seq(Callbacks)
  /\ builder = [f \in Fields |-> builder[f]]
  /\ logger = [f \in LoggerFields |-> logger[f]]
  /\ builder.seeds \in Seq(Callbacks) /\ builder.hooks \in Seq({"queue"})

(* The database of the last call that named one, if any did.               *)
DatabaseAsked ==
  LET others == CallsOf("EnableDatabase") \cup Autos("database") IN
  /\ builder.IsEnableDB \in BOOLEAN /\ builder.dbConfig \in {Nil, "pg"}
  /\ builder.IsEnableDB <=> CallsOf("EnableDb") \cup others # {}
  /\ \A i \in CallsOf("EnableDatabase") :
       After(i, others \ {i}) => builder.databaseConfig = asked[i].arg
  /\ builder.IsEnableDB /\ Database(builder) = Nil =>
       \E i \in CallsOf("EnableDatabase") : asked[i].arg = Nil

(* A cache asked for in the code, unless AutoConfigure came after it.      *)
StoresAsked ==
  /\ \A i \in CallsOf("EnableCache") :
       After(i, Autos("cache")) => builder.redis = "redis"
  /\ (builder.mongo = Nil) <=>
       /\ Autos("mongo") = {}
       /\ \A i \in CallsOf("EnableMongoDB") : asked[i].arg = Nil

(* The callbacks in the order of the calls, and the scheduler with them.   *)
CallbacksAsked ==
  /\ builder.seeds = Arguments("SetSeeds")
  /\ builder.beforeSetups = Arguments("BeforeSetup")
  /\ builder.IsRunningCronJob <=>
       CallsOf("InitCronJob") \cup Autos("cron") # {} \/ builder.seeds # <<>>
  /\ Len(builder.hooks) =
       Cardinality({i \in CallsOf("OnShutdown") :
                      asked[i].arg = <<"queue", "stop">>})

(* The address of the last call; routes that only a later EnableAdmin      *)
(* takes away.                                                             *)
ServicesAsked ==
  /\ \A i \in CallsOf("EnableWeb") :
       After(i, CallsOf("EnableWeb") \ {i}) => builder.irisApp = asked[i].arg
  /\ (builder.irisApp # Nil) <=> (CallsOf("EnableWeb") \cup Autos("web") # {})
  /\ builder.irisApp = "invalid" =>
       \E i \in CallsOf("EnableWeb") : asked[i].arg = "invalid"
  /\ \A i \in CallsOf("EnableAdminRoutes") :
       builder.adminRoutes = {} =>
         \E j \in CallsOf("EnableAdmin") \cup Autos("admin") : j > i

(* A logger that could be made has the level it was configured with.       *)
LoggerMade ==
  /\ logger.minimum = logger.Level /\ logger.console = logger.Level
  /\ logger.logWriters = newEncoderCore(logger.Level)

LoggerAsked ==
  /\ builder.IsEnableZapLogs \in BOOLEAN /\ builder.logInitErr \in BOOLEAN
  /\ builder.logInitErr => builder.IsEnableZapLogs /\ CallsOf("InitLog") # {}
  /\ builder.IsEnableZapLogs => LoggerMade \/ builder.logInitErr

(* Start leaves the logger it has made, or one that was asked for.         *)
OutcomeFits ==
  /\ outcome \in {"none", "failed", "started"}
  /\ outcome # "none" => builder.IsEnableZapLogs
  /\ outcome = "failed" => StartFails(builder)
  /\ outcome = "started" => ~ StartFails(builder)

IInv ==
  /\ TypeOK /\ DatabaseAsked /\ StoresAsked /\ CallbacksAsked /\ ServicesAsked
  /\ LoggerAsked /\ OutcomeFits
=============================================================================
