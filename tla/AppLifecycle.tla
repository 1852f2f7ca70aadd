---------------------------- MODULE AppLifecycle ----------------------------
(***************************************************************************)
(* The start and the stop of an application: application.starter.go,       *)
(* application.lifecycle.go and framework/lifecycle/shutdown.go.           *)
(*                                                                         *)
(* Start runs on one goroutine: it takes the start-up steps the builder    *)
(* asked for one after the other, waits for an exit request, and runs the  *)
(* shutdown hooks.  The web service, its monitor, the admin service, cron  *)
(* jobs and business code run beside it and speak to it through contexts   *)
(* and the exit channel.                                                   *)
(*                                                                         *)
(* A second call of Start returns an error and changes nothing.  The waits *)
(* of Start for a cancelled context while it starts are left out: only the *)
(* same goroutine cancels those contexts, later or on its way out.         *)
(***************************************************************************)
EXTENDS Integers, Sequences, SequencesExt, FiniteSetTheorems,
        SequenceTheorems, WellFoundedInduction, TLAPS

CONSTANTS
  Configurations,  \* what the builder may ask for, see ConfigurationOK
  MaxExits         \* bound: exit requests of business code

NoStep == "none"

Resources == {"database", "Redis", "MongoDB", "database:named"}

VARIABLES
  config,     \* the configuration of this application
  state,      \* applicationLifecycle.state
  plan,       \* start-up steps that Start has still to take
  failedAt,   \* the step whose error ended the start-up, or NoStep
  open,       \* resources that hold connections
  hooks,      \* applicationLifecycle.shutdownHooks
  closing,    \* hooks shutdown has still to run, next one first
  closed,     \* history: hooks shutdown has run, in that order
  expired,    \* the deadline shared by the hooks has passed
  globalDone, \* the process context is cancelled
  runtime,    \* the context of web, setups, seeds and admin
  beans,      \* the components of the IOC container
  web,        \* the goroutine of the web service
  ready,      \* the ready channel of the web service is closed
  runResult,  \* the channel Run's result is sent on, or "empty"
  monitor,    \* the goroutine of monitorWebService
  admin,      \* the goroutine of the admin service
  cron,       \* the scheduler
  jobs,       \* whether a cron job is running
  exitChan,   \* the channel Exit sends on, capacity 1
  signal,     \* a signal waits in the channel of WaitExit
  reason,     \* what WaitExit returned, or "none"
  asked       \* history: messages Exit was called with

vars == <<config, state, plan, failedAt, open, hooks, closing, closed,
          expired, globalDone, runtime, beans, web, ready, runResult, monitor, admin,
          cron, jobs, exitChan, signal, reason, asked>>

(* The variables of the goroutines beside Start, and of the exit channel.  *)
webVars == <<web, ready, runResult, monitor>>
cronVars == <<cron, jobs>>
exitVars == <<exitChan, signal, reason, asked>>
stopVars == <<closing, closed, expired>>

(* Hooks are told apart by a label.  The code gives them none: it keeps the *)
(* functions.  So a hook of the business has a label of its own.           *)
Labels ==
  Resources \cup {"builder", "logger", "runtime", "IOC", "beforeSetups", "web",
                  "ready", "afterSetups", "seeds", "admin", "hooks",
                  "runtimeContext", "Cron", "iocContainer"}

BusinessHooks == STRING \ Labels

(* Each store is connected once, in the order of the code.                 *)
ConfigurationOK(c) ==
  /\ c.resources \in Seq(Resources \ {"database:named"})
  /\ IsInjective(c.resources)
  /\ c.named \in BOOLEAN
  /\ c.web \in {"none", "reports", "legacy"}  \* with or without Ready()
  /\ c.admin \in BOOLEAN
  /\ c.cron \in BOOLEAN
  /\ c.hooks \in Seq(BusinessHooks)           \* OnShutdown, by the business

ASSUME ConfigurationsAssumption ==
  \A c \in Configurations : ConfigurationOK(c)

TypeOK ==
  /\ ConfigurationOK(config)
  /\ state \in {"created", "starting", "running", "stopping", "stopped"}
  /\ open \subseteq Resources
  /\ expired \in BOOLEAN /\ globalDone \in BOOLEAN
  /\ runtime \in {"none", "live", "done"}
  /\ beans \in {"none", "up", "destroyed"}
  /\ web \in {"off", "starting", "serving", "draining", "stopped"}
  /\ ready \in BOOLEAN
  /\ runResult \in {"empty", "nil", "error", "taken"}
  /\ monitor \in {"off", "waiting", "ended"}
  /\ admin \in {"off", "running", "stopped"}
  /\ cron \in {"off", "running", "stopping", "stopped"}
  /\ jobs \in BOOLEAN /\ signal \in BOOLEAN
  /\ Len(exitChan) <= 1
  /\ reason \in {"none", "signal", "web", "business"}

When(condition, steps) == IF condition THEN steps ELSE <<>>

(* The steps of buildingService, in the order of the code.                 *)
StartSteps(c) ==
  <<"builder", "logger">> \o c.resources \o <<"runtime">>
    \o When(c.named, <<"database:named">>)
    \o <<"IOC">>
    \o When(c.web # "none", <<"beforeSetups", "web", "ready", "afterSetups">>)
    \o <<"seeds">>
    \o When(c.admin, <<"admin">>)
    \o <<"hooks">>

Init ==
  /\ config \in Configurations
  /\ state = "created"
  /\ plan = <<>>
  /\ failedAt = NoStep
  /\ open = {}
  /\ hooks = <<>>
  /\ closing = <<>>
  /\ closed = <<>>
  /\ expired = FALSE
  /\ globalDone = FALSE
  /\ runtime = "none"
  /\ beans = "none"
  /\ web = "off"
  /\ ready = FALSE
  /\ runResult = "empty"
  /\ monitor = "off"
  /\ admin = "off"
  /\ cron = "off"
  /\ jobs = FALSE
  /\ exitChan = <<>>
  /\ signal = FALSE
  /\ reason = "none"
  /\ asked = <<>>

-----------------------------------------------------------------------------
(* Start-up.                                                               *)

beginStart ==
  /\ state = "created"
  /\ state' = "starting"
  /\ plan' = StartSteps(config)
  /\ UNCHANGED <<config, failedAt, open, hooks, stopVars, globalDone, runtime,
                 beans, webVars, admin, cronVars, exitVars>>

AtStep(s) ==
  /\ state = "starting" /\ failedAt = NoStep
  /\ plan # <<>> /\ Head(plan) = s

Taken == plan' = Tail(plan) /\ UNCHANGED failedAt

Cancelled(ctx) == IF ctx = "live" THEN "done" ELSE ctx

(* Mutant: buildingService returns without its deferred cancel.            *)
FailsWithoutCancel(s) ==
  /\ failedAt' = s
  /\ UNCHANGED <<plan, runtime>>

(* buildingService returns an error: the deferred function cancels the     *)
(* runtime context if it was made.                                         *)
Fails(s) ==
  /\ failedAt' = s
  /\ runtime' = Cancelled(runtime)
  /\ UNCHANGED plan

registerShutdown(names) == hooks' = hooks \o names

(* The builder function, BeforeSetup and AfterSetup: business code that    *)
(* returns, with or without an error.                                      *)
Callback(s) ==
  /\ s \in {"builder", "beforeSetups", "afterSetups"}
  /\ AtStep(s)
  /\ \/ Taken /\ UNCHANGED runtime
     \/ Fails(s)
  /\ UNCHANGED <<config, state, open, hooks, stopVars, globalDone, beans,
                 webVars, admin, cronVars, exitVars>>

InitLog ==
  /\ AtStep("logger")
  /\ \/ Taken /\ registerShutdown(<<"logger">>) /\ UNCHANGED runtime
     \/ Fails("logger") /\ UNCHANGED hooks
  /\ UNCHANGED <<config, state, open, stopVars, globalDone, beans, webVars,
                 admin, cronVars, exitVars>>

(* Connect, migrate, register in the container, register the hook.  The    *)
(* connect itself leaves nothing open when it fails (MongoDB disconnects   *)
(* when its ping fails); a migration or a container registration that      *)
(* fails after it leaves the resource open, without a hook.                *)
OpenResource(r) ==
  /\ AtStep(r)
  /\ \/ /\ Taken
        /\ open' = open \cup {r}
        /\ registerShutdown(<<r>>)
        /\ UNCHANGED runtime
     \/ /\ Fails(r)
        /\ open' \in {open, open \cup {r}}
        /\ UNCHANGED hooks
  /\ UNCHANGED <<config, state, stopVars, globalDone, beans, webVars, admin,
                 cronVars, exitVars>>

MakeRuntimeContext ==
  /\ AtStep("runtime")
  /\ Taken
  /\ runtime' = "live"
  /\ UNCHANGED <<config, state, open, hooks, stopVars, globalDone, beans,
                 webVars, admin, cronVars, exitVars>>

(* A provider or an OnInit that fails leaves the components before it.     *)
StartContainer ==
  /\ AtStep("IOC")
  /\ \/ Taken /\ beans' = "up" /\ UNCHANGED runtime
     \/ Fails("IOC") /\ beans' \in {"none", "up"}
  /\ UNCHANGED <<config, state, open, hooks, stopVars, globalDone, webVars,
                 admin, cronVars, exitVars>>

(* A missing web application or static source fails before the goroutine   *)
(* is started.                                                             *)
startWebService ==
  /\ AtStep("web")
  /\ \/ Taken /\ web' = "starting" /\ UNCHANGED runtime
     \/ Fails("web") /\ UNCHANGED web
  /\ UNCHANGED <<config, state, open, hooks, stopVars, globalDone, beans,
                 ready, runResult, monitor, admin, cronVars, exitVars>>

(* The observation window of a web service without Ready() passes whatever *)
(* happens.                                                                *)
WebIsReady == ready \/ config.web = "legacy"

(* Mutant: Start goes on without reading the result of Run.                *)
NobodyWatches == UNCHANGED monitor

Watched == monitor' = "waiting"

(* The select of startWebService: with a result and ready both there,      *)
(* either branch may be taken.                                             *)
AwaitReady ==
  /\ AtStep("ready")
  /\ \/ /\ runResult \in {"nil", "error"}
        /\ runResult' = "taken"
        /\ Fails("ready")
        /\ UNCHANGED monitor
     \/ /\ WebIsReady
        /\ Watched
        /\ Taken
        /\ UNCHANGED <<runResult, runtime>>
  /\ UNCHANGED <<config, state, open, hooks, stopVars, globalDone, beans, web,
                 ready, admin, cronVars, exitVars>>

registerSeedsAndStartCron ==
  /\ AtStep("seeds")
  /\ \/ /\ Taken
        /\ cron' = IF config.cron THEN "running" ELSE cron
        /\ UNCHANGED runtime
     \/ Fails("seeds") /\ UNCHANGED cron
  /\ UNCHANGED <<config, state, open, hooks, stopVars, globalDone, beans,
                 webVars, admin, jobs, exitVars>>

(* The admin service that is not ready within two seconds is left alone.   *)
StartAdmin ==
  /\ AtStep("admin")
  /\ Taken
  /\ admin' = "running"
  /\ UNCHANGED <<config, state, open, hooks, stopVars, globalDone, runtime,
                 beans, webVars, cronVars, exitVars>>

LateHooks(c) ==
  <<"runtimeContext">> \o When(c.cron, <<"Cron">>) \o c.hooks
    \o <<"iocContainer">>

RegisterHooks ==
  /\ AtStep("hooks")
  /\ Taken
  /\ registerShutdown(LateHooks(config))
  /\ UNCHANGED <<config, state, open, stopVars, globalDone, runtime, beans,
                 webVars, admin, cronVars, exitVars>>

markRunning ==
  /\ state = "starting" /\ failedAt = NoStep
  /\ plan = <<>>
  /\ state' = "running"
  /\ UNCHANGED <<config, plan, failedAt, open, hooks, stopVars, globalDone,
                 runtime, beans, webVars, admin, cronVars, exitVars>>

-----------------------------------------------------------------------------
(* Exit requests.                                                          *)

(* Mutant: a request is dropped when nobody waits for it.                  *)
SendUnbuffered(message) ==
  exitChan' = IF state = "running" /\ exitChan = <<>> THEN <<message>>
              ELSE exitChan

(* Mutant: requests queue up without limit.                                *)
SendQueued(message) == exitChan' = Append(exitChan, message)

(* Mutant: a later request takes the place of the one that waits.          *)
SendReplacing(message) == exitChan' = <<message>>

Send(message) ==
  exitChan' = IF exitChan = <<>> THEN <<message>> ELSE exitChan

Exit(message) ==
  /\ Send(message)
  /\ asked' = Append(asked, message)

BusinessExit ==
  /\ state # "created"
  /\ Len(asked) < MaxExits
  /\ Exit("business")
  /\ UNCHANGED <<config, state, plan, failedAt, open, hooks, stopVars,
                 globalDone, runtime, beans, webVars, admin, cronVars, signal,
                 reason>>

Signal ==
  /\ state = "running" /\ reason = "none"
  /\ signal' = TRUE
  /\ UNCHANGED <<config, state, plan, failedAt, open, hooks, stopVars,
                 globalDone, runtime, beans, webVars, admin, cronVars,
                 exitChan, reason, asked>>

(* The process context is the parent of the runtime context.               *)
WaitExit ==
  /\ state = "running" /\ reason = "none"
  /\ \/ /\ exitChan # <<>>
        /\ reason' = Head(exitChan)
        /\ exitChan' = Tail(exitChan)
        /\ UNCHANGED signal
     \/ /\ signal
        /\ reason' = "signal"
        /\ signal' = FALSE
        /\ UNCHANGED exitChan
  /\ globalDone' = TRUE
  /\ runtime' = Cancelled(runtime)
  /\ UNCHANGED <<config, state, plan, failedAt, open, hooks, stopVars, beans,
                 webVars, admin, cronVars, asked>>

-----------------------------------------------------------------------------
(* Shutdown.                                                               *)

(* Mutant: the hooks are run in the order of their registration.           *)
RunOrderForward(names) == names

RunOrder(names) == Reverse(names)

beginShutdown ==
  /\ \/ state = "starting" /\ failedAt # NoStep
     \/ state = "running" /\ reason # "none"
  /\ state' = "stopping"
  /\ closing' = RunOrder(hooks)
  /\ hooks' = <<>>
  /\ UNCHANGED <<config, plan, failedAt, open, closed, expired, globalDone,
                 runtime, beans, webVars, admin, cronVars, exitVars>>

(* Mutant: an error of a hook ends the loop.                               *)
RemainingAfter(failed) == IF failed THEN <<>> ELSE Tail(closing)

Remaining(failed) == Tail(closing)

HookAt(name) == state = "stopping" /\ closing # <<>> /\ Head(closing) = name

HookDone(name, failed) ==
  /\ closing' = Remaining(failed)
  /\ closed' = Append(closed, name)

(* Every hook but the one of Cron: the container destroys its components,  *)
(* a resource is closed, the runtime context is cancelled; the logger and  *)
(* the hooks of the business touch nothing here.  Any may return an error. *)
RunHook(name) ==
  /\ name # "Cron"
  /\ HookAt(name)
  /\ \E failed \in BOOLEAN : HookDone(name, failed)
  /\ open' = open \ {name}
  /\ beans' = IF name = "iocContainer" THEN "destroyed" ELSE beans
  /\ runtime' = IF name = "runtimeContext" THEN Cancelled(runtime) ELSE runtime
  /\ UNCHANGED <<config, state, plan, failedAt, hooks, expired, globalDone,
                 webVars, admin, cronVars, exitVars>>

(* The scheduler starts no further job, and the hook waits for the running *)
(* one until the deadline.                                                 *)
stopCron ==
  /\ HookAt("Cron")
  /\ cron = "running"
  /\ cron' = "stopping"
  /\ UNCHANGED <<config, state, plan, failedAt, open, hooks, stopVars,
                 globalDone, runtime, beans, webVars, admin, jobs, exitVars>>

(* Mutant: the hook does not wait.                                         *)
CronMayReturnAtOnce == TRUE

CronMayReturn == ~jobs \/ expired

cronStopped ==
  /\ HookAt("Cron")
  /\ cron = "stopping"
  /\ CronMayReturn
  /\ cron' = "stopped"
  /\ HookDone("Cron", jobs)
  /\ UNCHANGED <<config, state, plan, failedAt, open, hooks, expired,
                 globalDone, runtime, beans, webVars, admin, jobs, exitVars>>

Expire ==
  /\ state = "stopping"
  /\ ~expired
  /\ expired' = TRUE
  /\ UNCHANGED <<config, state, plan, failedAt, open, hooks, closing, closed,
                 globalDone, runtime, beans, webVars, admin, cronVars, exitVars>>

endShutdown ==
  /\ state = "stopping" /\ closing = <<>>
  /\ state' = "stopped"
  /\ UNCHANGED <<config, plan, failedAt, open, hooks, stopVars, globalDone,
                 runtime, beans, webVars, admin, cronVars, exitVars>>

-----------------------------------------------------------------------------
(* The goroutines beside Start.                                            *)

WebGoes(w, r) ==
  /\ web' = w
  /\ ready' = (ready \/ w = "serving")
  /\ runResult' = r
  /\ UNCHANGED <<config, state, plan, failedAt, open, hooks, stopVars,
                 globalDone, runtime, beans, monitor, admin, cronVars, exitVars>>

(* Run: the listener is made and served, or it fails; a served listener    *)
(* may fail at any time; a cancelled context drains the requests, which    *)
(* may time out, or is seen before the listener is made.                   *)
WebServes == web = "starting" /\ WebGoes("serving", runResult)

(* It may also return nil while its context lives, when somebody else      *)
(* shuts the Iris application down.                                        *)
WebEnds ==
  web \in {"starting", "serving"} /\ \E r \in {"nil", "error"} : WebGoes("stopped", r)

WebDrains == web = "serving" /\ runtime = "done" /\ WebGoes("draining", runResult)

WebStops ==
  \/ web = "draining" /\ \E r \in {"nil", "error"} : WebGoes("stopped", r)
  \/ web = "starting" /\ runtime = "done" /\ WebGoes("stopped", "error")

monitorWebService ==
  /\ monitor = "waiting"
  /\ runResult \in {"nil", "error"}
  /\ monitor' = "ended"
  /\ runResult' = "taken"
  /\ IF runResult = "error" THEN Exit("web") ELSE UNCHANGED <<exitChan, asked>>
  /\ UNCHANGED <<config, state, plan, failedAt, open, hooks, stopVars,
                 globalDone, runtime, beans, web, ready, admin, cronVars,
                 signal, reason>>

(* The admin service ends with the runtime context, or on its own, which   *)
(* is only logged.                                                         *)
AdminEnds ==
  /\ admin = "running"
  /\ admin' = "stopped"
  /\ UNCHANGED <<config, state, plan, failedAt, open, hooks, stopVars,
                 globalDone, runtime, beans, webVars, cronVars, exitVars>>

JobStarts ==
  /\ cron = "running" /\ ~jobs
  /\ jobs' = TRUE
  /\ UNCHANGED <<config, state, plan, failedAt, open, hooks, stopVars,
                 globalDone, runtime, beans, webVars, admin, cron, exitVars>>

JobEnds ==
  /\ jobs
  /\ jobs' = FALSE
  /\ UNCHANGED <<config, state, plan, failedAt, open, hooks, stopVars,
                 globalDone, runtime, beans, webVars, admin, cron, exitVars>>

-----------------------------------------------------------------------------
Start ==
  \/ beginStart
  \/ \E s \in {"builder", "beforeSetups", "afterSetups"} : Callback(s)
  \/ InitLog
  \/ \E r \in Resources : OpenResource(r)
  \/ MakeRuntimeContext
  \/ StartContainer
  \/ startWebService
  \/ AwaitReady
  \/ registerSeedsAndStartCron
  \/ StartAdmin
  \/ RegisterHooks
  \/ markRunning
  \/ WaitExit
  \/ beginShutdown
  \/ \E name \in ToSet(closing) : RunHook(name)
  \/ stopCron
  \/ cronStopped
  \/ endShutdown

WebStep == WebServes \/ WebDrains \/ WebStops

Next ==
  \/ Start
  \/ WebStep
  \/ WebEnds
  \/ monitorWebService
  \/ AdminEnds
  \/ JobStarts
  \/ JobEnds
  \/ BusinessExit
  \/ Signal
  \/ Expire

Spec == Init /\ [][Next]_vars

(* Goroutines that can move are scheduled: Start, whose callbacks and      *)
(* hooks return; the web service and its monitor; the admin service once   *)
(* its context is done; the deadline of shutdown.  Nothing makes a web     *)
(* service fail, a job end, or anybody ask for an exit.                    *)
FairSpec ==
  /\ Spec
  /\ WF_vars(Start)
  /\ WF_vars(WebStep)
  /\ WF_vars(monitorWebService)
  /\ WF_vars(runtime = "done" /\ AdminEnds)
  /\ WF_vars(Expire)
-----------------------------------------------------------------------------
(* Properties.                                                             *)

(* What uses a resource is gone before the resource is closed: the runtime *)
(* context is cancelled and no cron job runs (unless it outlives the       *)
(* deadline); after a start that succeeded the hooks of the business have  *)
(* run and the components of the container are destroyed.  This is what    *)
(* the order of the registerShutdown calls in buildingService is for.      *)
UsersBeforeResources ==
  ToSet(closed) \cap Resources # {} =>
    /\ runtime # "live"
    /\ jobs => expired
    /\ failedAt = NoStep =>
         /\ ToSet(config.hooks) \subseteq ToSet(closed)
         /\ beans = "destroyed"

Place(c, s) == CHOOSE i \in DOMAIN StartSteps(c) : StartSteps(c)[i] = s

(* What was started last is closed first, and nothing is closed twice,     *)
(* wherever the start-up stopped; the logger goes last.                    *)
LastOpenedFirstClosed ==
  \A i, j \in DOMAIN closed :
    i < j /\ {closed[i], closed[j]} \subseteq ToSet(StartSteps(config)) =>
      Place(config, closed[i]) > Place(config, closed[j])

(* When Start returns, no resource is open but the one whose own step      *)
(* failed, whatever hooks returned errors on the way, and no scheduler or  *)
(* live runtime context is left.                                           *)
Released ==
  state = "stopped" =>
    /\ open \subseteq {failedAt}
    /\ runtime # "live"
    /\ cron # "running"

(* The exit reason is the first one anybody gave, or a signal: of several  *)
(* goroutines that fail one after the other the first is reported.         *)
FirstReasonKept ==
  reason # "none" =>
    \/ reason = "signal"
    \/ asked # <<>> /\ reason = Head(asked)

(* Resources are released, all of them, in reverse, after what uses them,  *)
(* and the first reason to exit is the one reported, wherever the start-up *)
(* stopped and whichever hooks of shutdown failed.                         *)
ShutdownSound ==
  Released /\ LastOpenedFirstClosed /\ UsersBeforeResources /\ FirstReasonKept

(* A request to exit stops the application, also one made before Start     *)
(* waits for requests.                                                     *)
ExitStops == asked # <<>> ~> state = "stopped"

(* A web service that ends with an error, at whatever point of the         *)
(* start-up or of the run, takes the application with it, and so does one  *)
(* that ends in any way before it was ready.  One that was ready and       *)
(* returns nil leaves the application running without it, though           *)
(* monitorWebService takes nil for a cancelled context.                    *)
WebFailureStops ==
  /\ (web = "stopped" /\ runResult = "error") ~> state = "stopped"
  /\ (web = "stopped" /\ ~ WebIsReady) ~> state = "stopped"

(* When Start has returned, the web and the admin service end too: also    *)
(* after a start-up that failed behind them.                               *)
BackgroundEnds ==
  state = "stopped" ~> web \in {"off", "stopped"} /\ admin # "running"

-----------------------------------------------------------------------------
(* Proofs, for any configurations and any number of exit requests.         *)

(* The names of steps before "seeds", of all of them, and of hooks.        *)
EarlySteps ==
  Resources \cup {"builder", "logger", "runtime", "IOC", "beforeSetups", "web",
                  "ready", "afterSetups"}

Steps == EarlySteps \cup {"seeds", "admin", "hooks"}

HookNames ==
  BusinessHooks \cup Resources
    \cup {"logger", "runtimeContext", "Cron", "iocContainer"}

Pending(name) == name \in ToSet(hooks) \cup ToSet(closing)

(* Behind "seeds", where cron is started, come only steps that cannot      *)
(* fail, and the last of them registers the hook that stops cron.          *)
SeedsLast ==
  \A i \in 1..Len(plan) : plan[i] = "seeds" =>
    \/ Len(plan) = i + 2 /\ plan[i + 1] = "admin" /\ plan[i + 2] = "hooks"
    \/ Len(plan) = i + 1 /\ plan[i + 1] = "hooks"

Late ==
  \/ Len(plan) = 2 /\ plan[1] = "admin" /\ plan[2] = "hooks"
  \/ Len(plan) = 1 /\ plan[1] = "hooks"

TypesInv ==
  /\ config \in Configurations
  /\ plan \in Seq(Steps)
  /\ hooks \in Seq(HookNames) /\ closing \in Seq(HookNames)
  /\ open \subseteq Resources

(* What is open has a hook that will run, or belongs to the failed step;   *)
(* the runtime context lives only as long as nothing has gone wrong.       *)
StopInv ==
  /\ open \subseteq {failedAt} \cup ToSet(hooks) \cup ToSet(closing)
  /\ state \in {"stopping", "stopped"} => hooks = <<>>
  /\ state # "stopping" => closing = <<>>
  /\ runtime = "live" =>
       failedAt = NoStep /\ reason = "none" /\ state \in {"starting", "running"}
  /\ reason # "none" => state \in {"running", "stopping", "stopped"}
  /\ cron = "running" =>
       config.cron /\ (Pending("Cron") \/ (state = "starting" /\ failedAt = NoStep /\ Late))

IInv == TypesInv /\ SeedsLast /\ StopInv

(* The order of hooks: a step taken earlier registers earlier, and no      *)
(* resource behind what uses it.                                           *)
Before(c, x, y) ==
  /\ {x, y} \subseteq ToSet(StartSteps(c)) => Place(c, x) < Place(c, y)
  /\ x \notin Resources \cup {"logger"} => y \notin Resources

Rising(c, names) ==
  \A i, j \in DOMAIN names : i < j => Before(c, names[i], names[j])

Falling(c, names) ==
  \A i, j \in DOMAIN names : i < j => Before(c, names[j], names[i])

(* A registered hook belongs to a step that has been taken; the late ones  *)
(* come with the last step.                                                *)
SoFar(c, rest, x) ==
  /\ x \in ToSet(StartSteps(c)) => Place(c, x) <= Len(StartSteps(c)) - Len(rest)
  /\ x \notin Resources \cup {"logger"} => rest = <<>>

(* The hooks as shutdown runs them: HookDone does not change the whole.    *)
Course == closed \o closing

PlanIsRest ==
  LET steps == StartSteps(config) IN
  /\ Len(plan) <= Len(steps)
  /\ \A i \in 1..Len(plan) : plan[i] = steps[(Len(steps) - Len(plan)) + i]

PhaseInv ==
  /\ closed \in Seq(HookNames)
  /\ state \notin {"stopping", "stopped"} => closed = <<>>
  /\ state = "created" => plan = <<>> /\ hooks = <<>>
  /\ state # "created" => PlanIsRest
  /\ state \in {"running", "stopping", "stopped"} /\ failedAt = NoStep => plan = <<>>

HooksInv ==
  /\ \A i \in DOMAIN hooks : SoFar(config, plan, hooks[i])
  /\ Rising(config, hooks)
  /\ Falling(config, Course)

AllRegistered ==
  state # "created" /\ failedAt = NoStep /\ plan = <<>> =>
    ToSet(LateHooks(config)) \subseteq ToSet(hooks) \cup ToSet(closing) \cup ToSet(closed)

OrderInv == PhaseInv /\ HooksInv /\ AllRegistered

(* A job runs beside a scheduler, or has outlived the deadline; the hook   *)
(* of cron is not left before cron is stopped.                             *)
UsersInv ==
  /\ jobs => cron \in {"running", "stopping"} \/ (cron = "stopped" /\ expired)
  /\ cron = "stopping" => closing # <<>> /\ Head(closing) = "Cron"
  /\ "iocContainer" \in ToSet(closed) => beans = "destroyed"

(* The exit channel holds the first request until WaitExit takes it.       *)
ExitInv ==
  /\ asked \in Seq({"business", "web"})
  /\ IF reason = "none"
     THEN \/ asked = <<>> /\ exitChan = <<>>
          \/ asked # <<>> /\ exitChan = <<Head(asked)>>
     ELSE reason = "signal" \/ (asked # <<>> /\ reason = Head(asked))

(* What taking the head, reversing and appending do to the elements.       *)
LEMMA ToSetFacts ==
  ASSUME NEW S, NEW s \in Seq(S)
  PROVE  /\ s # <<>> => /\ Tail(s) \in Seq(S)
                        /\ Head(s) = s[1]
                        /\ ToSet(s) \subseteq ToSet(Tail(s)) \cup {Head(s)}
         /\ Reverse(s) \in Seq(S) /\ ToSet(s) \subseteq ToSet(Reverse(s))
         /\ \A t \in Seq(S) :
              s \o t \in Seq(S) /\ ToSet(s) \cup ToSet(t) \subseteq ToSet(s \o t)
         /\ ToSet(<<>>) = {}
<1>1. Len(s) \in Nat /\ DOMAIN s = 1..Len(s) /\ \A i \in 1..Len(s) : s[i] \in S
  BY LenProperties, ElementOfSeq
<1>2. ASSUME s # <<>>
      PROVE  /\ Tail(s) \in Seq(S) /\ Head(s) = s[1]
             /\ ToSet(s) \subseteq ToSet(Tail(s)) \cup {Head(s)}
  <2>1. /\ Tail(s) \in Seq(S) /\ Len(Tail(s)) = Len(s) - 1
        /\ \A i \in 1..Len(Tail(s)) : Tail(s)[i] = s[i + 1]
    BY <1>2, HeadTailProperties
  <2>2. Head(s) = s[1]
    BY <1>2
  <2>3. ASSUME NEW i \in 1..Len(s), i # 1
        PROVE  s[i] \in ToSet(Tail(s))
    <3>1. i - 1 \in 1..Len(Tail(s)) /\ DOMAIN Tail(s) = 1..Len(Tail(s))
      BY <1>1, <2>1, <2>3, LenProperties
    <3>2. Tail(s)[i - 1] = s[i]
      BY <1>1, <2>1, <3>1
    <3>3. QED
      BY <3>1, <3>2 DEF ToSet
  <2>4. QED
    BY <1>1, <2>1, <2>2, <2>3 DEF ToSet
<1>3. Reverse(s) \in Seq(S) /\ ToSet(s) \subseteq ToSet(Reverse(s))
  <2>1. DOMAIN Reverse(s) = 1..Len(s)
        /\ \A i \in 1..Len(s) : Reverse(s)[i] = s[(Len(s) - i) + 1]
    BY DEF Reverse
  <2>2. \A i \in 1..Len(s) : (Len(s) - i) + 1 \in 1..Len(s)
                             /\ (Len(s) - ((Len(s) - i) + 1)) + 1 = i
    BY <1>1
  <2>3. Reverse(s) \in Seq(S)
    <3>1. \A i \in 1..Len(s) : s[(Len(s) - i) + 1] \in S
      BY <1>1, <2>2
    <3>2. Reverse(s) \in [1..Len(s) -> S]
      BY <3>1 DEF Reverse
    <3>3. QED
      BY <1>1, <3>2, SeqDef
  <2>4. ASSUME NEW i \in 1..Len(s)
        PROVE  s[i] \in ToSet(Reverse(s))
    <3>1. Reverse(s)[(Len(s) - i) + 1] = s[i]
      BY <2>1, <2>2
    <3>2. QED
      BY <2>1, <2>2, <3>1 DEF ToSet
  <2>5. QED
    BY <1>1, <2>3, <2>4 DEF ToSet
<1>4. ASSUME NEW t \in Seq(S)
      PROVE  s \o t \in Seq(S) /\ ToSet(s) \cup ToSet(t) \subseteq ToSet(s \o t)
  <2>1. /\ s \o t \in Seq(S) /\ Len(s \o t) = Len(s) + Len(t)
        /\ \A i \in 1..Len(s) + Len(t) :
             (s \o t)[i] = IF i <= Len(s) THEN s[i] ELSE t[i - Len(s)]
    BY ConcatProperties
  <2>2. DOMAIN (s \o t) = 1..(Len(s) + Len(t)) /\ Len(t) \in Nat /\ DOMAIN t = 1..Len(t)
    BY <2>1, LenProperties
  <2>3. ASSUME NEW i \in 1..Len(s)
        PROVE  s[i] \in ToSet(s \o t)
    <3>1. i \in DOMAIN (s \o t) /\ (s \o t)[i] = s[i]
      BY <1>1, <2>1, <2>2
    <3>2. QED
      BY <3>1 DEF ToSet
  <2>4. ASSUME NEW i \in 1..Len(t)
        PROVE  t[i] \in ToSet(s \o t)
    <3>1. Len(s) + i \in DOMAIN (s \o t) /\ (s \o t)[Len(s) + i] = t[i]
      BY <1>1, <2>1, <2>2
    <3>2. QED
      BY <3>1 DEF ToSet
  <2>5. QED
    BY <1>1, <2>1, <2>2, <2>3, <2>4 DEF ToSet
<1>5. ToSet(<<>>) = {}
  BY DEF ToSet
<1>6. QED
  BY <1>2, <1>3, <1>4, <1>5

(* A conditional part of a plan is a sequence of the same names.           *)
LEMMA WhenSeq ==
  ASSUME NEW S, NEW c, NEW t \in Seq(S)
  PROVE  When(c, t) \in Seq(S)
BY EmptySeq DEF When

(* The plan that beginStart makes.                                         *)
LEMMA StartStepsFacts ==
  ASSUME TypesInv, plan' = StartSteps(config), config' = config
  PROVE  plan' \in Seq(Steps) /\ SeedsLast'
<1> DEFINE f1 == <<"builder", "logger">> \o config.resources
           f2 == f1 \o <<"runtime">>
           f3 == f2 \o When(config.named, <<"database:named">>)
           f4 == f3 \o <<"IOC">>
           f == f4 \o When(config.web # "none",
                           <<"beforeSetups", "web", "ready", "afterSetups">>)
           w == When(config.admin, <<"admin">>)
           s1 == f \o <<"seeds">>
           s2 == s1 \o w
<1>1. config.resources \in Seq(Resources \ {"database:named"})
  BY ConfigurationsAssumption DEF TypesInv, ConfigurationOK
<1>2. config.resources \in Seq(EarlySteps)
  <2>1. Resources \ {"database:named"} \subseteq EarlySteps
    BY DEF EarlySteps
  <2>2. QED
    BY <1>1, <2>1, SeqMonotonic
<1>3. /\ <<"builder", "logger">> \in Seq(EarlySteps)
      /\ <<"runtime">> \in Seq(EarlySteps) /\ <<"IOC">> \in Seq(EarlySteps)
      /\ When(config.named, <<"database:named">>) \in Seq(EarlySteps)
      /\ When(config.web # "none", <<"beforeSetups", "web", "ready", "afterSetups">>)
           \in Seq(EarlySteps)
  <2>1. /\ "builder" \in EarlySteps /\ "logger" \in EarlySteps
        /\ "runtime" \in EarlySteps /\ "IOC" \in EarlySteps
        /\ "database:named" \in EarlySteps /\ "beforeSetups" \in EarlySteps
        /\ "web" \in EarlySteps /\ "ready" \in EarlySteps
        /\ "afterSetups" \in EarlySteps
    BY DEF EarlySteps, Resources
  <2>2. /\ <<"builder", "logger">> \in Seq(EarlySteps)
        /\ <<"runtime">> \in Seq(EarlySteps) /\ <<"IOC">> \in Seq(EarlySteps)
        /\ <<"database:named">> \in Seq(EarlySteps)
    BY <2>1
  <2>3. <<"beforeSetups", "web", "ready", "afterSetups">> \in Seq(EarlySteps)
    BY <2>1
  <2>4. QED
    BY <2>2, <2>3, WhenSeq
<1>4. f \in Seq(EarlySteps)
  <2>1. f1 \in Seq(EarlySteps)
    BY <1>2, <1>3, ConcatProperties
  <2> HIDE DEF f1
  <2>2. f2 \in Seq(EarlySteps)
    BY <1>3, <2>1, ConcatProperties
  <2> HIDE DEF f2
  <2>3. f3 \in Seq(EarlySteps)
    BY <1>3, <2>2, ConcatProperties
  <2> HIDE DEF f3
  <2>4. f4 \in Seq(EarlySteps)
    BY <1>3, <2>3, ConcatProperties
  <2> HIDE DEF f4
  <2>5. QED
    BY <1>3, <2>4, ConcatProperties
<1>5. plan' = s2 \o <<"hooks">>
  BY DEF StartSteps
<1> HIDE DEF f
<1>6. f \in Seq(Steps) /\ Len(f) \in Nat /\ \A i \in 1..Len(f) : f[i] # "seeds"
  <2>1. EarlySteps \subseteq Steps /\ "seeds" \notin EarlySteps
    BY DEF Steps, EarlySteps, Resources
  <2>2. f \in Seq(Steps)
    BY <1>4, <2>1, SeqMonotonic
  <2>3. Len(f) \in Nat /\ \A i \in 1..Len(f) : f[i] \in EarlySteps
    BY <1>4, LenProperties, ElementOfSeq
  <2>4. QED
    BY <2>1, <2>2, <2>3
<1>7. /\ s1 \in Seq(Steps) /\ Len(s1) = Len(f) + 1 /\ s1[Len(f) + 1] = "seeds"
      /\ \A i \in 1..Len(f) : s1[i] = f[i]
  <2>1. <<"seeds">> \in Seq(Steps) /\ Len(<<"seeds">>) = 1
    BY DEF Steps
  <2>2. /\ s1 \in Seq(Steps) /\ Len(s1) = Len(f) + 1
        /\ \A i \in 1..Len(f) + 1 :
             s1[i] = IF i <= Len(f) THEN f[i] ELSE <<"seeds">>[i - Len(f)]
    BY <1>6, <2>1, ConcatProperties
  <2>3. QED
    BY <1>6, <2>2
<1>8. /\ w \in Seq(Steps)
      /\ (Len(w) = 1 /\ w[1] = "admin") \/ Len(w) = 0
  <2>1. <<"admin">> \in Seq(Steps)
    BY DEF Steps
  <2>2. w \in Seq(Steps)
    BY <2>1, WhenSeq
  <2>3. w = <<"admin">> \/ w = <<>>
    BY DEF When
  <2> HIDE DEF w
  <2>4. CASE w = <<"admin">>
    BY <2>2, <2>4
  <2>5. CASE w = <<>>
    BY <2>2, <2>5
  <2>6. QED
    BY <2>3, <2>4, <2>5
<1> HIDE DEF s1, w
<1>9. /\ s2 \in Seq(Steps) /\ Len(s2) = Len(f) + 1 + Len(w)
      /\ \A i \in 1..Len(f) + 1 : s2[i] = s1[i]
      /\ Len(w) = 1 => s2[Len(f) + 2] = "admin"
  <2>1. /\ s2 \in Seq(Steps) /\ Len(s2) = Len(s1) + Len(w)
        /\ \A i \in 1..Len(s1) + Len(w) :
             s2[i] = IF i <= Len(s1) THEN s1[i] ELSE w[i - Len(s1)]
    BY <1>7, <1>8, ConcatProperties
  <2>2. Len(w) \in Nat /\ Len(s1) = Len(f) + 1 /\ Len(f) \in Nat
    BY <1>6, <1>7, <1>8
  <2>3. \A i \in 1..Len(f) + 1 : s2[i] = s1[i]
    BY <2>1, <2>2
  <2>4. ASSUME Len(w) = 1
        PROVE  s2[Len(f) + 2] = "admin"
    <3>1. (Len(f) + 2) - Len(s1) = 1 /\ w[1] = "admin"
      BY <1>8, <2>2, <2>4
    <3>2. QED
      BY <2>1, <2>2, <2>4, <3>1
  <2>5. QED
    BY <2>1, <2>2, <2>3, <2>4
<1> HIDE DEF s2
<1>10. /\ plan' \in Seq(Steps) /\ Len(plan') = Len(s2) + 1
       /\ \A i \in 1..Len(s2) : plan'[i] = s2[i]
       /\ plan'[Len(s2) + 1] = "hooks"
  <2>1. <<"hooks">> \in Seq(Steps) /\ Len(<<"hooks">>) = 1 /\ <<"hooks">>[1] = "hooks"
    BY DEF Steps
  <2>2. /\ plan' \in Seq(Steps) /\ Len(plan') = Len(s2) + 1
        /\ \A i \in 1..Len(s2) + 1 :
             plan'[i] = IF i <= Len(s2) THEN s2[i] ELSE <<"hooks">>[i - Len(s2)]
    BY <1>5, <1>9, <2>1, ConcatProperties
  <2>3. Len(s2) \in Nat
    BY <1>6, <1>8, <1>9
  <2>4. \A i \in 1..Len(s2) : plan'[i] = s2[i]
    BY <2>2, <2>3
  <2>5. (Len(s2) + 1) - Len(s2) = 1
    BY <2>3
  <2>6. plan'[Len(s2) + 1] = "hooks"
    BY <2>1, <2>2, <2>3, <2>5
  <2>7. QED
    BY <2>2, <2>4, <2>6
<1>11. /\ \A i \in 1..Len(f) : plan'[i] # "seeds"
       /\ plan'[Len(f) + 1] = "seeds"
  <2>1. Len(f) \in Nat /\ Len(s2) >= Len(f) + 1 /\ Len(s2) \in Nat
    BY <1>6, <1>8, <1>9
  <2>2. \A i \in 1..Len(f) + 1 : plan'[i] = s1[i]
    BY <1>9, <1>10, <2>1
  <2>3. QED
    BY <1>6, <1>7, <2>1, <2>2
<1>12. \/ Len(plan') = Len(f) + 3 /\ plan'[Len(f) + 2] = "admin"
                                /\ plan'[Len(f) + 3] = "hooks"
       \/ Len(plan') = Len(f) + 2 /\ plan'[Len(f) + 2] = "hooks"
  <2>1. CASE Len(w) = 1
    BY <1>6, <1>9, <1>10, <2>1
  <2>2. CASE Len(w) = 0
    BY <1>6, <1>9, <1>10, <2>2
  <2>3. QED
    BY <1>8, <2>1, <2>2
<1>13. SeedsLast'
  <2> SUFFICES ASSUME NEW i \in 1..Len(plan'), plan'[i] = "seeds"
               PROVE  i = Len(f) + 1
    BY <1>6, <1>12 DEF SeedsLast
  <2>1. CASE i = Len(f) + 2
    BY <1>12, <2>1
  <2>2. CASE i = Len(f) + 3
    BY <1>6, <1>12, <2>2
  <2>3. QED
    BY <1>6, <1>11, <1>12, <2>1, <2>2
<1>14. QED
  BY <1>10, <1>13

(* The rest of the plan when its first step has been taken.                *)
LEMMA TailOfPlan ==
  ASSUME TypesInv, SeedsLast, plan # <<>>, plan' = Tail(plan), config' = config
  PROVE  /\ plan' \in Seq(Steps) /\ SeedsLast'
         /\ Head(plan) = "seeds" => Late'
         /\ Late /\ Head(plan) # "hooks" => Late'
<1>1. /\ plan' \in Seq(Steps) /\ Len(plan') = Len(plan) - 1
      /\ Len(plan) \in Nat /\ Len(plan) >= 1
      /\ Head(plan) = plan[1]
      /\ \A i \in 1..Len(plan) - 1 : plan'[i] = plan[i + 1]
  <2>1. /\ Tail(plan) \in Seq(Steps) /\ Len(Tail(plan)) = Len(plan) - 1
        /\ \A i \in 1..Len(Tail(plan)) : Tail(plan)[i] = plan[i + 1]
    BY HeadTailProperties DEF TypesInv
  <2>2. Head(plan) = plan[1]
    BY DEF TypesInv
  <2>3. Len(plan) \in Nat /\ Len(plan) >= 1
    BY DEF TypesInv
  <2>4. QED
    BY <2>1, <2>2, <2>3
<1>2. SeedsLast'
  <2> SUFFICES ASSUME NEW i \in 1..Len(plan'), plan'[i] = "seeds"
               PROVE  \/ /\ Len(plan') = i + 2
                         /\ plan'[i + 1] = "admin" /\ plan'[i + 2] = "hooks"
                      \/ Len(plan') = i + 1 /\ plan'[i + 1] = "hooks"
    BY DEF SeedsLast
  <2>1. i + 1 \in 1..Len(plan) /\ plan[i + 1] = "seeds"
    BY <1>1
  <2>2. \/ Len(plan) = i + 3 /\ plan[i + 2] = "admin" /\ plan[i + 3] = "hooks"
        \/ Len(plan) = i + 2 /\ plan[i + 2] = "hooks"
    <3>1. (i + 1) + 1 = i + 2 /\ (i + 1) + 2 = i + 3
      BY <1>1
    <3>2. QED
      BY <2>1, <3>1 DEF SeedsLast
  <2>3. CASE /\ Len(plan) = i + 3
             /\ plan[i + 2] = "admin" /\ plan[i + 3] = "hooks"
    <3>1. plan'[i + 1] = plan[(i + 1) + 1] /\ plan'[i + 2] = plan[(i + 2) + 1]
      BY <1>1, <2>3
    <3>2. (i + 1) + 1 = i + 2 /\ (i + 2) + 1 = i + 3 /\ Len(plan') = i + 2
      BY <1>1, <2>3
    <3>3. QED
      BY <2>3, <3>1, <3>2
  <2>4. CASE Len(plan) = i + 2 /\ plan[i + 2] = "hooks"
    <3>1. plan'[i + 1] = plan[(i + 1) + 1]
      BY <1>1, <2>4
    <3>2. (i + 1) + 1 = i + 2 /\ Len(plan') = i + 1
      BY <1>1, <2>4
    <3>3. QED
      BY <2>4, <3>1, <3>2
  <2>5. QED
    BY <2>2, <2>3, <2>4
<1>3. Head(plan) = "seeds" => Late'
  <2> SUFFICES ASSUME plan[1] = "seeds"
               PROVE  Late'
    BY <1>1
  <2>1. \/ Len(plan) = 3 /\ plan[2] = "admin" /\ plan[3] = "hooks"
        \/ Len(plan) = 2 /\ plan[2] = "hooks"
    <3>1. 1 \in 1..Len(plan) /\ 1 + 1 = 2 /\ 1 + 2 = 3
      BY <1>1
    <3>2. QED
      BY <3>1 DEF SeedsLast
  <2>2. /\ Len(plan) \in {2, 3} => plan'[1] = plan[2]
        /\ Len(plan) = 3 => plan'[2] = plan[3]
    BY <1>1
  <2>3. QED
    BY <1>1, <2>1, <2>2 DEF Late
<1>4. Late /\ Head(plan) # "hooks" => Late'
  BY <1>1 DEF Late
<1>5. QED
  BY <1>1, <1>2, <1>3, <1>4

(* A step of the start-up that is taken: hooks and resources come          *)
(* together, cron is started at "seeds" and has its hook from "hooks" on.  *)
LEMMA StepTaken ==
  ASSUME IInv, state = "starting", failedAt = NoStep, plan # <<>>,
         plan' = Tail(plan),
         UNCHANGED <<config, state, failedAt, closing, reason>>,
         hooks' \in Seq(HookNames), ToSet(hooks) \subseteq ToSet(hooks'),
         open' \subseteq Resources, open' \subseteq open \cup ToSet(hooks'),
         cron' = cron \/ (Head(plan) = "seeds" /\ config.cron /\ cron' = "running"),
         Head(plan) = "hooks" /\ config.cron => "Cron" \in ToSet(hooks')
  PROVE  IInv'
<1>1. TypesInv /\ SeedsLast /\ StopInv
  BY DEF IInv
<1>2. /\ plan' \in Seq(Steps) /\ SeedsLast'
      /\ Head(plan) = "seeds" => Late'
      /\ Late /\ Head(plan) # "hooks" => Late'
  BY <1>1, TailOfPlan
<1>3. TypesInv'
  BY <1>1, <1>2 DEF TypesInv
<1>4. open' \subseteq {failedAt'} \cup ToSet(hooks') \cup ToSet(closing')
  BY <1>1 DEF StopInv
<1>5. cron' = "running" =>
        config'.cron /\ (Pending("Cron")' \/ (state' = "starting" /\ failedAt' = NoStep /\ Late'))
  <2>1. CASE cron' = cron
    BY <1>1, <1>2, <2>1 DEF StopInv, Pending
  <2>2. CASE Head(plan) = "seeds" /\ config.cron /\ cron' = "running"
    BY <1>2, <2>2
  <2>3. QED
    BY <2>1, <2>2
<1>6. /\ state' \in {"stopping", "stopped"} => hooks' = <<>>
      /\ state' # "stopping" => closing' = <<>>
      /\ runtime' = "live" => /\ failedAt' = NoStep /\ reason' = "none"
                              /\ state' \in {"starting", "running"}
      /\ reason' # "none" => state' \in {"running", "stopping", "stopped"}
  BY <1>1 DEF StopInv
<1>7. StopInv'
  BY <1>4, <1>5, <1>6 DEF StopInv
<1>8. QED
  BY <1>2, <1>3, <1>7 DEF IInv

(* A step that fails leaves at most its own resource open, and cancels the *)
(* runtime context.  None of those behind "seeds" fails.                   *)
LEMMA StepFails ==
  ASSUME IInv, state = "starting", failedAt = NoStep, plan # <<>>,
         Head(plan) \notin {"admin", "hooks"},
         Fails(Head(plan)),
         UNCHANGED <<config, state, hooks, closing, reason, cron>>,
         open' \subseteq Resources, open' \subseteq open \cup {Head(plan)}
  PROVE  IInv'
<1>1. TypesInv /\ SeedsLast /\ StopInv
  BY DEF IInv
<1>2. failedAt' = Head(plan) /\ plan' = plan /\ runtime' # "live"
  BY DEF Fails, Cancelled
<1>3. TypesInv' /\ SeedsLast'
  BY <1>1, <1>2 DEF TypesInv, SeedsLast
<1>4. open' \subseteq {failedAt'} \cup ToSet(hooks') \cup ToSet(closing')
  <2>1. NoStep \notin Resources
    BY DEF NoStep, Resources
  <2>2. QED
    BY <1>1, <1>2, <2>1 DEF StopInv
<1>5. ~ Late
  <2>1. Head(plan) = plan[1]
    BY <1>1 DEF TypesInv
  <2>2. QED
    BY <2>1 DEF Late
<1>6. cron' = "running" => config'.cron /\ Pending("Cron")'
  BY <1>1, <1>5 DEF StopInv, Pending
<1>7. StopInv'
  BY <1>1, <1>2, <1>4, <1>6 DEF StopInv
<1>8. QED
  BY <1>3, <1>7 DEF IInv

(* A step that leaves the plan and the hooks alone.                        *)
LEMMA StepAside ==
  ASSUME IInv, UNCHANGED <<config, plan, failedAt, open, hooks, closing>>,
         \/ state' = state
         \/ state = "starting" /\ plan = <<>> /\ state' = "running"
         \/ state = "stopping" /\ closing = <<>> /\ state' = "stopped",
         \/ runtime' = runtime /\ reason' = reason
         \/ runtime' # "live" /\ state = "running" /\ state' = state,
         cron' = cron \/ cron' # "running"
  PROVE  IInv'
<1>1. TypesInv /\ SeedsLast /\ StopInv
  BY DEF IInv
<1>2. TypesInv' /\ SeedsLast'
  BY <1>1 DEF TypesInv, SeedsLast
<1>3. plan = <<>> => ~ Late
  BY DEF Late
<1>4. Late' <=> Late
  BY DEF Late
<1>5. StopInv'
  BY <1>1, <1>3, <1>4 DEF StopInv, Pending
<1>6. QED
  BY <1>2, <1>5 DEF IInv

(* A hook is taken from closing: with it goes the resource of its name, or *)
(* it is the one of cron and cron no longer runs.                          *)
LEMMA HookTaken ==
  ASSUME IInv, state = "stopping", closing # <<>>, closing' = Tail(closing),
         UNCHANGED <<config, state, plan, failedAt, hooks, reason>>,
         open' = open \ {Head(closing)},
         runtime' = runtime \/ runtime' # "live",
         \/ cron' = cron /\ Head(closing) # "Cron"
         \/ cron' # "running"
  PROVE  IInv'
<1>1. TypesInv /\ SeedsLast /\ StopInv
  BY DEF IInv
<1>2. /\ closing' \in Seq(HookNames)
      /\ ToSet(closing) \subseteq ToSet(closing') \cup {Head(closing)}
  BY <1>1, ToSetFacts DEF TypesInv
<1>3. TypesInv' /\ SeedsLast'
  BY <1>1, <1>2 DEF TypesInv, SeedsLast
<1>4. open' \subseteq {failedAt'} \cup ToSet(hooks') \cup ToSet(closing')
  BY <1>1, <1>2 DEF StopInv
<1>5. cron' = "running" => config'.cron /\ Pending("Cron")'
  BY <1>1, <1>2 DEF StopInv, Pending
<1>6. StopInv'
  BY <1>1, <1>4, <1>5 DEF StopInv
<1>7. QED
  BY <1>3, <1>6 DEF IInv

(* The action that takes step s of the plan.                               *)
StepOf(s) ==
  \/ Callback(s)
  \/ s = "logger" /\ InitLog
  \/ s \in Resources /\ OpenResource(s)
  \/ s = "runtime" /\ MakeRuntimeContext
  \/ s = "IOC" /\ StartContainer
  \/ s = "web" /\ startWebService
  \/ s = "ready" /\ AwaitReady
  \/ s = "seeds" /\ registerSeedsAndStartCron
  \/ s = "admin" /\ StartAdmin
  \/ s = "hooks" /\ RegisterHooks

(* Every step of the start-up, taken or failed.                            *)
LEMMA StartUpInv ==
  ASSUME IInv, NEW s, AtStep(s),
         StepOf(s)
  PROVE  IInv'
<1>1. state = "starting" /\ failedAt = NoStep /\ plan # <<>> /\ Head(plan) = s
  BY DEF AtStep
<1>2. TypesInv
  BY DEF IInv
<1>3. ToSet(hooks) \subseteq ToSet(hooks) /\ hooks \in Seq(HookNames)
      /\ open \subseteq Resources
  BY <1>2 DEF TypesInv
<1>4. ASSUME NEW name \in HookNames, registerShutdown(<<name>>)
      PROVE  /\ hooks' \in Seq(HookNames)
             /\ ToSet(hooks) \cup {name} \subseteq ToSet(hooks')
  <2>1. <<name>> \in Seq(HookNames) /\ ToSet(<<name>>) = {name}
    BY DEF ToSet
  <2>2. QED
    BY <1>3, <1>4, <2>1, ToSetFacts DEF registerShutdown
<1>5. CASE Callback(s)
  <2>1. /\ UNCHANGED <<config, state, open, hooks, closing, reason, cron>>
        /\ s \notin {"seeds", "admin", "hooks"}
        /\ Taken \/ Fails(s)
    BY <1>5 DEF Callback, stopVars, exitVars, cronVars
  <2>2. QED
    BY <1>1, <1>3, <2>1, StepTaken, StepFails DEF Taken
<1>6. CASE s = "logger" /\ InitLog
  <2>1. /\ UNCHANGED <<config, state, open, closing, reason, cron>>
        /\ \/ Taken /\ registerShutdown(<<"logger">>)
           \/ Fails(s) /\ UNCHANGED hooks
    BY <1>6 DEF InitLog, stopVars, exitVars, cronVars
  <2>2. "logger" \in HookNames
    BY DEF HookNames
  <2>3. CASE Taken /\ registerShutdown(<<"logger">>)
    BY <1>1, <1>3, <1>4, <1>6, <2>1, <2>2, <2>3, StepTaken DEF Taken
  <2>4. CASE Fails(s) /\ UNCHANGED hooks
    BY <1>1, <1>3, <1>6, <2>1, <2>4, StepFails
  <2>5. QED
    BY <2>1, <2>3, <2>4
<1>7. CASE s \in Resources /\ OpenResource(s)
  <2>1. /\ UNCHANGED <<config, state, closing, reason, cron>>
        /\ s \notin {"seeds", "admin", "hooks"} /\ s \in HookNames
    BY <1>7 DEF OpenResource, stopVars, exitVars, cronVars, Resources, HookNames
  <2>2. CASE Taken /\ open' = open \cup {s} /\ registerShutdown(<<s>>)
    BY <1>1, <1>3, <1>4, <1>7, <2>1, <2>2, StepTaken DEF Taken
  <2>3. CASE Fails(s) /\ open' \in {open, open \cup {s}} /\ UNCHANGED hooks
    BY <1>1, <1>3, <1>7, <2>1, <2>3, StepFails
  <2>4. QED
    BY <1>7, <2>2, <2>3 DEF OpenResource
<1>8. CASE s = "runtime" /\ MakeRuntimeContext
  <2>1. UNCHANGED <<config, state, open, hooks, closing, reason, cron>> /\ Taken
    BY <1>8 DEF MakeRuntimeContext, stopVars, exitVars, cronVars
  <2>2. QED
    BY <1>1, <1>3, <1>8, <2>1, StepTaken DEF Taken
<1>9. CASE s = "IOC" /\ StartContainer
  <2>1. UNCHANGED <<config, state, open, hooks, closing, reason, cron>>
        /\ (Taken \/ Fails(s))
    BY <1>9 DEF StartContainer, stopVars, exitVars, cronVars
  <2>2. QED
    BY <1>1, <1>3, <1>9, <2>1, StepTaken, StepFails DEF Taken
<1>10. CASE s = "web" /\ startWebService
  <2>1. UNCHANGED <<config, state, open, hooks, closing, reason, cron>>
        /\ (Taken \/ Fails(s))
    BY <1>10 DEF startWebService, stopVars, exitVars, cronVars
  <2>2. QED
    BY <1>1, <1>3, <1>10, <2>1, StepTaken, StepFails DEF Taken
<1>11. CASE s = "ready" /\ AwaitReady
  <2>1. UNCHANGED <<config, state, open, hooks, closing, reason, cron>>
        /\ (Taken \/ Fails(s))
    BY <1>11 DEF AwaitReady, stopVars, exitVars, cronVars
  <2>2. QED
    BY <1>1, <1>3, <1>11, <2>1, StepTaken, StepFails DEF Taken
<1>12. CASE s = "seeds" /\ registerSeedsAndStartCron
  <2>1. UNCHANGED <<config, state, open, hooks, closing, reason>>
    BY <1>12 DEF registerSeedsAndStartCron, stopVars, exitVars
  <2>2. CASE Taken /\ cron' = IF config.cron THEN "running" ELSE cron
    BY <1>1, <1>3, <1>12, <2>1, <2>2, StepTaken DEF Taken
  <2>3. CASE Fails(s) /\ UNCHANGED cron
    BY <1>1, <1>3, <1>12, <2>1, <2>3, StepFails
  <2>4. QED
    BY <1>12, <2>2, <2>3 DEF registerSeedsAndStartCron
<1>13. CASE s = "admin" /\ StartAdmin
  <2>1. UNCHANGED <<config, state, open, hooks, closing, reason, cron>> /\ Taken
    BY <1>13 DEF StartAdmin, stopVars, exitVars, cronVars
  <2>2. QED
    BY <1>1, <1>3, <1>13, <2>1, StepTaken DEF Taken
<1>14. CASE s = "hooks" /\ RegisterHooks
  <2>1. /\ UNCHANGED <<config, state, open, closing, reason, cron>> /\ Taken
        /\ hooks' = hooks \o LateHooks(config)
    BY <1>14 DEF RegisterHooks, registerShutdown, stopVars, exitVars, cronVars
  <2>2. /\ LateHooks(config) \in Seq(HookNames)
        /\ config.cron => "Cron" \in ToSet(LateHooks(config))
    <3> DEFINE w == When(config.cron, <<"Cron">>)
               h1 == <<"runtimeContext">> \o w
               h2 == h1 \o config.hooks
    <3>1. config.hooks \in Seq(HookNames)
      <4>1. config.hooks \in Seq(BusinessHooks)
        BY <1>2, ConfigurationsAssumption DEF TypesInv, ConfigurationOK
      <4>2. BusinessHooks \subseteq HookNames
        BY DEF HookNames
      <4>3. QED
        BY <4>1, <4>2, SeqMonotonic
    <3>2. /\ <<"Cron">> \in Seq(HookNames) /\ <<"runtimeContext">> \in Seq(HookNames)
          /\ <<"iocContainer">> \in Seq(HookNames)
      BY DEF HookNames
    <3>3. w \in Seq(HookNames)
      BY <3>2, WhenSeq
    <3>4. config.cron => "Cron" \in ToSet(w)
      BY DEF When, ToSet
    <3> HIDE DEF w
    <3>5. h1 \in Seq(HookNames) /\ ToSet(w) \subseteq ToSet(h1)
      BY <3>2, <3>3, ToSetFacts
    <3> HIDE DEF h1
    <3>6. h2 \in Seq(HookNames) /\ ToSet(h1) \subseteq ToSet(h2)
      BY <3>1, <3>5, ToSetFacts
    <3> HIDE DEF h2
    <3>7. h2 \o <<"iocContainer">> \in Seq(HookNames)
          /\ ToSet(h2) \subseteq ToSet(h2 \o <<"iocContainer">>)
      BY <3>2, <3>6, ToSetFacts
    <3>8. LateHooks(config) = h2 \o <<"iocContainer">>
      BY DEF LateHooks, h2, h1, w
    <3>9. QED
      BY <3>4, <3>5, <3>6, <3>7, <3>8
  <2>3. /\ hooks' \in Seq(HookNames) /\ ToSet(hooks) \subseteq ToSet(hooks')
        /\ config.cron => "Cron" \in ToSet(hooks')
    BY <1>3, <2>1, <2>2, ToSetFacts
  <2>4. QED
    BY <1>1, <1>3, <1>14, <2>1, <2>3, StepTaken DEF Taken
<1>15. QED
  BY <1>5, <1>6, <1>7, <1>8, <1>9, <1>10, <1>11, <1>12, <1>13, <1>14 DEF StepOf

(* Every step of the shutdown.                                             *)
LEMMA ShutdownInv ==
  ASSUME IInv, \/ beginShutdown \/ \E name \in ToSet(closing) : RunHook(name)
               \/ stopCron \/ cronStopped \/ endShutdown
  PROVE  IInv'
<1>1. TypesInv /\ SeedsLast /\ StopInv
  BY DEF IInv
<1>2. CASE beginShutdown
  <2>1. /\ closing' = Reverse(hooks) /\ hooks' = <<>> /\ state' = "stopping"
        /\ failedAt # NoStep \/ reason # "none"
        /\ state \in {"starting", "running"}
        /\ UNCHANGED <<config, plan, failedAt, open, runtime, reason, cron>>
    BY <1>2 DEF beginShutdown, RunOrder, exitVars, cronVars
  <2>2. closing' \in Seq(HookNames) /\ ToSet(hooks) \subseteq ToSet(closing')
    BY <1>1, <2>1, ToSetFacts DEF TypesInv
  <2>3. TypesInv' /\ SeedsLast'
    BY <1>1, <2>1, <2>2, EmptySeq DEF TypesInv, SeedsLast
  <2>4. closing = <<>> /\ ToSet(closing) = {}
    BY <1>1, <2>1, EmptySeq, ToSetFacts DEF StopInv
  <2>5. open' \subseteq {failedAt'} \cup ToSet(hooks') \cup ToSet(closing')
    BY <1>1, <2>1, <2>2, <2>4 DEF StopInv
  <2>6. Pending("Cron") => Pending("Cron")'
    BY <2>2, <2>4 DEF Pending
  <2>7. runtime' # "live" /\ ~ (state = "starting" /\ failedAt = NoStep /\ Late)
    BY <1>1, <2>1 DEF StopInv
  <2>8. StopInv'
    BY <1>1, <2>1, <2>5, <2>6, <2>7 DEF StopInv
  <2>9. QED
    BY <2>3, <2>8 DEF IInv
<1>3. ASSUME NEW name \in ToSet(closing), RunHook(name)
      PROVE  IInv'
  <2>1. /\ state = "stopping" /\ closing # <<>> /\ Head(closing) = name
        /\ closing' = Tail(closing) /\ open' = open \ {name} /\ name # "Cron"
        /\ UNCHANGED <<config, state, plan, failedAt, hooks, reason, cron>>
    BY <1>3 DEF RunHook, HookAt, HookDone, Remaining, exitVars, cronVars
  <2>2. runtime' = runtime \/ runtime' # "live"
    BY <1>3 DEF RunHook, Cancelled
  <2>3. QED
    BY <2>1, <2>2, HookTaken
<1>4. CASE stopCron
  <2>1. /\ cron' = "stopping" /\ state' = state
        /\ UNCHANGED <<config, plan, failedAt, open, hooks, closing, runtime, reason>>
    BY <1>4 DEF stopCron, stopVars, exitVars
  <2>2. QED
    BY <2>1, StepAside
<1>5. CASE cronStopped
  <2>1. /\ state = "stopping" /\ closing # <<>> /\ Head(closing) = "Cron"
        /\ closing' = Tail(closing) /\ cron' = "stopped"
        /\ UNCHANGED <<config, state, plan, failedAt, hooks, open, runtime, reason>>
    BY <1>5 DEF cronStopped, HookAt, HookDone, Remaining, exitVars
  <2>2. open' = open \ {Head(closing)}
    BY <1>1, <2>1 DEF TypesInv, Resources
  <2>3. QED
    BY <2>1, <2>2, HookTaken
<1>6. CASE endShutdown
  <2>1. /\ state = "stopping" /\ closing = <<>> /\ state' = "stopped"
        /\ UNCHANGED <<config, plan, failedAt, open, hooks, closing, runtime, reason, cron>>
    BY <1>6 DEF endShutdown, stopVars, exitVars, cronVars
  <2>2. QED
    BY <2>1, StepAside
<1>7. QED
  BY <1>2, <1>3, <1>4, <1>5, <1>6

(* The start-up, the shutdown, and what runs beside them.                  *)
LEMMA NextInv == IInv /\ [Next]_vars => IInv'
<1> SUFFICES ASSUME IInv, [Next]_vars
             PROVE  IInv'
  OBVIOUS
<1>1. TypesInv /\ SeedsLast /\ StopInv
  BY DEF IInv
<1>2. CASE beginStart
  <2>1. /\ state = "created" /\ state' = "starting" /\ plan' = StartSteps(config)
        /\ UNCHANGED <<config, failedAt, open, hooks, closing, runtime, reason, cron>>
    BY <1>2 DEF beginStart, stopVars, exitVars, cronVars
  <2>2. plan' \in Seq(Steps) /\ SeedsLast'
    BY <1>1, <2>1, StartStepsFacts
  <2>3. TypesInv'
    BY <1>1, <2>1, <2>2 DEF TypesInv
  <2>4. StopInv'
    BY <1>1, <2>1 DEF StopInv, Pending
  <2>5. QED
    BY <2>2, <2>3, <2>4 DEF IInv
<1>3. CASE \/ \E s \in {"builder", "beforeSetups", "afterSetups"} : Callback(s)
           \/ InitLog \/ \E r \in Resources : OpenResource(r)
           \/ MakeRuntimeContext \/ StartContainer \/ startWebService \/ AwaitReady
           \/ registerSeedsAndStartCron \/ StartAdmin \/ RegisterHooks
  <2>1. ASSUME NEW k \in {"builder", "beforeSetups", "afterSetups"}, Callback(k)
        PROVE  IInv'
    <3>1. AtStep(k) /\ StepOf(k)
      BY <2>1 DEF StepOf, Callback
    <3>2. QED
      BY <3>1, StartUpInv
  <2>2. CASE InitLog
    <3>1. AtStep("logger") /\ StepOf("logger")
      BY <2>2 DEF StepOf, InitLog
    <3>2. QED
      BY <3>1, StartUpInv
  <2>3. ASSUME NEW k \in Resources, OpenResource(k)
        PROVE  IInv'
    <3>1. AtStep(k) /\ StepOf(k)
      BY <2>3 DEF StepOf, OpenResource
    <3>2. QED
      BY <3>1, StartUpInv
  <2>4. CASE MakeRuntimeContext
    <3>1. AtStep("runtime") /\ StepOf("runtime")
      BY <2>4 DEF StepOf, MakeRuntimeContext
    <3>2. QED
      BY <3>1, StartUpInv
  <2>5. CASE StartContainer
    <3>1. AtStep("IOC") /\ StepOf("IOC")
      BY <2>5 DEF StepOf, StartContainer
    <3>2. QED
      BY <3>1, StartUpInv
  <2>6. CASE startWebService
    <3>1. AtStep("web") /\ StepOf("web")
      BY <2>6 DEF StepOf, startWebService
    <3>2. QED
      BY <3>1, StartUpInv
  <2>7. CASE AwaitReady
    <3>1. AtStep("ready") /\ StepOf("ready")
      BY <2>7 DEF StepOf, AwaitReady
    <3>2. QED
      BY <3>1, StartUpInv
  <2>8. CASE registerSeedsAndStartCron
    <3>1. AtStep("seeds") /\ StepOf("seeds")
      BY <2>8 DEF StepOf, registerSeedsAndStartCron
    <3>2. QED
      BY <3>1, StartUpInv
  <2>9. CASE StartAdmin
    <3>1. AtStep("admin") /\ StepOf("admin")
      BY <2>9 DEF StepOf, StartAdmin
    <3>2. QED
      BY <3>1, StartUpInv
  <2>10. CASE RegisterHooks
    <3>1. AtStep("hooks") /\ StepOf("hooks")
      BY <2>10 DEF StepOf, RegisterHooks
    <3>2. QED
      BY <3>1, StartUpInv
  <2>11. QED
    BY <1>3, <2>1, <2>2, <2>3, <2>4, <2>5, <2>6, <2>7, <2>8, <2>9, <2>10
<1>4. CASE markRunning
  <2>1. /\ state = "starting" /\ plan = <<>> /\ state' = "running"
        /\ UNCHANGED <<config, plan, failedAt, open, hooks, closing, runtime, reason, cron>>
    BY <1>4 DEF markRunning, stopVars, exitVars, cronVars
  <2>2. QED
    BY <2>1, StepAside
<1>5. CASE WaitExit
  <2>1. /\ state = "running" /\ runtime' # "live"
        /\ UNCHANGED <<config, state, plan, failedAt, open, hooks, closing, cron>>
    BY <1>5 DEF WaitExit, Cancelled, stopVars, cronVars
  <2>2. QED
    BY <2>1, StepAside
<1>6. ASSUME UNCHANGED <<config, state, plan, failedAt, open, hooks, closing,
                         runtime, reason, cron>>
      PROVE  IInv'
  BY <1>6, StepAside
<1>7. CASE WebStep \/ WebEnds
  <2>1. \E w, r : WebGoes(w, r)
    BY <1>7, Zenon DEF WebStep, WebServes, WebDrains, WebStops, WebEnds
  <2>2. QED
    BY <1>6, <2>1 DEF WebGoes, stopVars, exitVars, cronVars
<1>8. CASE monitorWebService
  BY <1>6, <1>8 DEF monitorWebService, stopVars, cronVars
<1>9. CASE AdminEnds \/ JobStarts \/ JobEnds \/ Expire
  BY <1>6, <1>9 DEF AdminEnds, JobStarts, JobEnds, Expire, stopVars, exitVars, cronVars
<1>10. CASE BusinessExit \/ Signal
  BY <1>6, <1>10 DEF BusinessExit, Signal, stopVars, cronVars
<1>11. CASE UNCHANGED vars
  BY <1>6, <1>11 DEF vars
<1>12. QED
  BY <1>2, <1>3, <1>4, <1>5, <1>7, <1>8, <1>9, <1>10, <1>11, ShutdownInv
     DEF Next, Start

(* Nothing is planned, open or registered before Start.                    *)
LEMMA InitInv == Init => IInv
<1> SUFFICES ASSUME Init
             PROVE  IInv
  OBVIOUS
<1>1. TypesInv
  BY EmptySeq DEF Init, TypesInv
<1>2. SeedsLast
  BY DEF Init, SeedsLast
<1>3. StopInv
  BY DEF Init, StopInv
<1>4. QED
  BY <1>1, <1>2, <1>3 DEF IInv

(* Every step, of Start and of the goroutines beside it, keeps the hooks   *)
(* and what is open in agreement.                                          *)
THEOREM Invariance == Spec => []IInv
BY InitInv, NextInv, PTL DEF Spec

(* Start leaves nothing open but what its failed step had opened, whatever *)
(* was asked for, whichever step failed and whichever hooks failed.        *)
THEOREM ReleasedAlways == Spec => []Released
<1>1. IInv => Released
  BY DEF IInv, StopInv, Released, Pending, ToSet
<1>2. QED
  BY <1>1, Invariance, PTL

(* A request: the first is put into the channel, and stays the first.      *)
LEMMA ExitKeeps ==
  ASSUME ExitInv, NEW message \in {"business", "web"}, Exit(message),
         reason' = reason
  PROVE  ExitInv'
<1>1. asked' = Append(asked, message) /\ asked' \in Seq({"business", "web"})
      /\ asked' # <<>> /\ Head(asked') = IF asked = <<>> THEN message ELSE Head(asked)
  BY DEF Exit, ExitInv
<1>2. exitChan' = IF exitChan = <<>> THEN <<message>> ELSE exitChan
  BY DEF Exit, Send
<1>3. CASE reason = "none"
  <2>1. asked = <<>> /\ exitChan = <<>> => exitChan' = <<Head(asked')>>
    BY <1>1, <1>2
  <2>2. asked # <<>> /\ exitChan = <<Head(asked)>> => exitChan' = <<Head(asked')>>
    BY <1>1, <1>2
  <2>3. QED
    BY <1>1, <1>3, <2>1, <2>2 DEF ExitInv
<1>4. CASE reason # "none"
  BY <1>1, <1>4 DEF ExitInv
<1>5. QED
  BY <1>3, <1>4

(* The reason of the exit is the first request made, or a signal, however  *)
(* many goroutines ask and whatever they interleave with.                  *)
THEOREM FirstReasonKeptAlways == Spec => []FirstReasonKept
<1>1. Init => ExitInv
  BY EmptySeq DEF Init, ExitInv
<1>2. ExitInv /\ [Next]_vars => ExitInv'
  <2> SUFFICES ASSUME ExitInv, [Next]_vars
               PROVE  ExitInv'
    OBVIOUS
  <2>1. ASSUME UNCHANGED <<exitChan, reason, asked>>
        PROVE  ExitInv'
    BY <2>1 DEF ExitInv
  <2>2. CASE Start /\ ~ WaitExit
    BY <2>1, <2>2 DEF Start, beginStart, Callback, InitLog, OpenResource,
       MakeRuntimeContext, StartContainer, startWebService, AwaitReady,
       registerSeedsAndStartCron, StartAdmin, RegisterHooks, markRunning,
       beginShutdown, RunHook, stopCron, cronStopped, endShutdown, exitVars
  <2>3. CASE WaitExit
    BY <2>3 DEF WaitExit, ExitInv
  <2>4. CASE WebStep \/ WebEnds
    <3>1. \E w, r : WebGoes(w, r)
      BY <2>4, Zenon DEF WebStep, WebServes, WebDrains, WebStops, WebEnds
    <3>2. QED
      BY <2>1, <3>1 DEF WebGoes, exitVars
  <2>5. CASE monitorWebService
    BY <2>1, <2>5, ExitKeeps DEF monitorWebService
  <2>6. CASE BusinessExit
    BY <2>6, ExitKeeps DEF BusinessExit
  <2>7. CASE AdminEnds \/ JobStarts \/ JobEnds \/ Signal \/ Expire
    BY <2>1, <2>7 DEF AdminEnds, JobStarts, JobEnds, Signal, Expire, exitVars
  <2>8. CASE UNCHANGED vars
    BY <2>1, <2>8 DEF vars
  <2>9. QED
    BY <2>2, <2>3, <2>4, <2>5, <2>6, <2>7, <2>8 DEF Next
<1>3. ExitInv => FirstReasonKept
  BY DEF ExitInv, FirstReasonKept
<1>4. QED
  BY <1>1, <1>2, <1>3, PTL DEF Spec

(* No hook at all.                                                         *)
LEMMA NoHooks ==
  <<>> \in Seq(HookNames) /\ DOMAIN <<>> = {} /\ ToSet(<<>>) = {} /\ <<>> \o <<>> = <<>>
<1>1. <<>> \in Seq(HookNames)
  BY EmptySeq
<1>2. DOMAIN <<>> = {}
  OBVIOUS
<1>3. ToSet(<<>>) = {}
  BY <1>2 DEF ToSet
<1>4. <<>> \o <<>> = <<>>
  BY <1>1, ConcatEmptySeq
<1>5. QED
  BY <1>1, <1>2, <1>3, <1>4

(* Two sequences without repetition and without a common element.          *)
LEMMA ConcatDistinct ==
  ASSUME NEW A, NEW B, A \cap B = {},
         NEW s \in Seq(A), NEW t \in Seq(B), IsInjective(s), IsInjective(t)
  PROVE  s \o t \in Seq(A \cup B) /\ IsInjective(s \o t)
<1>1. s \in Seq(A \cup B) /\ t \in Seq(A \cup B)
  BY SeqMonotonic
<1>2. /\ s \o t \in Seq(A \cup B) /\ Len(s \o t) = Len(s) + Len(t)
      /\ \A i \in 1..Len(s) + Len(t) :
           (s \o t)[i] = IF i <= Len(s) THEN s[i] ELSE t[i - Len(s)]
  BY <1>1, ConcatProperties
<1>3. /\ Len(s) \in Nat /\ DOMAIN s = 1..Len(s) /\ \A i \in 1..Len(s) : s[i] \in A
      /\ Len(t) \in Nat /\ DOMAIN t = 1..Len(t) /\ \A i \in 1..Len(t) : t[i] \in B
      /\ DOMAIN (s \o t) = 1..Len(s) + Len(t)
  BY <1>2, LenProperties, ElementOfSeq
<1>4. ASSUME NEW i \in 1..Len(s) + Len(t), NEW j \in 1..Len(s) + Len(t),
             (s \o t)[i] = (s \o t)[j]
      PROVE  i = j
  <2>1. /\ i <= Len(s) => i \in DOMAIN s /\ (s \o t)[i] = s[i] /\ s[i] \in A
        /\ j <= Len(s) => j \in DOMAIN s /\ (s \o t)[j] = s[j] /\ s[j] \in A
    BY <1>2, <1>3
  <2>2. ASSUME NEW k \in 1..Len(s) + Len(t), ~ (k <= Len(s))
        PROVE  /\ k - Len(s) \in DOMAIN t
               /\ (s \o t)[k] = t[k - Len(s)] /\ t[k - Len(s)] \in B
    <3>1. k - Len(s) \in 1..Len(t)
      BY <1>3, <2>2
    <3>2. QED
      BY <1>2, <1>3, <2>2, <3>1
  <2>3. CASE i <= Len(s) /\ j <= Len(s)
    BY <1>4, <2>1, <2>3 DEF IsInjective
  <2>4. CASE ~ (i <= Len(s)) /\ ~ (j <= Len(s))
    <3>1. t[i - Len(s)] = t[j - Len(s)]
      BY <1>4, <2>2, <2>4
    <3>2. i - Len(s) = j - Len(s)
      BY <2>2, <2>4, <3>1 DEF IsInjective
    <3>3. QED
      BY <1>3, <3>2
  <2>5. (i <= Len(s)) <=> (j <= Len(s))
    BY <1>4, <2>1, <2>2
  <2>6. QED
    BY <2>3, <2>4, <2>5
<1>5. QED
  BY <1>2, <1>3, <1>4 DEF IsInjective

(* A conditional part of a plan repeats no name.                           *)
LEMMA WhenDistinct ==
  ASSUME NEW S, NEW c, NEW t \in Seq(S), IsInjective(t)
  PROVE  When(c, t) \in Seq(S) /\ IsInjective(When(c, t))
<1>1. <<>> \in Seq(S) /\ IsInjective(<<>>)
  BY EmptySeq DEF IsInjective
<1>2. QED
  BY <1>1 DEF When

(* No step is taken twice, and the last one registers the late hooks.      *)
LEMMA StepsDistinct ==
  ASSUME NEW c \in Configurations
  PROVE  /\ StartSteps(c) \in Seq(Steps) /\ IsInjective(StartSteps(c))
         /\ Len(StartSteps(c)) >= 1
         /\ StartSteps(c)[Len(StartSteps(c))] = "hooks"
<1> DEFINE Stores == Resources \ {"database:named"}
           Web == <<"beforeSetups", "web", "ready", "afterSetups">>
           f1 == <<"builder", "logger">> \o c.resources
           f2 == f1 \o <<"runtime">>
           f3 == f2 \o When(c.named, <<"database:named">>)
           f4 == f3 \o <<"IOC">>
           f5 == f4 \o When(c.web # "none", Web)
           f6 == f5 \o <<"seeds">>
           f7 == f6 \o When(c.admin, <<"admin">>)
           E0 == {"builder", "logger"}
           E1 == E0 \cup Stores
           E2 == E1 \cup {"runtime"}
           E3 == E2 \cup {"database:named"}
           E4 == E3 \cup {"IOC"}
           E5 == E4 \cup {"beforeSetups", "web", "ready", "afterSetups"}
           E6 == E5 \cup {"seeds"}
           E7 == E6 \cup {"admin"}
           E8 == E7 \cup {"hooks"}
<1>1. c.resources \in Seq(Stores) /\ IsInjective(c.resources)
  BY ConfigurationsAssumption DEF ConfigurationOK
<1>2. \A x : <<x>> \in Seq({x}) /\ IsInjective(<<x>>)
  BY DEF IsInjective
<1>3. <<"builder", "logger">> \in Seq(E0) /\ IsInjective(<<"builder", "logger">>)
  BY DEF IsInjective
<1>4. Web \in Seq({"beforeSetups", "web", "ready", "afterSetups"}) /\ IsInjective(Web)
  BY DEF IsInjective
<1>5. /\ E0 \cap Stores = {} /\ E1 \cap {"runtime"} = {}
      /\ E2 \cap {"database:named"} = {} /\ E3 \cap {"IOC"} = {}
      /\ E4 \cap {"beforeSetups", "web", "ready", "afterSetups"} = {}
      /\ E5 \cap {"seeds"} = {} /\ E6 \cap {"admin"} = {} /\ E7 \cap {"hooks"} = {}
      /\ E8 \subseteq Steps
  BY DEF Resources, Steps, EarlySteps
<1>6. StartSteps(c) = f7 \o <<"hooks">>
  BY DEF StartSteps
<1> HIDE DEF Web, E0
<1>7. f1 \in Seq(E1) /\ IsInjective(f1)
  BY <1>1, <1>3, <1>5, ConcatDistinct
<1> HIDE DEF f1, E1
<1>8. f2 \in Seq(E2) /\ IsInjective(f2)
  BY <1>2, <1>5, <1>7, ConcatDistinct
<1> HIDE DEF f2, E2
<1>9. f3 \in Seq(E3) /\ IsInjective(f3)
  BY <1>2, <1>5, <1>8, ConcatDistinct, WhenDistinct
<1> HIDE DEF f3, E3
<1>10. f4 \in Seq(E4) /\ IsInjective(f4)
  BY <1>2, <1>5, <1>9, ConcatDistinct
<1> HIDE DEF f4, E4
<1>11. f5 \in Seq(E5) /\ IsInjective(f5)
  BY <1>4, <1>5, <1>10, ConcatDistinct, WhenDistinct
<1> HIDE DEF f5, E5
<1>12. f6 \in Seq(E6) /\ IsInjective(f6)
  BY <1>2, <1>5, <1>11, ConcatDistinct
<1> HIDE DEF f6, E6
<1>13. f7 \in Seq(E7) /\ IsInjective(f7)
  BY <1>2, <1>5, <1>12, ConcatDistinct, WhenDistinct
<1> HIDE DEF f7, E7
<1>14. f7 \o <<"hooks">> \in Seq(E8) /\ IsInjective(f7 \o <<"hooks">>)
  BY <1>2, <1>5, <1>13, ConcatDistinct
<1>15. Append(f7, "hooks") = f7 \o <<"hooks">>
  <2>1. f7 \in Seq(E8) /\ "hooks" \in E8
    BY <1>13, SeqMonotonic
  <2>2. QED
    BY <2>1, AppendIsConcat
<1>16. Len(f7) \in Nat /\ Len(Append(f7, "hooks")) = Len(f7) + 1
       /\ Append(f7, "hooks")[Len(f7) + 1] = "hooks"
  <2>1. f7 \in Seq(E8) /\ "hooks" \in E8
    BY <1>13, SeqMonotonic
  <2>2. QED
    BY <2>1, AppendProperties, LenProperties
<1>17. StartSteps(c) \in Seq(Steps)
  BY <1>5, <1>6, <1>14, SeqMonotonic
<1>18. QED
  BY <1>6, <1>14, <1>15, <1>16, <1>17

(* The place of a step in the plan is where it stands.                     *)
LEMMA PlaceOfStep ==
  ASSUME NEW c \in Configurations, NEW i \in DOMAIN StartSteps(c)
  PROVE  Place(c, StartSteps(c)[i]) = i
<1>1. IsInjective(StartSteps(c))
  BY StepsDistinct
<1>2. \A j \in DOMAIN StartSteps(c) : StartSteps(c)[j] = StartSteps(c)[i] => j = i
  BY <1>1 DEF IsInjective
<1>3. QED
  BY <1>2 DEF Place

(* The late hooks are no steps; those of the business are among them.      *)
LEMMA LateFacts ==
  ASSUME NEW c \in Configurations
  PROVE  /\ LateHooks(c) \in Seq(HookNames)
         /\ \A x \in ToSet(LateHooks(c)) :
              x \notin ToSet(StartSteps(c)) /\ x \notin Resources \cup {"logger"}
         /\ "iocContainer" \in ToSet(LateHooks(c))
         /\ ToSet(c.hooks) \subseteq ToSet(LateHooks(c))
<1> DEFINE Names == BusinessHooks \cup {"runtimeContext", "Cron", "iocContainer"}
           w == When(c.cron, <<"Cron">>)
           h1 == <<"runtimeContext">> \o w
           h2 == h1 \o c.hooks
<1>1. c.hooks \in Seq(Names)
  <2>1. c.hooks \in Seq(BusinessHooks) /\ BusinessHooks \subseteq Names
    BY ConfigurationsAssumption DEF ConfigurationOK
  <2>2. QED
    BY <2>1, SeqMonotonic
<1>2. /\ <<"runtimeContext">> \in Seq(Names) /\ <<"Cron">> \in Seq(Names)
      /\ <<"iocContainer">> \in Seq(Names)
      /\ "iocContainer" \in ToSet(<<"iocContainer">>)
  BY DEF ToSet
<1>3. /\ Names \subseteq HookNames
      /\ \A x \in Names : x \notin Steps /\ x \notin Resources \cup {"logger"}
  <2>1. \A x \in BusinessHooks : x \notin Labels
    BY Zenon DEF BusinessHooks
  <2>2. Steps \cup Resources \cup {"logger"} \subseteq Labels
    BY DEF Steps, EarlySteps, Labels
  <2>3. \A x \in {"runtimeContext", "Cron", "iocContainer"} :
          x \notin Steps /\ x \notin Resources \cup {"logger"}
    BY DEF Steps, EarlySteps, Resources
  <2>4. Names \subseteq HookNames
    BY DEF HookNames
  <2>5. QED
    BY <2>1, <2>2, <2>3, <2>4
<1>4. LateHooks(c) = h2 \o <<"iocContainer">>
  BY DEF LateHooks
<1> HIDE DEF Names
<1>5. w \in Seq(Names)
  BY <1>2, WhenSeq
<1> HIDE DEF w
<1>6. h1 \in Seq(Names)
  BY <1>2, <1>5, ToSetFacts
<1> HIDE DEF h1
<1>7. h2 \in Seq(Names) /\ ToSet(c.hooks) \subseteq ToSet(h2)
  BY <1>1, <1>6, ToSetFacts
<1> HIDE DEF h2
<1>8. /\ LateHooks(c) \in Seq(Names) /\ ToSet(h2) \subseteq ToSet(LateHooks(c))
      /\ "iocContainer" \in ToSet(LateHooks(c))
  <2>1. /\ h2 \o <<"iocContainer">> \in Seq(Names)
        /\ ToSet(h2) \cup ToSet(<<"iocContainer">>) \subseteq ToSet(h2 \o <<"iocContainer">>)
    BY <1>2, <1>7, ToSetFacts
  <2>2. QED
    BY <1>2, <1>4, <2>1
<1>9. \A x \in ToSet(LateHooks(c)) : x \in Names
  BY <1>8, LenProperties, ElementOfSeq DEF ToSet
<1>10. \A x \in ToSet(StartSteps(c)) : x \in Steps
  <2>1. StartSteps(c) \in Seq(Steps)
    BY StepsDistinct
  <2>2. QED
    BY <2>1, LenProperties, ElementOfSeq DEF ToSet
<1>11. LateHooks(c) \in Seq(HookNames)
  BY <1>3, <1>8, SeqMonotonic
<1>12. QED
  BY <1>3, <1>7, <1>8, <1>9, <1>10, <1>11

(* Sequences whose names are in order, and of which each name of the one   *)
(* comes before each name of the other.                                    *)
LEMMA RisingConcat ==
  ASSUME NEW S, NEW s \in Seq(S), NEW t \in Seq(S), NEW c,
         Rising(c, s), Rising(c, t),
         \A i \in DOMAIN s, j \in DOMAIN t : Before(c, s[i], t[j])
  PROVE  Rising(c, s \o t)
<1>1. /\ s \o t \in Seq(S) /\ Len(s \o t) = Len(s) + Len(t)
      /\ \A i \in 1..Len(s) + Len(t) :
           (s \o t)[i] = IF i <= Len(s) THEN s[i] ELSE t[i - Len(s)]
  BY ConcatProperties
<1>2. /\ Len(s) \in Nat /\ DOMAIN s = 1..Len(s)
      /\ Len(t) \in Nat /\ DOMAIN t = 1..Len(t)
      /\ DOMAIN (s \o t) = 1..Len(s) + Len(t)
  BY <1>1, LenProperties
<1>3. ASSUME NEW i \in 1..Len(s) + Len(t), NEW j \in 1..Len(s) + Len(t), i < j
      PROVE  Before(c, (s \o t)[i], (s \o t)[j])
  <2>1. CASE j <= Len(s)
    <3>1. i \in DOMAIN s /\ j \in DOMAIN s /\ (s \o t)[i] = s[i] /\ (s \o t)[j] = s[j]
      BY <1>1, <1>2, <1>3, <2>1
    <3>2. QED
      BY <1>3, <3>1 DEF Rising
  <2>2. CASE i <= Len(s) /\ ~ (j <= Len(s))
    <3>1. i \in DOMAIN s /\ (s \o t)[i] = s[i]
      BY <1>1, <1>2, <2>2
    <3>2. j - Len(s) \in DOMAIN t /\ (s \o t)[j] = t[j - Len(s)]
      BY <1>1, <1>2, <2>2
    <3>3. QED
      BY <3>1, <3>2
  <2>3. CASE ~ (i <= Len(s)) /\ ~ (j <= Len(s))
    <3>1. i - Len(s) \in DOMAIN t /\ (s \o t)[i] = t[i - Len(s)]
      BY <1>1, <1>2, <2>3
    <3>2. j - Len(s) \in DOMAIN t /\ (s \o t)[j] = t[j - Len(s)]
      BY <1>1, <1>2, <2>3
    <3>3. i - Len(s) < j - Len(s)
      BY <1>2, <1>3
    <3>4. QED
      BY <3>1, <3>2, <3>3 DEF Rising
  <2>4. QED
    BY <1>2, <1>3, <2>1, <2>2, <2>3
<1>4. QED
  BY <1>2, <1>3 DEF Rising

(* Shutdown turns the order round.                                         *)
LEMMA RisingReversed ==
  ASSUME NEW S, NEW s \in Seq(S), NEW c, Rising(c, s)
  PROVE  Falling(c, Reverse(s))
<1>1. Len(s) \in Nat /\ DOMAIN s = 1..Len(s)
  BY LenProperties
<1>2. DOMAIN Reverse(s) = 1..Len(s)
      /\ \A i \in 1..Len(s) : Reverse(s)[i] = s[(Len(s) - i) + 1]
  BY DEF Reverse
<1>3. ASSUME NEW i \in 1..Len(s), NEW j \in 1..Len(s), i < j
      PROVE  Before(c, Reverse(s)[j], Reverse(s)[i])
  <2>1. /\ (Len(s) - i) + 1 \in DOMAIN s /\ (Len(s) - j) + 1 \in DOMAIN s
        /\ (Len(s) - j) + 1 < (Len(s) - i) + 1
    BY <1>1, <1>3
  <2>2. Before(c, s[(Len(s) - j) + 1], s[(Len(s) - i) + 1])
    BY <2>1 DEF Rising
  <2>3. QED
    BY <1>2, <2>2
<1>4. QED
  BY <1>2, <1>3 DEF Falling

(* A step is taken: the rest of the plan is still the rest of the steps,   *)
(* and the step stands just before it.                                     *)
LEMMA RestOfSteps ==
  ASSUME TypesInv, PlanIsRest, plan # <<>>, plan' = Tail(plan), config' = config
  PROVE  /\ PlanIsRest'
         /\ Len(StartSteps(config)) \in Nat
         /\ Len(plan') \in Nat /\ Len(plan) = Len(plan') + 1
         /\ Len(plan) <= Len(StartSteps(config))
         /\ Place(config, Head(plan)) = Len(StartSteps(config)) - Len(plan')
         /\ Head(plan) = "hooks" <=> plan' = <<>>
<1> DEFINE steps == StartSteps(config)
           n == Len(steps)
<1>1. /\ config \in Configurations /\ steps \in Seq(Steps) /\ IsInjective(steps)
      /\ steps[n] = "hooks" /\ n \in Nat /\ n >= 1 /\ DOMAIN steps = 1..n
  BY StepsDistinct, LenProperties DEF TypesInv
<1>2. /\ Len(plan) \in Nat /\ Len(plan) >= 1 /\ Head(plan) = plan[1]
      /\ plan' \in Seq(Steps) /\ Len(plan') = Len(plan) - 1
      /\ \A i \in 1..Len(plan') : plan'[i] = plan[i + 1]
  BY HeadTailProperties DEF TypesInv
<1>3. /\ Len(plan) <= n
      /\ \A i \in 1..Len(plan) : plan[i] = steps[(n - Len(plan)) + i]
  BY DEF PlanIsRest
<1>4. StartSteps(config') = steps
  OBVIOUS
<1> HIDE DEF steps, n
<1>5. \A i \in 1..Len(plan') : plan'[i] = steps[(n - Len(plan')) + i]
  <2> SUFFICES ASSUME NEW i \in 1..Len(plan')
               PROVE  plan'[i] = steps[(n - Len(plan')) + i]
    OBVIOUS
  <2>1. i + 1 \in 1..Len(plan) /\ (n - Len(plan)) + (i + 1) = (n - Len(plan')) + i
    BY <1>1, <1>2
  <2>2. QED
    BY <1>2, <1>3, <2>1
<1>6. /\ n - Len(plan') \in DOMAIN steps /\ Len(plan') \in Nat
      /\ Head(plan) = steps[n - Len(plan')]
  <2>1. 1 \in 1..Len(plan) /\ (n - Len(plan)) + 1 = n - Len(plan')
    BY <1>1, <1>2
  <2>2. n - Len(plan') \in 1..n
    BY <1>1, <1>2, <1>3
  <2>3. QED
    BY <1>1, <1>2, <1>3, <2>1, <2>2
<1>7. Place(config, Head(plan)) = n - Len(plan')
  BY <1>1, <1>6, PlaceOfStep DEF steps
<1>8. Head(plan) = "hooks" <=> plan' = <<>>
  <2>1. n \in DOMAIN steps
    BY <1>1
  <2>2. Head(plan) = "hooks" <=> n - Len(plan') = n
    BY <1>1, <1>6, <2>1 DEF IsInjective
  <2>3. plan' = <<>> <=> Len(plan') = 0
    BY <1>2, EmptySeq
  <2>4. \A k, m \in Nat : k - m = k <=> m = 0
    OBVIOUS
  <2>5. QED
    BY <1>1, <1>6, <2>2, <2>3, <2>4, Zenon
<1>9. PlanIsRest'
  <2>1. Len(plan') <= n
    BY <1>1, <1>2, <1>3
  <2>2. QED
    BY <1>4, <1>5, <2>1 DEF PlanIsRest, n, steps
<1>10. QED
  BY <1>1, <1>2, <1>3, <1>7, <1>8, <1>9 DEF n, steps

(* The hooks before a step has been taken belong to earlier steps.         *)
LEMMA HooksBefore ==
  ASSUME TypesInv, PlanIsRest, plan # <<>>, plan' = Tail(plan), config' = config,
         NEW x, SoFar(config, plan, x)
  PROVE  /\ SoFar(config, plan', x)
         /\ x \in Resources \cup {"logger"}
         /\ Before(config, x, Head(plan))
<1> DEFINE n == Len(StartSteps(config))
           p == Place(config, x)
<1>1. /\ n \in Nat /\ Len(plan') \in Nat /\ Len(plan) = Len(plan') + 1
      /\ Place(config, Head(plan)) = n - Len(plan')
  BY RestOfSteps
<1>2. x \in Resources \cup {"logger"}
  BY DEF SoFar
<1>3. x \in ToSet(StartSteps(config)) => p \in Int /\ p <= n - Len(plan)
  <2> SUFFICES ASSUME x \in ToSet(StartSteps(config))
               PROVE  p \in Int
    BY DEF SoFar
  <2>1. PICK k \in DOMAIN StartSteps(config) : x = StartSteps(config)[k]
    BY DEF ToSet
  <2>2. config \in Configurations /\ DOMAIN StartSteps(config) = 1..n
    <3>1. config \in Configurations /\ StartSteps(config) \in Seq(Steps)
      BY StepsDistinct DEF TypesInv
    <3>2. QED
      BY <3>1, LenProperties
  <2>3. p = k
    BY <2>1, <2>2, PlaceOfStep
  <2>4. QED
    BY <2>2, <2>3
<1>4. x \in ToSet(StartSteps(config)) => p <= n - Len(plan') /\ p < n - Len(plan')
  BY <1>1, <1>3
<1>5. SoFar(config, plan', x)
  BY <1>2, <1>4 DEF SoFar
<1>6. Before(config, x, Head(plan))
  BY <1>1, <1>2, <1>4 DEF Before
<1>7. QED
  BY <1>2, <1>5, <1>6

(* A step is taken and registers the hooks t behind those before it.       *)
LEMMA OrderRegisters ==
  ASSUME TypesInv, OrderInv, state = "starting", plan # <<>>, plan' = Tail(plan),
         UNCHANGED <<config, state, failedAt, closing, closed>>,
         NEW t \in Seq(HookNames), hooks' = hooks \o t, Rising(config, t),
         \A j \in DOMAIN t : SoFar(config, plan', t[j]),
         \A i \in DOMAIN hooks, j \in DOMAIN t : Before(config, hooks[i], t[j]),
         Head(plan) = "hooks" => ToSet(LateHooks(config)) \subseteq ToSet(t)
  PROVE  OrderInv'
<1>1. PhaseInv /\ HooksInv /\ AllRegistered /\ PlanIsRest
  BY DEF OrderInv, PhaseInv
<1>2. /\ PlanIsRest' /\ (Head(plan) = "hooks" <=> plan' = <<>>)
  BY <1>1, RestOfSteps
<1>3. PhaseInv'
  BY <1>1, <1>2 DEF PhaseInv
<1>4. hooks \in Seq(HookNames) /\ ToSet(t) \subseteq ToSet(hooks \o t)
  BY ToSetFacts DEF TypesInv
<1>5. \A i \in DOMAIN hooks : SoFar(config, plan', hooks[i])
  BY <1>1, HooksBefore DEF HooksInv
<1>6. \A i \in DOMAIN hooks' : SoFar(config, plan', hooks'[i])
  <2>1. /\ Len(hooks \o t) = Len(hooks) + Len(t)
        /\ \A i \in 1..Len(hooks) + Len(t) :
             (hooks \o t)[i] = IF i <= Len(hooks) THEN hooks[i] ELSE t[i - Len(hooks)]
        /\ hooks \o t \in Seq(HookNames)
    BY <1>4, ConcatProperties
  <2>2. /\ Len(hooks) \in Nat /\ DOMAIN hooks = 1..Len(hooks)
        /\ Len(t) \in Nat /\ DOMAIN t = 1..Len(t)
        /\ DOMAIN (hooks \o t) = 1..Len(hooks) + Len(t)
    BY <1>4, <2>1, LenProperties
  <2>3. ASSUME NEW i \in 1..Len(hooks) + Len(t)
        PROVE  SoFar(config, plan', (hooks \o t)[i])
    <3>1. CASE i <= Len(hooks)
      <4>1. i \in DOMAIN hooks /\ (hooks \o t)[i] = hooks[i]
        BY <2>1, <2>2, <3>1
      <4>2. QED
        BY <1>5, <4>1
    <3>2. CASE ~ (i <= Len(hooks))
      <4>1. i - Len(hooks) \in DOMAIN t /\ (hooks \o t)[i] = t[i - Len(hooks)]
        BY <2>1, <2>2, <3>2
      <4>2. QED
        BY <4>1
    <3>3. QED
      BY <3>1, <3>2
  <2>4. QED
    BY <2>2, <2>3
<1>7. Rising(config, hooks \o t)
  <2>1. Rising(config, hooks)
    BY <1>1 DEF HooksInv
  <2>2. QED
    BY <1>4, <2>1, RisingConcat
<1>8. Falling(config, Course)'
  <2>1. Course' = Course
    BY DEF Course
  <2>2. QED
    BY <1>1, <2>1 DEF HooksInv
<1>9. HooksInv'
  BY <1>6, <1>7, <1>8 DEF HooksInv
<1>10. AllRegistered'
  BY <1>2, <1>4 DEF AllRegistered
<1>11. QED
  BY <1>3, <1>9, <1>10 DEF OrderInv

(* A step is taken that registers nothing, its own hook, or the late hooks. *)
LEMMA OrderTaken ==
  ASSUME TypesInv, OrderInv, state = "starting", plan # <<>>, plan' = Tail(plan),
         UNCHANGED <<config, state, failedAt, closing, closed>>,
         \/ hooks' = hooks /\ Head(plan) # "hooks"
         \/ hooks' = hooks \o <<Head(plan)>> /\ Head(plan) \in Resources \cup {"logger"}
         \/ hooks' = hooks \o LateHooks(config) /\ Head(plan) = "hooks"
  PROVE  OrderInv'
<1>1. PlanIsRest /\ config \in Configurations /\ hooks \in Seq(HookNames)
      /\ \A i \in DOMAIN hooks : SoFar(config, plan, hooks[i])
  BY DEF OrderInv, PhaseInv, HooksInv, TypesInv
<1>2. /\ Len(StartSteps(config)) \in Nat /\ Len(plan') \in Nat
      /\ Place(config, Head(plan)) = Len(StartSteps(config)) - Len(plan')
      /\ Head(plan) = "hooks" <=> plan' = <<>>
  BY <1>1, RestOfSteps
<1>3. \A i \in DOMAIN hooks : /\ hooks[i] \in Resources \cup {"logger"}
                              /\ Before(config, hooks[i], Head(plan))
  BY <1>1, HooksBefore
<1>4. CASE hooks' = hooks /\ Head(plan) # "hooks"
  <2>1. <<>> \in Seq(HookNames) /\ hooks' = hooks \o <<>> /\ DOMAIN <<>> = {}
    BY <1>1, <1>4, EmptySeq, ConcatEmptySeq
  <2>2. Rising(config, <<>>)
    BY <2>1 DEF Rising
  <2>3. QED
    BY <1>4, <2>1, <2>2, OrderRegisters
<1>5. CASE hooks' = hooks \o <<Head(plan)>> /\ Head(plan) \in Resources \cup {"logger"}
  <2> DEFINE h == Head(plan)
  <2>1. h \in HookNames /\ h # "hooks"
    BY <1>5 DEF HookNames, Resources
  <2> HIDE DEF h
  <2>2. <<h>> \in Seq(HookNames) /\ DOMAIN <<h>> = {1} /\ <<h>>[1] = h
    BY <2>1
  <2>3. Rising(config, <<h>>)
    BY <2>2 DEF Rising
  <2>4. SoFar(config, plan', h)
    BY <1>2, <1>5 DEF SoFar, h
  <2>5. \A i \in DOMAIN hooks : Before(config, hooks[i], h)
    BY <1>3 DEF h
  <2>6. hooks' = hooks \o <<h>> /\ (Head(plan) = "hooks" => FALSE)
    BY <1>5, <2>1 DEF h
  <2>7. QED
    BY <2>2, <2>3, <2>4, <2>5, <2>6, OrderRegisters
<1>6. CASE hooks' = hooks \o LateHooks(config) /\ Head(plan) = "hooks"
  <2> DEFINE t == LateHooks(config)
  <2>1. /\ t \in Seq(HookNames)
        /\ \A j \in DOMAIN t : /\ t[j] \notin ToSet(StartSteps(config))
                               /\ t[j] \notin Resources \cup {"logger"}
    BY <1>1, LateFacts DEF ToSet
  <2> HIDE DEF t
  <2>2. Rising(config, t)
    BY <2>1 DEF Rising, Before
  <2>3. \A j \in DOMAIN t : SoFar(config, plan', t[j])
    BY <1>2, <1>6, <2>1 DEF SoFar
  <2>4. \A i \in DOMAIN hooks, j \in DOMAIN t : Before(config, hooks[i], t[j])
    BY <1>3, <2>1 DEF Before
  <2>5. hooks' = hooks \o t /\ ToSet(LateHooks(config)) \subseteq ToSet(t)
    BY <1>6 DEF t
  <2>6. QED
    BY <2>1, <2>2, <2>3, <2>4, <2>5, OrderRegisters
<1>7. QED
  BY <1>4, <1>5, <1>6

(* The plan is made: nothing has been taken.                               *)
LEMMA OrderBegins ==
  ASSUME TypesInv, OrderInv, StopInv, beginStart
  PROVE  OrderInv'
<1>1. PhaseInv /\ HooksInv
  BY DEF OrderInv
<1>2. /\ state = "created" /\ state' = "starting" /\ plan' = StartSteps(config)
      /\ UNCHANGED <<config, failedAt, hooks, closing, closed>>
      /\ hooks = <<>> /\ closed = <<>> /\ closing = <<>>
  BY <1>1 DEF beginStart, stopVars, PhaseInv, StopInv
<1>3. StartSteps(config) \in Seq(Steps) /\ Len(StartSteps(config)) >= 1
  BY StepsDistinct DEF TypesInv
<1>4. PlanIsRest'
  <2>1. Len(StartSteps(config)) \in Nat
    BY <1>3, LenProperties
  <2> DEFINE steps == StartSteps(config)
  <2> HIDE DEF steps
  <2>2. plan' = steps /\ StartSteps(config') = steps /\ Len(steps) \in Nat
    BY <1>2, <2>1 DEF steps
  <2>3. \A i \in 1..Len(steps) : (Len(steps) - Len(steps)) + i = i
    BY <2>2
  <2>4. QED
    BY <2>2, <2>3 DEF PlanIsRest
<1>5. PhaseInv'
  BY <1>1, <1>2, <1>4 DEF PhaseInv
<1>6. HooksInv'
  <2>1. DOMAIN <<>> = {} /\ <<>> \o <<>> = <<>>
    BY NoHooks
  <2>2. hooks' = <<>> /\ Course' = <<>>
    BY <1>2, <2>1 DEF Course
  <2>3. QED
    BY <2>1, <2>2 DEF HooksInv, Rising, Falling
<1>7. AllRegistered'
  BY <1>2, <1>3 DEF AllRegistered
<1>8. QED
  BY <1>5, <1>6, <1>7 DEF OrderInv

(* A step that takes and registers nothing: one that fails, one beside the *)
(* start-up, or one between two phases.                                    *)
LEMMA OrderAside ==
  ASSUME OrderInv, UNCHANGED <<config, plan, hooks, closing, closed>>,
         \/ UNCHANGED <<state, failedAt>>
         \/ state = "starting" /\ state' = state /\ plan # <<>>
         \/ /\ state = "starting" /\ plan = <<>> /\ state' = "running"
            /\ UNCHANGED failedAt
         \/ state = "stopping" /\ state' = "stopped" /\ UNCHANGED failedAt
  PROVE  OrderInv'
<1>1. PhaseInv /\ HooksInv /\ AllRegistered
  BY DEF OrderInv
<1>2. Course' = Course /\ (PlanIsRest' <=> PlanIsRest)
  BY DEF Course, PlanIsRest
<1>3. PhaseInv'
  BY <1>1, <1>2 DEF PhaseInv
<1>4. HooksInv'
  BY <1>1, <1>2 DEF HooksInv
<1>5. AllRegistered'
  BY <1>1 DEF AllRegistered
<1>6. QED
  BY <1>3, <1>4, <1>5 DEF OrderInv

(* Shutdown begins with the hooks in reverse.                              *)
LEMMA OrderShutdown ==
  ASSUME TypesInv, OrderInv, StopInv, beginShutdown
  PROVE  OrderInv'
<1>1. PhaseInv /\ HooksInv /\ AllRegistered
  BY DEF OrderInv
<1>2. /\ state \in {"starting", "running"} /\ state' = "stopping"
      /\ state = "starting" => failedAt # NoStep
      /\ closing' = Reverse(hooks) /\ hooks' = <<>>
      /\ UNCHANGED <<config, plan, failedAt, closed>>
      /\ closed = <<>> /\ closing = <<>>
  BY <1>1 DEF beginShutdown, RunOrder, PhaseInv, StopInv
<1>3. hooks \in Seq(HookNames) /\ Reverse(hooks) \in Seq(HookNames)
      /\ ToSet(hooks) \subseteq ToSet(Reverse(hooks)) /\ ToSet(<<>>) = {}
  BY ToSetFacts DEF TypesInv
<1>4. Course' = Reverse(hooks)
  BY <1>2, <1>3, ConcatEmptySeq DEF Course
<1>5. PlanIsRest' <=> PlanIsRest
  BY <1>2 DEF PlanIsRest
<1>6. PhaseInv'
  BY <1>1, <1>2, <1>5 DEF PhaseInv
<1>7. HooksInv'
  <2>1. Falling(config, Reverse(hooks))
    BY <1>1, <1>3, RisingReversed DEF HooksInv
  <2>2. DOMAIN <<>> = {}
    BY NoHooks
  <2>3. QED
    BY <1>2, <1>4, <2>1, <2>2 DEF HooksInv, Rising
<1>8. AllRegistered'
  <2> SUFFICES ASSUME failedAt = NoStep, plan = <<>>
               PROVE  ToSet(LateHooks(config)) \subseteq ToSet(closing')
    BY <1>2 DEF AllRegistered
  <2>1. ToSet(LateHooks(config)) \subseteq ToSet(hooks)
    BY <1>1, <1>2, <1>3 DEF AllRegistered
  <2>2. QED
    BY <1>2, <1>3, <2>1
<1>9. QED
  BY <1>6, <1>7, <1>8 DEF OrderInv

(* A hook moves from those to be run to those that were.                   *)
LEMMA CourseKept ==
  ASSUME NEW S, NEW s \in Seq(S), NEW t \in Seq(S), t # <<>>
  PROVE  /\ Append(s, Head(t)) \o Tail(t) = s \o t
         /\ Append(s, Head(t)) \in Seq(S)
         /\ ToSet(Append(s, Head(t))) = ToSet(s) \cup {Head(t)}
<1>1. /\ Head(t) \in S /\ Tail(t) \in Seq(S) /\ Len(Tail(t)) = Len(t) - 1
      /\ \A i \in 1..Len(Tail(t)) : Tail(t)[i] = t[i + 1]
      /\ Len(t) \in Nat /\ Len(t) >= 1 /\ Head(t) = t[1]
      /\ Len(s) \in Nat /\ DOMAIN s = 1..Len(s)
  BY HeadTailProperties, LenProperties
<1> DEFINE a == Append(s, Head(t))
           n == Len(s)
<1>2. /\ a \in Seq(S) /\ Len(a) = n + 1 /\ a[n + 1] = Head(t)
      /\ \A i \in 1..n : a[i] = s[i]
  BY <1>1, AppendProperties
<1>3. DOMAIN a = 1..n + 1
  BY <1>2, LenProperties
<1> HIDE DEF a, n
<1>4. /\ a \o Tail(t) \in Seq(S) /\ Len(a \o Tail(t)) = Len(a) + Len(Tail(t))
      /\ \A i \in 1..Len(a) + Len(Tail(t)) :
           (a \o Tail(t))[i] = IF i <= Len(a) THEN a[i] ELSE Tail(t)[i - Len(a)]
  BY <1>1, <1>2, ConcatProperties
<1>5. /\ s \o t \in Seq(S) /\ Len(s \o t) = n + Len(t)
      /\ \A i \in 1..n + Len(t) :
           (s \o t)[i] = IF i <= n THEN s[i] ELSE t[i - n]
  BY ConcatProperties DEF n
<1>6. n \in Nat /\ DOMAIN s = 1..n
  BY <1>1 DEF n
<1>7. Len(a \o Tail(t)) = n + Len(t)
  BY <1>1, <1>2, <1>4, <1>6
<1>8. ASSUME NEW i \in 1..n + Len(t)
      PROVE  (a \o Tail(t))[i] = (s \o t)[i]
  <2>1. CASE i <= n
    <3>1. (a \o Tail(t))[i] = a[i] /\ a[i] = s[i]
      BY <1>1, <1>2, <1>4, <1>6, <2>1
    <3>2. QED
      BY <1>5, <2>1, <3>1
  <2>2. CASE i = n + 1
    <3>1. (a \o Tail(t))[i] = Head(t)
      BY <1>1, <1>2, <1>4, <1>6, <2>2
    <3>2. (s \o t)[i] = t[1]
      BY <1>1, <1>5, <1>6, <2>2
    <3>3. QED
      BY <1>1, <3>1, <3>2
  <2>3. CASE i > n + 1
    <3>1. (a \o Tail(t))[i] = Tail(t)[i - (n + 1)]
      BY <1>1, <1>2, <1>4, <1>6, <2>3
    <3>2. i - (n + 1) \in 1..Len(Tail(t)) /\ (i - (n + 1)) + 1 = i - n
      BY <1>1, <1>6, <2>3
    <3>3. Tail(t)[i - (n + 1)] = t[i - n]
      BY <1>1, <3>2
    <3>4. (s \o t)[i] = t[i - n]
      BY <1>1, <1>5, <1>6, <2>3
    <3>5. QED
      BY <3>1, <3>3, <3>4
  <2>4. i <= n \/ i = n + 1 \/ i > n + 1
    <3>1. Len(t) \in Nat /\ i \in Int
      BY <1>1, <1>6
    <3>2. QED
      BY <1>6, <3>1
  <2>5. QED
    BY <2>1, <2>2, <2>3, <2>4, Zenon
<1>9. a \o Tail(t) = s \o t
  BY <1>4, <1>5, <1>7, <1>8, SeqEqual
<1>10. ToSet(a) = ToSet(s) \cup {Head(t)}
  <2>1. \A x \in ToSet(a) : x \in ToSet(s) \cup {Head(t)}
    BY <1>2, <1>3, <1>6 DEF ToSet
  <2>2. ToSet(s) \subseteq ToSet(a)
    BY <1>2, <1>3, <1>6 DEF ToSet
  <2>3. Head(t) \in ToSet(a)
    BY <1>2, <1>3, <1>6 DEF ToSet
  <2>4. QED
    BY <2>1, <2>2, <2>3
<1>11. QED
  BY <1>2, <1>9, <1>10 DEF a

(* A hook has been run: it counts as closed, and the course is the same.   *)
LEMMA OrderHook ==
  ASSUME TypesInv, OrderInv, state = "stopping", closing # <<>>,
         closing' = Tail(closing), closed' = Append(closed, Head(closing)),
         UNCHANGED <<config, state, plan, failedAt, hooks>>
  PROVE  OrderInv'
<1>1. PhaseInv /\ HooksInv /\ AllRegistered
  BY DEF OrderInv
<1>2. closed \in Seq(HookNames) /\ closing \in Seq(HookNames)
  BY <1>1 DEF PhaseInv, TypesInv
<1>3. /\ Course' = Course /\ closed' \in Seq(HookNames)
      /\ ToSet(closed') = ToSet(closed) \cup {Head(closing)}
      /\ ToSet(closing) \subseteq ToSet(closing') \cup {Head(closing)}
  <2>1. /\ Append(closed, Head(closing)) \o Tail(closing) = closed \o closing
        /\ Append(closed, Head(closing)) \in Seq(HookNames)
        /\ ToSet(Append(closed, Head(closing))) = ToSet(closed) \cup {Head(closing)}
    BY <1>2, CourseKept
  <2>2. ToSet(closing) \subseteq ToSet(Tail(closing)) \cup {Head(closing)}
    BY <1>2, ToSetFacts
  <2>3. QED
    BY <2>1, <2>2 DEF Course
<1>4. PlanIsRest' <=> PlanIsRest
  BY DEF PlanIsRest
<1>5. PhaseInv'
  BY <1>1, <1>3, <1>4 DEF PhaseInv
<1>6. HooksInv'
  BY <1>1, <1>3 DEF HooksInv
<1>7. AllRegistered'
  BY <1>1, <1>3 DEF AllRegistered
<1>8. QED
  BY <1>5, <1>6, <1>7 DEF OrderInv

(* Every step of Start before the exit keeps the order of the hooks.       *)
LEMMA StartUpOrder ==
  ASSUME IInv, OrderInv,
         \/ beginStart
         \/ \E s \in {"builder", "beforeSetups", "afterSetups"} : Callback(s)
         \/ InitLog \/ \E r \in Resources : OpenResource(r)
         \/ MakeRuntimeContext \/ StartContainer \/ startWebService \/ AwaitReady
         \/ registerSeedsAndStartCron \/ StartAdmin \/ RegisterHooks
         \/ markRunning
  PROVE  OrderInv'
<1>1. TypesInv /\ StopInv
  BY DEF IInv
<1>2. CASE beginStart
  BY <1>1, <1>2, OrderBegins
<1>3. ASSUME NEW h, AtStep(h), UNCHANGED <<config, state, closing, closed>>,
             \/ Fails(h) /\ UNCHANGED hooks
             \/ Taken /\ hooks' = hooks /\ h # "hooks"
             \/ Taken /\ hooks' = hooks \o <<h>> /\ h \in Resources \cup {"logger"}
             \/ Taken /\ hooks' = hooks \o LateHooks(config) /\ h = "hooks"
      PROVE  OrderInv'
  <2>1. state = "starting" /\ plan # <<>> /\ h = Head(plan)
    BY <1>3 DEF AtStep
  <2>2. CASE Fails(h) /\ UNCHANGED hooks
    <3>1. plan' = plan
      BY <2>2 DEF Fails
    <3>2. QED
      BY <1>3, <2>1, <2>2, <3>1, OrderAside
  <2>3. CASE Taken /\ ~ (Fails(h) /\ UNCHANGED hooks)
    <3>1. plan' = Tail(plan) /\ UNCHANGED failedAt
      BY <2>3 DEF Taken
    <3>2. \/ hooks' = hooks /\ Head(plan) # "hooks"
          \/ hooks' = hooks \o <<Head(plan)>> /\ Head(plan) \in Resources \cup {"logger"}
          \/ hooks' = hooks \o LateHooks(config) /\ Head(plan) = "hooks"
      BY <1>3, <2>1, <2>3
    <3>3. QED
      BY <1>1, <1>3, <2>1, <3>1, <3>2, OrderTaken
  <2>4. QED
    BY <1>3, <2>2, <2>3
<1>4. ASSUME NEW k \in {"builder", "beforeSetups", "afterSetups"}, Callback(k)
      PROVE  OrderInv'
  <2>1. AtStep(k) /\ UNCHANGED <<config, state, closing, closed, hooks>>
        /\ (Taken \/ Fails(k)) /\ k # "hooks"
    BY <1>4 DEF Callback, stopVars
  <2>2. QED
    BY <1>3, <2>1
<1>5. CASE InitLog
  <2>1. /\ AtStep("logger") /\ UNCHANGED <<config, state, closing, closed>>
        /\ \/ Taken /\ hooks' = hooks \o <<"logger">>
           \/ Fails("logger") /\ UNCHANGED hooks
    BY <1>5 DEF InitLog, registerShutdown, stopVars
  <2>2. QED
    BY <1>3, <2>1
<1>6. ASSUME NEW k \in Resources, OpenResource(k)
      PROVE  OrderInv'
  <2>1. /\ AtStep(k) /\ UNCHANGED <<config, state, closing, closed>>
        /\ \/ Taken /\ hooks' = hooks \o <<k>>
           \/ Fails(k) /\ UNCHANGED hooks
    BY <1>6 DEF OpenResource, registerShutdown, stopVars
  <2>2. QED
    BY <1>3, <2>1
<1>7. CASE MakeRuntimeContext
  <2>1. AtStep("runtime") /\ UNCHANGED <<config, state, closing, closed, hooks>> /\ Taken
    BY <1>7 DEF MakeRuntimeContext, stopVars
  <2>2. QED
    BY <1>3, <2>1
<1>8. CASE StartContainer
  <2>1. AtStep("IOC") /\ UNCHANGED <<config, state, closing, closed, hooks>>
        /\ (Taken \/ Fails("IOC"))
    BY <1>8 DEF StartContainer, stopVars
  <2>2. QED
    BY <1>3, <2>1
<1>9. CASE startWebService
  <2>1. AtStep("web") /\ UNCHANGED <<config, state, closing, closed, hooks>>
        /\ (Taken \/ Fails("web"))
    BY <1>9 DEF startWebService, stopVars
  <2>2. QED
    BY <1>3, <2>1
<1>10. CASE AwaitReady
  <2>1. AtStep("ready") /\ UNCHANGED <<config, state, closing, closed, hooks>>
        /\ (Taken \/ Fails("ready"))
    BY <1>10 DEF AwaitReady, stopVars
  <2>2. QED
    BY <1>3, <2>1
<1>11. CASE registerSeedsAndStartCron
  <2>1. AtStep("seeds") /\ UNCHANGED <<config, state, closing, closed, hooks>>
        /\ (Taken \/ Fails("seeds"))
    BY <1>11 DEF registerSeedsAndStartCron, stopVars
  <2>2. QED
    BY <1>3, <2>1
<1>12. CASE StartAdmin
  <2>1. AtStep("admin") /\ UNCHANGED <<config, state, closing, closed, hooks>> /\ Taken
    BY <1>12 DEF StartAdmin, stopVars
  <2>2. QED
    BY <1>3, <2>1
<1>13. CASE RegisterHooks
  <2>1. /\ AtStep("hooks") /\ UNCHANGED <<config, state, closing, closed>> /\ Taken
        /\ hooks' = hooks \o LateHooks(config)
    BY <1>13 DEF RegisterHooks, registerShutdown, stopVars
  <2>2. QED
    BY <1>3, <2>1
<1>14. CASE markRunning
  <2>1. /\ state = "starting" /\ plan = <<>> /\ state' = "running"
        /\ UNCHANGED <<config, plan, failedAt, hooks, closing, closed>>
    BY <1>14 DEF markRunning, stopVars
  <2>2. QED
    BY <2>1, OrderAside
<1>15. QED
  BY <1>2, <1>4, <1>5, <1>6, <1>7, <1>8, <1>9, <1>10, <1>11, <1>12, <1>13, <1>14

(* Every other step keeps it too.                                          *)
LEMMA OrderNext ==
  ASSUME IInv, OrderInv, [Next]_vars
  PROVE  OrderInv'
<1>1. TypesInv /\ StopInv
  BY DEF IInv
<1>2. CASE \/ beginStart
           \/ \E s \in {"builder", "beforeSetups", "afterSetups"} : Callback(s)
           \/ InitLog \/ \E r \in Resources : OpenResource(r)
           \/ MakeRuntimeContext \/ StartContainer \/ startWebService \/ AwaitReady
           \/ registerSeedsAndStartCron \/ StartAdmin \/ RegisterHooks
           \/ markRunning
  BY <1>2, StartUpOrder
<1>3. CASE beginShutdown
  BY <1>1, <1>3, OrderShutdown
<1>4. ASSUME NEW name \in ToSet(closing), RunHook(name)
      PROVE  OrderInv'
  <2>1. /\ state = "stopping" /\ closing # <<>> /\ Head(closing) = name
        /\ closing' = Tail(closing) /\ closed' = Append(closed, name)
        /\ UNCHANGED <<config, state, plan, failedAt, hooks>>
    BY <1>4 DEF RunHook, HookAt, HookDone, Remaining
  <2>2. QED
    BY <1>1, <2>1, OrderHook
<1>5. CASE cronStopped
  <2>1. /\ state = "stopping" /\ closing # <<>> /\ Head(closing) = "Cron"
        /\ closing' = Tail(closing) /\ closed' = Append(closed, "Cron")
        /\ UNCHANGED <<config, state, plan, failedAt, hooks>>
    BY <1>5 DEF cronStopped, HookAt, HookDone, Remaining
  <2>2. QED
    BY <1>1, <2>1, OrderHook
<1>6. CASE endShutdown
  <2>1. /\ state = "stopping" /\ state' = "stopped"
        /\ UNCHANGED <<config, plan, failedAt, hooks, closing, closed>>
    BY <1>6 DEF endShutdown, stopVars
  <2>2. QED
    BY <2>1, OrderAside
<1>7. ASSUME UNCHANGED <<config, state, plan, failedAt, hooks, closing, closed>>
      PROVE  OrderInv'
  BY <1>7, OrderAside
<1>8. CASE stopCron \/ WaitExit \/ monitorWebService
  BY <1>7, <1>8 DEF stopCron, WaitExit, monitorWebService, stopVars
<1>9. CASE WebStep \/ WebEnds
  <2>1. \E w, r : WebGoes(w, r)
    BY <1>9, Zenon DEF WebStep, WebServes, WebDrains, WebStops, WebEnds
  <2>2. QED
    BY <1>7, <2>1 DEF WebGoes, stopVars
<1>10. CASE AdminEnds \/ JobStarts \/ JobEnds \/ Expire \/ BusinessExit \/ Signal
  BY <1>7, <1>10 DEF AdminEnds, JobStarts, JobEnds, Expire, BusinessExit, Signal, stopVars
<1>11. CASE UNCHANGED vars
  BY <1>7, <1>11 DEF vars
<1>12. QED
  BY <1>2, <1>3, <1>4, <1>5, <1>6, <1>8, <1>9, <1>10, <1>11 DEF Next, Start

(* The jobs of cron, its hook, and the components of the container.        *)
LEMMA UsersNext ==
  ASSUME IInv, OrderInv, UsersInv, [Next]_vars
  PROVE  UsersInv'
<1>1. TypesInv /\ StopInv /\ closed \in Seq(HookNames)
      /\ (state \notin {"stopping", "stopped"} => closed = <<>>) /\ ToSet(<<>>) = {}
  BY NoHooks DEF IInv, OrderInv, PhaseInv
<1>2. ASSUME UNCHANGED <<expired, jobs, cron, closing, closed, beans>>
      PROVE  UsersInv'
  BY <1>2 DEF UsersInv
<1>3. CASE \/ beginStart
           \/ \E s \in {"builder", "beforeSetups", "afterSetups"} : Callback(s)
           \/ InitLog \/ \E r \in Resources : OpenResource(r)
           \/ MakeRuntimeContext \/ startWebService \/ AwaitReady
           \/ StartAdmin \/ RegisterHooks \/ markRunning \/ WaitExit \/ endShutdown
  BY <1>2, <1>3 DEF beginStart, Callback, InitLog, OpenResource, MakeRuntimeContext,
     startWebService, AwaitReady, StartAdmin, RegisterHooks, markRunning, WaitExit,
     endShutdown, stopVars, cronVars
<1>4. CASE StartContainer
  <2>1. state = "starting" /\ UNCHANGED <<expired, jobs, cron, closing, closed>>
    BY <1>4 DEF StartContainer, AtStep, stopVars, cronVars
  <2>2. QED
    BY <1>1, <2>1 DEF UsersInv
<1>5. CASE registerSeedsAndStartCron
  <2>1. /\ UNCHANGED <<expired, jobs, closing, closed, beans>>
        /\ cron' \in {cron, "running"}
    BY <1>5 DEF registerSeedsAndStartCron, stopVars
  <2>2. QED
    BY <2>1 DEF UsersInv
<1>6. CASE beginShutdown
  <2>1. /\ state \in {"starting", "running"} /\ closing = <<>>
        /\ UNCHANGED <<expired, jobs, cron, closed, beans>>
    BY <1>1, <1>6 DEF beginShutdown, StopInv, cronVars
  <2>2. QED
    BY <2>1 DEF UsersInv
<1>7. ASSUME closing # <<>>, closed' = Append(closed, Head(closing))
      PROVE  ToSet(closed') = ToSet(closed) \cup {Head(closing)}
  BY <1>1, <1>7, CourseKept DEF TypesInv
<1>8. ASSUME NEW name \in ToSet(closing), RunHook(name)
      PROVE  UsersInv'
  <2>1. /\ closing # <<>> /\ Head(closing) = name /\ name # "Cron"
        /\ closed' = Append(closed, Head(closing))
        /\ beans' = IF name = "iocContainer" THEN "destroyed" ELSE beans
        /\ UNCHANGED <<expired, jobs, cron>>
    BY <1>8 DEF RunHook, HookAt, HookDone, cronVars
  <2>2. ToSet(closed') = ToSet(closed) \cup {name}
    BY <1>7, <2>1
  <2>3. QED
    BY <2>1, <2>2 DEF UsersInv
<1>9. CASE stopCron
  BY <1>9 DEF stopCron, HookAt, stopVars, UsersInv
<1>10. CASE cronStopped
  <2>1. /\ closing # <<>> /\ Head(closing) = "Cron"
        /\ closed' = Append(closed, Head(closing))
        /\ cron' = "stopped" /\ (~ jobs \/ expired) /\ UNCHANGED <<expired, jobs, beans>>
    BY <1>10 DEF cronStopped, HookAt, HookDone, CronMayReturn
  <2>2. ToSet(closed') = ToSet(closed) \cup {"Cron"}
    BY <1>7, <2>1
  <2>3. QED
    BY <2>1, <2>2 DEF UsersInv
<1>11. CASE WebStep \/ WebEnds
  <2>1. \E w, r : WebGoes(w, r)
    BY <1>11, Zenon DEF WebStep, WebServes, WebDrains, WebStops, WebEnds
  <2>2. QED
    BY <1>2, <2>1 DEF WebGoes, stopVars, cronVars
<1>12. CASE monitorWebService \/ AdminEnds \/ BusinessExit \/ Signal
  BY <1>2, <1>12 DEF monitorWebService, AdminEnds, BusinessExit, Signal, stopVars, cronVars
<1>13. CASE JobStarts \/ JobEnds
  BY <1>13 DEF JobStarts, JobEnds, UsersInv, stopVars
<1>14. CASE Expire
  BY <1>14 DEF Expire, UsersInv, cronVars
<1>15. CASE UNCHANGED vars
  BY <1>2, <1>15 DEF vars
<1>16. QED
  BY <1>3, <1>4, <1>5, <1>6, <1>8, <1>9, <1>10, <1>11, <1>12, <1>13, <1>14, <1>15
     DEF Next, Start

(* What uses a resource, and has a hook, has been stopped before the       *)
(* resource is closed.                                                     *)
LEMMA UserClosedFirst ==
  ASSUME TypesInv, OrderInv, NEW r \in ToSet(closed) \cap Resources,
         NEW x \in ToSet(closed) \cup ToSet(closing), x \notin Resources \cup {"logger"}
  PROVE  x \in ToSet(closed) /\ x \notin ToSet(closing)
<1>1. /\ closed \in Seq(HookNames) /\ closing \in Seq(HookNames)
      /\ Falling(config, closed \o closing)
  BY DEF OrderInv, PhaseInv, HooksInv, TypesInv, Course
<1>2. /\ closed \o closing \in Seq(HookNames)
      /\ Len(closed \o closing) = Len(closed) + Len(closing)
      /\ \A i \in 1..Len(closed) + Len(closing) :
           (closed \o closing)[i] = IF i <= Len(closed) THEN closed[i]
                                    ELSE closing[i - Len(closed)]
  BY <1>1, ConcatProperties
<1>3. /\ Len(closed) \in Nat /\ DOMAIN closed = 1..Len(closed)
      /\ Len(closing) \in Nat /\ DOMAIN closing = 1..Len(closing)
      /\ DOMAIN (closed \o closing) = 1..Len(closed) + Len(closing)
  BY <1>1, <1>2, LenProperties
<1>4. PICK i \in DOMAIN closed : closed[i] = r
  BY DEF ToSet
<1>5. i \in DOMAIN (closed \o closing) /\ (closed \o closing)[i] = r
  BY <1>2, <1>3, <1>4
<1>6. ASSUME NEW j \in DOMAIN closing, closing[j] = x
      PROVE  FALSE
  <2>1. /\ Len(closed) + j \in DOMAIN (closed \o closing) /\ i < Len(closed) + j
        /\ (closed \o closing)[Len(closed) + j] = closing[j]
    BY <1>2, <1>3, <1>4
  <2>2. Before(config, x, r)
    BY <1>1, <1>5, <1>6, <2>1 DEF Falling
  <2>3. QED
    BY <2>2 DEF Before
<1>7. QED
  BY <1>6 DEF ToSet

(* The steps of the start-up are undone in the reverse of their order.     *)
LEMMA ReverseOfStart == TypesInv /\ OrderInv => LastOpenedFirstClosed
<1> SUFFICES ASSUME TypesInv, OrderInv, NEW i \in DOMAIN closed, NEW j \in DOMAIN closed,
                    i < j, {closed[i], closed[j]} \subseteq ToSet(StartSteps(config))
             PROVE  Place(config, closed[i]) > Place(config, closed[j])
  BY DEF LastOpenedFirstClosed
<1>1. /\ closed \in Seq(HookNames) /\ closing \in Seq(HookNames)
      /\ Falling(config, closed \o closing)
  BY DEF OrderInv, PhaseInv, HooksInv, TypesInv, Course
<1>2. /\ closed \o closing \in Seq(HookNames)
      /\ Len(closed \o closing) = Len(closed) + Len(closing)
      /\ \A k \in 1..Len(closed) + Len(closing) :
           (closed \o closing)[k] = IF k <= Len(closed) THEN closed[k]
                                    ELSE closing[k - Len(closed)]
  BY <1>1, ConcatProperties
<1>3. /\ Len(closed) \in Nat /\ DOMAIN closed = 1..Len(closed) /\ Len(closing) \in Nat
      /\ DOMAIN (closed \o closing) = 1..Len(closed) + Len(closing)
  BY <1>1, <1>2, LenProperties
<1>4. \A k \in DOMAIN closed :
        k \in DOMAIN (closed \o closing) /\ (closed \o closing)[k] = closed[k]
  BY <1>2, <1>3
<1>5. Before(config, closed[j], closed[i])
  BY <1>1, <1>4 DEF Falling
<1>6. QED
  BY <1>5 DEF Before

(* No context, job, hook of the business or component outlives a resource  *)
(* that it may use.                                                        *)
LEMMA NoUserLeft == IInv /\ OrderInv /\ UsersInv => UsersBeforeResources
<1> SUFFICES ASSUME IInv, OrderInv, UsersInv, NEW r \in ToSet(closed) \cap Resources
             PROVE  /\ runtime # "live"
                    /\ jobs => expired
                    /\ failedAt = NoStep =>
                         /\ ToSet(config.hooks) \subseteq ToSet(closed)
                         /\ beans = "destroyed"
  BY DEF UsersBeforeResources
<1>1. TypesInv /\ StopInv /\ PhaseInv /\ AllRegistered /\ ToSet(<<>>) = {}
  BY NoHooks DEF IInv, OrderInv
<1>2. state \in {"stopping", "stopped"} /\ hooks = <<>>
  BY <1>1 DEF PhaseInv, StopInv
<1>3. runtime # "live"
  BY <1>1, <1>2 DEF StopInv
<1>4. "Cron" \notin ToSet(closing)
  <2>1. "Cron" \notin Resources \cup {"logger"}
    BY DEF Resources
  <2>2. QED
    BY <1>1, <2>1, UserClosedFirst
<1>5. jobs => expired
  <2>1. cron # "running"
    BY <1>1, <1>2, <1>4 DEF StopInv, Pending
  <2>2. cron # "stopping"
    <3> SUFFICES ASSUME closing # <<>>, Head(closing) = "Cron"
                 PROVE  FALSE
      BY DEF UsersInv
    <3>1. /\ closing \in Seq(HookNames) /\ Head(closing) = closing[1]
          /\ 1 \in DOMAIN closing
      BY <1>1, LenProperties, EmptySeq DEF TypesInv
    <3>2. QED
      BY <1>4, <3>1 DEF ToSet
  <2>3. QED
    BY <2>1, <2>2 DEF UsersInv
<1>6. ASSUME failedAt = NoStep
      PROVE  /\ ToSet(config.hooks) \subseteq ToSet(closed)
             /\ beans = "destroyed"
  <2>1. ToSet(LateHooks(config)) \subseteq ToSet(closed) \cup ToSet(closing)
    BY <1>1, <1>2, <1>6 DEF PhaseInv, AllRegistered
  <2>2. config \in Configurations
    BY <1>1 DEF TypesInv
  <2>3. ToSet(LateHooks(config)) \subseteq ToSet(closed)
    BY <1>1, <2>1, <2>2, LateFacts, UserClosedFirst
  <2>4. "iocContainer" \in ToSet(closed) /\ ToSet(config.hooks) \subseteq ToSet(closed)
    BY <2>2, <2>3, LateFacts
  <2>5. QED
    BY <2>4 DEF UsersInv
<1>7. QED
  BY <1>3, <1>5, <1>6

(* The order of shutdown is invariant.                                     *)
LEMMA OrderInvariance == Spec => [](IInv /\ OrderInv /\ UsersInv)
<1>1. Init => IInv /\ OrderInv /\ UsersInv
  <2> SUFFICES ASSUME Init
               PROVE  IInv /\ OrderInv /\ UsersInv
    OBVIOUS
  <2>1. IInv
    BY InitInv
  <2>2. /\ <<>> \in Seq(HookNames) /\ DOMAIN <<>> = {} /\ <<>> \o <<>> = <<>>
        /\ ToSet(<<>>) = {}
    BY NoHooks
  <2>3. OrderInv
    <3>1. PhaseInv
      BY <2>2 DEF Init, PhaseInv
    <3>2. HooksInv
      BY <2>2 DEF Init, HooksInv, Rising, Falling, Course
    <3>3. AllRegistered
      BY DEF Init, AllRegistered
    <3>4. QED
      BY <3>1, <3>2, <3>3 DEF OrderInv
  <2>4. UsersInv
    BY <2>2 DEF Init, UsersInv
  <2>5. QED
    BY <2>1, <2>3, <2>4
<1>2. IInv /\ OrderInv /\ UsersInv /\ [Next]_vars => (IInv /\ OrderInv /\ UsersInv)'
  BY NextInv, OrderNext, UsersNext
<1>3. QED
  BY <1>1, <1>2, PTL DEF Spec

(* Everything is released, once, in reverse, after what uses it, and the   *)
(* first reason is reported: whatever was asked for, whichever step of the *)
(* start-up failed, and whichever hooks failed.                            *)
THEOREM ShutdownSoundAlways == Spec => []ShutdownSound
<1>1. IInv /\ OrderInv /\ UsersInv => LastOpenedFirstClosed /\ UsersBeforeResources
  BY ReverseOfStart, NoUserLeft DEF IInv
<1>2. Spec => []LastOpenedFirstClosed /\ []UsersBeforeResources
  BY <1>1, OrderInvariance, PTL
<1>3. Released /\ LastOpenedFirstClosed /\ UsersBeforeResources /\ FirstReasonKept
        <=> ShutdownSound
  BY DEF ShutdownSound
<1>4. QED
  BY <1>2, <1>3, ReleasedAlways, FirstReasonKeptAlways, PTL


-----------------------------------------------------------------------------
(* The container of components, the handlers of the web service and the    *)
(* builder, each with state of its own.                                    *)
CONSTANTS
  Beans, Prototypes, Needs, Getters, Starter, MaxRuns,        \* IocContainer
  Requests, Kinds, DefaultBody, MaxBodyBytes, ReadLimit,      \* WebPipeline
  Burst, Rows,
  MaxCalls, ModuleSets                                        \* Builder

VARIABLES
  registered, instance, constructing, shut, running, asking, lastRun, todo,
  initialised, order, destroyed, made, handed, beside, present,
  installed, request, at, outer, inner, stopped, late, body, user, tokens,
  answers, handling, sees, down,
  calls, builder, logger, outcome

Ioc == INSTANCE IocContainer WITH closed <- shut

Pipe == INSTANCE WebPipeline WITH expired <- late

Build == INSTANCE Builder WITH asked <- calls

(* What the proofs below need to know of the parameters.                   *)
ASSUME ComponentsAssumption == Ioc!IocAssumption /\ Pipe!WebPipelineAssumption

(* Singletons are one but where Start makes them two, and those there are  *)
(* at the end are destroyed, after their users (OneInstance,               *)
(* DestroyedInReverse of IocContainer).                                    *)
BeansSound == Ioc!OneInstance /\ Ioc!DestroyedInReverse

(* What a handler of the business may rely on (RequestsGuarded of          *)
(* WebPipeline).                                                           *)
RequestsGuarded == Pipe!RequestsGuarded

(* Start sets up what the builder was asked for (BuiltAsAsked of Builder). *)
BuiltAsAsked == Build!BuiltAsAsked

-----------------------------------------------------------------------------
(* The container.                                                          *)

(* Before any call.                                                        *)
LEMMA IocInitial == Ioc!Init => Ioc!IInv
<1> SUFFICES ASSUME Ioc!Init PROVE Ioc!IInv
  OBVIOUS
<1> USE DEF Ioc!Init
<1>1. Ioc!TypeOK /\ Ioc!Numbered /\ Ioc!AllRegistered
  BY DEF Ioc!TypeOK, Ioc!Numbered, Ioc!AllRegistered
<1>2. Ioc!InstancesKept
  BY DEF Ioc!InstancesKept, Ioc!Singletons
<1>3. Ioc!OneRun /\ Ioc!Destroying
  BY DEF Ioc!OneRun, Ioc!Destroying
<1> QED
  BY <1>1, <1>2, <1>3 DEF Ioc!IInv

(* Registration of another bean, with its instance or without.             *)
LEMMA IocRegister ==
  ASSUME Ioc!IInv, NEW b \in Beans, Ioc!register(b) \/ Ioc!registerInstance(b)
  PROVE  Ioc!IInv'
<1> USE DEF Ioc!IInv
<1>1. /\ registered' = registered \cup {b} /\ b \notin registered /\ ~ shut
      /\ UNCHANGED <<constructing, shut, running, asking, todo, initialised,
                     order, destroyed, handed, beside, present>>
  BY DEF Ioc!register, Ioc!registerInstance, Ioc!history
<1>2. CASE UNCHANGED <<instance, lastRun, made>>
  <2>1. Ioc!TypeOK' /\ Ioc!Numbered' /\ Ioc!AllRegistered' /\ Ioc!InstancesKept'
    BY <1>1, <1>2 DEF Ioc!TypeOK, Ioc!Numbered, Ioc!AllRegistered, Ioc!InstancesKept
  <2>2. Ioc!OneRun' /\ Ioc!Destroying'
    BY <1>1, <1>2 DEF Ioc!OneRun, Ioc!Doubled, Ioc!Alone, Ioc!Destroying
  <2> QED
    BY <2>1, <2>2
<1>3. CASE Ioc!registerInstance(b)
  <2> DEFINE n == lastRun + 1
             new == <<b, n>>
  <2>1. /\ b \in Ioc!Singletons
        /\ instance' = [instance EXCEPT ![b] = n]
        /\ made' = made \cup {new} /\ lastRun' = n
    BY <1>3 DEF Ioc!registerInstance
  <2>2. n \in Nat /\ n > lastRun /\ n # 0 /\ lastRun \in Nat
    BY DEF Ioc!TypeOK
  <2>3. new \in Beans \X Nat /\ new[1] = b /\ new[2] = n
    BY <2>2
  <2>4. \A m \in made : m \in Beans \X Nat /\ m[1] # b
    BY <1>1 DEF Ioc!AllRegistered, Ioc!TypeOK
  <2>5. \A r \in running : r.bean # b /\ r.run \in Nat
    BY <1>1 DEF Ioc!AllRegistered, Ioc!TypeOK
  <2> HIDE DEF n, new
  <2>6. Ioc!TypeOK'
    BY <1>1, <2>1, <2>2, <2>3 DEF Ioc!TypeOK
  <2>7. Ioc!Numbered'
    <3>1. \A m \in made \cup beside : m[2] \in Nat
      BY DEF Ioc!TypeOK
    <3> QED
      BY <1>1, <2>1, <2>2, <2>3, <2>5, <3>1 DEF Ioc!Numbered
  <2>8. Ioc!AllRegistered'
    BY <1>1, <2>1, <2>3 DEF Ioc!AllRegistered
  <2>9. Ioc!InstancesKept'
    <3>1. instance \in [Beans -> Nat]
      BY DEF Ioc!TypeOK
    <3>2. instance'[b] = n /\ \A c \in Beans : c # b => instance'[c] = instance[c]
      BY <2>1, <3>1
    <3>3. <<b, n>> \in made'
      BY <2>1 DEF new
    <3>4. Ioc!Singletons \subseteq Beans
      BY DEF Ioc!Singletons
    <3>5. \A m \in made' : m = new \/ m \in made
      BY <2>1
    <3> QED
      BY <2>1, <2>2, <2>3, <2>4, <3>2, <3>3, <3>4, <3>5 DEF Ioc!InstancesKept
  <2>10. Ioc!OneRun'
    <3>1. \A m \in made' : m = new \/ m \in made
      BY <2>1
    <3> QED
      BY <1>1, <2>3, <2>4, <2>5, <3>1 DEF Ioc!OneRun, Ioc!Doubled, Ioc!Alone
  <2>11. Ioc!Destroying'
    BY <1>1, <2>1 DEF Ioc!Destroying
  <2> QED
    BY <2>6, <2>7, <2>8, <2>9, <2>10, <2>11
<1> QED
  BY <1>2, <1>3 DEF Ioc!register, Ioc!history

(* What a look at the definition leaves as it was.                         *)
LEMMA AskedFacts ==
  ASSUME Ioc!TypeOK, NEW r \in running, NEW g, NEW b
  PROVE  /\ Ioc!Asked(r, g, b).run = r.run /\ Ioc!Asked(r, g, b).bean = r.bean
         /\ Ioc!Asked(r, g, b) \in [run : Nat, bean : Beans, by : Ioc!Goroutines,
                                    left : SUBSET Beans]
BY DEF Ioc!Asked, Ioc!TypeOK

(* get looks up the definition.                                            *)
LEMMA IocLookup ==
  ASSUME Ioc!IInv, NEW b \in Beans, NEW g \in Ioc!Goroutines, Ioc!lookup(g, b)
  PROVE  Ioc!IInv'
<1> USE DEF Ioc!IInv
<1> DEFINE A(r) == Ioc!Asked(r, g, b)
<1>1. /\ running' = {A(r) : r \in running}
      /\ asking' = IF shut \/ b \notin registered THEN asking
                   ELSE [asking EXCEPT ![g] = {b}]
      /\ UNCHANGED <<registered, instance, constructing, shut, lastRun, todo,
                     initialised, order, destroyed, made, handed, beside, present>>
  BY DEF Ioc!lookup, Ioc!history
<1>2. \A r \in running :
        /\ A(r).run = r.run /\ A(r).bean = r.bean
        /\ A(r) \in [run : Nat, bean : Beans, by : Ioc!Goroutines,
                     left : SUBSET Beans]
  BY AskedFacts
<1>3. \A q \in running' : \E r \in running : q = A(r)
  BY <1>1
<1> HIDE DEF A
<1>4. Ioc!TypeOK'
  BY <1>1, <1>2, <1>3 DEF Ioc!TypeOK
<1>5. Ioc!Numbered'
  BY <1>1, <1>2, <1>3 DEF Ioc!Numbered
<1>6. Ioc!AllRegistered'
  BY <1>1, <1>2, <1>3 DEF Ioc!AllRegistered, Ioc!TypeOK
<1>7. Ioc!InstancesKept'
  BY <1>1 DEF Ioc!InstancesKept
<1>8. Ioc!OneRun'
  BY <1>1, <1>2, <1>3 DEF Ioc!OneRun, Ioc!Doubled, Ioc!Alone
<1>9. Ioc!Destroying'
  BY <1>1 DEF Ioc!Destroying
<1> QED
  BY <1>4, <1>5, <1>6, <1>7, <1>8, <1>9

(* A run that begins beside no other run, or is counted as beside one, of  *)
(* a bean without an instance or of a prototype.                           *)
LEMMA IocProvide ==
  ASSUME Ioc!IInv, NEW b \in registered, NEW g \in Ioc!Goroutines,
         NEW doubled \in BOOLEAN, Ioc!Provide(g, b, doubled),
         \A r \in running : r.bean = b => doubled,
         b \in Ioc!Singletons => instance[b] = 0,
         UNCHANGED <<registered, instance, shut, todo, initialised, order,
                     destroyed, made, handed, present>>,
         asking' \in [Ioc!Goroutines -> SUBSET Beans],
         \A h \in Ioc!Goroutines : asking'[h] \subseteq asking[h]
  PROVE  Ioc!IInv'
<1> USE DEF Ioc!IInv
<1> DEFINE n == lastRun + 1
           new == [run |-> n, bean |-> b, by |-> g, left |-> Needs[b]]
<1>1. /\ lastRun' = n /\ constructing' = constructing \cup {b}
      /\ running' = running \cup {new}
      /\ beside' = IF doubled THEN beside \cup {<<b, n>>} ELSE beside
  BY DEF Ioc!Provide
<1>2. lastRun \in Nat /\ n \in Nat /\ n > lastRun /\ n > 0 /\ b \in Beans
  BY DEF Ioc!TypeOK
<1>3. Needs[b] \subseteq Beans
  BY <1>2, ComponentsAssumption DEF Ioc!IocAssumption
<1>4. /\ new \in [run : Nat, bean : Beans, by : Ioc!Goroutines, left : SUBSET Beans]
      /\ new.run = n /\ new.bean = b
  BY <1>2, <1>3
<1>5. /\ \A r \in running : r.run \in Nat /\ r.run # n /\ r.run <= lastRun
      /\ \A m \in made : m \in Beans \X Nat /\ m[2] \in Nat /\ m[2] # n
      /\ \A m \in beside : m \in Beans \X Nat /\ m[2] \in Nat /\ m[2] # n
  BY <1>2 DEF Ioc!TypeOK, Ioc!Numbered
<1>6. <<b, n>>[1] = b /\ <<b, n>>[2] = n /\ <<b, n>> \in Beans \X Nat
  BY <1>2
<1> HIDE DEF n, new
<1>7. Ioc!TypeOK'
  BY <1>1, <1>2, <1>4, <1>6 DEF Ioc!TypeOK
<1>8. Ioc!Numbered'
  <2>1. \A q \in running' : q \in running \/ q = new
    BY <1>1
  <2>2. \A m \in beside' : m \in beside \/ m = <<b, n>>
    BY <1>1
  <2>3. /\ \A q \in running' : 0 < q.run /\ q.run <= n
        /\ \A q, s \in running' : q.run = s.run => q = s
    BY <1>2, <1>4, <1>5, <2>1 DEF Ioc!Numbered
  <2>4. \A m \in made : 0 < m[2] /\ m[2] <= n
    BY <1>2, <1>5 DEF Ioc!Numbered
  <2>5. \A m \in beside' : m[2] <= n
    BY <1>2, <1>5, <1>6, <2>2 DEF Ioc!Numbered
  <2> QED
    BY <1>1, <2>3, <2>4, <2>5 DEF Ioc!Numbered
<1>9. Ioc!AllRegistered'
  BY <1>1, <1>4 DEF Ioc!AllRegistered
<1>10. Ioc!InstancesKept'
  BY <1>1 DEF Ioc!InstancesKept
<1>11. /\ \A r \in running : Ioc!Alone(r)' <=> Ioc!Alone(r)
       /\ \A m \in made : m \in beside' <=> m \in beside
  <2>1. \A r \in running : <<r.bean, r.run>> # <<b, n>>
    BY <1>5, <1>6
  <2>2. \A m \in made : m # <<b, n>>
    BY <1>5, <1>6
  <2> QED
    BY <1>1, <2>1, <2>2 DEF Ioc!Alone
<1>12. \A q : q = new /\ Ioc!Alone(q)' => \A r \in running : r.bean # b
  <2> SUFFICES ASSUME <<b, n>> \notin beside' PROVE \A r \in running : r.bean # b
    BY <1>4 DEF Ioc!Alone
  <2>1. ~ doubled
    BY <1>1
  <2> QED
    BY <2>1
<1>13. b \in Ioc!Singletons => \A m \in made : m[1] # b
  BY DEF Ioc!InstancesKept
<1>14. beside \subseteq beside' /\ constructing \subseteq constructing'
       /\ b \in constructing'
  BY <1>1
<1>15. \A q \in running' : q \in running \/ q = new
  BY <1>1
<1>16. Ioc!OneRun'
  <2>1. ASSUME NEW r \in running', NEW s \in running', r.bean = s.bean,
               Ioc!Alone(r)', Ioc!Alone(s)'
        PROVE  r = s
    BY <1>4, <1>11, <1>12, <1>15, <2>1 DEF Ioc!OneRun
  <2>2. ASSUME NEW r \in running'
        PROVE  Ioc!Doubled(r.bean)' \/ r.bean \in constructing'
    BY <1>4, <1>14, <1>15 DEF Ioc!OneRun, Ioc!Doubled
  <2>3. ASSUME NEW r \in running', NEW m \in made', r.bean = m[1],
               m[1] \in Ioc!Singletons, Ioc!Alone(r)', m \notin beside'
        PROVE  FALSE
    BY <1>4, <1>11, <1>13, <1>15, <2>3 DEF Ioc!OneRun
  <2>4. ASSUME NEW m \in made', NEW k \in made', m[1] = k[1],
               m[1] \in Ioc!Singletons, {m, k} \cap beside' = {}
        PROVE  m = k
    BY <1>11, <2>4 DEF Ioc!OneRun
  <2> QED
    BY <2>1, <2>2, <2>3, <2>4 DEF Ioc!OneRun
<1>17. Ioc!Destroying'
  BY DEF Ioc!Destroying
<1> QED
  BY <1>7, <1>8, <1>9, <1>10, <1>16, <1>17

(* get, under the lock of the bean.                                        *)
LEMMA IocGet ==
  ASSUME Ioc!IInv, NEW b \in Beans, NEW g \in Ioc!Goroutines, Ioc!get(g, b)
  PROVE  Ioc!IInv'
<1> USE DEF Ioc!IInv
<1>1. /\ b \in asking[g] /\ asking' = [asking EXCEPT ![g] = {}]
      /\ UNCHANGED <<registered, instance, shut, todo, initialised, order,
                     destroyed, made, present>>
  BY DEF Ioc!get
<1>2. /\ asking' \in [Ioc!Goroutines -> SUBSET Beans]
      /\ \A h \in Ioc!Goroutines : asking'[h] \subseteq asking[h]
  BY <1>1 DEF Ioc!TypeOK
<1>3. CASE /\ UNCHANGED <<constructing, running, lastRun, beside>>
           /\ handed' \subseteq made
  <2>1. Ioc!TypeOK' /\ Ioc!Numbered'
    BY <1>1, <1>2, <1>3 DEF Ioc!TypeOK, Ioc!Numbered
  <2>2. Ioc!AllRegistered' /\ Ioc!InstancesKept'
    BY <1>1, <1>2, <1>3 DEF Ioc!AllRegistered, Ioc!InstancesKept
  <2>3. Ioc!OneRun' /\ Ioc!Destroying'
    BY <1>1, <1>3 DEF Ioc!OneRun, Ioc!Doubled, Ioc!Alone, Ioc!Destroying
  <2> QED
    BY <2>1, <2>2, <2>3
<1>4. CASE /\ ~ Ioc!Refused(b) /\ (b \in Ioc!Singletons => instance[b] = 0)
           /\ Ioc!Provide(g, b, Ioc!UnderWay(b) /\ Ioc!Doubled(b))
           /\ UNCHANGED handed
  <2>1. \A r \in running : r.bean = b => Ioc!UnderWay(b) /\ Ioc!Doubled(b)
    BY <1>4 DEF Ioc!OneRun, Ioc!Refused, Ioc!UnderWay
  <2>2. b \in registered
    BY <1>1 DEF Ioc!AllRegistered
  <2>3. (Ioc!UnderWay(b) /\ Ioc!Doubled(b)) \in BOOLEAN
    BY DEF Ioc!UnderWay, Ioc!Doubled
  <2> QED
    BY <1>1, <1>2, <1>4, <2>1, <2>2, <2>3, IocProvide
<1>5. CASE /\ b \in Ioc!Singletons /\ instance[b] # 0
           /\ handed' = handed \cup {<<b, instance[b]>>}
           /\ UNCHANGED <<constructing, running, lastRun, beside>>
  <2>1. handed' \subseteq made
    BY <1>5 DEF Ioc!InstancesKept, Ioc!TypeOK
  <2> QED
    BY <1>3, <1>5, <2>1
<1>6. CASE UNCHANGED <<constructing, running, lastRun, handed, beside>>
  <2>1. handed' \subseteq made
    BY <1>6 DEF Ioc!TypeOK
  <2> QED
    BY <1>3, <1>6, <2>1
<1> QED
  BY <1>4, <1>5, <1>6 DEF Ioc!get

(* Start builds a bean.                                                    *)
LEMMA IocForLifecycle ==
  ASSUME Ioc!IInv, NEW b \in Beans, Ioc!getForLifecycle(b)
  PROVE  Ioc!IInv'
<1> USE DEF Ioc!IInv
<1>1. /\ b \in todo /\ instance[b] = 0
      /\ Ioc!Provide(Starter, b, Ioc!UnderWay(b))
      /\ UNCHANGED <<registered, instance, shut, asking, todo, initialised,
                     order, destroyed, made, handed, present>>
  BY DEF Ioc!getForLifecycle, Ioc!AtBean
<1>2. b \in registered
  BY <1>1 DEF Ioc!AllRegistered
<1>3. Ioc!UnderWay(b) \in BOOLEAN /\ \A r \in running : r.bean = b => Ioc!UnderWay(b)
  BY DEF Ioc!UnderWay
<1>4. Starter \in Ioc!Goroutines
  BY DEF Ioc!Goroutines
<1>5. /\ asking' \in [Ioc!Goroutines -> SUBSET Beans]
      /\ \A h \in Ioc!Goroutines : asking'[h] \subseteq asking[h]
  BY <1>1 DEF Ioc!TypeOK
<1> QED
  BY <1>1, <1>2, <1>3, <1>4, <1>5, IocProvide

(* A provider returns.                                                     *)
LEMMA IocProvided ==
  ASSUME Ioc!IInv, NEW r \in running, NEW ok \in BOOLEAN, Ioc!provided(r, ok)
  PROVE  Ioc!IInv'
<1> USE DEF Ioc!IInv
<1> DEFINE new == <<r.bean, r.run>>
<1>1. /\ running' = running \ {r} /\ constructing' = constructing \ {r.bean}
      /\ UNCHANGED <<registered, shut, asking, lastRun, initialised, order,
                     destroyed, beside, present>>
      /\ todo' \subseteq todo
  BY DEF Ioc!provided
<1>2. /\ r.bean \in registered /\ r.bean \in Beans /\ r.run \in Nat
      /\ 0 < r.run /\ r.run <= lastRun
  BY DEF Ioc!AllRegistered, Ioc!TypeOK, Ioc!Numbered
<1>3. new \in Beans \X Nat /\ new[1] = r.bean /\ new[2] = r.run
  BY <1>2
<1>4. /\ \A s \in running' : s.bean # r.bean \/ ~ Ioc!Alone(r) \/ ~ Ioc!Alone(s)
      /\ \A s : Ioc!Alone(s)' <=> Ioc!Alone(s)
      /\ \A b : Ioc!Doubled(b)' <=> Ioc!Doubled(b)
  BY <1>1 DEF Ioc!OneRun, Ioc!Alone, Ioc!Doubled
<1>5. Ioc!Alone(r) <=> new \notin beside
  BY DEF Ioc!Alone
<1> HIDE DEF new
<1>6. \A s \in running' : Ioc!Doubled(s.bean) \/ s.bean \in constructing'
  <2> SUFFICES ASSUME NEW s \in running', s.bean = r.bean PROVE Ioc!Doubled(s.bean)
    BY <1>1 DEF Ioc!OneRun
  <2>1. CASE ~ Ioc!Alone(r)
    BY <1>3, <1>5, <2>1 DEF Ioc!Doubled
  <2>2. CASE ~ Ioc!Alone(s)
    <3>1. <<s.bean, s.run>>[1] = s.bean
      OBVIOUS
    <3> QED
      BY <2>2, <3>1 DEF Ioc!Doubled, Ioc!Alone
  <2> QED
    BY <1>4, <2>1, <2>2
<1>7. /\ Ioc!TypeOK /\ asking' \in [Ioc!Goroutines -> SUBSET Beans]
      /\ \A h \in Ioc!Goroutines : asking'[h] \subseteq registered'
      /\ todo' \subseteq registered' \cap Ioc!Singletons
  BY <1>1 DEF Ioc!TypeOK, Ioc!AllRegistered
<1>8. CASE ~ ok
  <2>1. UNCHANGED <<made, instance, handed>>
    BY <1>8 DEF Ioc!provided
  <2>2. Ioc!TypeOK' /\ Ioc!Numbered'
    BY <1>1, <2>1 DEF Ioc!TypeOK, Ioc!Numbered
  <2>3. Ioc!AllRegistered' /\ Ioc!InstancesKept' /\ Ioc!Destroying'
    BY <1>1, <1>7, <2>1 DEF Ioc!AllRegistered, Ioc!InstancesKept, Ioc!Destroying
  <2>4. Ioc!OneRun'
    BY <1>1, <1>4, <1>6, <2>1 DEF Ioc!OneRun
  <2> QED
    BY <2>2, <2>3, <2>4
<1>9. CASE ok
  <2>1. /\ made' = made \cup {new}
        /\ instance' = [instance EXCEPT ![r.bean] =
                          IF r.bean \in Ioc!Singletons THEN r.run ELSE @]
        /\ handed' = handed \/ handed' = handed \cup {new}
    BY <1>9 DEF Ioc!provided, new
  <2>2. /\ instance' \in [Beans -> Nat]
        /\ \A b \in Beans : instance[b] # 0 => instance'[b] # 0
        /\ r.bean \in Ioc!Singletons => instance'[r.bean] = r.run
        /\ \A b \in Beans : b # r.bean => instance'[b] = instance[b]
    BY <1>2, <2>1 DEF Ioc!TypeOK
  <2>3. \A m \in made' : m \in made \/ m = new
    BY <2>1
  <2>4. Ioc!TypeOK'
    BY <1>1, <1>3, <2>1, <2>2 DEF Ioc!TypeOK
  <2>5. Ioc!Numbered'
    BY <1>1, <1>2, <1>3, <2>3 DEF Ioc!Numbered
  <2>6. Ioc!AllRegistered'
    BY <1>1, <1>2, <1>3, <1>7, <2>3 DEF Ioc!AllRegistered
  <2>7. Ioc!InstancesKept'
    <3>1. \A m \in made : m[1] \in Beans
      BY DEF Ioc!TypeOK
    <3>2. Ioc!Singletons \subseteq Beans
      BY DEF Ioc!Singletons
    <3>3. <<r.bean, r.run>> \in made'
      BY <2>1 DEF new
    <3>4. \A m \in made' : m[1] \in Ioc!Singletons => instance'[m[1]] # 0
      BY <1>2, <1>3, <2>2, <2>3, <3>1 DEF Ioc!InstancesKept
    <3>5. \A b \in Ioc!Singletons : instance'[b] # 0 => <<b, instance'[b]>> \in made'
      BY <2>1, <2>2, <3>2, <3>3 DEF Ioc!InstancesKept
    <3> QED
      BY <3>4, <3>5 DEF Ioc!InstancesKept
  <2>8. Ioc!Destroying'
    <3>1. present \subseteq Beans
      BY DEF Ioc!Destroying, Ioc!TypeOK
    <3> QED
      BY <1>1, <2>2, <3>1 DEF Ioc!Destroying
  <2>9. Ioc!OneRun'
    <3>1. ASSUME NEW s \in running', NEW m \in made', s.bean = m[1],
                 m[1] \in Ioc!Singletons, Ioc!Alone(s), m \notin beside
          PROVE  FALSE
      BY <1>1, <1>3, <1>4, <1>5, <2>3, <3>1 DEF Ioc!OneRun
    <3>2. ASSUME NEW m \in made', NEW k \in made', m[1] = k[1],
                 m[1] \in Ioc!Singletons, {m, k} \cap beside = {}
          PROVE  m = k
      BY <1>3, <1>5, <2>3, <3>2 DEF Ioc!OneRun
    <3>3. \A s, q \in running' :
            s.bean = q.bean /\ Ioc!Alone(s) /\ Ioc!Alone(q) => s = q
      BY <1>1 DEF Ioc!OneRun
    <3> QED
      BY <1>1, <1>4, <1>6, <3>1, <3>2, <3>3 DEF Ioc!OneRun
  <2> QED
    BY <2>4, <2>5, <2>6, <2>7, <2>8, <2>9
<1> QED
  BY <1>8, <1>9

(* A panic, Start, OnInit and the two of Shutdown.                         *)
LEMMA IocOther ==
  ASSUME Ioc!IInv,
         \/ \E g \in Ioc!Goroutines : Ioc!ProviderPanics(g)
         \/ Ioc!Start \/ Ioc!Shutdown \/ UNCHANGED Ioc!iocVars
         \/ \E b \in Beans : \/ Ioc!OnDestroy(b)
                             \/ \E ok \in BOOLEAN : Ioc!OnInit(b, ok)
  PROVE  Ioc!IInv'
<1> USE DEF Ioc!IInv
<1>1. ASSUME /\ running' \subseteq running
             /\ asking' \in [Ioc!Goroutines -> SUBSET Beans]
             /\ \A g \in Ioc!Goroutines : asking'[g] \subseteq asking[g]
             /\ todo' \subseteq registered \cap Ioc!Singletons
             /\ shut' \in BOOLEAN
             /\ UNCHANGED <<registered, instance, constructing, lastRun, made,
                            handed, beside>>
      PROVE  Ioc!TypeOK' /\ Ioc!Numbered' /\ Ioc!AllRegistered'
             /\ Ioc!InstancesKept' /\ Ioc!OneRun'
  <2>1. Ioc!TypeOK' /\ Ioc!Numbered'
    BY <1>1 DEF Ioc!TypeOK, Ioc!Numbered
  <2>2. Ioc!AllRegistered' /\ Ioc!InstancesKept'
    BY <1>1 DEF Ioc!AllRegistered, Ioc!InstancesKept
  <2>3. Ioc!OneRun'
    BY <1>1 DEF Ioc!OneRun, Ioc!Doubled, Ioc!Alone
  <2> QED
    BY <2>1, <2>2, <2>3
<1>2. /\ asking \in [Ioc!Goroutines -> SUBSET Beans] /\ shut \in BOOLEAN
      /\ todo \subseteq registered \cap Ioc!Singletons
  BY DEF Ioc!TypeOK, Ioc!AllRegistered
<1>3. ASSUME NEW g \in Ioc!Goroutines, Ioc!ProviderPanics(g) PROVE Ioc!IInv'
  <2>1. /\ running' \subseteq running /\ asking' = [asking EXCEPT ![g] = {}]
        /\ UNCHANGED <<registered, instance, constructing, shut, lastRun, todo,
                       initialised, order, destroyed, made, handed, beside, present>>
    BY <1>3 DEF Ioc!ProviderPanics, Ioc!history
  <2>2. Ioc!Destroying'
    BY <2>1 DEF Ioc!Destroying
  <2> QED
    BY <1>1, <1>2, <2>1, <2>2
<1>4. CASE UNCHANGED Ioc!iocVars
  <2>1. UNCHANGED <<registered, instance, constructing, shut, running, asking, lastRun,
                    todo, initialised, order, destroyed, made, handed, beside, present>>
    BY <1>4 DEF Ioc!iocVars, Ioc!history
  <2>2. Ioc!Destroying'
    BY <2>1 DEF Ioc!Destroying
  <2> QED
    BY <1>1, <1>2, <2>1, <2>2
<1>5. CASE Ioc!Start
  <2>1. /\ todo' = registered \cap Ioc!Singletons
        /\ UNCHANGED <<registered, instance, constructing, shut, running, asking,
                       lastRun, initialised, order, destroyed, made, handed,
                       beside, present>>
    BY <1>5 DEF Ioc!Start, Ioc!history
  <2>2. Ioc!Destroying'
    BY <2>1 DEF Ioc!Destroying
  <2> QED
    BY <1>1, <1>2, <2>1, <2>2
<1>6. CASE Ioc!Shutdown
  <2>1. /\ ~ shut /\ shut' /\ order' = registered
        /\ present' = {b \in registered : instance[b] # 0}
        /\ shut' = TRUE
        /\ UNCHANGED <<registered, instance, constructing, running, asking, lastRun,
                       todo, initialised, destroyed, made, handed, beside>>
    BY <1>6 DEF Ioc!Shutdown
  <2>2. Ioc!Destroying'
    BY <2>1 DEF Ioc!Destroying
  <2> QED
    BY <1>1, <1>2, <2>1, <2>2
<1>7. ASSUME NEW b \in Beans, Ioc!OnDestroy(b) PROVE Ioc!IInv'
  <2>1. /\ b \in order /\ Ioc!NextToDestroy(b) /\ order' = order \ {b}
        /\ destroyed' = IF instance[b] # 0 THEN destroyed \cup {b} ELSE destroyed
        /\ UNCHANGED <<registered, instance, constructing, shut, running, asking,
                       lastRun, todo, initialised, made, handed, beside, present>>
    BY <1>7 DEF Ioc!OnDestroy, Ioc!history
  <2>2. order \subseteq Nat /\ \A a \in order \ {b} : a < b
    <3>1. order \subseteq Nat /\ b \in Nat
      BY ComponentsAssumption DEF Ioc!Destroying, Ioc!TypeOK, Ioc!IocAssumption
    <3> QED
      BY <2>1, <3>1 DEF Ioc!NextToDestroy
  <2>3. Ioc!Destroying'
    BY <2>1, <2>2 DEF Ioc!Destroying
  <2> QED
    BY <1>1, <1>2, <2>1, <2>3
<1>8. ASSUME NEW b \in Beans, NEW ok \in BOOLEAN, Ioc!OnInit(b, ok) PROVE Ioc!IInv'
  <2>1. /\ todo' \subseteq todo
        /\ UNCHANGED <<registered, instance, constructing, shut, running, asking,
                       lastRun, order, destroyed, made, handed, beside, present>>
    BY <1>8 DEF Ioc!OnInit, Ioc!history
  <2>2. Ioc!Destroying'
    BY <2>1 DEF Ioc!Destroying
  <2> QED
    BY <1>1, <1>2, <2>1, <2>2
<1> QED
  BY <1>3, <1>4, <1>5, <1>6, <1>7, <1>8

(* Each step keeps the invariant of the container.                         *)
LEMMA IocNext == Ioc!IInv /\ [Ioc!Next]_Ioc!iocVars => Ioc!IInv'
<1> SUFFICES ASSUME Ioc!IInv, [Ioc!Next]_Ioc!iocVars
             PROVE  Ioc!IInv'
  OBVIOUS
<1>1. \/ \E b \in Beans : Ioc!register(b) \/ Ioc!registerInstance(b)
      \/ \E b \in Beans : Ioc!getForLifecycle(b)
      \/ \E b \in Beans, g \in Ioc!Goroutines : Ioc!lookup(g, b)
      \/ \E b \in Beans, g \in Ioc!Goroutines : Ioc!get(g, b)
      \/ \E r \in running, ok \in BOOLEAN : Ioc!provided(r, ok)
      \/ \/ \E g \in Ioc!Goroutines : Ioc!ProviderPanics(g)
         \/ Ioc!Start \/ Ioc!Shutdown \/ UNCHANGED Ioc!iocVars
         \/ \E b \in Beans : \/ Ioc!OnDestroy(b)
                             \/ \E ok \in BOOLEAN : Ioc!OnInit(b, ok)
  BY Zenon DEF Ioc!Next
<1> QED
  BY <1>1, IocRegister, IocForLifecycle, IocLookup, IocGet, IocProvided, IocOther

(* Two instances handed out that count are one, and what was there at the  *)
(* end is destroyed from the last to the first.                            *)
LEMMA IocNow == Ioc!IInv => BeansSound
<1> SUFFICES ASSUME Ioc!IInv
             PROVE  Ioc!OneInstance /\ Ioc!DestroyedInReverse
  BY DEF BeansSound
<1> USE DEF Ioc!IInv
<1>1. Ioc!OneInstance
  <2> SUFFICES ASSUME NEW h \in handed, NEW k \in handed, h[1] = k[1],
                      h[1] \in Ioc!Singletons, {h, k} \cap beside = {}
               PROVE  h[2] = k[2]
    BY DEF Ioc!OneInstance
  <2>1. h = k
    BY DEF Ioc!OneRun, Ioc!TypeOK
  <2> QED
    BY <2>1
<1>2. Ioc!DestroyedInReverse
  <2>1. destroyed \subseteq Nat /\ present \subseteq Nat
    BY ComponentsAssumption DEF Ioc!Destroying, Ioc!TypeOK, Ioc!IocAssumption
  <2>2. ASSUME NEW b \in destroyed, NEW a \in present, a > b, a \notin destroyed
        PROVE  FALSE
    <3>1. a \in order /\ a < b
      BY <2>2 DEF Ioc!Destroying
    <3> QED
      BY <2>1, <2>2, <3>1
  <2> QED
    BY <2>2 DEF Ioc!DestroyedInReverse, Ioc!Destroying
<1> QED
  BY <1>1, <1>2

(* However many goroutines ask at once, providers ask for one another,     *)
(* panic or return nil, every caller of a singleton is handed the same     *)
(* instance but for those of runs that Start began beside another; and     *)
(* what has an instance when the container closes is destroyed, in the     *)
(* reverse of the registration.                                            *)
THEOREM BeansSoundAlways == Ioc!Spec => []BeansSound
BY IocInitial, IocNext, IocNow, PTL DEF Ioc!Spec

-----------------------------------------------------------------------------
(* The handlers of the web service.                                        *)
Handlers == 1 .. Len(Pipe!Chain)

(* No handler is there twice, and that of the business is the last.        *)
ChainOrdered(c) ==
  /\ Len(c) \in Nat /\ c[Len(c)] = "handler" /\ c[1] = "PanicRecovery"
  /\ 1 \in 1 .. Len(c)
  /\ \A i, j \in 1 .. Len(c) : c[i] = c[j] => i = j

HandlerNames ==
  {"PanicRecovery", "ErrorHandler", "RequestID", "AccessLog", "SecurityHeaders", "Limit",
   "BodyLimit", "Timeout", "SQLGuard", "Auth", "handler"}

(* The handlers, one by one, for each thing that may be installed.         *)
LEMMA ChainForms ==
  /\ ~ Pipe!Baseline /\ ~ Pipe!Protected =>
       /\ Len(Pipe!Chain) = 2
       /\ Pipe!Chain[1] = "PanicRecovery" /\ Pipe!Chain[2] = "handler"
  /\ ~ Pipe!Baseline /\ Pipe!Protected =>
       /\ Len(Pipe!Chain) = 3
       /\ Pipe!Chain[1] = "PanicRecovery" /\ Pipe!Chain[2] = "Auth"
       /\ Pipe!Chain[3] = "handler"
  /\ Pipe!Baseline /\ ~ Pipe!Protected =>
       /\ Len(Pipe!Chain) = 10
       /\ Pipe!Chain[1] = "PanicRecovery" /\ Pipe!Chain[2] = "ErrorHandler"
       /\ Pipe!Chain[3] = "RequestID" /\ Pipe!Chain[4] = "AccessLog"
       /\ Pipe!Chain[5] = "SecurityHeaders" /\ Pipe!Chain[6] = "Limit"
       /\ Pipe!Chain[7] = "BodyLimit" /\ Pipe!Chain[8] = "Timeout"
       /\ Pipe!Chain[9] = "SQLGuard" /\ Pipe!Chain[10] = "handler"
  /\ Pipe!Baseline /\ Pipe!Protected =>
       /\ Len(Pipe!Chain) = 11
       /\ Pipe!Chain[1] = "PanicRecovery" /\ Pipe!Chain[2] = "ErrorHandler"
       /\ Pipe!Chain[3] = "RequestID" /\ Pipe!Chain[4] = "AccessLog"
       /\ Pipe!Chain[5] = "SecurityHeaders" /\ Pipe!Chain[6] = "Limit"
       /\ Pipe!Chain[7] = "BodyLimit" /\ Pipe!Chain[8] = "Timeout"
       /\ Pipe!Chain[9] = "SQLGuard" /\ Pipe!Chain[10] = "Auth"
       /\ Pipe!Chain[11] = "handler"
<1> DEFINE B == IF Pipe!Baseline THEN Pipe!installWebBaseline ELSE <<>>
           A == IF Pipe!Protected THEN <<"Auth">> ELSE <<>>
           p == <<"PanicRecovery">>
           h == <<"handler">>
<1>1. /\ p \in Seq(HandlerNames) /\ h \in Seq(HandlerNames)
      /\ A \in Seq(HandlerNames) /\ B \in Seq(HandlerNames)
  <2>1. p \in Seq(HandlerNames) /\ h \in Seq(HandlerNames)
    BY DEF HandlerNames
  <2>2. A \in Seq(HandlerNames)
    <3>1. <<>> \in Seq(HandlerNames) /\ <<"Auth">> \in Seq(HandlerNames)
      BY DEF HandlerNames
    <3>2. QED
      BY <3>1
  <2>3. B \in Seq(HandlerNames)
    <3>1. <<>> \in Seq(HandlerNames) /\ Pipe!installWebBaseline \in Seq(HandlerNames)
      BY DEF Pipe!installWebBaseline, HandlerNames
    <3>2. QED
      BY <3>1
  <2>4. QED
    BY <2>1, <2>2, <2>3
<1>2. Len(p) = 1 /\ p[1] = "PanicRecovery" /\ Len(h) = 1 /\ h[1] = "handler"
  OBVIOUS
<1>3. /\ Pipe!Protected => Len(A) = 1 /\ A[1] = "Auth"
      /\ ~ Pipe!Protected => Len(A) = 0
  OBVIOUS
<1>4. /\ Pipe!Baseline =>
           /\ Len(B) = 8 /\ B[1] = "ErrorHandler" /\ B[2] = "RequestID"
           /\ B[3] = "AccessLog" /\ B[4] = "SecurityHeaders" /\ B[5] = "Limit"
           /\ B[6] = "BodyLimit" /\ B[7] = "Timeout" /\ B[8] = "SQLGuard"
      /\ ~ Pipe!Baseline => Len(B) = 0
  BY DEF Pipe!installWebBaseline
<1>5. Pipe!Chain = ((p \o B) \o A) \o h
  BY DEF Pipe!Chain
<1> HIDE DEF p, A, B, h
<1>6. /\ p \o B \in Seq(HandlerNames) /\ Len(p \o B) = Len(p) + Len(B)
      /\ \A i \in 1..Len(p) + Len(B) : (p \o B)[i] = IF i <= Len(p) THEN p[i] ELSE B[i - Len(p)]
  BY <1>1, ConcatProperties
<1> DEFINE q == p \o B
<1>7. q \in Seq(HandlerNames) /\ Len(q) = 1 + Len(B)
      /\ \A i \in 1..1 + Len(B) : q[i] = IF i <= 1 THEN p[i] ELSE B[i - 1]
  BY <1>2, <1>6
<1> HIDE DEF q
<1> DEFINE s == q \o A
<1>8. /\ s \in Seq(HandlerNames) /\ Len(s) = Len(q) + Len(A)
      /\ \A i \in 1..Len(q) + Len(A) : s[i] = IF i <= Len(q) THEN q[i] ELSE A[i - Len(q)]
  BY <1>1, <1>7, ConcatProperties
<1> HIDE DEF s
<1>9. s \in Seq(HandlerNames) /\ h \in Seq(HandlerNames)
  BY <1>1, <1>8
<1>10. /\ Len(s \o h) = Len(s) + Len(h)
       /\ \A i \in 1..Len(s) + Len(h) : (s \o h)[i] = IF i <= Len(s) THEN s[i] ELSE h[i - Len(s)]
  BY <1>9, ConcatProperties
<1> DEFINE c == Pipe!Chain
<1>11. c = s \o h
  BY <1>5 DEF q, s
<1> HIDE DEF c
<1>12. Len(B) \in Nat /\ Len(A) \in Nat /\ Len(s) \in Nat /\ Len(q) \in Nat
  BY <1>1, <1>7, <1>9, LenProperties
<1>13. q[1] = "PanicRecovery" /\ \A i \in 1..Len(B) : q[i + 1] = B[i]
  BY <1>2, <1>7, <1>12
<1>14. (\A i \in 1..Len(q) : s[i] = q[i]) /\ \A i \in 1..Len(A) : s[Len(q) + i] = A[i]
  <2>1. \A i \in 1..Len(q) : i \in 1..Len(q) + Len(A) /\ i <= Len(q)
    BY <1>12
  <2>2. \A i \in 1..Len(A) : /\ Len(q) + i \in 1..Len(q) + Len(A)
                             /\ ~ (Len(q) + i <= Len(q)) /\ Len(q) + i - Len(q) = i
    BY <1>12
  <2>3. QED
    BY <1>8, <2>1, <2>2
<1>15. (\A i \in 1..Len(s) : c[i] = s[i]) /\ c[Len(s) + 1] = "handler" /\ Len(c) = Len(s) + 1
  BY <1>2, <1>10, <1>11, <1>12
<1>16. /\ Len(c) = Len(B) + Len(A) + 2 /\ c[1] = "PanicRecovery"
       /\ \A i \in 1..Len(B) : c[i + 1] = B[i]
       /\ \A i \in 1..Len(A) : c[Len(B) + 1 + i] = A[i]
       /\ c[Len(B) + Len(A) + 2] = "handler"
  <2>1. Len(q) = Len(B) + 1 /\ Len(s) = Len(B) + 1 + Len(A)
    BY <1>7, <1>8, <1>12
  <2>2. Len(c) = Len(B) + Len(A) + 2 /\ c[Len(B) + Len(A) + 2] = "handler"
    <3>1. Len(s) + 1 = Len(B) + Len(A) + 2
      BY <1>12, <2>1
    <3>2. QED
      BY <1>15, <3>1
  <2>3. c[1] = "PanicRecovery"
    <3>1. 1 \in 1..Len(q) /\ 1 \in 1..Len(s)
      BY <1>12, <2>1
    <3>2. QED
      BY <1>13, <1>14, <1>15, <3>1
  <2>4. ASSUME NEW i \in 1..Len(B)
        PROVE  c[i + 1] = B[i]
    <3>1. i + 1 \in 1..Len(q) /\ i + 1 \in 1..Len(s)
      BY <1>12, <2>1
    <3>2. QED
      BY <1>13, <1>14, <1>15, <3>1
  <2>5. ASSUME NEW i \in 1..Len(A)
        PROVE  c[Len(B) + 1 + i] = A[i]
    <3>1. Len(q) + i \in 1..Len(s) /\ Len(q) + i = Len(B) + 1 + i
      BY <1>12, <2>1
    <3>2. QED
      BY <1>14, <1>15, <3>1
  <2>6. QED
    BY <2>2, <2>3, <2>4, <2>5
<1>17. CASE ~ Pipe!Baseline /\ ~ Pipe!Protected
  <2>1. Len(B) = 0 /\ Len(A) = 0
    BY <1>3, <1>4, <1>17
  <2>2. Len(c) = 2 /\ c[1] = "PanicRecovery" /\ c[2] = "handler"
    BY <1>16, <2>1
  <2>3. QED
    BY <1>17, <2>2 DEF c
<1>18. CASE ~ Pipe!Baseline /\ Pipe!Protected
  <2>1. Len(B) = 0 /\ Len(A) = 1
    BY <1>3, <1>4, <1>18
  <2>2. Len(c) = 3 /\ c[1] = "PanicRecovery" /\ c[3] = "handler"
    BY <1>16, <2>1
  <2>3. /\ c[2] = A[1]
    BY <1>16, <2>1
  <2>4. QED
    BY <1>3, <1>4, <1>18, <2>2, <2>3 DEF c
<1>19. CASE Pipe!Baseline /\ ~ Pipe!Protected
  <2>1. Len(B) = 8 /\ Len(A) = 0
    BY <1>3, <1>4, <1>19
  <2>2. Len(c) = 10 /\ c[1] = "PanicRecovery" /\ c[10] = "handler"
    BY <1>16, <2>1
  <2>3. /\ c[2] = B[1] /\ c[3] = B[2] /\ c[4] = B[3] /\ c[5] = B[4] /\ c[6] = B[5]
        /\ c[7] = B[6] /\ c[8] = B[7] /\ c[9] = B[8]
    BY <1>16, <2>1
  <2>4. QED
    BY <1>3, <1>4, <1>19, <2>2, <2>3 DEF c
<1>20. CASE Pipe!Baseline /\ Pipe!Protected
  <2>1. Len(B) = 8 /\ Len(A) = 1
    BY <1>3, <1>4, <1>20
  <2>2. Len(c) = 11 /\ c[1] = "PanicRecovery" /\ c[11] = "handler"
    BY <1>16, <2>1
  <2>3. /\ c[2] = B[1] /\ c[3] = B[2] /\ c[4] = B[3] /\ c[5] = B[4] /\ c[6] = B[5]
        /\ c[7] = B[6] /\ c[8] = B[7] /\ c[9] = B[8] /\ c[10] = A[1]
    BY <1>16, <2>1
  <2>4. QED
    BY <1>3, <1>4, <1>20, <2>2, <2>3 DEF c
<1>21. QED
  BY <1>17, <1>18, <1>19, <1>20

(* So no handler is there twice and that of the business is the last.      *)
LEMMA ChainIsOrdered == ChainOrdered(Pipe!Chain)
<1> DEFINE c == Pipe!Chain
<1>1. CASE ~ Pipe!Baseline /\ ~ Pipe!Protected
  <2>1. Len(c) = 2 /\ c[2] = "handler" /\ c[1] = "PanicRecovery"
    BY <1>1, ChainForms
  <2>2. 1..2 = {1, 2}
    OBVIOUS
  <2>3. \A i, j \in 1..2 : c[i] = c[j] => i = j
    BY <1>1, <2>2, ChainForms
  <2>4. QED
    BY <2>1, <2>3 DEF ChainOrdered
<1>2. CASE ~ Pipe!Baseline /\ Pipe!Protected
  <2>1. Len(c) = 3 /\ c[3] = "handler" /\ c[1] = "PanicRecovery"
    BY <1>2, ChainForms
  <2>2. 1..3 = {1, 2, 3}
    OBVIOUS
  <2>3. \A i, j \in 1..3 : c[i] = c[j] => i = j
    BY <1>2, <2>2, ChainForms
  <2>4. QED
    BY <2>1, <2>3 DEF ChainOrdered
<1>3. CASE Pipe!Baseline /\ ~ Pipe!Protected
  <2>1. Len(c) = 10 /\ c[10] = "handler" /\ c[1] = "PanicRecovery"
    BY <1>3, ChainForms
  <2>2. 1..10 = {1, 2, 3, 4, 5, 6, 7, 8, 9, 10}
    OBVIOUS
  <2>3. \A i, j \in 1..10 : c[i] = c[j] => i = j
    BY <1>3, <2>2, ChainForms
  <2>4. QED
    BY <2>1, <2>3 DEF ChainOrdered
<1>4. CASE Pipe!Baseline /\ Pipe!Protected
  <2>1. Len(c) = 11 /\ c[11] = "handler" /\ c[1] = "PanicRecovery"
    BY <1>4, ChainForms
  <2>2. 1..11 = {1, 2, 3, 4, 5, 6, 7, 8, 9, 10, 11}
    OBVIOUS
  <2>3. \A i, j \in 1..11 : c[i] = c[j] => i = j
    BY <1>4, <2>2, ChainForms
  <2>4. QED
    BY <2>1, <2>3 DEF ChainOrdered
<1>5. QED
  BY <1>1, <1>2, <1>3, <1>4

(* SQLGuard comes after BodyLimit.                                         *)
LEMMA LimitedBeforeSearched ==
  ASSUME Pipe!Baseline
  PROVE  \E i, j \in Handlers : i < j /\ Pipe!Chain[i] = "BodyLimit" /\ Pipe!Chain[j] = "SQLGuard"
<1>1. CASE ~ Pipe!Protected
  <2>1. Len(Pipe!Chain) = 10 /\ Pipe!Chain[7] = "BodyLimit" /\ Pipe!Chain[9] = "SQLGuard"
    BY <1>1, ChainForms
  <2>2. QED
    BY <2>1 DEF Handlers
<1>2. CASE Pipe!Protected
  <2>1. Len(Pipe!Chain) = 11 /\ Pipe!Chain[7] = "BodyLimit" /\ Pipe!Chain[9] = "SQLGuard"
    BY <1>2, ChainForms
  <2>2. QED
    BY <2>1 DEF Handlers
<1>3. QED
  BY <1>1, <1>2

(* Auth is among them when it is installed.                                *)
LEMMA AuthInstalled ==
  ASSUME Pipe!Protected
  PROVE  \E i \in Handlers : Pipe!Chain[i] = "Auth"
<1>1. CASE ~ Pipe!Baseline
  <2>1. Len(Pipe!Chain) = 3 /\ Pipe!Chain[2] = "Auth"
    BY <1>1, ChainForms
  <2>2. QED
    BY <2>1 DEF Handlers
<1>2. CASE Pipe!Baseline
  <2>1. Len(Pipe!Chain) = 11 /\ Pipe!Chain[10] = "Auth"
    BY <1>2, ChainForms
  <2>2. QED
    BY <2>1 DEF Handlers
<1>3. QED
  BY <1>1, <1>2

(* Beyond a handler that runs, only those before it have been passed.      *)
LEMMA PassesOne ==
  ASSUME NEW r \in Requests, at[r] \in Handlers, Pipe!Chain[at[r]] # "handler",
         at'[r] = at[r] + 1, UNCHANGED installed
  PROVE  /\ at'[r] \in Handlers
         /\ \A name : Pipe!Passed(r, name)' <=>
                        Pipe!Passed(r, name) \/ name = Pipe!Chain[at[r]]
<1> DEFINE c == Pipe!Chain
           n == Len(c)
<1>1. /\ n \in Nat /\ c[n] = "handler"
      /\ \A i, j \in 1..n : c[i] = c[j] => i = j
  BY ChainIsOrdered DEF ChainOrdered
<1>2. Pipe!Chain' = c
  BY DEF Pipe!Chain, Pipe!Baseline, Pipe!Protected
<1>3. at[r] \in 1..n /\ at[r] # n
  BY <1>1 DEF Handlers
<1>4. /\ at[r] + 1 \in 1..n
      /\ \A i : i \in at[r]..n <=> i = at[r] \/ i \in at[r] + 1..n
      /\ at[r] \notin at[r] + 1..n
      /\ \A i \in at[r] + 1..n : i \in 1..n
  BY <1>1, <1>3
<1>5. \A i \in at[r] + 1..n : c[i] # c[at[r]]
  BY <1>1, <1>3, <1>4
<1>6. at'[r] \in Handlers
  BY <1>4 DEF Handlers
<1>7. ASSUME NEW name
      PROVE  Pipe!Passed(r, name)' <=> (Pipe!Passed(r, name) \/ name = c[at[r]])
  <2>1. Pipe!Passed(r, name)' <=> \A i \in at[r] + 1..n : c[i] # name
    BY <1>2 DEF Pipe!Passed
  <2>2. Pipe!Passed(r, name) <=> \A i \in at[r]..n : c[i] # name
    BY DEF Pipe!Passed
  <2> HIDE DEF n, c
  <2>3. QED
    BY <1>4, <1>5, <2>1, <2>2
<1>8. QED
  BY <1>6, <1>7

(* The handler that runs is not passed; that of the business has all       *)
(* others behind it.                                                       *)
LEMMA NotPassed ==
  ASSUME NEW r \in Requests, at[r] \in Handlers
  PROVE  /\ ~ Pipe!Passed(r, Pipe!Chain[at[r]])
         /\ Pipe!Chain[at[r]] = "handler" =>
              \A name : name # "handler" => Pipe!Passed(r, name)
<1> DEFINE c == Pipe!Chain
           n == Len(c)
<1>1. /\ n \in Nat /\ c[n] = "handler"
      /\ \A i, j \in 1..n : c[i] = c[j] => i = j
  BY ChainIsOrdered DEF ChainOrdered
<1>2. at[r] \in 1..n
  BY DEF Handlers
<1>3. at[r] \in at[r]..n
  BY <1>1, <1>2
<1>4. ~ Pipe!Passed(r, c[at[r]])
  BY <1>3 DEF Pipe!Passed
<1>5. ASSUME c[at[r]] = "handler", NEW name, name # "handler"
      PROVE  Pipe!Passed(r, name)
  <2>1. n \in 1..n
    BY <1>1, <1>2
  <2>2. at[r] = n
    BY <1>1, <1>2, <1>5, <2>1
  <2>3. \A i \in n..n : c[i] = "handler"
    BY <1>1
  <2>4. QED
    BY <1>5, <2>2, <2>3 DEF Pipe!Passed
<1>6. QED
  BY <1>4, <1>5

(* Where SQLGuard runs, the body has been limited.                         *)
LEMMA SearchesLimited ==
  ASSUME NEW r \in Requests, at[r] \in Handlers, Pipe!Baseline,
         Pipe!Chain[at[r]] = "SQLGuard"
  PROVE  Pipe!Passed(r, "BodyLimit")
<1> DEFINE c == Pipe!Chain
           n == Len(c)
<1>1. n \in Nat /\ \A i, j \in 1..n : c[i] = c[j] => i = j
  BY ChainIsOrdered DEF ChainOrdered
<1>2. PICK i \in 1..n, j \in 1..n : i < j /\ c[i] = "BodyLimit" /\ c[j] = "SQLGuard"
  BY LimitedBeforeSearched DEF Handlers
<1>3. at[r] = j
  BY <1>1, <1>2 DEF Handlers
<1>4. \A k \in j..n : k \in 1..n /\ k # i
  BY <1>1, <1>2
<1>5. \A k \in j..n : c[k] # "BodyLimit"
  BY <1>1, <1>2, <1>4
<1>6. QED
  BY <1>3, <1>5 DEF Pipe!Passed

(* One more answer.                                                        *)
LEMMA WebRange ==
  ASSUME NEW s \in Seq(Nat), NEW e \in Nat
  PROVE  /\ Append(s, e) \in Seq(Nat) /\ Len(Append(s, e)) = Len(s) + 1
         /\ Append(s, e) # <<>>
         /\ Pipe!Range(Append(s, e)) = Pipe!Range(s) \cup {e}
<1>1. /\ Append(s, e) \in Seq(Nat) /\ Len(Append(s, e)) = Len(s) + 1
      /\ Append(s, e) # <<>>
      /\ \A i \in 1..Len(s) : Append(s, e)[i] = s[i]
      /\ Append(s, e)[Len(s) + 1] = e
  BY AppendProperties
<1>2. Len(s) \in Nat /\ DOMAIN s = 1..Len(s) /\ DOMAIN Append(s, e) = 1..Len(s) + 1
  BY <1>1, LenProperties
<1>3. \A x : x \in Pipe!Range(Append(s, e)) <=> \E i \in 1..Len(s) + 1 : Append(s, e)[i] = x
  BY <1>2 DEF Pipe!Range
<1>4. \A x : x \in Pipe!Range(s) <=> \E i \in 1..Len(s) : s[i] = x
  BY <1>2 DEF Pipe!Range
<1>5. ASSUME NEW x
      PROVE  x \in Pipe!Range(Append(s, e)) <=> x \in Pipe!Range(s) \cup {e}
  <2>1. \A i : i \in 1..Len(s) + 1 <=> i \in 1..Len(s) \/ i = Len(s) + 1
    BY <1>2
  <2>2. (\E i \in 1..Len(s) + 1 : Append(s, e)[i] = x)
          <=> (\E i \in 1..Len(s) : s[i] = x) \/ x = e
    BY <1>1, <2>1
  <2>3. QED
    BY <1>3, <1>4, <2>2
<1>6. QED
  BY <1>1, <1>5

(* No answer, and a single one.                                            *)
LEMMA ShortAnswers ==
  /\ <<>> \in Seq(Nat) /\ Len(<<>>) = 0 /\ Pipe!Range(<<>>) = {}
  /\ \A e \in Nat : /\ <<e>> \in Seq(Nat) /\ Len(<<e>>) = 1 /\ <<e>> # <<>>
                    /\ Pipe!Range(<<e>>) = {e}
                    /\ Append(<<>>, e) = <<e>>
<1>1. <<>> \in Seq(Nat) /\ Len(<<>>) = 0 /\ DOMAIN <<>> = {}
  BY EmptySeq
<1>2. Pipe!Range(<<>>) = {}
  BY <1>1 DEF Pipe!Range
<1>3. ASSUME NEW e \in Nat
      PROVE  /\ <<e>> \in Seq(Nat) /\ Len(<<e>>) = 1 /\ <<e>> # <<>>
             /\ Pipe!Range(<<e>>) = {e}
             /\ Append(<<>>, e) = <<e>>
  <2>1. Append(<<>>, e) = <<e>>
    BY <1>1
  <2>2. QED
    BY <1>1, <1>2, <2>1, WebRange
<1>4. QED
  BY <1>1, <1>2, <1>3

(* A step of another request leaves q as it was.                           *)
Untouched(q) ==
  /\ UNCHANGED installed
  /\ request'[q] = request[q] /\ at'[q] = at[q] /\ outer'[q] = outer[q]
  /\ inner'[q] = inner[q] /\ stopped'[q] = stopped[q] /\ body'[q] = body[q]
  /\ user'[q] = user[q] /\ answers'[q] = answers[q] /\ handling'[q] = handling[q]
  /\ sees'[q] = sees[q]

(* Its invariant speaks of its own state and of the chain.                 *)
LEMMA UntouchedSound ==
  ASSUME NEW q \in Requests, Pipe!RequestSound(q), Untouched(q)
  PROVE  Pipe!RequestSound(q)'
<1>1. Pipe!Chain' = Pipe!Chain /\ (Pipe!Baseline' <=> Pipe!Baseline)
      /\ (Pipe!Protected' <=> Pipe!Protected)
  BY DEF Untouched, Pipe!Chain, Pipe!Baseline, Pipe!Protected
<1>2. \A name : Pipe!Passed(q, name)' <=> Pipe!Passed(q, name)
  BY <1>1 DEF Untouched, Pipe!Passed
<1>3. Pipe!Live(q)' <=> Pipe!Live(q)
  BY DEF Untouched, Pipe!Live
<1>4. Pipe!AnswersCounted(q)'
  BY <1>2, <1>3 DEF Untouched, Pipe!AnswersCounted, Pipe!RequestSound
<1>m. Pipe!MaxBody' = Pipe!MaxBody /\ (Pipe!WithinLimit(q)' <=> Pipe!WithinLimit(q))
  BY DEF Untouched, Pipe!MaxBody, Pipe!WithinLimit
<1>5. Pipe!BodySearched(q)'
  BY <1>1, <1>2, <1>3, <1>m DEF Untouched, Pipe!BodySearched, Pipe!RequestSound
<1>6. Pipe!Authorised(q)'
  BY <1>1, <1>2 DEF Untouched, Pipe!Authorised, Pipe!RequestSound
<1>7. Pipe!HandledLast(q)'
  BY <1>1 DEF Untouched, Pipe!HandledLast, Pipe!RequestSound, Pipe!Condition, Pipe!Rejections
<1>8. QED
  BY <1>4, <1>5, <1>6, <1>7 DEF Pipe!RequestSound

(* The next handler runs, or those of r return.                            *)
Going(r) ==
  /\ UNCHANGED installed
  /\ at'[r] = at[r] + 1
  /\ Pipe!AnswersCounted(r)' /\ (Pipe!Live(r)' => Pipe!Live(r))

Leaving(r) ==
  /\ UNCHANGED installed
  /\ at'[r] = at[r]
  /\ Pipe!AnswersCounted(r)' /\ ~ Pipe!Live(r)'

(* A goroutine whose handlers return has answered, or another has.         *)
LEMMA LeavesAnswered ==
  ASSUME Pipe!TypeOK, NEW r \in Requests, Pipe!AnswersCounted(r), Pipe!Live(r),
         outer[r] \in {"chain", "select", "returned"},
         inner[r] = "none" => outer[r] = "chain",
         NEW status \in Nat,
         Pipe!Write(r, status) \/ (stopped[r] /\ UNCHANGED answers),
         Pipe!Unwind(r), stopped'[r] \in {stopped[r], TRUE}, at' = at, UNCHANGED installed
  PROVE  Leaving(r) /\ answers'[r] \in {answers[r], <<status>>}
<1>1. /\ outer \in [Requests -> {"idle", "chain", "select", "returned"}]
      /\ inner \in [Requests -> {"none", "chain", "ended"}]
      /\ answers \in [Requests -> Seq(Nat)]
  BY DEF Pipe!TypeOK
<1>2. \A name : Pipe!Passed(r, name)' <=> Pipe!Passed(r, name)
  BY DEF Pipe!Passed, Pipe!Chain, Pipe!Baseline, Pipe!Protected
<1>3. CASE inner[r] = "chain"
  <2>1. inner'[r] = "ended" /\ outer'[r] = outer[r] /\ outer[r] # "chain"
    BY <1>1, <1>3 DEF Pipe!Unwind, Pipe!AnswersCounted
  <2>2. CASE outer[r] = "returned"
    <3>1. answers'[r] = <<504>> /\ answers[r] = <<504>>
      BY <1>3, <2>2 DEF Pipe!Write, Pipe!AnswersCounted, Pipe!Live
    <3>2. QED
      BY <1>2, <1>3, <2>1, <2>2, <3>1, ShortAnswers
         DEF Leaving, Pipe!AnswersCounted, Pipe!Live
  <2>3. CASE outer[r] = "select"
    <3>1. answers[r] = <<>> /\ ~ stopped[r]
      BY <1>3, <2>3 DEF Pipe!AnswersCounted, Pipe!Live
    <3>2. answers'[r] = <<status>>
      BY <1>1, <2>3, <3>1, ShortAnswers DEF Pipe!Write
    <3>3. QED
      BY <1>2, <1>3, <2>1, <2>3, <3>1, <3>2, ShortAnswers
         DEF Leaving, Pipe!AnswersCounted, Pipe!Live
  <2>4. QED
    BY <1>1, <2>1, <2>2, <2>3
<1>4. CASE inner[r] = "none"
  <2>1. outer[r] = "chain" /\ outer'[r] = "returned" /\ inner'[r] = "none"
    BY <1>1, <1>4 DEF Pipe!Unwind
  <2>2. answers[r] = <<>> /\ ~ stopped[r]
    BY <1>4, <2>1 DEF Pipe!AnswersCounted, Pipe!Live
  <2>3. answers'[r] = <<status>>
    BY <1>1, <2>1, <2>2, ShortAnswers DEF Pipe!Write
  <2>4. QED
    BY <1>2, <1>4, <2>1, <2>2, <2>3, ShortAnswers
       DEF Leaving, Pipe!AnswersCounted, Pipe!Live
<1>5. QED
  BY <1>1, <1>3, <1>4 DEF Pipe!Live

(* What a handler decides.                                                 *)
LEMMA Decided ==
  ASSUME Pipe!TypeOK, NEW r \in Requests, Pipe!AnswersCounted(r), NEW name, Pipe!At(r, name),
         name # "handler", NEW accepts \in BOOLEAN, NEW status \in Nat,
         Pipe!Decide(r, accepts, status),
         UNCHANGED installed
  PROVE  (accepts /\ Going(r)) \/ Leaving(r)
<1>1. /\ outer \in [Requests -> {"idle", "chain", "select", "returned"}]
      /\ inner \in [Requests -> {"none", "chain", "ended"}]
      /\ stopped \in [Requests -> BOOLEAN] /\ at \in [Requests -> Handlers]
  BY DEF Pipe!TypeOK, Handlers
<1>2. /\ Pipe!Live(r) /\ outer[r] \in {"chain", "select", "returned"}
      /\ inner[r] = "none" => outer[r] = "chain"
  BY <1>1 DEF Pipe!At, Pipe!Live, Pipe!AnswersCounted
<1>3. CASE accepts /\ ~ stopped[r]
  <2>1. at'[r] = at[r] + 1 /\ UNCHANGED <<outer, inner, stopped, answers>>
    BY <1>1, <1>3 DEF Pipe!Decide, Pipe!Proceed
  <2>2. /\ at[r] \in Handlers /\ Pipe!Chain[at[r]] = name
    BY <1>1 DEF Pipe!At
  <2>3. \A m : Pipe!Passed(r, m) => Pipe!Passed(r, m)'
    BY <2>1, <2>2, PassesOne
  <2>4. Pipe!Live(r)' <=> Pipe!Live(r)
    BY <2>1 DEF Pipe!Live
  <2>5. Pipe!AnswersCounted(r)'
    BY <2>1, <2>3, <2>4 DEF Pipe!AnswersCounted
  <2>6. QED
    BY <1>3, <2>1, <2>4, <2>5 DEF Going
<1>4. CASE accepts /\ stopped[r]
  <2>1. Pipe!Unwind(r) /\ UNCHANGED <<at, stopped, answers>>
    BY <1>4 DEF Pipe!Decide, Pipe!Proceed
  <2>2. QED
    BY <1>2, <1>4, <2>1, LeavesAnswered
<1>5. CASE ~ accepts
  <2>1. Pipe!Write(r, status) /\ Pipe!Unwind(r) /\ UNCHANGED at /\ stopped'[r] = TRUE
    BY <1>1, <1>5 DEF Pipe!Decide, Pipe!Reject
  <2>2. QED
    BY <1>2, <2>1, LeavesAnswered
<1>6. QED
  BY <1>3, <1>4, <1>5

(* A handler of the framework leaves the request sound.                    *)
LEMMA HandlerSound ==
  ASSUME Pipe!TypeOK, NEW r \in Requests, Pipe!RequestSound(r), NEW name, Pipe!At(r, name),
         name # "handler", NEW accepts,
         (accepts /\ Going(r)) \/ Leaving(r),
         request'[r] = request[r], handling'[r] = handling[r],
         name # "SQLGuard" => /\ body'[r].size = body[r].size
                              /\ body[r].limited => body'[r].limited,
         name = "BodyLimit" =>
           /\ body'[r].limited
           /\ accepts => ~ (request[r].declared /\ request[r].size > Pipe!MaxBody),
         name = "SQLGuard" => /\ body'[r].size <= ReadLimit
                              /\ accepts => Pipe!readBodyBytes(r) /\ ~ Pipe!Suspicious(r),
         name # "Auth" => user'[r] = user[r],
         name = "Auth" /\ accepts =>
           \/ request[r].public
           \/ request[r].token = "valid" /\ request[r].scope /\ user'[r] = request[r].user
  PROVE  Pipe!RequestSound(r)' /\ at'[r] \in Handlers
<1>1. /\ at[r] \in Handlers /\ Pipe!Chain[at[r]] = name /\ UNCHANGED installed
      /\ request[r] \in Kinds
  BY DEF Pipe!TypeOK, Handlers, Pipe!At, Going, Leaving
<1>2. /\ Pipe!Chain' = Pipe!Chain /\ (Pipe!Baseline' <=> Pipe!Baseline)
      /\ (Pipe!Protected' <=> Pipe!Protected) /\ Pipe!MaxBody' = Pipe!MaxBody
      /\ Pipe!WithinLimit(r)' <=> Pipe!WithinLimit(r)
  BY <1>1 DEF Pipe!Chain, Pipe!Baseline, Pipe!Protected, Pipe!MaxBody, Pipe!WithinLimit
<1>3. /\ Pipe!AnswersCounted(r) /\ Pipe!BodySearched(r) /\ Pipe!Authorised(r)
      /\ Pipe!HandledLast(r)
  BY DEF Pipe!RequestSound
<1>4. Pipe!HandledLast(r)'
  BY <1>1, <1>3 DEF Pipe!HandledLast
<1>5. CASE accepts /\ Going(r)
  <2>1. /\ at'[r] \in Handlers
        /\ \A m : Pipe!Passed(r, m)' <=> (Pipe!Passed(r, m) \/ m = name)
    BY <1>1, <1>5, PassesOne DEF Going
  <2>2. Pipe!Live(r)' => Pipe!Live(r)
    BY <1>5 DEF Going
  <2>3. Pipe!AnswersCounted(r)'
    BY <1>5 DEF Going
  <2>4. Pipe!BodySearched(r)'
    <3>1. CASE ~ Pipe!Baseline
      BY <1>2, <3>1 DEF Pipe!BodySearched
    <3>2. CASE Pipe!Baseline /\ name # "SQLGuard"
      <4>1. request[r].size \in Nat /\ request[r].declared \in BOOLEAN
            /\ Pipe!MaxBody \in Nat
        BY <1>1, ComponentsAssumption
           DEF Pipe!WebPipelineAssumption, Pipe!RequestOK, Pipe!MaxBody
      <4>2. CASE name = "BodyLimit"
        <5>1. ASSUME Pipe!Live(r)', ~ Pipe!Passed(r, "SQLGuard")'
              PROVE  /\ body'[r].size = request[r].size /\ body'[r].limited
                     /\ request[r].declared => request[r].size <= Pipe!MaxBody
          <6>1. body[r].size = request[r].size /\ body'[r].size = body[r].size
            BY <1>2, <1>3, <2>1, <2>2, <3>2, <5>1 DEF Pipe!BodySearched
          <6> QED
            BY <1>5, <4>1, <4>2, <6>1
        <5> QED
          BY <1>1, <1>2, <1>3, <2>1, <3>2, <4>2, <5>1 DEF Pipe!BodySearched
      <4>3. CASE name # "BodyLimit"
        BY <1>2, <1>3, <2>1, <2>2, <3>2, <4>3 DEF Pipe!BodySearched
      <4> QED
        BY <4>2, <4>3
    <3>3. CASE Pipe!Baseline /\ name = "SQLGuard"
      <4>1. Pipe!Live(r) /\ ~ Pipe!Passed(r, "SQLGuard") /\ Pipe!Passed(r, "BodyLimit")
        <5>1. outer[r] \in {"idle", "chain", "select", "returned"}
              /\ inner[r] \in {"none", "chain", "ended"}
          BY DEF Pipe!TypeOK
        <5>2. QED
          BY <1>1, <3>3, <5>1, NotPassed, SearchesLimited DEF Pipe!At, Pipe!Live
      <4>2. /\ body[r].size = request[r].size /\ body[r].limited
            /\ request[r].declared => request[r].size <= Pipe!MaxBody
        BY <1>3, <3>3, <4>1 DEF Pipe!BodySearched
      <4>3. body[r].size <= Pipe!MaxBody \/ ReadLimit <= Pipe!MaxBody
        BY <1>5, <3>3, <4>2 DEF Pipe!readBodyBytes
      <4>4. /\ request[r].sql \notin {"query", "body"}
            /\ request[r].sql = "tail" => ~ (body[r].size <= ReadLimit)
        BY <1>5, <3>3 DEF Pipe!Suspicious
      <4>5. /\ request[r].sql \in {"none", "query", "body", "tail"}
            /\ request[r].size \in Nat /\ ReadLimit \in Nat
        BY <1>1, ComponentsAssumption DEF Pipe!WebPipelineAssumption, Pipe!RequestOK
      <4>6. /\ Pipe!WithinLimit(r) /\ request[r].sql \in {"none", "tail"}
            /\ request[r].sql = "tail" => request[r].size > ReadLimit
        BY <4>2, <4>3, <4>4, <4>5 DEF Pipe!WithinLimit
      <4>7. QED
        BY <1>2, <2>1, <3>3, <4>6 DEF Pipe!BodySearched
    <3>4. QED
      BY <3>1, <3>2, <3>3
  <2>5. Pipe!Authorised(r)'
    BY <1>2, <1>3, <1>5, <2>1 DEF Pipe!Authorised
  <2>6. QED
    BY <1>4, <2>1, <2>3, <2>4, <2>5 DEF Pipe!RequestSound
<1>6. CASE Leaving(r)
  <2>1. /\ at'[r] = at[r] /\ ~ Pipe!Live(r)' /\ Pipe!AnswersCounted(r)'
        /\ \A m : Pipe!Passed(r, m)' <=> Pipe!Passed(r, m)
    BY <1>2, <1>6 DEF Leaving, Pipe!Passed
  <2>2. ~ Pipe!Passed(r, name)
    BY <1>1, NotPassed
  <2>3. Pipe!BodySearched(r)'
    BY <1>2, <1>3, <2>1, <2>2 DEF Pipe!BodySearched
  <2>4. Pipe!Authorised(r)'
    BY <1>2, <1>3, <2>1, <2>2 DEF Pipe!Authorised
  <2>5. QED
    BY <1>1, <1>4, <2>1, <2>3, <2>4 DEF Pipe!RequestSound
<1>7. QED
  BY <1>5, <1>6

(* A step that runs no handler of the framework.                           *)
LEMMA StaysSound ==
  ASSUME Pipe!TypeOK, NEW r \in Requests, Pipe!RequestSound(r),
         UNCHANGED installed, at'[r] = at[r], request'[r] = request[r],
         body'[r] = body[r], user'[r] = user[r],
         Pipe!AnswersCounted(r)', Pipe!Live(r)' => Pipe!Live(r), Pipe!HandledLast(r)'
  PROVE  Pipe!RequestSound(r)' /\ at'[r] \in Handlers
<1>1. /\ Pipe!Chain' = Pipe!Chain /\ (Pipe!Baseline' <=> Pipe!Baseline)
      /\ (Pipe!Protected' <=> Pipe!Protected)
  BY DEF Pipe!Chain, Pipe!Baseline, Pipe!Protected
<1>2. \A m : Pipe!Passed(r, m)' <=> Pipe!Passed(r, m)
  BY <1>1 DEF Pipe!Passed
<1>m. Pipe!MaxBody' = Pipe!MaxBody /\ (Pipe!WithinLimit(r)' <=> Pipe!WithinLimit(r))
  BY DEF Pipe!MaxBody, Pipe!WithinLimit
<1>3. Pipe!BodySearched(r)'
  BY <1>1, <1>2, <1>m DEF Pipe!BodySearched, Pipe!RequestSound
<1>4. Pipe!Authorised(r)'
  BY <1>1, <1>2 DEF Pipe!Authorised, Pipe!RequestSound
<1>5. QED
  BY <1>3, <1>4 DEF Pipe!RequestSound, Pipe!TypeOK, Handlers

(* f changes for r only.                                                   *)
ChangedAt(new, old, r) == new = [old EXCEPT ![r] = new[r]]

(* A step of r: the state of the other requests is as it was.              *)
RequestSteps(r) ==
  /\ UNCHANGED installed
  /\ ChangedAt(request', request, r) /\ ChangedAt(at', at, r) /\ ChangedAt(outer', outer, r)
  /\ ChangedAt(inner', inner, r) /\ ChangedAt(stopped', stopped, r)
  /\ ChangedAt(body', body, r) /\ ChangedAt(user', user, r)
  /\ ChangedAt(answers', answers, r) /\ ChangedAt(handling', handling, r)
  /\ ChangedAt(sees', sees, r)

RequestTyped(r) ==
  /\ request[r] \in Kinds
  /\ outer[r] \in {"idle", "chain", "select", "returned"}
  /\ inner[r] \in {"none", "chain", "ended"}
  /\ stopped[r] \in BOOLEAN
  /\ body[r] \in [size : Nat, limited : BOOLEAN]
  /\ user[r] \in [org : Nat, dept : Nat]
  /\ answers[r] \in Seq(Nat)
  /\ handling[r] \in {"no", "runs", "panicked", "done"}
  /\ sees[r] \in SUBSET Rows

(* It is enough to look at the request that takes the step.                *)
LEMMA OneRequest ==
  ASSUME Pipe!IInv, NEW r \in Requests, RequestSteps(r), RequestTyped(r)',
         Pipe!RequestSound(r)' /\ at'[r] \in Handlers
  PROVE  Pipe!IInv'
<1>1. \A q \in Requests \ {r} : Untouched(q)
  <2> SUFFICES ASSUME NEW q \in Requests \ {r}
               PROVE  Untouched(q)
    OBVIOUS
  <2>1. /\ q \in DOMAIN request /\ q \in DOMAIN at /\ q \in DOMAIN outer
        /\ q \in DOMAIN inner /\ q \in DOMAIN stopped /\ q \in DOMAIN body
        /\ q \in DOMAIN user /\ q \in DOMAIN answers /\ q \in DOMAIN handling
        /\ q \in DOMAIN sees
    BY DEF Pipe!IInv, Pipe!TypeOK
  <2>2. request'[q] = request[q] /\ at'[q] = at[q] /\ outer'[q] = outer[q]
    BY <2>1 DEF RequestSteps, ChangedAt
  <2>3. inner'[q] = inner[q] /\ stopped'[q] = stopped[q] /\ body'[q] = body[q]
    BY <2>1 DEF RequestSteps, ChangedAt
  <2>4. user'[q] = user[q] /\ answers'[q] = answers[q] /\ handling'[q] = handling[q]
        /\ sees'[q] = sees[q]
    BY <2>1 DEF RequestSteps, ChangedAt
  <2>5. QED
    BY <2>2, <2>3, <2>4 DEF Untouched, RequestSteps
<1>2. \A q \in Requests : Pipe!RequestSound(q)'
  BY <1>1, UntouchedSound DEF Pipe!IInv
<1>3. Pipe!TypeOK'
  <2>1. installed' \subseteq {"baseline", "auth", "maxBody"} /\ Pipe!Chain' = Pipe!Chain
    BY DEF RequestSteps, Pipe!IInv, Pipe!TypeOK, Pipe!Chain, Pipe!Baseline, Pipe!Protected
  <2>2. request' \in [Requests -> Kinds] /\ at' \in [Requests -> 1..Len(Pipe!Chain)]
    BY DEF RequestSteps, Pipe!IInv, Pipe!TypeOK, ChangedAt, RequestTyped, Handlers
  <2>3. /\ outer' \in [Requests -> {"idle", "chain", "select", "returned"}]
        /\ inner' \in [Requests -> {"none", "chain", "ended"}]
    BY DEF RequestSteps, Pipe!IInv, Pipe!TypeOK, ChangedAt, RequestTyped
  <2>4. /\ stopped' \in [Requests -> BOOLEAN]
        /\ body' \in [Requests -> [size : Nat, limited : BOOLEAN]]
    BY DEF RequestSteps, Pipe!IInv, Pipe!TypeOK, ChangedAt, RequestTyped
  <2>5. user' \in [Requests -> [org : Nat, dept : Nat]] /\ answers' \in [Requests -> Seq(Nat)]
    BY DEF RequestSteps, Pipe!IInv, Pipe!TypeOK, ChangedAt, RequestTyped
  <2>6. /\ handling' \in [Requests -> {"no", "runs", "panicked", "done"}]
        /\ sees' \in [Requests -> SUBSET Rows]
    BY DEF RequestSteps, Pipe!IInv, Pipe!TypeOK, ChangedAt, RequestTyped
  <2>7. QED
    BY <2>1, <2>2, <2>3, <2>4, <2>5, <2>6 DEF Pipe!TypeOK
<1>4. QED
  BY <1>2, <1>3 DEF Pipe!IInv

(* The invariant at one request.                                           *)
LEMMA IsTyped ==
  ASSUME Pipe!IInv, NEW r \in Requests
  PROVE  RequestTyped(r) /\ Pipe!RequestSound(r) /\ at[r] \in Handlers
BY DEF Pipe!IInv, Pipe!TypeOK, RequestTyped, Handlers

(* An update at r changes nothing elsewhere.                               *)
LEMMA Changes ==
  ASSUME NEW S, NEW T, NEW f \in [S -> T], NEW r \in S, NEW g, NEW v,
         g = f \/ g = [f EXCEPT ![r] = v]
  PROVE  /\ ChangedAt(g, f, r)
         /\ g = [f EXCEPT ![r] = v] => g[r] = v
BY DEF ChangedAt

(* What the return of the handlers changes.                                *)
LEMMA UnwindChanges ==
  ASSUME Pipe!IInv, NEW r \in Requests, Pipe!Unwind(r)
  PROVE  /\ ChangedAt(outer', outer, r) /\ ChangedAt(inner', inner, r)
         /\ outer'[r] \in {"idle", "chain", "select", "returned"}
         /\ inner'[r] \in {"none", "chain", "ended"}
<1>1. /\ outer \in [Requests -> {"idle", "chain", "select", "returned"}]
      /\ inner \in [Requests -> {"none", "chain", "ended"}]
  BY DEF Pipe!IInv, Pipe!TypeOK
<1>2. /\ outer' = outer \/ outer' = [outer EXCEPT ![r] = "returned"]
      /\ inner' = inner \/ inner' = [inner EXCEPT ![r] = "ended"]
  BY DEF Pipe!Unwind
<1>3. ChangedAt(outer', outer, r) /\ ChangedAt(inner', inner, r)
  BY <1>1, <1>2 DEF ChangedAt
<1>4. QED
  BY <1>1, <1>2, <1>3

(* What an answer changes.                                                 *)
LEMMA WriteChanges ==
  ASSUME Pipe!IInv, NEW r \in Requests, NEW status \in Nat, Pipe!Write(r, status)
  PROVE  /\ ChangedAt(answers', answers, r) /\ answers'[r] \in Seq(Nat)
         /\ answers'[r] = answers[r] \/ answers'[r] = Append(answers[r], status)
         /\ outer[r] # "returned" => answers'[r] = Append(answers[r], status)
         /\ outer[r] = "returned" => answers'[r] = answers[r]
<1>1. answers \in [Requests -> Seq(Nat)] /\ answers[r] \in Seq(Nat)
  BY DEF Pipe!IInv, Pipe!TypeOK
<1>2. /\ outer[r] = "returned" => answers' = answers
      /\ outer[r] # "returned" => answers' = [answers EXCEPT ![r] = Append(answers[r], status)]
  BY DEF Pipe!Write
<1>3. ChangedAt(answers', answers, r)
  BY <1>1, <1>2, Changes
<1>4. Append(answers[r], status) \in Seq(Nat)
  BY <1>1, WebRange
<1>5. QED
  BY <1>1, <1>2, <1>3, <1>4

(* What a decision changes.                                                *)
LEMMA DecideChanges ==
  ASSUME Pipe!IInv, NEW r \in Requests, NEW accepts \in BOOLEAN, NEW status \in Nat,
         Pipe!Decide(r, accepts, status)
  PROVE  /\ ChangedAt(at', at, r)
         /\ ChangedAt(outer', outer, r) /\ ChangedAt(inner', inner, r)
         /\ ChangedAt(stopped', stopped, r) /\ ChangedAt(answers', answers, r)
         /\ outer'[r] \in {"idle", "chain", "select", "returned"}
         /\ inner'[r] \in {"none", "chain", "ended"}
         /\ stopped'[r] \in BOOLEAN /\ answers'[r] \in Seq(Nat)
<1>1. /\ outer \in [Requests -> {"idle", "chain", "select", "returned"}]
      /\ inner \in [Requests -> {"none", "chain", "ended"}]
      /\ stopped \in [Requests -> BOOLEAN] /\ at \in [Requests -> Handlers]
      /\ answers \in [Requests -> Seq(Nat)]
  BY DEF Pipe!IInv, Pipe!TypeOK, Handlers
<1>2. /\ outer' = outer /\ inner' = inner => /\ ChangedAt(outer', outer, r)
                                             /\ ChangedAt(inner', inner, r)
      /\ at' = at => ChangedAt(at', at, r)
      /\ stopped' = stopped => ChangedAt(stopped', stopped, r)
      /\ answers' = answers => ChangedAt(answers', answers, r)
  BY <1>1 DEF ChangedAt
<1>3. CASE accepts /\ ~ stopped[r]
  <2>1. at' = [at EXCEPT ![r] = at[r] + 1] /\ UNCHANGED <<outer, inner, stopped, answers>>
    BY <1>3 DEF Pipe!Decide, Pipe!Proceed
  <2>2. ChangedAt(at', at, r)
    BY <1>1, <2>1, Changes
  <2>3. QED
    BY <1>1, <1>2, <2>1, <2>2
<1>4. CASE accepts /\ stopped[r]
  <2>1. Pipe!Unwind(r) /\ UNCHANGED <<at, stopped, answers>>
    BY <1>4 DEF Pipe!Decide, Pipe!Proceed
  <2>2. QED
    BY <1>1, <1>2, <2>1, UnwindChanges
<1>5. CASE ~ accepts
  <2>1. /\ Pipe!Write(r, status) /\ Pipe!Unwind(r) /\ UNCHANGED at
        /\ stopped' = [stopped EXCEPT ![r] = TRUE]
    BY <1>5 DEF Pipe!Decide, Pipe!Reject
  <2>2. ChangedAt(stopped', stopped, r) /\ stopped'[r] = TRUE
    BY <1>1, <2>1, Changes
  <2>3. QED
    BY <1>2, <2>1, <2>2, UnwindChanges, WriteChanges
<1>6. QED
  BY <1>3, <1>4, <1>5

(* What is left alone changes nowhere.                                     *)
LEMMA KeptAt ==
  ASSUME Pipe!IInv, NEW r \in Requests
  PROVE  /\ request' = request => ChangedAt(request', request, r)
         /\ at' = at => ChangedAt(at', at, r)
         /\ outer' = outer => ChangedAt(outer', outer, r)
         /\ inner' = inner => ChangedAt(inner', inner, r)
         /\ stopped' = stopped => ChangedAt(stopped', stopped, r)
         /\ body' = body => ChangedAt(body', body, r)
         /\ user' = user => ChangedAt(user', user, r)
         /\ answers' = answers => ChangedAt(answers', answers, r)
         /\ handling' = handling => ChangedAt(handling', handling, r)
         /\ sees' = sees => ChangedAt(sees', sees, r)
<1>1. /\ request' = request => ChangedAt(request', request, r)
      /\ at' = at => ChangedAt(at', at, r)
      /\ outer' = outer => ChangedAt(outer', outer, r)
  BY DEF Pipe!IInv, Pipe!TypeOK, ChangedAt
<1>2. /\ inner' = inner => ChangedAt(inner', inner, r)
      /\ stopped' = stopped => ChangedAt(stopped', stopped, r)
      /\ body' = body => ChangedAt(body', body, r)
      /\ user' = user => ChangedAt(user', user, r)
  BY DEF Pipe!IInv, Pipe!TypeOK, ChangedAt
<1>3. /\ answers' = answers => ChangedAt(answers', answers, r)
      /\ handling' = handling => ChangedAt(handling', handling, r)
      /\ sees' = sees => ChangedAt(sees', sees, r)
  BY DEF Pipe!IInv, Pipe!TypeOK, ChangedAt
<1>4. QED
  BY <1>1, <1>2, <1>3

(* Handlers that let every request on.                                     *)
LEMMA PassSound ==
  ASSUME Pipe!IInv, NEW r \in Requests, Pipe!Pass(r)
  PROVE  Pipe!IInv'
<1>1. PICK name \in {"PanicRecovery", "ErrorHandler", "RequestID", "AccessLog",
                     "SecurityHeaders"} : Pipe!At(r, name)
  BY DEF Pipe!Pass
<1>2. /\ Pipe!Decide(r, TRUE, 0)
      /\ UNCHANGED <<installed, request, body, user, handling, sees>>
  BY DEF Pipe!Pass, Pipe!Decide
<1>3. RequestTyped(r) /\ Pipe!RequestSound(r) /\ Pipe!TypeOK /\ Pipe!AnswersCounted(r)
  BY IsTyped DEF Pipe!IInv, Pipe!RequestSound
<1>4. (TRUE /\ Going(r)) \/ Leaving(r)
  BY <1>1, <1>2, <1>3, Decided
<1>5. Pipe!RequestSound(r)' /\ at'[r] \in Handlers
  BY <1>1, <1>2, <1>3, <1>4, HandlerSound
<1>6. RequestSteps(r) /\ RequestTyped(r)'
  BY <1>2, <1>3, DecideChanges, KeptAt DEF RequestSteps, RequestTyped
<1>7. QED
  BY <1>5, <1>6, OneRequest

(* The limiter.                                                            *)
LEMMA LimitSound ==
  ASSUME Pipe!IInv, NEW r \in Requests, Pipe!Limit(r)
  PROVE  Pipe!IInv'
<1> DEFINE accepts == tokens > 0
<1>1. /\ Pipe!At(r, "Limit") /\ Pipe!Decide(r, accepts, 429)
      /\ UNCHANGED <<installed, request, body, user, handling, sees>>
  BY DEF Pipe!Limit
<1>2. RequestTyped(r) /\ Pipe!RequestSound(r) /\ Pipe!TypeOK /\ Pipe!AnswersCounted(r)
  BY IsTyped DEF Pipe!IInv, Pipe!RequestSound
<1>3. accepts \in BOOLEAN /\ 429 \in Nat
  OBVIOUS
<1> HIDE DEF accepts
<1>4. (accepts /\ Going(r)) \/ Leaving(r)
  BY <1>1, <1>2, <1>3, Decided
<1>5. Pipe!RequestSound(r)' /\ at'[r] \in Handlers
  BY <1>1, <1>2, <1>4, HandlerSound
<1>6. RequestSteps(r) /\ RequestTyped(r)'
  BY <1>1, <1>2, <1>3, DecideChanges, KeptAt DEF RequestSteps, RequestTyped
<1>7. QED
  BY <1>5, <1>6, OneRequest

(* What is read of the body from here on is limited.                       *)
LEMMA BodyLimitSound ==
  ASSUME Pipe!IInv, NEW r \in Requests, Pipe!BodyLimit(r)
  PROVE  Pipe!IInv'
<1> DEFINE accepts == ~ (request[r].declared /\ request[r].size > Pipe!MaxBody)
<1>1. /\ Pipe!At(r, "BodyLimit") /\ Pipe!Decide(r, accepts, 413)
      /\ UNCHANGED <<installed, request, user, handling, sees>>
  BY DEF Pipe!BodyLimit
<1>2. RequestTyped(r) /\ Pipe!RequestSound(r) /\ Pipe!TypeOK /\ Pipe!AnswersCounted(r)
  BY IsTyped DEF Pipe!IInv, Pipe!RequestSound
<1>3. accepts \in BOOLEAN /\ 413 \in Nat
  OBVIOUS
<1>a. accepts => ~ (request[r].declared /\ request[r].size > Pipe!MaxBody)
  OBVIOUS
<1> HIDE DEF accepts
<1>4. (accepts /\ Going(r)) \/ Leaving(r)
  BY <1>1, <1>2, <1>3, Decided
<1>5. body' = [body EXCEPT ![r] = [body[r] EXCEPT !.limited = TRUE]]
  BY DEF Pipe!BodyLimit
<1>6. /\ ChangedAt(body', body, r)
      /\ body'[r] = [body[r] EXCEPT !.limited = TRUE]
  <2>1. body \in [Requests -> [size : Nat, limited : BOOLEAN]]
    BY <1>2 DEF Pipe!TypeOK
  <2>2. QED
    BY <1>5, <2>1 DEF ChangedAt
<1>7. /\ body'[r].size = body[r].size /\ body'[r].limited
      /\ body'[r] \in [size : Nat, limited : BOOLEAN]
  BY <1>2, <1>6 DEF RequestTyped
<1>8. Pipe!RequestSound(r)' /\ at'[r] \in Handlers
  BY <1>1, <1>2, <1>4, <1>7, <1>a, HandlerSound
<1>9. RequestSteps(r) /\ RequestTyped(r)'
  BY <1>1, <1>2, <1>3, <1>6, <1>7, DecideChanges, KeptAt DEF RequestSteps, RequestTyped
<1>10. QED
  BY <1>8, <1>9, OneRequest

(* What goes on was within the limit and is searched; it is cut to what    *)
(* was read.                                                               *)
LEMMA SQLGuardSound ==
  ASSUME Pipe!IInv, NEW r \in Requests, Pipe!SQLGuard(r)
  PROVE  Pipe!IInv'
<1> DEFINE accepts == Pipe!readBodyBytes(r) /\ ~ Pipe!Suspicious(r)
           n == IF body[r].size > ReadLimit THEN ReadLimit ELSE body[r].size
<1>1. /\ Pipe!At(r, "SQLGuard") /\ Pipe!Decide(r, accepts, 400)
      /\ body' = [body EXCEPT ![r] = [size |-> n, limited |-> FALSE]]
      /\ UNCHANGED <<installed, request, user, handling, sees>>
  BY DEF Pipe!SQLGuard
<1>2. RequestTyped(r) /\ Pipe!RequestSound(r) /\ Pipe!TypeOK /\ Pipe!AnswersCounted(r)
  BY IsTyped DEF Pipe!IInv, Pipe!RequestSound
<1>3. accepts \in BOOLEAN /\ 400 \in Nat
  BY DEF Pipe!readBodyBytes, Pipe!Suspicious
<1>4. n \in Nat /\ n <= ReadLimit
  BY <1>2, ComponentsAssumption DEF RequestTyped, Pipe!WebPipelineAssumption
<1>5. accepts => Pipe!readBodyBytes(r) /\ ~ Pipe!Suspicious(r)
  OBVIOUS
<1> HIDE DEF accepts, n
<1>6. (accepts /\ Going(r)) \/ Leaving(r)
  BY <1>1, <1>2, <1>3, Decided
<1>7. ChangedAt(body', body, r) /\ body'[r] = [size |-> n, limited |-> FALSE]
  <2>1. body \in [Requests -> [size : Nat, limited : BOOLEAN]]
    BY <1>2 DEF Pipe!TypeOK
  <2>2. QED
    BY <1>1, <2>1 DEF ChangedAt
<1>8. Pipe!RequestSound(r)' /\ at'[r] \in Handlers
  BY <1>1, <1>2, <1>4, <1>5, <1>6, <1>7, HandlerSound
<1>9. RequestSteps(r) /\ RequestTyped(r)'
  BY <1>1, <1>2, <1>3, <1>4, <1>7, DecideChanges, KeptAt DEF RequestSteps, RequestTyped
<1>10. QED
  BY <1>8, <1>9, OneRequest

(* What goes on is public or has its rights, and its user.                 *)
LEMMA AuthSound ==
  ASSUME Pipe!IInv, NEW r \in Requests, Pipe!Auth(r)
  PROVE  Pipe!IInv'
<1> DEFINE known == request[r].token = "valid" /\ request[r].scope
           accepts == request[r].public \/ known
<1>1. /\ Pipe!At(r, "Auth") /\ Pipe!Decide(r, accepts, Pipe!Refusal(r))
      /\ user' = IF known /\ ~ request[r].public
                 THEN [user EXCEPT ![r] = request[r].user] ELSE user
      /\ UNCHANGED <<installed, request, body, handling, sees>>
  BY DEF Pipe!Auth
<1>2. RequestTyped(r) /\ Pipe!RequestSound(r) /\ Pipe!TypeOK /\ Pipe!AnswersCounted(r)
  BY IsTyped DEF Pipe!IInv, Pipe!RequestSound
<1>3. Pipe!RequestOK(request[r])
  BY <1>2, ComponentsAssumption DEF RequestTyped, Pipe!WebPipelineAssumption
<1>4. accepts \in BOOLEAN /\ Pipe!Refusal(r) \in Nat
  BY <1>3 DEF Pipe!RequestOK, Pipe!Refusal
<1>5. /\ ChangedAt(user', user, r)
      /\ known /\ ~ request[r].public => user'[r] = request[r].user
      /\ user'[r] \in [org : Nat, dept : Nat]
  <2>1. CASE known /\ ~ request[r].public
    <3>1. user' = [user EXCEPT ![r] = request[r].user]
      BY <1>1, <2>1
    <3>2. user \in [Requests -> [org : Nat, dept : Nat]]
      BY <1>2 DEF Pipe!TypeOK
    <3>3. ChangedAt(user', user, r) /\ user'[r] = request[r].user
      BY <3>1, <3>2 DEF ChangedAt
    <3>4. QED
      BY <1>3, <3>3 DEF Pipe!RequestOK
  <2>2. CASE ~ (known /\ ~ request[r].public)
    <3>1. user' = user
      BY <1>1, <2>2
    <3>2. QED
      BY <1>2, <2>2, <3>1, KeptAt DEF RequestTyped
  <2>3. QED
    BY <2>1, <2>2
<1>6. accepts =>
        \/ request[r].public
        \/ request[r].token = "valid" /\ request[r].scope /\ user'[r] = request[r].user
  <2>1. CASE request[r].public
    BY <1>3, <2>1 DEF Pipe!RequestOK
  <2>2. CASE ~ request[r].public /\ known
    BY <1>5, <2>2
  <2>3. QED
    BY <2>1, <2>2
<1> HIDE DEF accepts, known
<1>7. (accepts /\ Going(r)) \/ Leaving(r)
  BY <1>1, <1>2, <1>4, Decided
<1>8. Pipe!RequestSound(r)' /\ at'[r] \in Handlers
  <2>1. /\ request'[r] = request[r] /\ handling'[r] = handling[r] /\ body'[r] = body[r]
    BY <1>1
  <2>2. Pipe!At(r, "Auth")
    BY <1>1
  <2>3. QED
    BY <1>2, <1>6, <1>7, <2>1, <2>2, HandlerSound
<1>9. RequestSteps(r) /\ RequestTyped(r)'
  <2>1. /\ ChangedAt(at', at, r)
        /\ ChangedAt(outer', outer, r) /\ ChangedAt(inner', inner, r)
        /\ ChangedAt(stopped', stopped, r) /\ ChangedAt(answers', answers, r)
        /\ outer'[r] \in {"idle", "chain", "select", "returned"}
        /\ inner'[r] \in {"none", "chain", "ended"}
        /\ stopped'[r] \in BOOLEAN /\ answers'[r] \in Seq(Nat)
    BY <1>1, <1>4, DecideChanges
  <2>2. QED
    BY <1>1, <1>2, <1>5, <2>1, KeptAt DEF RequestSteps, RequestTyped
<1>10. QED
  BY <1>8, <1>9, OneRequest

(* The handlers behind Timeout are those of the second goroutine.          *)
LEMMA TimeoutSound ==
  ASSUME Pipe!IInv, NEW r \in Requests, Pipe!Timeout(r)
  PROVE  Pipe!IInv'
<1>1. /\ Pipe!At(r, "Timeout")
      /\ outer' = [outer EXCEPT ![r] = "select"] /\ inner' = [inner EXCEPT ![r] = "chain"]
      /\ at' = [at EXCEPT ![r] = at[r] + 1]
      /\ UNCHANGED <<installed, request, stopped, body, user, answers, handling, sees>>
  BY DEF Pipe!Timeout
<1>2. RequestTyped(r) /\ Pipe!RequestSound(r) /\ Pipe!TypeOK /\ Pipe!AnswersCounted(r)
      /\ at[r] \in Handlers
  BY IsTyped DEF Pipe!IInv, Pipe!RequestSound
<1>3. /\ outer \in [Requests -> {"idle", "chain", "select", "returned"}]
      /\ inner \in [Requests -> {"none", "chain", "ended"}] /\ at \in [Requests -> Handlers]
  BY <1>2 DEF Pipe!TypeOK, Handlers
<1>4. outer'[r] = "select" /\ inner'[r] = "chain" /\ at'[r] = at[r] + 1
  BY <1>1, <1>3
<1>5. Pipe!Chain[at[r]] = "Timeout" /\ ~ Pipe!Passed(r, "Timeout")
  BY <1>1, <1>2, NotPassed DEF Pipe!At
<1>6. inner[r] = "none" /\ outer[r] = "chain"
  BY <1>1, <1>2, <1>5 DEF Pipe!At, Pipe!AnswersCounted
<1>7. answers[r] = <<>> /\ ~ stopped[r]
  BY <1>2, <1>6 DEF Pipe!AnswersCounted, Pipe!Live
<1>8. Pipe!Passed(r, "Timeout")'
  BY <1>1, <1>2, <1>4, <1>5, PassesOne
<1>9. (TRUE /\ Going(r)) \/ Leaving(r)
  BY <1>1, <1>4, <1>6, <1>7, <1>8, ShortAnswers DEF Going, Pipe!AnswersCounted, Pipe!Live
<1>10. Pipe!RequestSound(r)' /\ at'[r] \in Handlers
  <2>1. /\ request'[r] = request[r] /\ handling'[r] = handling[r] /\ body'[r] = body[r]
        /\ user'[r] = user[r]
    BY <1>1
  <2>2. Pipe!At(r, "Timeout")
    BY <1>1
  <2>3. QED
    BY <1>2, <1>9, <2>1, <2>2, HandlerSound
<1>11. ChangedAt(outer', outer, r) /\ ChangedAt(inner', inner, r) /\ ChangedAt(at', at, r)
  BY <1>1, <1>3 DEF ChangedAt
<1>12. RequestSteps(r) /\ RequestTyped(r)'
  BY <1>1, <1>2, <1>4, <1>11, KeptAt DEF RequestSteps, RequestTyped
<1>13. QED
  BY <1>10, <1>12, OneRequest

(* What the business, and the deadline, add to the answers.                *)
LEMMA KeptHandled ==
  ASSUME NEW r \in Requests, Pipe!HandledLast(r), UNCHANGED installed,
         request'[r] = request[r], at'[r] = at[r], sees'[r] = sees[r],
         handling'[r] # "no" => handling[r] # "no",
         answers[r] \in Seq(Nat), NEW status \in Nat, status \notin Pipe!Rejections,
         answers'[r] = answers[r] \/ answers'[r] = Append(answers[r], status)
  PROVE  Pipe!HandledLast(r)'
<1>1. Pipe!Chain' = Pipe!Chain /\ (Pipe!Protected' <=> Pipe!Protected)
  BY DEF Pipe!Chain, Pipe!Baseline, Pipe!Protected
<1>2. Pipe!Range(answers'[r]) \subseteq Pipe!Range(answers[r]) \cup {status}
  BY WebRange
<1>3. SUFFICES ASSUME handling[r] # "no"
               PROVE  /\ Pipe!Chain[at[r]] = "handler"
                      /\ Pipe!Range(answers'[r]) \cap Pipe!Rejections = {}
                      /\ Pipe!Protected /\ ~ request[r].public =>
                           sees[r] = Pipe!Condition(request[r].user)
  BY <1>1 DEF Pipe!HandledLast, Pipe!Condition, Pipe!Rejections
<1>4. QED
  BY <1>2, <1>3 DEF Pipe!HandledLast

(* What the goroutines of a request do besides.                            *)
LEMMA ArriveSound ==
  ASSUME Pipe!IInv, NEW r \in Requests, Pipe!Arrive(r)
  PROVE  Pipe!IInv'
<1>1. /\ outer[r] = "idle" /\ outer' = [outer EXCEPT ![r] = "chain"]
      /\ UNCHANGED <<installed, request, at, inner, stopped, body, user, answers, handling,
                     sees>>
  BY DEF Pipe!Arrive
<1>2. RequestTyped(r) /\ Pipe!RequestSound(r) /\ Pipe!TypeOK
  BY IsTyped DEF Pipe!IInv
<1>3. outer'[r] = "chain" /\ ChangedAt(outer', outer, r)
  <2>1. outer \in [Requests -> {"idle", "chain", "select", "returned"}]
    BY <1>2 DEF Pipe!TypeOK
  <2>2. QED
    BY <1>1, <2>1 DEF ChangedAt
<1>4. \A m : Pipe!Passed(r, m)' <=> Pipe!Passed(r, m)
  BY <1>1 DEF Pipe!Passed, Pipe!Chain, Pipe!Baseline, Pipe!Protected
<1>5. Pipe!AnswersCounted(r)' /\ (Pipe!Live(r)' => Pipe!Live(r))
  BY <1>1, <1>2, <1>3, <1>4 DEF Pipe!RequestSound, Pipe!AnswersCounted, Pipe!Live
<1>6. Pipe!HandledLast(r)'
  <2>1. 0 \in Nat /\ 0 \notin Pipe!Rejections
    BY DEF Pipe!Rejections
  <2>2. QED
    BY <1>1, <1>2, <2>1, KeptHandled DEF Pipe!RequestSound, RequestTyped
<1>7. Pipe!RequestSound(r)' /\ at'[r] \in Handlers
  BY <1>1, <1>2, <1>5, <1>6, StaysSound
<1>8. RequestSteps(r) /\ RequestTyped(r)'
  BY <1>1, <1>2, <1>3, KeptAt DEF RequestSteps, RequestTyped
<1>9. QED
  BY <1>7, <1>8, OneRequest

(* The handler of the business queries with the scope that Auth has set,   *)
(* and nobody has rejected the request.                                    *)
LEMMA HandleSound ==
  ASSUME Pipe!IInv, NEW r \in Requests, Pipe!Handle(r)
  PROVE  Pipe!IInv'
<1>1. /\ Pipe!At(r, "handler") /\ handling' = [handling EXCEPT ![r] = "runs"]
      /\ sees' = [sees EXCEPT ![r] = Pipe!Condition(user[r])]
      /\ UNCHANGED <<installed, request, at, outer, inner, stopped, body, user, answers>>
  BY DEF Pipe!Handle
<1>2. /\ RequestTyped(r) /\ Pipe!RequestSound(r) /\ Pipe!TypeOK /\ Pipe!AnswersCounted(r)
      /\ at[r] \in Handlers
  BY IsTyped DEF Pipe!IInv, Pipe!RequestSound
<1>3. /\ ChangedAt(handling', handling, r) /\ ChangedAt(sees', sees, r)
      /\ handling'[r] = "runs" /\ sees'[r] = Pipe!Condition(user[r])
  <2>1. /\ handling \in [Requests -> {"no", "runs", "panicked", "done"}]
        /\ sees \in [Requests -> SUBSET Rows]
    BY <1>2 DEF Pipe!TypeOK
  <2>2. QED
    BY <1>1, <2>1 DEF ChangedAt
<1>4. \A m : Pipe!Passed(r, m)' <=> Pipe!Passed(r, m)
  BY <1>1 DEF Pipe!Passed, Pipe!Chain, Pipe!Baseline, Pipe!Protected
<1>5. Pipe!AnswersCounted(r)' /\ (Pipe!Live(r)' => Pipe!Live(r))
  BY <1>1, <1>2, <1>4 DEF Pipe!AnswersCounted, Pipe!Live
<1>6. Pipe!HandledLast(r)'
  <2>1. Pipe!Chain[at[r]] = "handler" /\ Pipe!Passed(r, "Auth")
    BY <1>1, <1>2, NotPassed DEF Pipe!At
  <2>2. Pipe!Protected /\ ~ request[r].public => user[r] = request[r].user
    BY <1>2, <2>1 DEF Pipe!RequestSound, Pipe!Authorised
  <2>3. answers[r] = <<>> \/ answers[r] = <<504>>
    <3>1. Pipe!Live(r)
      BY <1>1, <1>2 DEF Pipe!At, Pipe!Live, RequestTyped
    <3>2. QED
      BY <1>2, <3>1 DEF Pipe!AnswersCounted
  <2>4. Pipe!Range(answers[r]) \cap Pipe!Rejections = {}
    <3>1. Pipe!Range(answers[r]) \subseteq {504}
      <4>1. 504 \in Nat
        OBVIOUS
      <4>2. Pipe!Range(<<504>>) = {504} /\ Pipe!Range(<<>>) = {}
        BY <4>1, ShortAnswers, Zenon
      <4>3. CASE answers[r] = <<>>
        BY <4>2, <4>3
      <4>4. CASE answers[r] = <<504>>
        BY <4>2, <4>4
      <4>5. QED
        BY <2>3, <4>3, <4>4
    <3>2. 504 \notin Pipe!Rejections
      BY DEF Pipe!Rejections
    <3>3. QED
      BY <3>1, <3>2
  <2>5. Pipe!Chain' = Pipe!Chain /\ (Pipe!Protected' <=> Pipe!Protected)
    BY <1>1 DEF Pipe!Chain, Pipe!Baseline, Pipe!Protected
  <2>6. /\ Pipe!Chain'[at'[r]] = "handler"
        /\ Pipe!Range(answers'[r]) \cap Pipe!Rejections = {}
        /\ Pipe!Protected' /\ ~ request'[r].public =>
             sees'[r] = Pipe!Condition(request'[r].user)
    BY <1>1, <1>3, <2>1, <2>2, <2>4, <2>5
  <2>7. QED
    BY <2>6 DEF Pipe!HandledLast, Pipe!Condition, Pipe!Rejections
<1>7. Pipe!RequestSound(r)' /\ at'[r] \in Handlers
  BY <1>1, <1>2, <1>5, <1>6, StaysSound
<1>8. RequestSteps(r) /\ RequestTyped(r)'
  BY <1>1, <1>2, <1>3, KeptAt DEF RequestSteps, RequestTyped, Pipe!Condition
<1>9. QED
  BY <1>7, <1>8, OneRequest

(* Where the handler of the business runs, its goroutine has not returned. *)
LEMMA AtHandler ==
  ASSUME Pipe!IInv, NEW r \in Requests, Pipe!At(r, "handler")
  PROVE  /\ Pipe!Live(r) /\ outer[r] \in {"chain", "select", "returned"}
         /\ inner[r] = "none" => outer[r] = "chain"
<1>1. RequestTyped(r) /\ Pipe!AnswersCounted(r)
  BY IsTyped DEF Pipe!RequestSound
<1>2. QED
  BY <1>1 DEF Pipe!At, Pipe!Live, Pipe!AnswersCounted, RequestTyped

(* It ends with an answer, its own or that of the recovery.                *)
LEMMA RespondSound ==
  ASSUME Pipe!IInv, NEW r \in Requests, NEW status \in Nat, status \notin Pipe!Rejections,
         NEW end \in {"done", "panicked"},
         Pipe!At(r, "handler"), handling[r] = "runs",
         handling' = [handling EXCEPT ![r] = end],
         Pipe!Write(r, status), Pipe!Unwind(r),
         UNCHANGED <<installed, request, at, stopped, body, user, sees>>
  PROVE  Pipe!IInv'
<1>1. /\ RequestTyped(r) /\ Pipe!RequestSound(r) /\ Pipe!TypeOK /\ Pipe!AnswersCounted(r)
      /\ Pipe!HandledLast(r)
  BY IsTyped DEF Pipe!IInv, Pipe!RequestSound
<1>2. Leaving(r)
  BY <1>1, AtHandler, LeavesAnswered
<1>3. ChangedAt(handling', handling, r) /\ handling'[r] = end
  <2>1. handling \in [Requests -> {"no", "runs", "panicked", "done"}]
    BY <1>1 DEF Pipe!TypeOK
  <2>2. QED
    BY <2>1 DEF ChangedAt
<1>4. Pipe!HandledLast(r)'
  <2>1. answers'[r] = answers[r] \/ answers'[r] = Append(answers[r], status)
    BY WriteChanges
  <2>2. answers[r] \in Seq(Nat) /\ (handling'[r] # "no" => handling[r] # "no")
    BY <1>1 DEF RequestTyped
  <2>3. QED
    BY <1>1, <2>1, <2>2, KeptHandled
<1>5. Pipe!RequestSound(r)' /\ at'[r] \in Handlers
  <2>1. Pipe!AnswersCounted(r)' /\ (Pipe!Live(r)' => Pipe!Live(r))
    BY <1>2 DEF Leaving
  <2>2. QED
    BY <1>1, <1>4, <2>1, StaysSound
<1>6. RequestSteps(r) /\ RequestTyped(r)'
  <2>1. /\ ChangedAt(outer', outer, r) /\ ChangedAt(inner', inner, r)
        /\ ChangedAt(answers', answers, r) /\ answers'[r] \in Seq(Nat)
        /\ outer'[r] \in {"idle", "chain", "select", "returned"}
        /\ inner'[r] \in {"none", "chain", "ended"}
    BY UnwindChanges, WriteChanges
  <2>2. QED
    BY <1>1, <1>3, <2>1, KeptAt DEF RequestSteps, RequestTyped
<1>7. QED
  BY <1>5, <1>6, OneRequest

(* It ends.                                                                *)
LEMMA HandlerEnds ==
  ASSUME Pipe!IInv, NEW r \in Requests, Pipe!Respond(r) \/ Pipe!Panic(r)
  PROVE  Pipe!IInv'
<1>1. /\ 200 \in Nat /\ 200 \notin Pipe!Rejections
      /\ 500 \in Nat /\ 500 \notin Pipe!Rejections
  BY DEF Pipe!Rejections
<1>2. CASE Pipe!Respond(r)
  <2>1. /\ Pipe!At(r, "handler") /\ handling[r] = "runs"
        /\ handling' = [handling EXCEPT ![r] = "done"]
        /\ Pipe!Write(r, 200) /\ Pipe!Unwind(r)
        /\ UNCHANGED <<installed, request, at, stopped, body, user, sees>>
    BY <1>2 DEF Pipe!Respond
  <2>2. QED
    BY <1>1, <2>1, RespondSound
<1>3. CASE Pipe!Panic(r) /\ inner[r] # "chain"
  <2>1. /\ Pipe!At(r, "handler") /\ handling[r] = "runs"
        /\ handling' = [handling EXCEPT ![r] = "panicked"]
        /\ Pipe!Write(r, 500) /\ Pipe!Unwind(r)
        /\ UNCHANGED <<installed, request, at, stopped, body, user, sees>>
    BY <1>3 DEF Pipe!Panic
  <2>2. QED
    BY <1>1, <2>1, RespondSound
<1>4. CASE Pipe!Panic(r) /\ inner[r] = "chain"
  <2>1. /\ handling[r] = "runs" /\ handling' = [handling EXCEPT ![r] = "panicked"]
        /\ UNCHANGED <<installed, request, at, outer, inner, stopped, body, user, answers,
                       sees>>
    BY <1>4 DEF Pipe!Panic
  <2>2. RequestTyped(r) /\ Pipe!RequestSound(r) /\ Pipe!TypeOK /\ Pipe!HandledLast(r)
    BY IsTyped DEF Pipe!IInv, Pipe!RequestSound
  <2>3. ChangedAt(handling', handling, r) /\ handling'[r] = "panicked"
    <3>1. handling \in [Requests -> {"no", "runs", "panicked", "done"}]
      BY <2>2 DEF Pipe!TypeOK
    <3>2. QED
      BY <2>1, <3>1 DEF ChangedAt
  <2>4. Pipe!HandledLast(r)'
    BY <1>1, <2>1, <2>2, KeptHandled DEF RequestTyped
  <2>5. Pipe!AnswersCounted(r)' /\ (Pipe!Live(r)' => Pipe!Live(r))
    <3>1. \A m : Pipe!Passed(r, m)' <=> Pipe!Passed(r, m)
      BY <2>1 DEF Pipe!Passed, Pipe!Chain, Pipe!Baseline, Pipe!Protected
    <3>2. QED
      BY <2>1, <2>2, <3>1 DEF Pipe!RequestSound, Pipe!AnswersCounted, Pipe!Live
  <2>6. Pipe!RequestSound(r)' /\ at'[r] \in Handlers
    BY <2>1, <2>2, <2>4, <2>5, StaysSound
  <2>7. RequestSteps(r) /\ RequestTyped(r)'
    BY <2>1, <2>2, <2>3, KeptAt DEF RequestSteps, RequestTyped
  <2>8. QED
    BY <2>6, <2>7, OneRequest
<1>5. QED
  BY <1>2, <1>3, <1>4

(* After the deadline the goroutine of the request answers 504, whether    *)
(* that of Timeout has answered or not.                                    *)
LEMMA TimesOutSound ==
  ASSUME Pipe!IInv, NEW r \in Requests, Pipe!TimesOut(r)
  PROVE  Pipe!IInv'
<1>1. /\ outer[r] = "select" /\ Pipe!Write(r, 504)
      /\ stopped' = [stopped EXCEPT ![r] = TRUE]
      /\ outer' = [outer EXCEPT ![r] = "returned"]
      /\ UNCHANGED <<installed, request, at, inner, body, user, handling, sees>>
  BY DEF Pipe!TimesOut
<1>2. /\ RequestTyped(r) /\ Pipe!RequestSound(r) /\ Pipe!TypeOK /\ Pipe!AnswersCounted(r)
      /\ Pipe!HandledLast(r)
  BY IsTyped DEF Pipe!IInv, Pipe!RequestSound
<1>3. /\ ChangedAt(stopped', stopped, r) /\ stopped'[r] = TRUE
      /\ ChangedAt(outer', outer, r) /\ outer'[r] = "returned"
  <2>1. /\ stopped \in [Requests -> BOOLEAN]
        /\ outer \in [Requests -> {"idle", "chain", "select", "returned"}]
    BY <1>2 DEF Pipe!TypeOK
  <2>2. QED
    BY <1>1, <2>1 DEF ChangedAt
<1>4. 504 \in Nat /\ 504 \notin Pipe!Rejections
  BY DEF Pipe!Rejections
<1>5. /\ ChangedAt(answers', answers, r) /\ answers[r] \in Seq(Nat)
      /\ answers'[r] = Append(answers[r], 504)
  BY <1>1, <1>2, <1>4, WriteChanges DEF RequestTyped
<1>6. /\ answers'[r] \in Seq(Nat) /\ answers'[r] # <<>>
      /\ 504 \in Pipe!Range(answers'[r])
  <2> DEFINE s == answers[r]
  <2>1. s \in Seq(Nat) /\ answers'[r] = Append(s, 504)
    BY <1>5
  <2> HIDE DEF s
  <2>2. /\ Append(s, 504) \in Seq(Nat) /\ Append(s, 504) # <<>>
        /\ Pipe!Range(Append(s, 504)) = Pipe!Range(s) \cup {504}
    BY <1>4, <2>1, WebRange
  <2>3. QED
    BY <2>1, <2>2
<1>7. Pipe!AnswersCounted(r)' /\ (Pipe!Live(r)' => Pipe!Live(r))
  <2>1. \A m : Pipe!Passed(r, m)' <=> Pipe!Passed(r, m)
    BY <1>1 DEF Pipe!Passed, Pipe!Chain, Pipe!Baseline, Pipe!Protected
  <2>2. inner[r] \in {"chain", "ended"} /\ inner'[r] = inner[r]
    BY <1>1, <1>2 DEF Pipe!AnswersCounted, RequestTyped
  <2>3. CASE inner[r] = "chain"
    <3>1. answers[r] = <<>>
      BY <1>1, <1>2, <2>3 DEF Pipe!AnswersCounted, Pipe!Live
    <3>2. answers'[r] = <<504>>
      BY <1>4, <1>5, <3>1, ShortAnswers
    <3>3. QED
      BY <1>2, <1>3, <1>6, <2>1, <2>2, <2>3, <3>2 DEF Pipe!AnswersCounted, Pipe!Live
  <2>4. CASE inner[r] = "ended"
    BY <1>2, <1>3, <1>6, <2>1, <2>2, <2>4 DEF Pipe!AnswersCounted, Pipe!Live
  <2>5. QED
    BY <2>2, <2>3, <2>4
<1>8. Pipe!HandledLast(r)'
  BY <1>1, <1>2, <1>4, <1>5, KeptHandled
<1>9. Pipe!RequestSound(r)' /\ at'[r] \in Handlers
  BY <1>1, <1>2, <1>7, <1>8, StaysSound
<1>10. RequestSteps(r) /\ RequestTyped(r)'
  <2>1. answers'[r] \in Seq(Nat) /\ ChangedAt(answers', answers, r)
    BY <1>5, <1>6
  <2>2. RequestSteps(r)
    BY <1>1, <1>3, <2>1, KeptAt DEF RequestSteps
  <2>3. RequestTyped(r)'
    BY <1>1, <1>2, <1>3, <2>1 DEF RequestTyped
  <2>4. QED
    BY <2>2, <2>3
<1>11. QED
  BY <1>9, <1>10, OneRequest

(* It returns when that of Timeout has ended, and so answered.             *)
LEMMA JoinsSound ==
  ASSUME Pipe!IInv, NEW r \in Requests, Pipe!Joins(r)
  PROVE  Pipe!IInv'
<1>1. /\ outer[r] = "select" /\ inner[r] = "ended"
      /\ outer' = [outer EXCEPT ![r] = "returned"]
      /\ UNCHANGED <<installed, request, at, inner, stopped, body, user, answers, handling,
                     sees>>
  BY DEF Pipe!Joins
<1>2. /\ RequestTyped(r) /\ Pipe!RequestSound(r) /\ Pipe!TypeOK /\ Pipe!AnswersCounted(r)
      /\ Pipe!HandledLast(r)
  BY IsTyped DEF Pipe!IInv, Pipe!RequestSound
<1>3. outer'[r] = "returned" /\ ChangedAt(outer', outer, r)
  <2>1. outer \in [Requests -> {"idle", "chain", "select", "returned"}]
    BY <1>2 DEF Pipe!TypeOK
  <2>2. QED
    BY <1>1, <2>1 DEF ChangedAt
<1>4. answers[r] # <<>>
  <2>1. Len(answers[r]) = 1
    BY <1>1, <1>2 DEF Pipe!AnswersCounted
  <2>2. QED
    BY <2>1, ShortAnswers
<1>5. Pipe!AnswersCounted(r)' /\ (Pipe!Live(r)' => Pipe!Live(r))
  <2>1. \A m : Pipe!Passed(r, m)' <=> Pipe!Passed(r, m)
    BY <1>1 DEF Pipe!Passed, Pipe!Chain, Pipe!Baseline, Pipe!Protected
  <2>2. QED
    BY <1>1, <1>2, <1>3, <1>4, <2>1 DEF Pipe!AnswersCounted, Pipe!Live
<1>6. Pipe!HandledLast(r)'
  <2>1. 0 \in Nat /\ 0 \notin Pipe!Rejections
    BY DEF Pipe!Rejections
  <2>2. QED
    BY <1>1, <1>2, <2>1, KeptHandled DEF RequestTyped
<1>7. Pipe!RequestSound(r)' /\ at'[r] \in Handlers
  BY <1>1, <1>2, <1>5, <1>6, StaysSound
<1>8. RequestSteps(r) /\ RequestTyped(r)'
  BY <1>1, <1>2, <1>3, KeptAt DEF RequestSteps, RequestTyped
<1>9. QED
  BY <1>7, <1>8, OneRequest

(* Steps that the invariant says nothing of.                               *)
LEMMA WebStutters ==
  ASSUME Pipe!IInv,
         UNCHANGED <<installed, request, at, outer, inner, stopped, body, user, answers,
                     handling, sees>>
  PROVE  Pipe!IInv'
<1>1. Pipe!TypeOK'
  BY DEF Pipe!IInv, Pipe!TypeOK, Pipe!Chain, Pipe!Baseline, Pipe!Protected
<1>2. \A r \in Requests : Pipe!RequestSound(r)'
  BY UntouchedSound DEF Pipe!IInv, Untouched
<1>3. QED
  BY <1>1, <1>2 DEF Pipe!IInv

(* Each step keeps the invariant of the requests.                          *)
LEMMA WebNext == Pipe!IInv /\ [Pipe!Next]_Pipe!webPipeVars => Pipe!IInv'
<1> SUFFICES ASSUME Pipe!IInv, [Pipe!Next]_Pipe!webPipeVars
             PROVE  Pipe!IInv'
  OBVIOUS
<1>1. ASSUME NEW r \in Requests, Pipe!Expire(r)
      PROVE  Pipe!IInv'
  BY <1>1, WebStutters DEF Pipe!Expire
<1>2. CASE UNCHANGED Pipe!webPipeVars
  BY <1>2, WebStutters DEF Pipe!webPipeVars
<1>3. QED
  BY <1>1, <1>2, PassSound, LimitSound, BodyLimitSound, TimeoutSound, SQLGuardSound,
     AuthSound, HandleSound, JoinsSound, ArriveSound, HandlerEnds, TimesOutSound
     DEF Pipe!Next, Pipe!Step

(* No request has arrived at first.                                        *)
LEMMA WebInitial == Pipe!Init => Pipe!IInv
<1> SUFFICES ASSUME Pipe!Init
             PROVE  Pipe!IInv
  OBVIOUS
<1>1. /\ Len(Pipe!Chain) \in Nat /\ 1 \in 1..Len(Pipe!Chain)
      /\ Pipe!Chain[1] = "PanicRecovery"
  BY ChainIsOrdered DEF ChainOrdered
<1>2. \A r \in Requests : Pipe!RequestOK(request[r])
  BY ComponentsAssumption DEF Pipe!Init, Pipe!WebPipelineAssumption
<1>3. Pipe!TypeOK
  <2>1. /\ installed \subseteq {"baseline", "auth", "maxBody"} /\ request \in [Requests -> Kinds]
        /\ at \in [Requests -> 1..Len(Pipe!Chain)]
    BY <1>1 DEF Pipe!Init
  <2>2. /\ outer \in [Requests -> {"idle", "chain", "select", "returned"}]
        /\ inner \in [Requests -> {"none", "chain", "ended"}]
        /\ stopped \in [Requests -> BOOLEAN]
    BY DEF Pipe!Init
  <2>3. body \in [Requests -> [size : Nat, limited : BOOLEAN]]
    BY <1>2 DEF Pipe!Init, Pipe!RequestOK
  <2>4. /\ user \in [Requests -> [org : Nat, dept : Nat]]
        /\ answers \in [Requests -> Seq(Nat)]
    BY ShortAnswers DEF Pipe!Init, Pipe!Anonymous
  <2>5. /\ handling \in [Requests -> {"no", "runs", "panicked", "done"}]
        /\ sees \in [Requests -> SUBSET Rows]
    BY DEF Pipe!Init
  <2>6. QED
    BY <2>1, <2>2, <2>3, <2>4, <2>5 DEF Pipe!TypeOK
<1>4. ASSUME NEW r \in Requests
      PROVE  Pipe!RequestSound(r)
  <2>1. /\ at[r] = 1 /\ outer[r] = "idle" /\ inner[r] = "none" /\ stopped[r] = FALSE
        /\ body[r].size = request[r].size /\ answers[r] = <<>> /\ handling[r] = "no"
    BY DEF Pipe!Init
  <2>2. ASSUME NEW i \in Handlers
        PROVE  ~ Pipe!Passed(r, Pipe!Chain[i])
    BY <1>1, <2>1, <2>2 DEF Handlers, Pipe!Passed
  <2>3. Pipe!Baseline => ~ Pipe!Passed(r, "SQLGuard") /\ ~ Pipe!Passed(r, "BodyLimit")
    BY <2>2, LimitedBeforeSearched
  <2>4. Pipe!Protected => ~ Pipe!Passed(r, "Auth")
    BY <2>2, AuthInstalled
  <2>5. Pipe!AnswersCounted(r)
    BY <2>1, ShortAnswers DEF Pipe!AnswersCounted
  <2>6. Pipe!BodySearched(r)
    BY <2>1, <2>3 DEF Pipe!BodySearched
  <2>7. Pipe!Authorised(r)
    BY <2>4 DEF Pipe!Authorised
  <2>8. Pipe!HandledLast(r)
    BY <2>1 DEF Pipe!HandledLast
  <2>9. QED
    BY <2>5, <2>6, <2>7, <2>8 DEF Pipe!RequestSound
<1>5. QED
  BY <1>3, <1>4 DEF Pipe!IInv

(* A request that is handled has passed every other handler.               *)
LEMMA WebNow == Pipe!IInv => RequestsGuarded
<1> SUFFICES ASSUME Pipe!IInv, NEW r \in Requests
             PROVE  /\ handling[r] # "no" =>
                        /\ Pipe!Baseline =>
                             /\ Pipe!WithinLimit(r)
                             /\ body[r].size <= ReadLimit
                             /\ request[r].sql \in {"none", "tail"}
                             /\ request[r].sql = "tail" => request[r].size > ReadLimit
                        /\ (Pipe!Protected /\ ~ request[r].public) =>
                             /\ request[r].token = "valid" /\ request[r].scope
                             /\ \A row \in sees[r] :
                                  /\ request[r].user.org \in {0, row.org}
                                  /\ request[r].user.dept \in {0, row.dept}
                        /\ Pipe!Range(answers[r]) \cap Pipe!Rejections = {}
                    /\ Len(answers[r]) > 1 => 504 \in Pipe!Range(answers[r])
                    /\ outer[r] = "returned" => answers[r] # <<>>
  BY DEF RequestsGuarded, Pipe!RequestsGuarded
<1>1. Pipe!RequestSound(r) /\ at[r] \in Handlers
  BY IsTyped
<1>2. ASSUME handling[r] # "no"
      PROVE  Pipe!Passed(r, "SQLGuard") /\ Pipe!Passed(r, "Auth")
  BY <1>1, <1>2, NotPassed DEF Pipe!RequestSound, Pipe!HandledLast
<1>3. ASSUME handling[r] # "no", Pipe!Protected, ~ request[r].public
      PROVE  /\ request[r].token = "valid" /\ request[r].scope
             /\ \A row \in sees[r] :
                  /\ request[r].user.org \in {0, row.org}
                  /\ request[r].user.dept \in {0, row.dept}
  <2>1. request[r].token = "valid" /\ request[r].scope
    BY <1>1, <1>2, <1>3 DEF Pipe!RequestSound, Pipe!Authorised
  <2>2. sees[r] = Pipe!Condition(request[r].user)
    BY <1>1, <1>3 DEF Pipe!RequestSound, Pipe!HandledLast
  <2>3. QED
    BY <2>1, <2>2 DEF Pipe!Condition
<1>4. QED
  BY <1>1, <1>2, <1>3 DEF Pipe!RequestSound, Pipe!AnswersCounted, Pipe!BodySearched,
                          Pipe!HandledLast

(* For any requests, limits and rows, and whenever deadlines pass, a       *)
(* request is handled only within the limits, searched and with the rights *)
(* of its route, sees what its user may see, and is answered once, or      *)
(* twice when its deadline has passed.                                     *)
THEOREM RequestsGuardedAlways == Pipe!Spec => []RequestsGuarded
BY WebInitial, WebNext, WebNow, PTL DEF Pipe!Spec

-----------------------------------------------------------------------------
(* A set of natural numbers that is not empty has a least element: the     *)
(* induction of the proofs below, by a least counterexample.               *)
LEMMA LeastNatural ==
  ASSUME NEW T, T \subseteq Nat, T # {}
  PROVE  \E n \in T : \A m \in T : n <= m
<1> DEFINE Less == OpToRel(<, Nat)
<1>1. IsWellFoundedOn(Less, Nat)
  BY NatLessThanWellFounded, Zenon
<1>2. \A x, y \in Nat : x < y => <<x, y>> \in Less
  BY Zenon DEF OpToRel
<1> HIDE DEF Less
<1>3. \E x \in T : \A y \in T : ~ (<<y, x>> \in Less)
  BY <1>1, WFMin
<1>4. \A x, y \in Nat : x < y \/ y <= x
  OBVIOUS
<1> QED
  BY <1>2, <1>3, <1>4

(* The function of FlattenSeq on the first n members of s.                 *)
Flattens(f, s, n) ==
  f = [i \in 1 .. n |-> IF i = 1 THEN s[i] ELSE f[i - 1] \o s[i]]

(* There is one for any n,                                                 *)
LEMMA FlattenExists ==
  ASSUME NEW s, NEW n \in Nat
  PROVE  \E f : Flattens(f, s, n)
<1> DEFINE T == {m \in Nat : ~ \E f : Flattens(f, s, m)}
<1> SUFFICES ASSUME T # {} PROVE FALSE
  BY Zenon
<1>1. T \subseteq Nat
  BY Zenon
<1>2. PICK m \in T : \A k \in T : m <= k
  BY <1>1, LeastNatural, Zenon
<1>3. m \in Nat
  BY <1>1
<1>4. CASE m = 0
  <2>1. Flattens([i \in 1 .. 0 |-> 0], s, 0)
    BY DEF Flattens
  <2> QED
    BY <2>1, <1>4, Zenon
<1>5. CASE m # 0
  <2>1. m - 1 \in Nat /\ ~ (m <= m - 1)
    BY <1>3, <1>5
  <2>2. PICK f : Flattens(f, s, m - 1)
    BY <2>1, <1>2, Zenon
  <2>3. DOMAIN f = 1 .. (m - 1)
    BY <2>2 DEF Flattens
  <2>4. \A i \in 1 .. (m - 1) : f[i] = IF i = 1 THEN s[i] ELSE f[i - 1] \o s[i]
    BY <2>2, Zenon DEF Flattens
  <2> DEFINE last == IF m = 1 THEN s[m] ELSE f[m - 1] \o s[m]
  <2> DEFINE g == [i \in 1 .. m |-> IF i = m THEN last ELSE f[i]]
  <2> HIDE DEF last
  <2>5. \A i \in 1 .. m : i # m => i \in 1 .. (m - 1)
    BY <1>3
  <2>6. \A i \in 1 .. m : i # 1 => i - 1 \in 1 .. m /\ i - 1 # m
    BY <1>3
  <2>7. \A i \in 1 .. m : g[i] = IF i = 1 THEN s[i] ELSE g[i - 1] \o s[i]
    <3> SUFFICES ASSUME NEW i \in 1 .. m
                 PROVE  g[i] = IF i = 1 THEN s[i] ELSE g[i - 1] \o s[i]
      BY Zenon
    <3>1. i # 1 => g[i - 1] = f[i - 1]
      BY <2>6
    <3>2. CASE i = m
      BY <3>1, <3>2, Zenon DEF last
    <3>3. CASE i # m
      BY <3>1, <3>3, <2>4, <2>5, Zenon
    <3> QED
      BY <3>2, <3>3
  <2>8. Flattens(g, s, m)
    <3> DEFINE h == [i \in 1 .. m |-> IF i = 1 THEN s[i] ELSE g[i - 1] \o s[i]]
    <3>1. g = [i \in 1 .. m |-> g[i]]
      OBVIOUS
    <3> HIDE DEF g
    <3>2. [i \in 1 .. m |-> g[i]] = h
      BY <2>7, Zenon
    <3> QED
      BY <3>1, <3>2, Zenon DEF Flattens
  <2> QED
    BY <2>8, Zenon
<1> QED
  BY <1>4, <1>5

(* and one that goes further agrees with it.                               *)
LEMMA FlattenAgrees ==
  ASSUME NEW s, NEW t, NEW f, NEW g, NEW n \in Nat, NEW k \in Nat, n <= k,
         \A i \in 1 .. n : s[i] = t[i],
         Flattens(f, s, n), Flattens(g, t, k)
  PROVE  \A i \in 1 .. n : f[i] = g[i]
<1> DEFINE T == {m \in 1 .. n : f[m] # g[m]}
<1> SUFFICES ASSUME T # {} PROVE FALSE
  BY Zenon
<1>1. T \subseteq Nat
  OBVIOUS
<1>2. PICK m \in T : \A j \in T : m <= j
  BY <1>1, LeastNatural, Zenon
<1>3. m \in 1 .. n /\ m \in 1 .. k /\ f[m] # g[m]
  OBVIOUS
<1>4. f[m] = IF m = 1 THEN s[m] ELSE f[m - 1] \o s[m]
  BY <1>3, Zenon DEF Flattens
<1>5. g[m] = IF m = 1 THEN t[m] ELSE g[m - 1] \o t[m]
  BY <1>3, Zenon DEF Flattens
<1>6. m # 1
  BY <1>3, <1>4, <1>5, Zenon
<1>7. m - 1 \in 1 .. n /\ ~ (m <= m - 1)
  BY <1>3, <1>6
<1>8. f[m - 1] = g[m - 1]
  BY <1>2, <1>7, Zenon
<1> QED
  BY <1>3, <1>4, <1>5, <1>6, <1>8, Zenon

LEMMA FlattenValue ==
  ASSUME NEW s, NEW f, Len(s) \in Nat, Len(s) # 0, Flattens(f, s, Len(s))
  PROVE  Build!FlattenSeq(s) = f[Len(s)]
<1> DEFINE flatten == CHOOSE g : Flattens(g, s, Len(s))
<1>1. Flattens(flatten, s, Len(s))
  BY Zenon
<1>2. Build!FlattenSeq(s) = flatten[Len(s)]
  BY DEF Build!FlattenSeq, Flattens
<1> HIDE DEF flatten
<1>3. Len(s) <= Len(s) /\ Len(s) \in 1 .. Len(s)
  OBVIOUS
<1>4. \A i \in 1 .. Len(s) : flatten[i] = f[i]
  BY <1>1, <1>3, FlattenAgrees
<1> QED
  BY <1>2, <1>3, <1>4, Zenon
(* What the concatenation of a sequence of sequences is of: empty, of one  *)
(* more, and its members.                                                  *)
LEMMA FlattenEmpty ==
  Build!FlattenSeq(<<>>) = <<>>
  BY DEF Build!FlattenSeq

LEMMA FlattenType ==
  ASSUME NEW S, NEW s \in Seq(Seq(S))
  PROVE  Build!FlattenSeq(s) \in Seq(S)
<1>1. Len(s) \in Nat /\ \A i \in 1 .. Len(s) : s[i] \in Seq(S)
  OBVIOUS
<1>2. CASE Len(s) = 0
  <2>1. s = <<>>
    BY <1>2
  <2>2. <<>> \in Seq(S)
    OBVIOUS
  <2> QED
    BY <2>1, <2>2, FlattenEmpty, Zenon
<1>3. CASE Len(s) # 0
  <2>1. PICK f : Flattens(f, s, Len(s))
    BY <1>1, FlattenExists, Zenon
  <2>2. Build!FlattenSeq(s) = f[Len(s)]
    BY <1>1, <1>3, <2>1, FlattenValue, Zenon
  <2> DEFINE T == {m \in 1 .. Len(s) : f[m] \notin Seq(S)}
  <2>i. Len(s) \in 1 .. Len(s)
    BY <1>1, <1>3
  <2> SUFFICES ASSUME T # {} PROVE FALSE
    BY <2>2, <2>i, Zenon
  <2>3. T \subseteq Nat
    BY <1>1
  <2>4. PICK m \in T : \A j \in T : m <= j
    BY <2>3, LeastNatural, Zenon
  <2>5. m \in 1 .. Len(s) /\ f[m] \notin Seq(S)
    OBVIOUS
  <2>6. f[m] = IF m = 1 THEN s[m] ELSE f[m - 1] \o s[m]
    BY <2>1, <2>5, Zenon DEF Flattens
  <2>7. m # 1
    BY <2>5, <2>6, <1>1, Zenon
  <2>8. m - 1 \in 1 .. Len(s) /\ ~ (m <= m - 1)
    BY <2>5, <2>7, <1>1
  <2>9. f[m - 1] \in Seq(S) /\ s[m] \in Seq(S)
    BY <2>4, <2>5, <2>8, <1>1, Zenon
  <2>10. f[m - 1] \o s[m] \in Seq(S)
    BY <2>9
  <2> QED
    BY <2>5, <2>6, <2>7, <2>10, Zenon
<1> QED
  BY <1>2, <1>3

LEMMA FlattenAppend ==
  ASSUME NEW S, NEW s \in Seq(Seq(S)), NEW x \in Seq(S)
  PROVE  Build!FlattenSeq(Append(s, x)) = Build!FlattenSeq(s) \o x
<1> DEFINE t == Append(s, x)
           n == Len(s)
<1>s. s \in Seq(Seq(S)) /\ Append(s, x) \in Seq(Seq(S))
  OBVIOUS
<1>1. n \in Nat /\ Len(t) = n + 1 /\ t[n + 1] = x /\ \A i \in 1 .. n : s[i] = t[i]
  BY <1>s
<1> DEFINE k == n + 1
<1>2. k \in Nat /\ k # 0 /\ n <= k /\ k \in 1 .. k /\ k - 1 = n
  BY <1>1
<1>0. Len(t) = k /\ t[k] = x
  BY <1>1
<1> HIDE DEF t, n, k
<1>3. PICK g : Flattens(g, t, k)
  BY <1>2, FlattenExists, Zenon
<1>4. Build!FlattenSeq(t) = g[k]
  BY <1>0, <1>2, <1>3, FlattenValue, Zenon
<1>5. g[k] = IF k = 1 THEN x ELSE g[n] \o x
  BY <1>0, <1>2, <1>3, Zenon DEF Flattens
<1>6. CASE n = 0
  <2>1. s = <<>>
    BY <1>6 DEF n
  <2>2. <<>> \o x = x
    OBVIOUS
  <2>3. k = 1
    BY <1>6 DEF k
  <2> QED
    BY <2>1, <2>2, <2>3, <1>4, <1>5, FlattenEmpty, Zenon DEF t
<1>7. CASE n # 0
  <2>1. PICK f : Flattens(f, s, n)
    BY <1>1, FlattenExists, Zenon
  <2>2. Build!FlattenSeq(s) = f[n]
    BY <1>1, <1>7, <2>1, FlattenValue, Zenon DEF n
  <2>3. \A i \in 1 .. n : f[i] = g[i]
    BY <1>1, <1>2, <1>3, <2>1, FlattenAgrees
  <2>4. n \in 1 .. n /\ k # 1
    BY <1>1, <1>7 DEF k
  <2>5. f[n] = g[n]
    BY <2>3, <2>4, Zenon
  <2> QED
    BY <2>2, <2>4, <2>5, <1>4, <1>5, Zenon DEF t
<1> QED
  BY <1>6, <1>7

-----------------------------------------------------------------------------
(* What one more call adds to the history.                                 *)
AutoOf(c, m) == c.op = "AutoConfigure" /\ m \in c.models

LEMMA CallsExtend ==
  ASSUME Build!TypeOK, NEW c, calls' = Append(calls, c)
  PROVE  /\ Len(calls) \in Nat /\ Len(calls) + 1 \notin DOMAIN calls
         /\ DOMAIN calls = 1 .. Len(calls)
         /\ DOMAIN calls' = DOMAIN calls \cup {Len(calls) + 1}
         /\ \A i \in DOMAIN calls : calls'[i] = calls[i] /\ i < Len(calls) + 1
         /\ calls'[Len(calls) + 1] = c
         /\ calls' \in Seq(Build!Range(calls'))
<1> DEFINE R == Build!Range(calls)
<1>1. calls \in Seq(R)
  BY DEF Build!TypeOK
<1> HIDE DEF R
<1>c. calls \in Seq(R \cup {c})
  BY <1>1
<1>2. /\ Len(calls) \in Nat /\ DOMAIN calls = 1 .. Len(calls)
      /\ calls' \in Seq(R \cup {c}) /\ Len(calls') = Len(calls) + 1
      /\ \A i \in 1 .. Len(calls) : calls'[i] = calls[i]
      /\ calls'[Len(calls) + 1] = c
  BY <1>c
<1>3. DOMAIN calls' = 1 .. (Len(calls) + 1)
  BY <1>2
<1>4. calls' \in Seq(Build!Range(calls'))
  <2> DEFINE Q == {calls'[i] : i \in DOMAIN calls'}
  <2>1. \A i \in 1 .. (Len(calls) + 1) : calls'[i] \in Q
    BY <1>3
  <2> HIDE DEF Q
  <2>2. calls' \in Seq(Q)
    BY <1>2, <2>1, SeqDef
  <2> QED
    BY <2>2, Zenon DEF Q, Build!Range
<1> QED
  BY <1>2, <1>3, <1>4

NextCall == Len(calls) + 1

LEMMA CallsOfExtend ==
  ASSUME Build!TypeOK, NEW c, calls' = Append(calls, c), NEW op
  PROVE  /\ Build!CallsOf(op)' =
              Build!CallsOf(op) \cup (IF c.op = op THEN {NextCall} ELSE {})
         /\ \A i \in Build!CallsOf(op) :
              calls'[i] = calls[i] /\ i # NextCall /\ i < NextCall /\ ~ (NextCall < i)
         /\ calls'[NextCall] = c /\ ~ (NextCall < NextCall)
<1>1. /\ NextCall \notin DOMAIN calls /\ ~ (NextCall < NextCall)
      /\ DOMAIN calls' = DOMAIN calls \cup {NextCall}
      /\ \A i \in DOMAIN calls :
           calls'[i] = calls[i] /\ i < NextCall /\ ~ (NextCall < i)
      /\ calls'[NextCall] = c
  BY CallsExtend DEF NextCall
<1>2. \A i : i \in Build!CallsOf(op)' <=>
        i \in Build!CallsOf(op) \/ (c.op = op /\ i = NextCall)
  BY <1>1, Zenon DEF Build!CallsOf
<1>3. Build!CallsOf(op) \subseteq DOMAIN calls
  BY Zenon DEF Build!CallsOf
<1> QED
  BY <1>1, <1>2, <1>3

LEMMA AutosExtend ==
  ASSUME Build!TypeOK, NEW c, calls' = Append(calls, c), NEW m
  PROVE  /\ Build!Autos(m)' =
              Build!Autos(m) \cup (IF AutoOf(c, m) THEN {NextCall} ELSE {})
         /\ \A i \in Build!Autos(m) :
              calls'[i] = calls[i] /\ i # NextCall /\ i < NextCall /\ ~ (NextCall < i)
<1>1. /\ NextCall \notin DOMAIN calls
      /\ DOMAIN calls' = DOMAIN calls \cup {NextCall}
      /\ \A i \in DOMAIN calls :
           calls'[i] = calls[i] /\ i < NextCall /\ ~ (NextCall < i)
      /\ calls'[NextCall] = c
  BY CallsExtend DEF NextCall
<1>2. \A i : i \in Build!Autos(m)' <=>
        i \in Build!Autos(m) \/ (AutoOf(c, m) /\ i = NextCall)
  BY <1>1, Zenon DEF Build!Autos, AutoOf
<1>3. Build!Autos(m) \subseteq DOMAIN calls
  BY Zenon DEF Build!Autos
<1> QED
  BY <1>1, <1>2, <1>3

-----------------------------------------------------------------------------
(* What one call c changes of the builder, field by field: what every      *)
(* action of the builder function comes to, and what the parts of the      *)
(* invariant are kept by.                                                  *)
DatabaseFollows(c) ==
  \/ /\ c.op = "EnableDb"
     /\ builder'.IsEnableDB = TRUE /\ builder'.dbConfig = "pg"
     /\ builder'.databaseConfig = builder.databaseConfig
  \/ /\ c.op = "EnableDatabase"
     /\ builder'.IsEnableDB = TRUE /\ builder'.databaseConfig = c.arg
     /\ builder'.dbConfig = builder.dbConfig
  \/ /\ AutoOf(c, "database")
     /\ builder'.IsEnableDB = TRUE /\ builder'.databaseConfig = "auto"
     /\ builder'.dbConfig = builder.dbConfig
  \/ /\ c.op \notin {"EnableDb", "EnableDatabase"} /\ ~ AutoOf(c, "database")
     /\ builder'.IsEnableDB = builder.IsEnableDB
     /\ builder'.dbConfig = builder.dbConfig
     /\ builder'.databaseConfig = builder.databaseConfig

StoresFollow(c) ==
  /\ \/ c.op = "EnableCache" /\ builder'.redis = "redis"
     \/ AutoOf(c, "cache")
     \/ c.op # "EnableCache" /\ builder'.redis = builder.redis
  /\ \/ /\ c.op = "EnableMongoDB"
        /\ builder'.mongo = IF c.arg = "nil" THEN builder.mongo ELSE c.arg
     \/ AutoOf(c, "mongo") /\ builder'.mongo = "auto"
     \/ /\ c.op # "EnableMongoDB" /\ ~ AutoOf(c, "mongo")
        /\ builder'.mongo = builder.mongo

CallbacksFollow(c) ==
  /\ builder'.seeds =
       IF c.op = "SetSeeds" THEN builder.seeds \o Build!NotNil(c.arg)
       ELSE builder.seeds
  /\ builder'.beforeSetups =
       IF c.op = "BeforeSetup" THEN builder.beforeSetups \o Build!NotNil(c.arg)
       ELSE builder.beforeSetups
  /\ builder'.IsRunningCronJob <=>
       \/ builder.IsRunningCronJob \/ c.op = "InitCronJob" \/ AutoOf(c, "cron")
       \/ Len(builder'.seeds) > Len(builder.seeds)
  /\ builder'.hooks =
       IF c.op = "OnShutdown" /\ c.arg = <<"queue", "stop">>
       THEN Append(builder.hooks, "queue") ELSE builder.hooks

ServicesFollow(c) ==
  /\ \/ c.op = "EnableWeb" /\ builder'.irisApp = c.arg /\ c.arg # "nil"
     \/ /\ AutoOf(c, "web")
        /\ builder'.irisApp = IF builder.irisApp = "nil" THEN ":auto" ELSE builder.irisApp
     \/ /\ c.op # "EnableWeb" /\ ~ AutoOf(c, "web")
        /\ builder'.irisApp = builder.irisApp
  /\ \/ c.op = "EnableAdminRoutes" /\ builder'.adminRoutes # {}
     \/ c.op = "EnableAdmin" \/ AutoOf(c, "admin")
     \/ c.op # "EnableAdminRoutes" /\ builder'.adminRoutes = builder.adminRoutes

LoggerFollows(c) ==
  \/ /\ c.op = "InitLog" /\ builder'.IsEnableZapLogs = TRUE
     /\ \/ builder'.logInitErr = FALSE /\ Build!LoggerMade'
        \/ builder'.logInitErr = TRUE
  \/ /\ c.op # "InitLog" /\ builder'.IsEnableZapLogs = TRUE
     /\ builder'.logInitErr = FALSE /\ Build!LoggerMade'
  \/ /\ c.op # "InitLog" /\ logger' = logger
     /\ builder'.IsEnableZapLogs = builder.IsEnableZapLogs
     /\ builder'.logInitErr = builder.logInitErr

TypeFollows(c) ==
  /\ builder' = [f \in Build!Fields |-> builder'[f]]
  /\ logger' = [f \in Build!LoggerFields |-> logger'[f]]
  /\ c.op \in {"SetSeeds", "BeforeSetup"} => c.arg \in Seq(Build!Callbacks)

Follows(c) ==
  /\ calls' = Append(calls, c)
  /\ outcome = "none" /\ outcome' = outcome
  /\ TypeFollows(c) /\ DatabaseFollows(c) /\ StoresFollow(c)
  /\ CallbacksFollow(c) /\ ServicesFollow(c) /\ LoggerFollows(c)

LEMMA DatabaseKept ==
  ASSUME Build!TypeOK, Build!DatabaseAsked, NEW c, calls' = Append(calls, c),
         DatabaseFollows(c)
  PROVE  Build!DatabaseAsked'
<1> DEFINE D == Build!CallsOf("EnableDatabase")
           E == Build!CallsOf("EnableDb")
           A == Build!Autos("database")
<1>1. /\ D' = D \cup (IF c.op = "EnableDatabase" THEN {NextCall} ELSE {})
      /\ \A i \in D :
           calls'[i] = calls[i] /\ i # NextCall /\ i < NextCall /\ ~ (NextCall < i)
      /\ calls'[NextCall] = c /\ ~ (NextCall < NextCall)
  BY CallsOfExtend, Zenon
<1>2. E' = E \cup (IF c.op = "EnableDb" THEN {NextCall} ELSE {})
  BY CallsOfExtend, Zenon
<1>3. /\ A' = A \cup (IF AutoOf(c, "database") THEN {NextCall} ELSE {})
      /\ \A i \in A : i # NextCall /\ i < NextCall
  BY AutosExtend, Zenon
<1>4. /\ builder.IsEnableDB \in BOOLEAN /\ builder.dbConfig \in {"nil", "pg"}
      /\ builder.IsEnableDB <=> E \cup (D \cup A) # {}
      /\ \A i \in D : (\A j \in (D \cup A) \ {i} : j < i) =>
           builder.databaseConfig = calls[i].arg
      /\ builder.IsEnableDB =>
           \/ builder.databaseConfig = "nil" /\ builder.dbConfig # "nil"
           \/ builder.databaseConfig # "nil"
           \/ \E i \in D : calls[i].arg = "nil"
  BY DEF Build!DatabaseAsked, Build!Database, Build!After, Build!Nil
<1>5. SUFFICES
      /\ builder'.IsEnableDB \in BOOLEAN /\ builder'.dbConfig \in {"nil", "pg"}
      /\ builder'.IsEnableDB <=> E' \cup (D' \cup A') # {}
      /\ \A i \in D' : (\A j \in (D' \cup A') \ {i} : j < i) =>
           builder'.databaseConfig = calls'[i].arg
      /\ builder'.IsEnableDB =>
           \/ builder'.databaseConfig = "nil" /\ builder'.dbConfig # "nil"
           \/ builder'.databaseConfig # "nil"
           \/ \E i \in D' : calls'[i].arg = "nil"
  BY DEF Build!DatabaseAsked, Build!Database, Build!After, Build!Nil
<1> HIDE DEF D, E, A
<1>6. CASE c.op = "EnableDb"
  <2>1. D' = D /\ A' = A /\ E' # {}
    BY <1>6, <1>1, <1>2, <1>3 DEF AutoOf
  <2>2. /\ builder'.IsEnableDB = TRUE /\ builder'.dbConfig = "pg"
        /\ builder'.databaseConfig = builder.databaseConfig
    BY <1>6 DEF DatabaseFollows, AutoOf
  <2> QED
    BY <2>1, <2>2, <1>1, <1>4
<1>7. CASE c.op = "EnableDatabase"
  <2>1. D' = D \cup {NextCall} /\ A' = A /\ E' = E
    BY <1>7, <1>1, <1>2, <1>3 DEF AutoOf
  <2>2. /\ builder'.IsEnableDB = TRUE /\ builder'.databaseConfig = c.arg
        /\ builder'.dbConfig = builder.dbConfig
    BY <1>7 DEF DatabaseFollows, AutoOf
  <2>3. ASSUME NEW i \in D', \A j \in (D' \cup A') \ {i} : j < i
        PROVE  builder'.databaseConfig = calls'[i].arg
    <3>1. i = NextCall
      BY <2>1, <2>3, <1>1
    <3> QED
      BY <3>1, <2>2, <1>1
  <2>4. NextCall \in D' /\ calls'[NextCall].arg = builder'.databaseConfig
    BY <2>1, <2>2, <1>1
  <2>5. builder'.databaseConfig = "nil" => \E i \in D' : calls'[i].arg = "nil"
    BY <2>4
  <2>6. E' \cup (D' \cup A') # {}
    BY <2>4
  <2> QED
    BY <2>2, <2>3, <2>5, <2>6, <1>4
<1>8. CASE AutoOf(c, "database")
  <2>1. D' = D /\ A' = A \cup {NextCall} /\ E' = E
    BY <1>8, <1>1, <1>2, <1>3 DEF AutoOf
  <2>2. /\ builder'.IsEnableDB = TRUE /\ builder'.databaseConfig = "auto"
        /\ builder'.dbConfig = builder.dbConfig
    BY <1>8 DEF DatabaseFollows, AutoOf
  <2>3. \A i \in D' : ~ \A j \in (D' \cup A') \ {i} : j < i
    BY <2>1, <1>1
  <2> QED
    BY <2>1, <2>2, <2>3, <1>4
<1>9. CASE c.op # "EnableDb" /\ c.op # "EnableDatabase" /\ ~ AutoOf(c, "database")
  <2>1. D' = D /\ A' = A /\ E' = E
    BY <1>9, <1>1, <1>2, <1>3
  <2>2. /\ builder'.IsEnableDB = builder.IsEnableDB
        /\ builder'.dbConfig = builder.dbConfig
        /\ builder'.databaseConfig = builder.databaseConfig
    BY <1>9 DEF DatabaseFollows
  <2> QED
    BY <2>1, <2>2, <1>1, <1>4
<1> QED
  BY <1>6, <1>7, <1>8, <1>9, Zenon

LEMMA StoresKept ==
  ASSUME Build!TypeOK, Build!StoresAsked, NEW c, calls' = Append(calls, c),
         StoresFollow(c)
  PROVE  Build!StoresAsked'
<1> DEFINE R == Build!CallsOf("EnableCache")
           P == Build!Autos("cache")
           M == Build!CallsOf("EnableMongoDB")
           A == Build!Autos("mongo")
<1>1. /\ R' = R \cup (IF c.op = "EnableCache" THEN {NextCall} ELSE {})
      /\ \A i \in R : i < NextCall /\ ~ (NextCall < i)
  BY CallsOfExtend, Zenon
<1>2. P' = P \cup (IF AutoOf(c, "cache") THEN {NextCall} ELSE {})
  BY AutosExtend, Zenon
<1>3. /\ M' = M \cup (IF c.op = "EnableMongoDB" THEN {NextCall} ELSE {})
      /\ \A i \in M : calls'[i] = calls[i]
      /\ calls'[NextCall] = c
  BY CallsOfExtend, Zenon
<1>4. A' = A \cup (IF AutoOf(c, "mongo") THEN {NextCall} ELSE {})
  BY AutosExtend, Zenon
<1>5. /\ \A i \in R : (\A j \in P : j < i) => builder.redis = "redis"
      /\ (builder.mongo = "nil") <=> A = {} /\ \A i \in M : calls[i].arg = "nil"
  BY DEF Build!StoresAsked, Build!After, Build!Nil
<1>6. SUFFICES
      /\ \A i \in R' : (\A j \in P' : j < i) => builder'.redis = "redis"
      /\ (builder'.mongo = "nil") <=> A' = {} /\ \A i \in M' : calls'[i].arg = "nil"
  BY DEF Build!StoresAsked, Build!After, Build!Nil
<1> HIDE DEF R, P, M, A
<1>7. \A i \in R' : (\A j \in P' : j < i) => builder'.redis = "redis"
  <2>1. CASE c.op = "EnableCache"
    BY <2>1 DEF StoresFollow, AutoOf
  <2>2. CASE AutoOf(c, "cache")
    <3>1. R' = R /\ NextCall \in P'
      BY <2>2, <1>1, <1>2 DEF AutoOf
    <3> QED
      BY <3>1, <1>1
  <2>3. CASE c.op # "EnableCache" /\ ~ AutoOf(c, "cache")
    <3>1. R' = R /\ P' = P /\ builder'.redis = builder.redis
      BY <2>3, <1>1, <1>2 DEF StoresFollow
    <3> QED
      BY <3>1, <1>5
  <2> QED
    BY <2>1, <2>2, <2>3, Zenon
<1>8. (builder'.mongo = "nil") <=> A' = {} /\ \A i \in M' : calls'[i].arg = "nil"
  <2>1. CASE c.op = "EnableMongoDB"
    <3>1. M' = M \cup {NextCall} /\ A' = A
          /\ builder'.mongo = IF c.arg = "nil" THEN builder.mongo ELSE c.arg
      BY <2>1, <1>3, <1>4 DEF StoresFollow, AutoOf
    <3>2. (\A i \in M' : calls'[i].arg = "nil") <=>
            (\A i \in M : calls[i].arg = "nil") /\ c.arg = "nil"
      BY <3>1, <1>3
    <3> QED
      BY <3>1, <3>2, <1>5
  <2>2. CASE AutoOf(c, "mongo")
    <3>1. NextCall \in A' /\ builder'.mongo = "auto"
      BY <2>2, <1>4 DEF StoresFollow, AutoOf
    <3> QED
      BY <3>1
  <2>3. CASE c.op # "EnableMongoDB" /\ ~ AutoOf(c, "mongo")
    <3>1. M' = M /\ A' = A /\ builder'.mongo = builder.mongo
      BY <2>3, <1>3, <1>4 DEF StoresFollow
    <3> QED
      BY <3>1, <1>3, <1>5
  <2> QED
    BY <2>1, <2>2, <2>3, Zenon
<1> QED
  BY <1>7, <1>8

LEMMA ServicesKept ==
  ASSUME Build!TypeOK, Build!ServicesAsked, NEW c, calls' = Append(calls, c),
         ServicesFollow(c)
  PROVE  Build!ServicesAsked'
<1> DEFINE W == Build!CallsOf("EnableWeb")
           A == Build!Autos("web")
           R == Build!CallsOf("EnableAdminRoutes")
           E == Build!CallsOf("EnableAdmin")
           P == Build!Autos("admin")
<1>1. /\ W' = W \cup (IF c.op = "EnableWeb" THEN {NextCall} ELSE {})
      /\ \A i \in W :
           calls'[i] = calls[i] /\ i # NextCall /\ i < NextCall /\ ~ (NextCall < i)
      /\ calls'[NextCall] = c
  BY CallsOfExtend, Zenon
<1>2. A' = A \cup (IF AutoOf(c, "web") THEN {NextCall} ELSE {})
  BY AutosExtend, Zenon
<1>3. /\ R' = R \cup (IF c.op = "EnableAdminRoutes" THEN {NextCall} ELSE {})
      /\ \A i \in R : i < NextCall
  BY CallsOfExtend, Zenon
<1>4. E' = E \cup (IF c.op = "EnableAdmin" THEN {NextCall} ELSE {})
  BY CallsOfExtend, Zenon
<1>5. P' = P \cup (IF AutoOf(c, "admin") THEN {NextCall} ELSE {})
  BY AutosExtend, Zenon
<1>6. /\ \A i \in W :
           (\A j \in W \ {i} : j < i) => builder.irisApp = calls[i].arg
      /\ (builder.irisApp # "nil") <=> (W \cup A # {})
      /\ builder.irisApp = "invalid" => \E i \in W : calls[i].arg = "invalid"
      /\ \A i \in R : builder.adminRoutes = {} => \E j \in E \cup P : i < j
  BY DEF Build!ServicesAsked, Build!After, Build!Nil
<1>7. SUFFICES
      /\ \A i \in W' :
           (\A j \in W' \ {i} : j < i) => builder'.irisApp = calls'[i].arg
      /\ (builder'.irisApp # "nil") <=> (W' \cup A' # {})
      /\ builder'.irisApp = "invalid" => \E i \in W' : calls'[i].arg = "invalid"
      /\ \A i \in R' : builder'.adminRoutes = {} => \E j \in E' \cup P' : i < j
  BY DEF Build!ServicesAsked, Build!After, Build!Nil
<1> HIDE DEF W, A, R, E, P
<1>8. /\ \A i \in W' :
           (\A j \in W' \ {i} : j < i) => builder'.irisApp = calls'[i].arg
      /\ (builder'.irisApp # "nil") <=> (W' \cup A' # {})
      /\ builder'.irisApp = "invalid" => \E i \in W' : calls'[i].arg = "invalid"
  <2>1. CASE c.op = "EnableWeb"
    <3>1. /\ W' = W \cup {NextCall} /\ A' = A
          /\ builder'.irisApp = c.arg /\ c.arg # "nil"
      BY <2>1, <1>1, <1>2 DEF ServicesFollow, AutoOf
    <3>2. ASSUME NEW i \in W', \A j \in W' \ {i} : j < i
          PROVE  builder'.irisApp = calls'[i].arg
      <4>1. i = NextCall
        BY <3>1, <3>2, <1>1
      <4> QED
        BY <4>1, <3>1, <1>1
    <3>3. NextCall \in W' /\ calls'[NextCall].arg = builder'.irisApp
      BY <3>1, <1>1
    <3>4. builder'.irisApp = "invalid" => \E i \in W' : calls'[i].arg = "invalid"
      BY <3>3
    <3> QED
      BY <3>1, <3>2, <3>3, <3>4
  <2>2. CASE AutoOf(c, "web")
    <3>1. /\ W' = W /\ NextCall \in A'
          /\ builder'.irisApp = IF builder.irisApp = "nil" THEN ":auto" ELSE builder.irisApp
      BY <2>2, <1>1, <1>2 DEF ServicesFollow, AutoOf
    <3>2. W # {} => builder'.irisApp = builder.irisApp
      BY <3>1, <1>6
    <3>3. builder'.irisApp = "invalid" => builder.irisApp = "invalid"
      BY <3>1
    <3> QED
      BY <3>1, <3>2, <3>3, <1>1, <1>6
  <2>3. CASE c.op # "EnableWeb" /\ ~ AutoOf(c, "web")
    <3>1. W' = W /\ A' = A /\ builder'.irisApp = builder.irisApp
      BY <2>3, <1>1, <1>2 DEF ServicesFollow
    <3> QED
      BY <3>1, <1>1, <1>6
  <2> QED
    BY <2>1, <2>2, <2>3, Zenon
<1>9. \A i \in R' : builder'.adminRoutes = {} => \E j \in E' \cup P' : i < j
  <2>1. CASE c.op = "EnableAdminRoutes"
    BY <2>1 DEF ServicesFollow, AutoOf
  <2>2. CASE c.op = "EnableAdmin" \/ AutoOf(c, "admin")
    <3>1. R' = R /\ NextCall \in E' \cup P'
      BY <2>2, <1>3, <1>4, <1>5 DEF AutoOf
    <3> QED
      BY <3>1, <1>3
  <2>3. CASE c.op # "EnableAdminRoutes" /\ c.op # "EnableAdmin" /\ ~ AutoOf(c, "admin")
    <3>1. R' = R /\ E' = E /\ P' = P /\ builder'.adminRoutes = builder.adminRoutes
      BY <2>3, <1>3, <1>4, <1>5 DEF ServicesFollow
    <3> QED
      BY <3>1, <1>6
  <2> QED
    BY <2>1, <2>2, <2>3, Zenon
<1> QED
  BY <1>8, <1>9

LEMMA LoggerKept ==
  ASSUME Build!TypeOK, Build!LoggerAsked, NEW c, calls' = Append(calls, c),
         LoggerFollows(c)
  PROVE  Build!LoggerAsked'
<1>1. /\ Build!CallsOf("InitLog")' =
           Build!CallsOf("InitLog") \cup (IF c.op = "InitLog" THEN {NextCall} ELSE {})
  BY CallsOfExtend, Zenon
<1>2. CASE c.op = "InitLog"
  <2>1. Build!CallsOf("InitLog")' # {}
    BY <1>1, <1>2
  <2> QED
    BY <2>1, <1>2 DEF LoggerFollows, Build!LoggerAsked
<1>3. CASE c.op # "InitLog" /\ builder'.logInitErr = FALSE
  BY <1>1, <1>3 DEF LoggerFollows, Build!LoggerAsked, Build!LoggerMade
<1>4. CASE /\ c.op # "InitLog" /\ logger' = logger
           /\ builder'.IsEnableZapLogs = builder.IsEnableZapLogs
           /\ builder'.logInitErr = builder.logInitErr
  BY <1>1, <1>4 DEF Build!LoggerAsked, Build!LoggerMade
<1> QED
  BY <1>2, <1>3, <1>4 DEF LoggerFollows

(* The callbacks that are kept, and those of one more call.                *)
LEMMA ShortSequences ==
  ASSUME NEW S
  PROVE  /\ <<>> \in Seq(S) /\ \A x \in S : <<x>> \in Seq(S)
         /\ \A s \in Seq(S), x \in S : Append(s, x) \in Seq(S)
  OBVIOUS

LEMMA NotNilType ==
  ASSUME NEW fs \in Seq(Build!Callbacks)
  PROVE  Build!NotNil(fs) \in Seq(Build!Callbacks)
<1> DEFINE kept == [i \in DOMAIN fs |-> IF fs[i] = "nil" THEN <<>> ELSE <<fs[i]>>]
<1>1. /\ Len(fs) \in Nat /\ DOMAIN fs = 1 .. Len(fs)
      /\ \A i \in DOMAIN fs : fs[i] \in Build!Callbacks
  OBVIOUS
<1>2. \A i \in DOMAIN fs :
        (IF fs[i] = "nil" THEN <<>> ELSE <<fs[i]>>) \in Seq(Build!Callbacks)
  <2>1. /\ <<>> \in Seq(Build!Callbacks)
        /\ \A x \in Build!Callbacks : <<x>> \in Seq(Build!Callbacks)
    BY ShortSequences, Zenon
  <2> QED
    BY <1>1, <2>1, Zenon
<1>3. kept \in [1 .. Len(fs) -> Seq(Build!Callbacks)]
  BY <1>1, <1>2
<1>4. kept \in Seq(Seq(Build!Callbacks))
  BY <1>1, <1>3, SeqDef
<1>5. Build!NotNil(fs) = Build!FlattenSeq(kept)
  BY DEF Build!NotNil, Build!Nil
<1> HIDE DEF kept
<1> QED
  BY <1>4, <1>5, FlattenType, Zenon

LEMMA ArgumentsExtend ==
  ASSUME Build!TypeOK, NEW c, calls' = Append(calls, c),
         NEW op \in {"SetSeeds", "BeforeSetup"},
         c.op = op => c.arg \in Seq(Build!Callbacks)
  PROVE  /\ Build!Arguments(op) \in Seq(Build!Callbacks)
         /\ Build!Arguments(op)' =
              IF c.op = op THEN Build!Arguments(op) \o Build!NotNil(c.arg)
              ELSE Build!Arguments(op)
<1> DEFINE Of(d) == IF d.op = op THEN Build!NotNil(d.arg) ELSE <<>>
           given == [i \in DOMAIN calls |-> Of(calls[i])]
           more == [i \in DOMAIN calls' |-> Of(calls'[i])]
<1>1. /\ Len(calls) \in Nat /\ DOMAIN calls = 1 .. Len(calls)
      /\ DOMAIN calls' = DOMAIN calls \cup {Len(calls) + 1}
      /\ \A i \in DOMAIN calls : calls'[i] = calls[i]
      /\ calls'[Len(calls) + 1] = c
  BY CallsExtend
<1>2. \A i \in DOMAIN calls : calls[i].op = op => calls[i].arg \in Seq(Build!Callbacks)
  BY DEF Build!TypeOK, Build!CallsOf
<1>e. <<>> \in Seq(Build!Callbacks)
  BY ShortSequences, Zenon
<1>3. \A i \in DOMAIN calls : Of(calls[i]) \in Seq(Build!Callbacks)
  BY <1>2, <1>e, NotNilType, Zenon
<1>4. Of(c) \in Seq(Build!Callbacks)
  BY <1>e, NotNilType, Zenon
<1>5. /\ Build!Arguments(op) = Build!FlattenSeq(given)
      /\ Build!Arguments(op)' = Build!FlattenSeq(more)
  BY Zenon DEF Build!Arguments
<1> HIDE DEF Of
<1>6. given \in [1 .. Len(calls) -> Seq(Build!Callbacks)]
  BY <1>1, <1>3
<1>7. given \in Seq(Seq(Build!Callbacks)) /\ Len(given) = Len(calls)
  BY <1>1, <1>6, SeqDef
<1>8. more = Append(given, Of(c))
  <2>1. /\ Append(given, Of(c)) \in Seq(Seq(Build!Callbacks))
        /\ Len(Append(given, Of(c))) = Len(calls) + 1
        /\ \A i \in 1 .. Len(calls) : Append(given, Of(c))[i] = given[i]
        /\ Append(given, Of(c))[Len(calls) + 1] = Of(c)
    <3> HIDE DEF given
    <3> QED
      BY <1>1, <1>4, <1>7
  <2>2. 1 .. (Len(calls) + 1) = DOMAIN calls'
    BY <1>1
  <2>3. \A i \in 1 .. (Len(calls) + 1) : more[i] = Append(given, Of(c))[i]
    BY <1>1, <2>1, <2>2
  <2>4. /\ more \in Seq(Seq(Build!Callbacks)) /\ Len(more) = Len(calls) + 1
    <3>1. more \in [1 .. (Len(calls) + 1) -> Seq(Build!Callbacks)]
      BY <1>1, <1>3, <1>4, <2>2
    <3> HIDE DEF more
    <3>2. more \in Seq(Seq(Build!Callbacks))
      BY <1>1, <3>1, SeqDef
    <3> QED
      BY <1>1, <3>1, <3>2
  <2> HIDE DEF more, given
  <2> QED
    BY <2>1, <2>3, <2>4, SeqEqual
<1> HIDE DEF given, more
<1>9. Build!FlattenSeq(more) = Build!FlattenSeq(given) \o Of(c)
  BY <1>4, <1>7, <1>8, FlattenAppend, Zenon
<1>10. Build!FlattenSeq(given) \in Seq(Build!Callbacks)
  BY <1>7, FlattenType, Zenon
<1>11. Build!FlattenSeq(given) \o <<>> = Build!FlattenSeq(given)
  BY <1>10, ConcatEmptySeq, Zenon
<1> QED
  BY <1>5, <1>9, <1>10, <1>11, Zenon DEF Of

LEMMA TypeKept ==
  ASSUME Build!TypeOK, NEW c, calls' = Append(calls, c), TypeFollows(c),
         CallbacksFollow(c)
  PROVE  Build!TypeOK'
<1>1. calls' \in Seq(Build!Range(calls'))
  BY CallsExtend, Zenon
<1>2. \A i \in Build!CallsOf("SetSeeds")' \cup Build!CallsOf("BeforeSetup")' :
        calls'[i].arg \in Seq(Build!Callbacks)
  <2>1. /\ Build!CallsOf("SetSeeds")' =
             Build!CallsOf("SetSeeds")
               \cup (IF c.op = "SetSeeds" THEN {NextCall} ELSE {})
        /\ \A i \in Build!CallsOf("SetSeeds") : calls'[i] = calls[i]
        /\ calls'[NextCall] = c
    BY CallsOfExtend, Zenon
  <2>2. /\ Build!CallsOf("BeforeSetup")' =
             Build!CallsOf("BeforeSetup")
               \cup (IF c.op = "BeforeSetup" THEN {NextCall} ELSE {})
        /\ \A i \in Build!CallsOf("BeforeSetup") : calls'[i] = calls[i]
    BY CallsOfExtend, Zenon
  <2>3. c.op \in {"SetSeeds", "BeforeSetup"} => c.arg \in Seq(Build!Callbacks)
    BY DEF TypeFollows
  <2>4. \A i \in Build!CallsOf("SetSeeds") \cup Build!CallsOf("BeforeSetup") :
          calls[i].arg \in Seq(Build!Callbacks)
    BY DEF Build!TypeOK
  <2> QED
    BY <2>1, <2>2, <2>3, <2>4
<1>3. builder.seeds \in Seq(Build!Callbacks) /\ builder.hooks \in Seq({"queue"})
  BY DEF Build!TypeOK
<1>4. builder'.seeds \in Seq(Build!Callbacks)
  <2>1. c.op = "SetSeeds" => Build!NotNil(c.arg) \in Seq(Build!Callbacks)
    BY NotNilType, Zenon DEF TypeFollows
  <2>2. \A s, t \in Seq(Build!Callbacks) : s \o t \in Seq(Build!Callbacks)
    OBVIOUS
  <2> QED
    BY <1>3, <2>1, <2>2, Zenon DEF CallbacksFollow
<1>5. builder'.hooks \in Seq({"queue"})
  <2>q. "queue" \in {"queue"}
    OBVIOUS
  <2>1. Append(builder.hooks, "queue") \in Seq({"queue"})
    BY <1>3, <2>q, ShortSequences, Zenon
  <2> QED
    BY <1>3, <2>1, Zenon DEF CallbacksFollow
<1> QED
  BY <1>1, <1>2, <1>4, <1>5, Zenon DEF Build!TypeOK, TypeFollows

LEMMA SameCardinality ==
  \A S : Build!Cardinality(S) = Cardinality(S)
  BY Zenon DEF Cardinality, Build!Cardinality

(* One more stop hook that is kept, one more call that asked for it.       *)
LEMMA HooksKept ==
  ASSUME Build!TypeOK, Build!CallbacksAsked, NEW c, calls' = Append(calls, c),
         CallbacksFollow(c)
  PROVE  Len(builder'.hooks) =
           Cardinality({i \in Build!CallsOf("OnShutdown")' :
                          calls'[i].arg = <<"queue", "stop">>})
<1> DEFINE H == {i \in Build!CallsOf("OnShutdown") : calls[i].arg = <<"queue", "stop">>}
           M == {i \in Build!CallsOf("OnShutdown")' : calls'[i].arg = <<"queue", "stop">>}
<1>1. /\ Build!CallsOf("OnShutdown")' =
           Build!CallsOf("OnShutdown")
             \cup (IF c.op = "OnShutdown" THEN {NextCall} ELSE {})
      /\ \A i \in Build!CallsOf("OnShutdown") : calls'[i] = calls[i] /\ i # NextCall
      /\ calls'[NextCall] = c
  BY CallsOfExtend, Zenon
<1>2. IsFiniteSet(H) /\ Cardinality(H) \in Nat /\ NextCall \notin H
  <2>1. Len(calls) \in Nat /\ DOMAIN calls = 1 .. Len(calls)
    BY CallsExtend, Zenon
  <2>2. IsFiniteSet(1 .. Len(calls))
    BY <2>1, FS_Interval
  <2>3. H \subseteq 1 .. Len(calls)
    BY <2>1, Zenon DEF Build!CallsOf
  <2>4. IsFiniteSet(H)
    BY <2>2, <2>3, FS_Subset, Zenon
  <2> QED
    BY <1>1, <2>4, FS_CardinalityType, Zenon
<1>3. Len(builder.hooks) = Cardinality(H) /\ builder.hooks \in Seq({"queue"})
  BY SameCardinality, Zenon DEF Build!CallbacksAsked, Build!TypeOK
<1>4. CASE c.op = "OnShutdown" /\ c.arg = <<"queue", "stop">>
  <2>1. M = H \cup {NextCall}
    BY <1>1, <1>4
  <2>2. Cardinality(H \cup {NextCall}) = Cardinality(H) + 1
    BY <1>2, FS_AddElement, Zenon
  <2>3. builder'.hooks = Append(builder.hooks, "queue")
    BY <1>4, Zenon DEF CallbacksFollow
  <2>4. Len(builder'.hooks) = Len(builder.hooks) + 1
    BY <1>3, <2>3
  <2> QED
    BY <2>1, <2>2, <2>4, <1>3, Zenon
<1>5. CASE ~ (c.op = "OnShutdown" /\ c.arg = <<"queue", "stop">>)
  <2>1. M = H
    BY <1>1, <1>5
  <2>2. builder'.hooks = builder.hooks
    BY <1>5, Zenon DEF CallbacksFollow
  <2> QED
    BY <2>1, <2>2, <1>3, Zenon
<1> QED
  BY <1>4, <1>5, Zenon

LEMMA CallbacksKept ==
  ASSUME Build!TypeOK, Build!CallbacksAsked, NEW c, calls' = Append(calls, c),
         TypeFollows(c), CallbacksFollow(c)
  PROVE  Build!CallbacksAsked'
<1>1. builder'.seeds = Build!Arguments("SetSeeds")'
  BY ArgumentsExtend DEF Build!CallbacksAsked, CallbacksFollow, TypeFollows
<1>2. builder'.beforeSetups = Build!Arguments("BeforeSetup")'
  BY ArgumentsExtend DEF Build!CallbacksAsked, CallbacksFollow, TypeFollows
<1>3. builder'.IsRunningCronJob <=>
        \/ Build!CallsOf("InitCronJob")' \cup Build!Autos("cron")' # {}
        \/ builder'.seeds # <<>>
  <2>1. /\ Build!CallsOf("InitCronJob")' =
             Build!CallsOf("InitCronJob")
               \cup (IF c.op = "InitCronJob" THEN {NextCall} ELSE {})
    BY CallsOfExtend, Zenon
  <2>2. Build!Autos("cron")' =
             Build!Autos("cron") \cup (IF AutoOf(c, "cron") THEN {NextCall} ELSE {})
    BY AutosExtend, Zenon
  <2>3. builder.seeds \in Seq(Build!Callbacks)
    BY DEF Build!TypeOK
  <2>4. builder'.seeds # <<>> <=>
          builder.seeds # <<>> \/ Len(builder'.seeds) > Len(builder.seeds)
    <3>1. c.op = "SetSeeds" => Build!NotNil(c.arg) \in Seq(Build!Callbacks)
      BY NotNilType, Zenon DEF TypeFollows
    <3>2. CASE c.op = "SetSeeds"
      <4> DEFINE added == Build!NotNil(c.arg)
      <4>1. added \in Seq(Build!Callbacks) /\ builder'.seeds = builder.seeds \o added
        BY <3>1, <3>2, Zenon DEF CallbacksFollow
      <4> HIDE DEF added
      <4>2. /\ Len(builder.seeds) \in Nat /\ Len(added) \in Nat
            /\ Len(builder'.seeds) = Len(builder.seeds) + Len(added)
            /\ builder'.seeds \in Seq(Build!Callbacks)
        BY <4>1, <2>3
      <4>3. \A s \in Seq(Build!Callbacks) : s # <<>> <=> Len(s) > 0
        OBVIOUS
      <4> QED
        BY <4>2, <4>3, <2>3
    <3>3. CASE c.op # "SetSeeds"
      <4>1. builder'.seeds = builder.seeds /\ Len(builder.seeds) \in Nat
        BY <3>3, <2>3 DEF CallbacksFollow
      <4> QED
        BY <4>1
    <3> QED
      BY <3>2, <3>3
  <2>5. builder.IsRunningCronJob <=>
          \/ Build!CallsOf("InitCronJob") \cup Build!Autos("cron") # {}
          \/ builder.seeds # <<>>
    BY DEF Build!CallbacksAsked
  <2>6. builder'.IsRunningCronJob <=>
         \/ builder.IsRunningCronJob \/ c.op = "InitCronJob" \/ AutoOf(c, "cron")
         \/ Len(builder'.seeds) > Len(builder.seeds)
    BY DEF CallbacksFollow
  <2> QED
    BY <2>1, <2>2, <2>4, <2>5, <2>6
<1>4. Len(builder'.hooks) =
        Cardinality({i \in Build!CallsOf("OnShutdown")' :
                       calls'[i].arg = <<"queue", "stop">>})
  BY HooksKept, Zenon
<1> QED
  BY <1>1, <1>2, <1>3, <1>4, SameCardinality, Zenon DEF Build!CallbacksAsked

(* One call of the builder function keeps the whole invariant.             *)
LEMMA CallKept ==
  ASSUME Build!IInv, NEW c, Follows(c)
  PROVE  Build!IInv'
<1>1. /\ Build!TypeOK' /\ Build!DatabaseAsked' /\ Build!StoresAsked'
      /\ Build!CallbacksAsked' /\ Build!ServicesAsked' /\ Build!LoggerAsked'
  BY TypeKept, DatabaseKept, StoresKept, CallbacksKept, ServicesKept, LoggerKept, Zenon
     DEF Follows, Build!IInv
<1>2. Build!OutcomeFits'
  BY DEF Follows, Build!OutcomeFits
<1> QED
  BY <1>1, <1>2, Zenon DEF Build!IInv

-----------------------------------------------------------------------------
(* Every call of the builder function changes what Follows says.  A setter *)
(* of the builder leaves the logger alone,                                 *)
Quiet(c) ==
  /\ c.op \notin {"InitLog", "AutoConfigure"}
  /\ calls' = Append(calls, c) /\ outcome = "none" /\ UNCHANGED <<outcome, logger>>

LEMMA SetterFollows ==
  ASSUME Build!TypeOK, NEW c, Quiet(c),
         builder' = [f \in Build!Fields |-> builder'[f]],
         builder'.IsEnableZapLogs = builder.IsEnableZapLogs,
         builder'.logInitErr = builder.logInitErr,
         c.op \in {"SetSeeds", "BeforeSetup"} => c.arg \in Seq(Build!Callbacks),
         DatabaseFollows(c), StoresFollow(c), CallbacksFollow(c), ServicesFollow(c)
  PROVE  Follows(c)
<1>1. TypeFollows(c)
  BY DEF TypeFollows, Quiet, Build!TypeOK
<1>2. LoggerFollows(c)
  BY DEF LoggerFollows, Quiet
<1> QED
  BY <1>1, <1>2, Zenon DEF Follows, Quiet

(* and the fields it does not set.                                         *)
LEMMA SetField ==
  ASSUME NEW D, NEW b, b = [f \in D |-> b[f]], NEW x \in D, NEW v, NEW r,
         r = [b EXCEPT ![x] = v]
  PROVE  /\ r = [f \in D |-> r[f]] /\ r[x] = v
         /\ \A f \in D \ {x} : r[f] = b[f]
  OBVIOUS

LEMMA SetTwoFields ==
  ASSUME NEW D, NEW b, b = [f \in D |-> b[f]], NEW x \in D, NEW y \in D, x # y,
         NEW v, NEW w, NEW r, r = [b EXCEPT ![x] = v, ![y] = w]
  PROVE  /\ r = [f \in D |-> r[f]] /\ r[x] = v /\ r[y] = w
         /\ \A f \in D \ {x, y} : r[f] = b[f]
<1> DEFINE s == [b EXCEPT ![x] = v]
<1>1. /\ s = [f \in D |-> s[f]] /\ s[x] = v
      /\ \A f \in D \ {x} : s[f] = b[f]
  BY SetField, Zenon
<1>2. r = [s EXCEPT ![y] = w]
  BY Zenon
<1> HIDE DEF s
<1>3. /\ r = [f \in D |-> r[f]] /\ r[y] = w
      /\ \A f \in D \ {y} : r[f] = s[f]
  BY <1>1, <1>2, SetField, Zenon
<1>4. x \in D \ {y} /\ \A f \in D \ {x, y} : f \in D \ {x} /\ f \in D \ {y}
  OBVIOUS
<1> QED
  BY <1>1, <1>3, <1>4, Zenon

LEMMA SetThreeFields ==
  ASSUME NEW D, NEW b, b = [f \in D |-> b[f]],
         NEW x \in D, NEW y \in D, NEW z \in D, x # y, x # z, y # z,
         NEW u, NEW v, NEW w, NEW r,
         r = [b EXCEPT ![x] = u, ![y] = v, ![z] = w]
  PROVE  /\ r = [f \in D |-> r[f]] /\ r[x] = u /\ r[y] = v /\ r[z] = w
         /\ \A f \in D \ {x, y, z} : r[f] = b[f]
<1> DEFINE s == [b EXCEPT ![x] = u, ![y] = v]
<1>1. /\ s = [f \in D |-> s[f]] /\ s[x] = u /\ s[y] = v
      /\ \A f \in D \ {x, y} : s[f] = b[f]
  BY SetTwoFields, Zenon
<1>2. r = [s EXCEPT ![z] = w]
  BY Zenon
<1> HIDE DEF s
<1>3. /\ r = [f \in D |-> r[f]] /\ r[z] = w
      /\ \A f \in D \ {z} : r[f] = s[f]
  BY <1>1, <1>2, SetField, Zenon
<1>4. /\ x \in D \ {z} /\ y \in D \ {z}
      /\ \A f \in D \ {x, y, z} : f \in D \ {x, y} /\ f \in D \ {z}
  OBVIOUS
<1> QED
  BY <1>1, <1>3, <1>4, Zenon

(* What each setter makes of a builder.                                    *)
HasFields(b) == b = [f \in Build!Fields |-> b[f]]

Only(b, r, F) == HasFields(r) /\ \A f \in Build!Fields \ F : r[f] = b[f]

LEMMA WebSets ==
  ASSUME NEW b, HasFields(b), NEW address, NEW routes
  PROVE  LET r == Build!EnableWeb(b, address, routes) IN
         Only(b, r, {"irisApp", "routes"}) /\ r.irisApp = address
<1>1. "irisApp" \in Build!Fields /\ "routes" \in Build!Fields /\ "irisApp" # "routes"
  BY DEF Build!Fields
<1> QED
  BY <1>1, SetTwoFields, Zenon DEF HasFields, Only, Build!EnableWeb

LEMMA DbSets ==
  ASSUME NEW b, HasFields(b), NEW cfg, NEW models
  PROVE  LET r == Build!EnableDb(b, cfg, models) IN
         /\ Only(b, r, {"IsEnableDB", "dbConfig", "dbModels"})
         /\ r.IsEnableDB = TRUE /\ r.dbConfig = cfg
<1>1. /\ "IsEnableDB" \in Build!Fields /\ "dbConfig" \in Build!Fields
      /\ "dbModels" \in Build!Fields
      /\ "IsEnableDB" # "dbConfig" /\ "IsEnableDB" # "dbModels" /\ "dbConfig" # "dbModels"
  BY DEF Build!Fields
<1> QED
  BY <1>1, SetThreeFields, Zenon DEF HasFields, Only, Build!EnableDb

LEMMA DatabaseSets ==
  ASSUME NEW b, HasFields(b), NEW cfg, NEW models
  PROVE  LET r == Build!EnableDatabase(b, cfg, models) IN
         /\ Only(b, r, {"IsEnableDB", "databaseConfig", "dbModels"})
         /\ r.IsEnableDB = TRUE /\ r.databaseConfig = cfg
<1>1. /\ "IsEnableDB" \in Build!Fields /\ "databaseConfig" \in Build!Fields
      /\ "dbModels" \in Build!Fields
      /\ "IsEnableDB" # "databaseConfig" /\ "IsEnableDB" # "dbModels"
      /\ "databaseConfig" # "dbModels"
  BY DEF Build!Fields
<1> QED
  BY <1>1, SetThreeFields, Zenon DEF HasFields, Only, Build!EnableDatabase

LEMMA AdminSets ==
  ASSUME NEW b, HasFields(b), NEW listen
  PROVE  Only(b, Build!EnableAdmin(b, listen), {"admin", "adminRoutes"})
<1>1. "admin" \in Build!Fields /\ "adminRoutes" \in Build!Fields /\ "admin" # "adminRoutes"
  BY DEF Build!Fields
<1> QED
  BY <1>1, SetTwoFields, Zenon DEF HasFields, Only, Build!EnableAdmin

LEMMA AdminRoutesSets ==
  ASSUME NEW b, HasFields(b), NEW route
  PROVE  LET r == Build!EnableAdminRoutes(b, route) IN
         Only(b, r, {"admin", "adminRoutes"}) /\ r.adminRoutes # {}
<1> DEFINE created == IF b.admin = Build!Nil THEN Build!EnableAdmin(b, ":6060") ELSE b
           r == Build!EnableAdminRoutes(b, route)
<1>1. Only(b, created, {"admin", "adminRoutes"})
  <2>1. Only(b, b, {"admin", "adminRoutes"})
    BY Zenon DEF Only
  <2> QED
    BY <2>1, AdminSets, Zenon
<1>2. r = [created EXCEPT !.adminRoutes = created.adminRoutes \cup {route}]
  BY Zenon DEF Build!EnableAdminRoutes
<1> HIDE DEF created, r
<1>3. "adminRoutes" \in Build!Fields
  BY DEF Build!Fields
<1>4. /\ HasFields(r) /\ r.adminRoutes = created.adminRoutes \cup {route}
      /\ \A f \in Build!Fields \ {"adminRoutes"} : r[f] = created[f]
  BY <1>1, <1>2, <1>3, SetField, Zenon DEF HasFields, Only
<1>5. Only(b, r, {"admin", "adminRoutes"})
  BY <1>1, <1>4 DEF Only
<1>6. r.adminRoutes # {}
  BY <1>4
<1> QED
  BY <1>5, <1>6, Zenon DEF r

LEMMA MongoSets ==
  ASSUME NEW b, HasFields(b), NEW cfg
  PROVE  LET r == Build!EnableMongoDB(b, cfg) IN
         /\ Only(b, r, {"mongo"})
         /\ r.mongo = IF cfg = "nil" THEN b.mongo ELSE cfg
<1>1. "mongo" \in Build!Fields
  BY DEF Build!Fields
<1>2. Only(b, b, {"mongo"})
  BY Zenon DEF Only
<1> DEFINE r == Build!EnableMongoDB(b, cfg)
<1>3. CASE cfg = "nil"
  <2>1. r = b
    BY <1>3 DEF Build!EnableMongoDB, Build!Nil
  <2> QED
    BY <2>1, <1>2, <1>3, Zenon
<1>4. CASE cfg # "nil"
  <2>1. r = [b EXCEPT !.mongo = cfg]
    BY <1>4 DEF Build!EnableMongoDB, Build!Nil
  <2> HIDE DEF r
  <2>2. Only(b, r, {"mongo"}) /\ r.mongo = cfg
    BY <2>1, <1>1, SetField, Zenon DEF HasFields, Only
  <2> QED
    BY <2>2, <1>4, Zenon DEF r
<1> QED
  BY <1>3, <1>4

LEMMA CronSets ==
  ASSUME NEW b, HasFields(b)
  PROVE  LET r == Build!InitCronJob(b) IN
         Only(b, r, {"IsRunningCronJob"}) /\ r.IsRunningCronJob = TRUE
<1>1. "IsRunningCronJob" \in Build!Fields
  BY DEF Build!Fields
<1> QED
  BY <1>1, SetField, Zenon DEF HasFields, Only, Build!InitCronJob

LEMMA SeedsSet ==
  ASSUME NEW b, HasFields(b), NEW fs
  PROVE  LET r == Build!SetSeeds(b, fs) IN
         /\ Only(b, r, {"IsRunningCronJob", "seeds"})
         /\ r.seeds = b.seeds \o Build!NotNil(fs)
         /\ r.IsRunningCronJob <=>
              b.IsRunningCronJob \/ Len(r.seeds) > Len(b.seeds)
<1> DEFINE more == b.seeds \o Build!NotNil(fs)
           s == [b EXCEPT !.seeds = more]
           r == Build!SetSeeds(b, fs)
<1>1. "seeds" \in Build!Fields /\ "seeds" # "IsRunningCronJob"
      /\ "IsRunningCronJob" \in Build!Fields
  BY DEF Build!Fields
<1>3. r = IF Len(s.seeds) > Len(b.seeds) THEN Build!InitCronJob(s) ELSE s
  BY Zenon DEF Build!SetSeeds, Build!appendSetupFunctions
<1>s. s = [b EXCEPT !.seeds = more]
  BY Zenon
<1>m. more = b.seeds \o Build!NotNil(fs)
  BY Zenon
<1> HIDE DEF s, r, more
<1>2. Only(b, s, {"seeds"}) /\ s.seeds = more
  BY <1>1, <1>s, SetField, Zenon DEF HasFields, Only
<1>4. HasFields(s) /\ s.IsRunningCronJob = b.IsRunningCronJob
  BY <1>1, <1>2 DEF Only
<1>5. CASE Len(s.seeds) > Len(b.seeds)
  <2>1. Only(s, r, {"IsRunningCronJob"}) /\ r.IsRunningCronJob = TRUE
    BY <1>3, <1>4, <1>5, CronSets, Zenon
  <2>2. Only(b, r, {"IsRunningCronJob", "seeds"}) /\ r.seeds = s.seeds
    BY <1>1, <1>2, <2>1 DEF Only
  <2> QED
    BY <1>2, <1>m, <1>5, <2>1, <2>2 DEF r
<1>6. CASE ~ (Len(s.seeds) > Len(b.seeds))
  <2>1. r = s
    BY <1>3, <1>6, Zenon
  <2>2. Only(b, r, {"IsRunningCronJob", "seeds"})
    BY <2>1, <1>2 DEF Only
  <2> QED
    BY <1>2, <1>m, <1>4, <1>6, <2>1, <2>2, Zenon DEF r
<1> QED
  BY <1>5, <1>6

(* The calls, one lemma for each handler.                                  *)
LEMMA CallIsQuiet ==
  ASSUME NEW op, NEW arg, NEW models, op \notin {"InitLog", "AutoConfigure"},
         Build!Call(op, arg, models), NEW b, Build!Sets(b)
  PROVE  /\ Quiet([op |-> op, arg |-> arg, models |-> models])
         /\ builder' = b
  BY DEF Quiet, Build!Call, Build!Building, Build!Sets

LEMMA WebFollows ==
  ASSUME Build!TypeOK, NEW address \in {":8080", "invalid"},
         Build!Call("EnableWeb", address, {}),
         Build!Sets(Build!EnableWeb(builder, address, <<"business">>))
  PROVE  \E c : Follows(c)
<1> DEFINE c == [op |-> "EnableWeb", arg |-> address, models |-> {}]
<1>1. Quiet(c) /\ builder' = Build!EnableWeb(builder, address, <<"business">>)
  BY CallIsQuiet
<1>2. c.op = "EnableWeb" /\ c.arg = address
  OBVIOUS
<1>3. HasFields(builder)
  BY Zenon DEF Build!TypeOK, HasFields
<1>4. /\ Only(builder, builder', {"irisApp", "routes"})
      /\ builder'.irisApp = address
  BY <1>1, <1>3, WebSets, Zenon
<1> HIDE DEF c
<1>5. DatabaseFollows(c) /\ StoresFollow(c) /\ ServicesFollow(c)
  BY <1>2, <1>4
     DEF Only, Build!Fields, AutoOf, DatabaseFollows, StoresFollow, ServicesFollow
<1>6. CallbacksFollow(c)
  BY <1>2, <1>4 DEF Only, Build!Fields, AutoOf, CallbacksFollow
<1>7. /\ builder'.IsEnableZapLogs = builder.IsEnableZapLogs
      /\ builder'.logInitErr = builder.logInitErr
      /\ builder' = [f \in Build!Fields |-> builder'[f]]
  BY <1>4 DEF Only, Build!Fields, HasFields
<1> QED
  BY <1>1, <1>2, <1>5, <1>6, <1>7, SetterFollows

LEMMA DbFollows ==
  ASSUME Build!TypeOK, Build!Call("EnableDb", "pg", {"User"}),
         Build!Sets(Build!EnableDb(builder, "pg", {"User"}))
  PROVE  \E c : Follows(c)
<1> DEFINE c == [op |-> "EnableDb", arg |-> "pg", models |-> {"User"}]
<1>1. Quiet(c) /\ builder' = Build!EnableDb(builder, "pg", {"User"})
  BY CallIsQuiet
<1>2. c.op = "EnableDb" /\ c.arg = "pg"
  OBVIOUS
<1>3. HasFields(builder)
  BY Zenon DEF Build!TypeOK, HasFields
<1>4. /\ Only(builder, builder', {"IsEnableDB", "dbConfig", "dbModels"})
      /\ builder'.IsEnableDB = TRUE /\ builder'.dbConfig = "pg"
  BY <1>1, <1>3, DbSets, Zenon
<1> HIDE DEF c
<1>5. DatabaseFollows(c) /\ StoresFollow(c) /\ ServicesFollow(c)
  BY <1>2, <1>4
     DEF Only, Build!Fields, AutoOf, DatabaseFollows, StoresFollow, ServicesFollow
<1>6. CallbacksFollow(c)
  BY <1>2, <1>4 DEF Only, Build!Fields, AutoOf, CallbacksFollow
<1>7. /\ builder'.IsEnableZapLogs = builder.IsEnableZapLogs
      /\ builder'.logInitErr = builder.logInitErr
      /\ builder' = [f \in Build!Fields |-> builder'[f]]
  BY <1>4 DEF Only, Build!Fields, HasFields
<1> QED
  BY <1>1, <1>2, <1>5, <1>6, <1>7, SetterFollows

LEMMA UnifiedFollows ==
  ASSUME Build!TypeOK, NEW cfg,
         Build!Call("EnableDatabase", cfg, {"Order"}),
         Build!Sets(Build!EnableDatabase(builder, cfg, {"Order"}))
  PROVE  \E c : Follows(c)
<1> DEFINE c == [op |-> "EnableDatabase", arg |-> cfg, models |-> {"Order"}]
<1>1. Quiet(c) /\ builder' = Build!EnableDatabase(builder, cfg, {"Order"})
  BY CallIsQuiet
<1>2. c.op = "EnableDatabase" /\ c.arg = cfg
  OBVIOUS
<1>3. HasFields(builder)
  BY Zenon DEF Build!TypeOK, HasFields
<1>4. /\ Only(builder, builder', {"IsEnableDB", "databaseConfig", "dbModels"})
      /\ builder'.IsEnableDB = TRUE /\ builder'.databaseConfig = cfg
  BY <1>1, <1>3, DatabaseSets, Zenon
<1> HIDE DEF c
<1>5. DatabaseFollows(c) /\ StoresFollow(c) /\ ServicesFollow(c)
  BY <1>2, <1>4
     DEF Only, Build!Fields, AutoOf, DatabaseFollows, StoresFollow, ServicesFollow
<1>6. CallbacksFollow(c)
  BY <1>2, <1>4 DEF Only, Build!Fields, AutoOf, CallbacksFollow
<1>7. /\ builder'.IsEnableZapLogs = builder.IsEnableZapLogs
      /\ builder'.logInitErr = builder.logInitErr
      /\ builder' = [f \in Build!Fields |-> builder'[f]]
  BY <1>4 DEF Only, Build!Fields, HasFields
<1> QED
  BY <1>1, <1>2, <1>5, <1>6, <1>7, SetterFollows

LEMMA NamedFollows ==
  ASSUME Build!TypeOK, Build!Call("EnableNamedDatabase", "audit", {}),
         Build!Sets(Build!EnableNamedDatabase(builder, "audit"))
  PROVE  \E c : Follows(c)
<1> DEFINE c == [op |-> "EnableNamedDatabase", arg |-> "audit", models |-> {}]
<1>1. Quiet(c) /\ builder' = Build!EnableNamedDatabase(builder, "audit")
  BY CallIsQuiet
<1>2. c.op = "EnableNamedDatabase" /\ c.arg = "audit"
  OBVIOUS
<1>3. HasFields(builder)
  BY Zenon DEF Build!TypeOK, HasFields
<1>f. "named" \in Build!Fields
  BY DEF Build!Fields
<1>4. /\ Only(builder, builder', {"named"})
  BY <1>1, <1>3, <1>f, SetField, Zenon DEF HasFields, Only, Build!EnableNamedDatabase
<1> HIDE DEF c
<1>5. DatabaseFollows(c) /\ StoresFollow(c) /\ ServicesFollow(c)
  BY <1>2, <1>4
     DEF Only, Build!Fields, AutoOf, DatabaseFollows, StoresFollow, ServicesFollow
<1>6. CallbacksFollow(c)
  BY <1>2, <1>4 DEF Only, Build!Fields, AutoOf, CallbacksFollow
<1>7. /\ builder'.IsEnableZapLogs = builder.IsEnableZapLogs
      /\ builder'.logInitErr = builder.logInitErr
      /\ builder' = [f \in Build!Fields |-> builder'[f]]
  BY <1>4 DEF Only, Build!Fields, HasFields
<1> QED
  BY <1>1, <1>2, <1>5, <1>6, <1>7, SetterFollows

LEMMA ModelsFollow ==
  ASSUME Build!TypeOK, Build!Call("RegisterModels", "All", {"Role"}),
         Build!Sets(Build!RegisterModels(builder, {"Role"}))
  PROVE  \E c : Follows(c)
<1> DEFINE c == [op |-> "RegisterModels", arg |-> "All", models |-> {"Role"}]
<1>1. Quiet(c) /\ builder' = Build!RegisterModels(builder, {"Role"})
  BY CallIsQuiet
<1>2. c.op = "RegisterModels" /\ c.arg = "All"
  OBVIOUS
<1>3. HasFields(builder)
  BY Zenon DEF Build!TypeOK, HasFields
<1>f. "modelProvider" \in Build!Fields
  BY DEF Build!Fields
<1>4. /\ Only(builder, builder', {"modelProvider"})
  BY <1>1, <1>3, <1>f, SetField, Zenon DEF HasFields, Only, Build!RegisterModels
<1> HIDE DEF c
<1>5. DatabaseFollows(c) /\ StoresFollow(c) /\ ServicesFollow(c)
  BY <1>2, <1>4
     DEF Only, Build!Fields, AutoOf, DatabaseFollows, StoresFollow, ServicesFollow
<1>6. CallbacksFollow(c)
  BY <1>2, <1>4 DEF Only, Build!Fields, AutoOf, CallbacksFollow
<1>7. /\ builder'.IsEnableZapLogs = builder.IsEnableZapLogs
      /\ builder'.logInitErr = builder.logInitErr
      /\ builder' = [f \in Build!Fields |-> builder'[f]]
  BY <1>4 DEF Only, Build!Fields, HasFields
<1> QED
  BY <1>1, <1>2, <1>5, <1>6, <1>7, SetterFollows

LEMMA AdminFollows ==
  ASSUME Build!TypeOK, Build!Call("EnableAdmin", ":7000", {}),
         Build!Sets(Build!EnableAdmin(builder, ":7000"))
  PROVE  \E c : Follows(c)
<1> DEFINE c == [op |-> "EnableAdmin", arg |-> ":7000", models |-> {}]
<1>1. Quiet(c) /\ builder' = Build!EnableAdmin(builder, ":7000")
  BY CallIsQuiet
<1>2. c.op = "EnableAdmin" /\ c.arg = ":7000"
  OBVIOUS
<1>3. HasFields(builder)
  BY Zenon DEF Build!TypeOK, HasFields
<1>4. /\ Only(builder, builder', {"admin", "adminRoutes"})
  BY <1>1, <1>3, AdminSets, Zenon
<1> HIDE DEF c
<1>5. DatabaseFollows(c) /\ StoresFollow(c) /\ ServicesFollow(c)
  BY <1>2, <1>4
     DEF Only, Build!Fields, AutoOf, DatabaseFollows, StoresFollow, ServicesFollow
<1>6. CallbacksFollow(c)
  BY <1>2, <1>4 DEF Only, Build!Fields, AutoOf, CallbacksFollow
<1>7. /\ builder'.IsEnableZapLogs = builder.IsEnableZapLogs
      /\ builder'.logInitErr = builder.logInitErr
      /\ builder' = [f \in Build!Fields |-> builder'[f]]
  BY <1>4 DEF Only, Build!Fields, HasFields
<1> QED
  BY <1>1, <1>2, <1>5, <1>6, <1>7, SetterFollows

LEMMA AdminRoutesFollow ==
  ASSUME Build!TypeOK, Build!Call("EnableAdminRoutes", "stats", {}),
         Build!Sets(Build!EnableAdminRoutes(builder, "stats"))
  PROVE  \E c : Follows(c)
<1> DEFINE c == [op |-> "EnableAdminRoutes", arg |-> "stats", models |-> {}]
<1>1. Quiet(c) /\ builder' = Build!EnableAdminRoutes(builder, "stats")
  BY CallIsQuiet
<1>2. c.op = "EnableAdminRoutes" /\ c.arg = "stats"
  OBVIOUS
<1>3. HasFields(builder)
  BY Zenon DEF Build!TypeOK, HasFields
<1>4. /\ Only(builder, builder', {"admin", "adminRoutes"})
      /\ builder'.adminRoutes # {}
  BY <1>1, <1>3, AdminRoutesSets, Zenon
<1> HIDE DEF c
<1>5. DatabaseFollows(c) /\ StoresFollow(c) /\ ServicesFollow(c)
  BY <1>2, <1>4
     DEF Only, Build!Fields, AutoOf, DatabaseFollows, StoresFollow, ServicesFollow
<1>6. CallbacksFollow(c)
  BY <1>2, <1>4 DEF Only, Build!Fields, AutoOf, CallbacksFollow
<1>7. /\ builder'.IsEnableZapLogs = builder.IsEnableZapLogs
      /\ builder'.logInitErr = builder.logInitErr
      /\ builder' = [f \in Build!Fields |-> builder'[f]]
  BY <1>4 DEF Only, Build!Fields, HasFields
<1> QED
  BY <1>1, <1>2, <1>5, <1>6, <1>7, SetterFollows

LEMMA CacheFollows ==
  ASSUME Build!TypeOK, Build!Call("EnableCache", "redis", {}),
         Build!Sets(Build!EnableCache(builder, "redis"))
  PROVE  \E c : Follows(c)
<1> DEFINE c == [op |-> "EnableCache", arg |-> "redis", models |-> {}]
<1>1. Quiet(c) /\ builder' = Build!EnableCache(builder, "redis")
  BY CallIsQuiet
<1>2. c.op = "EnableCache" /\ c.arg = "redis"
  OBVIOUS
<1>3. HasFields(builder)
  BY Zenon DEF Build!TypeOK, HasFields
<1>f. "redis" \in Build!Fields
  BY DEF Build!Fields
<1>4. /\ Only(builder, builder', {"redis"})
      /\ builder'.redis = "redis"
  BY <1>1, <1>3, <1>f, SetField, Zenon DEF HasFields, Only, Build!EnableCache
<1> HIDE DEF c
<1>5. DatabaseFollows(c) /\ StoresFollow(c) /\ ServicesFollow(c)
  BY <1>2, <1>4
     DEF Only, Build!Fields, AutoOf, DatabaseFollows, StoresFollow, ServicesFollow
<1>6. CallbacksFollow(c)
  BY <1>2, <1>4 DEF Only, Build!Fields, AutoOf, CallbacksFollow
<1>7. /\ builder'.IsEnableZapLogs = builder.IsEnableZapLogs
      /\ builder'.logInitErr = builder.logInitErr
      /\ builder' = [f \in Build!Fields |-> builder'[f]]
  BY <1>4 DEF Only, Build!Fields, HasFields
<1> QED
  BY <1>1, <1>2, <1>5, <1>6, <1>7, SetterFollows

LEMMA MongoFollows ==
  ASSUME Build!TypeOK, NEW cfg,
         Build!Call("EnableMongoDB", cfg, {}),
         Build!Sets(Build!EnableMongoDB(builder, cfg))
  PROVE  \E c : Follows(c)
<1> DEFINE c == [op |-> "EnableMongoDB", arg |-> cfg, models |-> {}]
<1>1. Quiet(c) /\ builder' = Build!EnableMongoDB(builder, cfg)
  BY CallIsQuiet
<1>2. c.op = "EnableMongoDB" /\ c.arg = cfg
  OBVIOUS
<1>3. HasFields(builder)
  BY Zenon DEF Build!TypeOK, HasFields
<1>4. /\ Only(builder, builder', {"mongo"})
      /\ builder'.mongo = IF cfg = "nil" THEN builder.mongo ELSE cfg
  BY <1>1, <1>3, MongoSets, Zenon
<1> HIDE DEF c
<1>5. DatabaseFollows(c) /\ StoresFollow(c) /\ ServicesFollow(c)
  BY <1>2, <1>4
     DEF Only, Build!Fields, AutoOf, DatabaseFollows, StoresFollow, ServicesFollow
<1>6. CallbacksFollow(c)
  BY <1>2, <1>4 DEF Only, Build!Fields, AutoOf, CallbacksFollow
<1>7. /\ builder'.IsEnableZapLogs = builder.IsEnableZapLogs
      /\ builder'.logInitErr = builder.logInitErr
      /\ builder' = [f \in Build!Fields |-> builder'[f]]
  BY <1>4 DEF Only, Build!Fields, HasFields
<1> QED
  BY <1>1, <1>2, <1>5, <1>6, <1>7, SetterFollows

LEMMA CronFollows ==
  ASSUME Build!TypeOK, Build!Call("InitCronJob", "nil", {}),
         Build!Sets(Build!InitCronJob(builder))
  PROVE  \E c : Follows(c)
<1> DEFINE c == [op |-> "InitCronJob", arg |-> "nil", models |-> {}]
<1>1. Quiet(c) /\ builder' = Build!InitCronJob(builder)
  BY CallIsQuiet
<1>2. c.op = "InitCronJob" /\ c.arg = "nil"
  OBVIOUS
<1>3. HasFields(builder)
  BY Zenon DEF Build!TypeOK, HasFields
<1>4. /\ Only(builder, builder', {"IsRunningCronJob"})
      /\ builder'.IsRunningCronJob = TRUE
  BY <1>1, <1>3, CronSets, Zenon
<1> HIDE DEF c
<1>5. DatabaseFollows(c) /\ StoresFollow(c) /\ ServicesFollow(c)
  BY <1>2, <1>4
     DEF Only, Build!Fields, AutoOf, DatabaseFollows, StoresFollow, ServicesFollow
<1>6. CallbacksFollow(c)
  BY <1>2, <1>4 DEF Only, Build!Fields, AutoOf, CallbacksFollow
<1>7. /\ builder'.IsEnableZapLogs = builder.IsEnableZapLogs
      /\ builder'.logInitErr = builder.logInitErr
      /\ builder' = [f \in Build!Fields |-> builder'[f]]
  BY <1>4 DEF Only, Build!Fields, HasFields
<1> QED
  BY <1>1, <1>2, <1>5, <1>6, <1>7, SetterFollows

LEMMA BeforeFollows ==
  ASSUME Build!TypeOK, NEW fs \in Seq(Build!Callbacks),
         Build!Call("BeforeSetup", fs, {}),
         Build!Sets(Build!BeforeSetup(builder, fs))
  PROVE  \E c : Follows(c)
<1> DEFINE c == [op |-> "BeforeSetup", arg |-> fs, models |-> {}]
<1>1. Quiet(c) /\ builder' = Build!BeforeSetup(builder, fs)
  BY CallIsQuiet
<1>2. c.op = "BeforeSetup" /\ c.arg = fs
  OBVIOUS
<1>3. HasFields(builder)
  BY Zenon DEF Build!TypeOK, HasFields
<1>f. "beforeSetups" \in Build!Fields
  BY DEF Build!Fields
<1>4. /\ Only(builder, builder', {"beforeSetups"})
      /\ builder'.beforeSetups = builder.beforeSetups \o Build!NotNil(fs)
  BY <1>1, <1>3, <1>f, SetField, Zenon
     DEF HasFields, Only, Build!BeforeSetup, Build!appendSetupFunctions
<1> HIDE DEF c
<1>5. DatabaseFollows(c) /\ StoresFollow(c) /\ ServicesFollow(c)
  BY <1>2, <1>4
     DEF Only, Build!Fields, AutoOf, DatabaseFollows, StoresFollow, ServicesFollow
<1>6. CallbacksFollow(c)
  BY <1>2, <1>4 DEF Only, Build!Fields, AutoOf, CallbacksFollow
<1>7. /\ builder'.IsEnableZapLogs = builder.IsEnableZapLogs
      /\ builder'.logInitErr = builder.logInitErr
      /\ builder' = [f \in Build!Fields |-> builder'[f]]
  BY <1>4 DEF Only, Build!Fields, HasFields
<1> QED
  BY <1>1, <1>2, <1>5, <1>6, <1>7, SetterFollows

LEMMA AfterFollows ==
  ASSUME Build!TypeOK, NEW fs,
         Build!Call("AfterSetup", fs, {}),
         Build!Sets(Build!AfterSetup(builder, fs))
  PROVE  \E c : Follows(c)
<1> DEFINE c == [op |-> "AfterSetup", arg |-> fs, models |-> {}]
<1>1. Quiet(c) /\ builder' = Build!AfterSetup(builder, fs)
  BY CallIsQuiet
<1>2. c.op = "AfterSetup" /\ c.arg = fs
  OBVIOUS
<1>3. HasFields(builder)
  BY Zenon DEF Build!TypeOK, HasFields
<1>f. "afterSetups" \in Build!Fields
  BY DEF Build!Fields
<1>4. /\ Only(builder, builder', {"afterSetups"})
  BY <1>1, <1>3, <1>f, SetField, Zenon DEF HasFields, Only, Build!AfterSetup
<1> HIDE DEF c
<1>5. DatabaseFollows(c) /\ StoresFollow(c) /\ ServicesFollow(c)
  BY <1>2, <1>4
     DEF Only, Build!Fields, AutoOf, DatabaseFollows, StoresFollow, ServicesFollow
<1>6. CallbacksFollow(c)
  BY <1>2, <1>4 DEF Only, Build!Fields, AutoOf, CallbacksFollow
<1>7. /\ builder'.IsEnableZapLogs = builder.IsEnableZapLogs
      /\ builder'.logInitErr = builder.logInitErr
      /\ builder' = [f \in Build!Fields |-> builder'[f]]
  BY <1>4 DEF Only, Build!Fields, HasFields
<1> QED
  BY <1>1, <1>2, <1>5, <1>6, <1>7, SetterFollows

LEMMA SeedsFollow ==
  ASSUME Build!TypeOK, NEW fs \in Seq(Build!Callbacks),
         Build!Call("SetSeeds", fs, {}),
         Build!Sets(Build!SetSeeds(builder, fs))
  PROVE  \E c : Follows(c)
<1> DEFINE c == [op |-> "SetSeeds", arg |-> fs, models |-> {}]
<1>1. Quiet(c) /\ builder' = Build!SetSeeds(builder, fs)
  BY CallIsQuiet
<1>2. c.op = "SetSeeds" /\ c.arg = fs
  OBVIOUS
<1>3. HasFields(builder)
  BY Zenon DEF Build!TypeOK, HasFields
<1>4. /\ Only(builder, builder', {"IsRunningCronJob", "seeds"})
      /\ builder'.seeds = builder.seeds \o Build!NotNil(fs)
      /\ builder'.IsRunningCronJob <=>
           builder.IsRunningCronJob \/ Len(builder'.seeds) > Len(builder.seeds)
  BY <1>1, <1>3, SeedsSet, Zenon
<1> HIDE DEF c
<1>5. DatabaseFollows(c) /\ StoresFollow(c) /\ ServicesFollow(c)
  BY <1>2, <1>4
     DEF Only, Build!Fields, AutoOf, DatabaseFollows, StoresFollow, ServicesFollow
<1>6. CallbacksFollow(c)
  BY <1>2, <1>4 DEF Only, Build!Fields, AutoOf, CallbacksFollow
<1>7. /\ builder'.IsEnableZapLogs = builder.IsEnableZapLogs
      /\ builder'.logInitErr = builder.logInitErr
      /\ builder' = [f \in Build!Fields |-> builder'[f]]
  BY <1>4 DEF Only, Build!Fields, HasFields
<1> QED
  BY <1>1, <1>2, <1>5, <1>6, <1>7, SetterFollows

(* A stop hook that is nil is not kept.                                    *)
LEMMA ShutdownFollows ==
  ASSUME Build!TypeOK, NEW h \in {"nil", "stop"},
         Build!Call("OnShutdown", <<"queue", h>>, {}),
         Build!Sets(Build!OnShutdown(builder, "queue", h))
  PROVE  \E c : Follows(c)
<1> DEFINE c == [op |-> "OnShutdown", arg |-> <<"queue", h>>, models |-> {}]
<1>1. Quiet(c) /\ builder' = Build!OnShutdown(builder, "queue", h)
  BY CallIsQuiet
<1>2. c.op = "OnShutdown" /\ c.arg = <<"queue", h>>
  OBVIOUS
<1>3. HasFields(builder)
  BY Zenon DEF Build!TypeOK, HasFields
<1> HIDE DEF c
<1>4. /\ Only(builder, builder', {"hooks"})
      /\ builder'.hooks =
           IF h = "nil" THEN builder.hooks ELSE Append(builder.hooks, "queue")
  <2>1. CASE h = "nil"
    <3>1. builder' = builder
      BY <1>1, <2>1 DEF Build!OnShutdown, Build!Nil, Build!Empty
    <3>2. Only(builder, builder', {"hooks"})
      BY <3>1, <1>3, Zenon DEF Only
    <3> QED
      BY <3>1, <3>2, <2>1
  <2>2. CASE h # "nil"
    <3> DEFINE more == Append(builder.hooks, "queue")
    <3>1. builder' = [builder EXCEPT !.hooks = more]
      BY <1>1, <2>2 DEF Build!OnShutdown, Build!Nil, Build!Empty
    <3>2. "hooks" \in Build!Fields
      BY DEF Build!Fields
    <3> HIDE DEF more
    <3>3. Only(builder, builder', {"hooks"}) /\ builder'.hooks = more
      BY <1>3, <3>1, <3>2, SetField, Zenon DEF HasFields, Only
    <3> QED
      BY <3>3, <2>2, Zenon DEF more
  <2> QED
    BY <2>1, <2>2
<1>5. DatabaseFollows(c) /\ StoresFollow(c) /\ ServicesFollow(c)
  BY <1>2, <1>4
     DEF Only, Build!Fields, AutoOf, DatabaseFollows, StoresFollow, ServicesFollow
<1>6. CallbacksFollow(c)
  BY <1>2, <1>4 DEF Only, Build!Fields, AutoOf, CallbacksFollow
<1>7. /\ builder'.IsEnableZapLogs = builder.IsEnableZapLogs
      /\ builder'.logInitErr = builder.logInitErr
      /\ builder' = [f \in Build!Fields |-> builder'[f]]
  BY <1>4 DEF Only, Build!Fields, HasFields
<1> QED
  BY <1>1, <1>2, <1>5, <1>6, <1>7, SetterFollows

(* The logger: a logger that could be created is of the level it was given.   *)
HasLoggerFields(l) == l = [f \in Build!LoggerFields |-> l[f]]

Made(l) ==
  /\ l.minimum = l.Level /\ l.console = l.Level
  /\ l.logWriters = Build!newEncoderCore(l.Level)

LEMMA LogInitMakes ==
  ASSUME NEW l, HasLoggerFields(l)
  PROVE  LET done == Build!LogInit(l) IN
         /\ HasLoggerFields(done.zaplog) /\ done.failed \in BOOLEAN
         /\ ~ done.failed => Made(done.zaplog)
         /\ l.Director # "unwritable" /\ l.Level \in Build!SetOfLevels => ~ done.failed
<1> DEFINE parses == l.Level \in Build!SetOfLevels
           level == IF parses THEN l.Level ELSE "info"
           empty == {}
           writers == Build!newEncoderCore(level)
           emptied == [l EXCEPT !.logWriters = empty]
           levelled == [emptied EXCEPT !.console = level]
           created == [levelled EXCEPT !.minimum = level, !.logWriters = writers]
           done == Build!LogInit(l)
<1>f. /\ "Director" \in Build!LoggerFields /\ "Level" \in Build!LoggerFields
      /\ "minimum" \in Build!LoggerFields /\ "console" \in Build!LoggerFields
      /\ "logWriters" \in Build!LoggerFields
  BY DEF Build!LoggerFields
<1>1. done = IF l.Director = "unwritable" THEN [failed |-> TRUE, zaplog |-> emptied]
             ELSE IF ~ parses THEN [failed |-> TRUE, zaplog |-> levelled]
             ELSE [failed |-> FALSE, zaplog |-> created]
  BY Zenon DEF Build!LogInit
<1>2. levelled = [emptied EXCEPT !.console = level]
  BY Zenon
<1>3. created = [levelled EXCEPT !.minimum = level, !.logWriters = writers]
  BY Zenon
<1>4. emptied = [l EXCEPT !.logWriters = empty]
  BY Zenon
<1>5. writers = Build!newEncoderCore(level)
  BY Zenon
<1>6. parses => level = l.Level
  BY Zenon
<1> HIDE DEF level, empty, writers, emptied, levelled, created, done
<1>7. /\ HasLoggerFields(emptied)
      /\ \A f \in Build!LoggerFields \ {"logWriters"} : emptied[f] = l[f]
  BY <1>4, <1>f, SetField, Zenon DEF HasLoggerFields
<1>8. /\ HasLoggerFields(levelled) /\ levelled.console = level
      /\ \A f \in Build!LoggerFields \ {"console"} : levelled[f] = emptied[f]
  BY <1>2, <1>7, <1>f, SetField, Zenon DEF HasLoggerFields
<1>n. "minimum" # "logWriters"
  OBVIOUS
<1>9. /\ HasLoggerFields(created) /\ created.minimum = level /\ created.logWriters = writers
      /\ \A f \in Build!LoggerFields \ {"minimum", "logWriters"} : created[f] = levelled[f]
  BY <1>3, <1>8, <1>f, <1>n, SetTwoFields, Zenon DEF HasLoggerFields
<1>10. created.Level = l.Level /\ created.console = level
  BY <1>7, <1>8, <1>9, <1>f
<1>11. parses => Made(created)
  BY <1>5, <1>6, <1>9, <1>10, Zenon DEF Made
<1>12. CASE l.Director = "unwritable"
  <2>1. done.failed = TRUE /\ done.zaplog = emptied
    BY <1>1, <1>12
  <2> QED
    BY <2>1, <1>7, <1>12 DEF done
<1>13. CASE l.Director # "unwritable" /\ ~ parses
  <2>1. done.failed = TRUE /\ done.zaplog = levelled
    BY <1>1, <1>13
  <2> QED
    BY <2>1, <1>8, <1>13 DEF done
<1>14. CASE l.Director # "unwritable" /\ parses
  <2>1. done.failed = FALSE /\ done.zaplog = created
    BY <1>1, <1>14
  <2> QED
    BY <2>1, <1>9, <1>11, <1>14 DEF done
<1> QED
  BY <1>12, <1>13, <1>14

LEMMA ConfiguredMakes ==
  ASSUME NEW l, HasLoggerFields(l), NEW dir, NEW level
  PROVE  LET m == Build!Configured(l, dir, level) IN
         /\ HasLoggerFields(m)
         /\ dir # "empty" => m.Director = dir
         /\ level # "empty" => m.Level = level
<1> DEFINE d == IF dir = "empty" THEN l.Director ELSE dir
           v == IF level = "empty" THEN l.Level ELSE level
           m == Build!Configured(l, dir, level)
<1>1. /\ "Director" \in Build!LoggerFields /\ "Level" \in Build!LoggerFields
      /\ "Director" # "Level"
  BY DEF Build!LoggerFields
<1>2. m = [l EXCEPT !.Director = d, !.Level = v]
  BY DEF Build!Configured, Build!Empty
<1>3. (dir # "empty" => d = dir) /\ (level # "empty" => v = level)
  BY Zenon
<1> HIDE DEF d, v, m
<1>4. HasLoggerFields(m) /\ m.Director = d /\ m.Level = v
  BY <1>1, <1>2, SetTwoFields, Zenon DEF HasLoggerFields
<1> QED
  BY <1>3, <1>4, Zenon DEF m

LEMMA InitLogMakes ==
  ASSUME NEW s, HasFields(s.build), HasLoggerFields(s.zaplog), NEW dir, NEW level
  PROVE  LET r == Build!InitLog(s, dir, level) IN
         /\ Only(s.build, r.build, {"IsEnableZapLogs", "logInitErr"})
         /\ r.build.IsEnableZapLogs = TRUE
         /\ r.build.logInitErr \in BOOLEAN
         /\ HasLoggerFields(r.zaplog)
         /\ ~ r.build.logInitErr => Made(r.zaplog)
         /\ (/\ dir # "empty" /\ dir # "unwritable"
             /\ level # "empty" /\ level \in Build!SetOfLevels) =>
              r.build.logInitErr = FALSE
<1> DEFINE m == Build!Configured(s.zaplog, dir, level)
           done == Build!LogInit(m)
           b == [s.build EXCEPT !.IsEnableZapLogs = TRUE, !.logInitErr = done.failed]
           r == Build!InitLog(s, dir, level)
<1>1. r = [zaplog |-> done.zaplog, build |-> b]
  BY Zenon DEF Build!InitLog
<1>2. b = [s.build EXCEPT !.IsEnableZapLogs = TRUE, !.logInitErr = done.failed]
  BY Zenon
<1>3. /\ HasLoggerFields(m)
      /\ dir # "empty" => m.Director = dir
      /\ level # "empty" => m.Level = level
  BY ConfiguredMakes
<1>4. /\ HasLoggerFields(done.zaplog) /\ done.failed \in BOOLEAN
      /\ ~ done.failed => Made(done.zaplog)
      /\ m.Director # "unwritable" /\ m.Level \in Build!SetOfLevels => ~ done.failed
  BY <1>3, LogInitMakes, Zenon
<1> HIDE DEF m, done, b, r
<1>5. r.build = b /\ r.zaplog = done.zaplog
  BY <1>1
<1>6. /\ "IsEnableZapLogs" \in Build!Fields /\ "logInitErr" \in Build!Fields
      /\ "IsEnableZapLogs" # "logInitErr"
  BY DEF Build!Fields
<1> DEFINE old == s.build
           f == done.failed
<1>7. b = [old EXCEPT !.IsEnableZapLogs = TRUE, !.logInitErr = f] /\ HasFields(old)
  BY <1>2, Zenon
<1> HIDE DEF old, f
<1>8. /\ Only(old, b, {"IsEnableZapLogs", "logInitErr"})
      /\ b.IsEnableZapLogs = TRUE /\ b.logInitErr = f
  BY <1>6, <1>7, SetTwoFields, Zenon DEF HasFields, Only
<1>9. /\ Only(s.build, r.build, {"IsEnableZapLogs", "logInitErr"})
      /\ r.build.IsEnableZapLogs = TRUE /\ r.build.logInitErr = done.failed
  BY <1>5, <1>8, Zenon DEF old, f
<1>10. (/\ dir # "empty" /\ dir # "unwritable"
        /\ level # "empty" /\ level \in Build!SetOfLevels) =>
          r.build.logInitErr = FALSE
  BY <1>3, <1>4, <1>9
<1> QED
  BY <1>4, <1>5, <1>9, <1>10, Zenon DEF r

LEMMA KnownLevels ==
  /\ "info" \in Build!SetOfLevels /\ "debug" \in Build!SetOfLevels
  /\ "info" # "empty" /\ "debug" # "empty"
<1>1. \A i \in 1 .. 4 : Build!Levels[i] \in Build!SetOfLevels
  BY DEF Build!SetOfLevels, Build!Levels
<1>2. Build!Levels[1] = "debug" /\ Build!Levels[2] = "info"
  BY DEF Build!Levels
<1> QED
  BY <1>1, <1>2

(* AutoConfigure, module by module: each step sets its own fields only.    *)
AutoSet ==
  {"IsEnableDB", "databaseConfig", "dbModels", "redis", "mongo",
   "IsRunningCronJob", "admin", "adminRoutes", "irisApp", "routes",
   "IsEnableZapLogs", "logInitErr"}

LEMMA AutoLogs ==
  ASSUME NEW b, HasFields(b), NEW l, HasLoggerFields(l)
  PROVE  LET r == Build!InitLog([build |-> b, zaplog |-> l], "auto", "info") IN
         /\ Only(b, r.build, {"IsEnableZapLogs", "logInitErr"})
         /\ r.build.IsEnableZapLogs = TRUE /\ r.build.logInitErr = FALSE
         /\ HasLoggerFields(r.zaplog) /\ Made(r.zaplog)
         /\ r = [build |-> r.build, zaplog |-> r.zaplog]
<1> DEFINE s == [build |-> b, zaplog |-> l]
           r == Build!InitLog(s, "auto", "info")
<1>1. HasFields(s.build) /\ HasLoggerFields(s.zaplog) /\ s.build = b
  OBVIOUS
<1>2. r = [build |-> r.build, zaplog |-> r.zaplog]
  BY DEF Build!InitLog
<1> HIDE DEF s
<1>3. /\ Only(s.build, r.build, {"IsEnableZapLogs", "logInitErr"})
      /\ r.build.IsEnableZapLogs = TRUE
      /\ HasLoggerFields(r.zaplog)
      /\ ~ r.build.logInitErr => Made(r.zaplog)
      /\ "info" \in Build!SetOfLevels => r.build.logInitErr = FALSE
  BY <1>1, InitLogMakes
<1> HIDE DEF r
<1> QED
  BY <1>1, <1>2, <1>3, KnownLevels DEF r, s

AutoMakes(b, l, ms, r) ==
  /\ Only(b, r.build, AutoSet) /\ HasLoggerFields(r.zaplog)
  /\ "database" \in ms =>
       r.build.IsEnableDB = TRUE /\ r.build.databaseConfig = "auto"
  /\ "database" \notin ms =>
       /\ r.build.IsEnableDB = b.IsEnableDB
       /\ r.build.databaseConfig = b.databaseConfig
  /\ "cache" \in ms \/ r.build.redis = b.redis
  /\ r.build.mongo = IF "mongo" \in ms THEN "auto" ELSE b.mongo
  /\ r.build.IsRunningCronJob <=> b.IsRunningCronJob \/ "cron" \in ms
  /\ "admin" \in ms \/ r.build.adminRoutes = b.adminRoutes
  /\ r.build.irisApp = IF "web" \in ms /\ b.irisApp = "nil" THEN ":auto"
                       ELSE b.irisApp
  /\ "log" \in ms =>
       /\ r.build.IsEnableZapLogs = TRUE /\ r.build.logInitErr = FALSE
       /\ Made(r.zaplog)
  /\ "log" \notin ms =>
       /\ r.build.IsEnableZapLogs = b.IsEnableZapLogs
       /\ r.build.logInitErr = b.logInitErr /\ r.zaplog = l

LEMMA AutoSteps ==
  ASSUME NEW b, HasFields(b), NEW l, HasLoggerFields(l), NEW ms, NEW r,
         r = Build!AutoConfigure([build |-> b, zaplog |-> l], ms)
  PROVE  AutoMakes(b, l, ms, r)
<1> DEFINE s == [build |-> b, zaplog |-> l]
           created == Build!InitLog(s, "auto", "info")
           logged == IF "log" \in ms THEN created ELSE s
           b1 == logged.build
           b2 == IF "database" \in ms THEN Build!EnableDatabase(b1, "auto", {}) ELSE b1
           b3 == IF "cache" \in ms THEN Build!EnableCache(b2, "auto") ELSE b2
           b4 == IF "mongo" \in ms THEN Build!EnableMongoDB(b3, "auto") ELSE b3
           b5 == IF "cron" \in ms THEN Build!InitCronJob(b4) ELSE b4
           b6 == IF "admin" \in ms THEN Build!EnableAdmin(b5, ":auto") ELSE b5
           routes == Build!AutoRoutes(ms)
           b7 == IF "web" \in ms /\ b6.irisApp = "nil"
                 THEN Build!EnableWeb(b6, ":auto", routes) ELSE b6
<1>0. r = [logged EXCEPT !.build = b7]
  BY Zenon DEF Build!AutoConfigure, Build!AutoWeb, Build!Nil
<1>m. /\ Only(b, created.build, {"IsEnableZapLogs", "logInitErr"})
      /\ created.build.IsEnableZapLogs = TRUE /\ created.build.logInitErr = FALSE
      /\ HasLoggerFields(created.zaplog) /\ Made(created.zaplog)
      /\ created = [build |-> created.build, zaplog |-> created.zaplog]
  BY AutoLogs, Zenon
<1>s. s.build = b /\ s.zaplog = l /\ s = [build |-> s.build, zaplog |-> s.zaplog]
  OBVIOUS
<1>l. logged = IF "log" \in ms THEN created ELSE s
  BY Zenon
<1> HIDE DEF created, s, logged
<1>1. /\ Only(b, b1, {"IsEnableZapLogs", "logInitErr"})
      /\ HasLoggerFields(logged.zaplog)
      /\ "log" \in ms => /\ b1.IsEnableZapLogs = TRUE /\ b1.logInitErr = FALSE
                         /\ Made(logged.zaplog)
      /\ "log" \notin ms => b1 = b /\ logged.zaplog = l
      /\ logged = [build |-> logged.build, zaplog |-> logged.zaplog]
  <2>1. CASE "log" \in ms
    <3>1. logged = created
      BY <1>l, <2>1, Zenon
    <3> QED
      BY <3>1, <2>1, <1>m
  <2>2. CASE "log" \notin ms
    <3>1. logged = s
      BY <1>l, <2>2, Zenon
    <3> QED
      BY <3>1, <2>2, <1>s DEF Only
  <2> QED
    BY <2>1, <2>2
<1>d1. b2 = IF "database" \in ms THEN Build!EnableDatabase(b1, "auto", {}) ELSE b1
  BY Zenon
<1>d2. b3 = IF "cache" \in ms THEN Build!EnableCache(b2, "auto") ELSE b2
  BY Zenon
<1>d3. b4 = IF "mongo" \in ms THEN Build!EnableMongoDB(b3, "auto") ELSE b3
  BY Zenon
<1>d4. b5 = IF "cron" \in ms THEN Build!InitCronJob(b4) ELSE b4
  BY Zenon
<1>d5. b6 = IF "admin" \in ms THEN Build!EnableAdmin(b5, ":auto") ELSE b5
  BY Zenon
<1>d6. b7 = IF "web" \in ms /\ b6.irisApp = "nil"
            THEN Build!EnableWeb(b6, ":auto", routes) ELSE b6
  BY Zenon
<1>7. r.build = b7 /\ r.zaplog = logged.zaplog
  <2> HIDE DEF b7
  <2> QED
    BY <1>0, <1>1
<1> HIDE DEF b1, b2, b3, b4, b5, b6, b7, routes
<1>b1. HasFields(b1)
  BY <1>1, Zenon DEF Only
<1>n. \A z, F : HasFields(z) => Only(z, z, F)
  BY Zenon DEF Only
<1>2. /\ Only(b1, b2, {"IsEnableDB", "databaseConfig", "dbModels"})
      /\ "database" \in ms => b2.IsEnableDB = TRUE /\ b2.databaseConfig = "auto"
      /\ "database" \notin ms => b2 = b1
      /\ HasFields(b2)
  <2>1. CASE "database" \in ms
    <3>1. b2 = Build!EnableDatabase(b1, "auto", {})
      BY <1>d1, <2>1, Zenon
    <3>2. /\ Only(b1, b2, {"IsEnableDB", "databaseConfig", "dbModels"})
          /\ b2.IsEnableDB = TRUE /\ b2.databaseConfig = "auto"
      BY <3>1, <1>b1, DatabaseSets, Zenon
    <3> QED
      BY <3>2, <2>1, Zenon DEF Only
  <2>2. CASE "database" \notin ms
    BY <1>d1, <1>b1, <1>n, <2>2, Zenon
  <2> QED
    BY <2>1, <2>2
<1>3. /\ Only(b2, b3, {"redis"}) /\ HasFields(b3)
      /\ "cache" \notin ms => b3 = b2
  <2>1. "redis" \in Build!Fields
    BY DEF Build!Fields
  <2>2. CASE "cache" \in ms
    <3>1. b3 = [b2 EXCEPT !.redis = "auto"]
      BY <1>d2, <2>2, Zenon DEF Build!EnableCache
    <3> QED
      BY <3>1, <1>2, <2>1, <2>2, SetField, Zenon DEF HasFields, Only
  <2>3. CASE "cache" \notin ms
    BY <1>d2, <1>2, <1>n, <2>3, Zenon
  <2> QED
    BY <2>2, <2>3
<1>4. /\ Only(b3, b4, {"mongo"}) /\ HasFields(b4)
      /\ b4.mongo = IF "mongo" \in ms THEN "auto" ELSE b3.mongo
  <2>1. CASE "mongo" \in ms
    <3>1. b4 = Build!EnableMongoDB(b3, "auto")
      BY <1>d3, <2>1, Zenon
    <3>2. Only(b3, b4, {"mongo"}) /\ b4.mongo = "auto"
      BY <3>1, <1>3, MongoSets
    <3> QED
      BY <3>2, <2>1, Zenon DEF Only
  <2>2. CASE "mongo" \notin ms
    BY <1>d3, <1>3, <1>n, <2>2, Zenon
  <2> QED
    BY <2>1, <2>2
<1>5. /\ Only(b4, b5, {"IsRunningCronJob"}) /\ HasFields(b5)
      /\ b5.IsRunningCronJob <=> b4.IsRunningCronJob \/ "cron" \in ms
  <2>1. CASE "cron" \in ms
    <3>1. Only(b4, b5, {"IsRunningCronJob"}) /\ b5.IsRunningCronJob = TRUE
      BY <1>d4, <1>4, <2>1, CronSets, Zenon
    <3> QED
      BY <3>1, <2>1 DEF Only
  <2>2. CASE "cron" \notin ms
    BY <1>d4, <1>4, <1>n, <2>2, Zenon
  <2> QED
    BY <2>1, <2>2
<1>6. /\ Only(b5, b6, {"admin", "adminRoutes"}) /\ HasFields(b6)
      /\ "admin" \notin ms => b6 = b5
  BY <1>d5, <1>5, <1>n, AdminSets, Zenon DEF Only
<1>8. /\ Only(b6, b7, {"irisApp", "routes"})
      /\ b7.irisApp = IF "web" \in ms /\ b6.irisApp = "nil" THEN ":auto" ELSE b6.irisApp
  <2>1. CASE "web" \in ms /\ b6.irisApp = "nil"
    <3>1. Only(b6, b7, {"irisApp", "routes"}) /\ b7.irisApp = ":auto"
      BY <1>d6, <1>6, <2>1, WebSets, Zenon
    <3> QED
      BY <3>1, <2>1, Zenon
  <2>2. CASE ~ ("web" \in ms /\ b6.irisApp = "nil")
    BY <1>d6, <1>6, <1>n, <2>2, Zenon
  <2> QED
    BY <2>1, <2>2
<1>9. HasFields(b7)
  BY <1>8, Zenon DEF Only
<1>10. \A f \in Build!Fields \ AutoSet : b7[f] = b[f]
  BY <1>1, <1>2, <1>3, <1>4, <1>5, <1>6, <1>8 DEF Only, AutoSet
<1>11. /\ b7.IsEnableDB = b2.IsEnableDB /\ b7.databaseConfig = b2.databaseConfig
       /\ b7.redis = b3.redis /\ b7.mongo = b4.mongo
       /\ b7.IsRunningCronJob = b5.IsRunningCronJob
       /\ b7.adminRoutes = b6.adminRoutes
       /\ b7.IsEnableZapLogs = b1.IsEnableZapLogs /\ b7.logInitErr = b1.logInitErr
  BY <1>2, <1>3, <1>4, <1>5, <1>6, <1>8 DEF Only, Build!Fields
<1>12. /\ b1.IsEnableDB = b.IsEnableDB /\ b1.databaseConfig = b.databaseConfig
       /\ b2.redis = b.redis /\ b3.mongo = b.mongo
       /\ b4.IsRunningCronJob = b.IsRunningCronJob
       /\ b5.adminRoutes = b.adminRoutes /\ b6.irisApp = b.irisApp
  BY <1>1, <1>2, <1>3, <1>4, <1>5, <1>6 DEF Only, Build!Fields
<1>13. Only(b, b7, AutoSet)
  BY <1>9, <1>10, Zenon DEF Only
<1> QED
  BY <1>1, <1>2, <1>3, <1>4, <1>5, <1>6, <1>7, <1>8, <1>11, <1>12, <1>13
     DEF AutoMakes

LEMMA AutoFollows ==
  ASSUME Build!TypeOK, NEW ms,
         Build!Call("AutoConfigure", "modules", ms),
         Build!Configures(Build!AutoConfigure(Build!Whole, ms))
  PROVE  \E c : Follows(c)
<1> DEFINE c == [op |-> "AutoConfigure", arg |-> "modules", models |-> ms]
           r == Build!AutoConfigure([build |-> builder, zaplog |-> logger], ms)
<1>1. /\ calls' = Append(calls, c) /\ outcome = "none" /\ outcome' = outcome
      /\ builder' = r.build /\ logger' = r.zaplog
  BY Zenon DEF Build!Call, Build!Building, Build!Configures, Build!Whole
<1>2. c.op = "AutoConfigure" /\ \A m : AutoOf(c, m) <=> m \in ms
  BY DEF AutoOf
<1>3. HasFields(builder) /\ HasLoggerFields(logger)
  BY Zenon DEF Build!TypeOK, HasFields, HasLoggerFields
<1>4. r = Build!AutoConfigure([build |-> builder, zaplog |-> logger], ms)
  BY Zenon
<1> HIDE DEF c, r
<1>m. AutoMakes(builder, logger, ms, r)
  BY <1>3, <1>4, AutoSteps, Zenon
<1>5. /\ Only(builder, builder', AutoSet) /\ HasLoggerFields(logger')
      /\ "database" \in ms =>
           builder'.IsEnableDB = TRUE /\ builder'.databaseConfig = "auto"
      /\ "database" \notin ms =>
           /\ builder'.IsEnableDB = builder.IsEnableDB
           /\ builder'.databaseConfig = builder.databaseConfig
      /\ "cache" \in ms \/ builder'.redis = builder.redis
      /\ builder'.mongo = IF "mongo" \in ms THEN "auto" ELSE builder.mongo
      /\ builder'.IsRunningCronJob <=> builder.IsRunningCronJob \/ "cron" \in ms
      /\ "admin" \in ms \/ builder'.adminRoutes = builder.adminRoutes
      /\ builder'.irisApp = IF "web" \in ms /\ builder.irisApp = "nil" THEN ":auto"
                            ELSE builder.irisApp
      /\ "log" \in ms =>
           /\ builder'.IsEnableZapLogs = TRUE /\ builder'.logInitErr = FALSE
           /\ Made(logger')
      /\ "log" \notin ms =>
           /\ builder'.IsEnableZapLogs = builder.IsEnableZapLogs
           /\ builder'.logInitErr = builder.logInitErr /\ logger' = logger
  BY <1>1, <1>m, Zenon DEF AutoMakes
<1>6. /\ builder'.dbConfig = builder.dbConfig /\ builder'.seeds = builder.seeds
      /\ builder'.beforeSetups = builder.beforeSetups
      /\ builder'.hooks = builder.hooks
  BY <1>5 DEF Only, AutoSet, Build!Fields
<1>7. TypeFollows(c)
  BY <1>2, <1>5 DEF TypeFollows, Only, HasFields, HasLoggerFields
<1>8. DatabaseFollows(c)
  BY <1>2, <1>5, <1>6 DEF DatabaseFollows
<1>9. StoresFollow(c)
  BY <1>2, <1>5 DEF StoresFollow
<1>10. CallbacksFollow(c)
  <2>1. Len(builder.seeds) \in Nat
    BY DEF Build!TypeOK
  <2> QED
    BY <1>2, <1>5, <1>6, <2>1 DEF CallbacksFollow
<1>11. ServicesFollow(c)
  BY <1>2, <1>5 DEF ServicesFollow
<1>12. LoggerFollows(c)
  BY <1>2, <1>5 DEF LoggerFollows, Build!LoggerMade, Made
<1> QED
  BY <1>1, <1>7, <1>8, <1>9, <1>10, <1>11, <1>12, Zenon DEF Follows

LEMMA InitLogFollows ==
  ASSUME Build!TypeOK, NEW arg, Build!Call("InitLog", arg, {}),
         Build!Configures(Build!InitLog(Build!Whole, arg[1], arg[2]))
  PROVE  \E c : Follows(c)
<1> DEFINE c == [op |-> "InitLog", arg |-> arg, models |-> {}]
           s == Build!Whole
           r == Build!InitLog(s, arg[1], arg[2])
<1>1. /\ calls' = Append(calls, c) /\ outcome = "none" /\ outcome' = outcome
      /\ builder' = r.build /\ logger' = r.zaplog
  BY Zenon DEF Build!Call, Build!Building, Build!Configures
<1>2. c.op = "InitLog" /\ \A m : ~ AutoOf(c, m)
  BY DEF AutoOf
<1>3. HasFields(s.build) /\ HasLoggerFields(s.zaplog) /\ s.build = builder
  <2>1. s.build = builder /\ s.zaplog = logger
    BY DEF Build!Whole
  <2>2. HasFields(builder) /\ HasLoggerFields(logger)
    BY Zenon DEF Build!TypeOK, HasFields, HasLoggerFields
  <2> QED
    BY <2>1, <2>2, Zenon
<1> HIDE DEF c, s
<1>4. /\ Only(s.build, r.build, {"IsEnableZapLogs", "logInitErr"})
      /\ r.build.IsEnableZapLogs = TRUE
      /\ r.build.logInitErr \in BOOLEAN
      /\ HasLoggerFields(r.zaplog)
      /\ ~ r.build.logInitErr => Made(r.zaplog)
  BY <1>3, InitLogMakes
<1> HIDE DEF r
<1>5. /\ Only(builder, builder', {"IsEnableZapLogs", "logInitErr"})
      /\ builder'.IsEnableZapLogs = TRUE
      /\ \/ builder'.logInitErr = TRUE
         \/ builder'.logInitErr = FALSE /\ Made(logger')
      /\ HasLoggerFields(logger')
  BY <1>1, <1>3, <1>4
<1>6. TypeFollows(c)
  BY <1>2, <1>5 DEF TypeFollows, Only, HasFields, HasLoggerFields
<1>7. DatabaseFollows(c) /\ StoresFollow(c) /\ ServicesFollow(c)
  BY <1>2, <1>5 DEF Only, Build!Fields, DatabaseFollows, StoresFollow, ServicesFollow
<1>8. CallbacksFollow(c)
  <2>1. Len(builder.seeds) \in Nat
    BY DEF Build!TypeOK
  <2> QED
    BY <1>2, <1>5, <2>1 DEF Only, Build!Fields, CallbacksFollow
<1>9. LoggerFollows(c)
  BY <1>2, <1>5 DEF LoggerFollows, Build!LoggerMade, Made
<1> QED
  BY <1>1, <1>6, <1>7, <1>8, <1>9, Zenon DEF Follows

-----------------------------------------------------------------------------
(* Start: it leaves the builder alone, or makes a logger of its own first. *)
LEMMA StartKeeps ==
  ASSUME Build!IInv, Build!Start
  PROVE  Build!IInv'
<1> DEFINE flags == {"IsEnableZapLogs", "logInitErr"}
           s == IF builder.IsEnableZapLogs THEN Build!Whole
                ELSE Build!InitLog(Build!Whole, ".", "debug")
<1>1. /\ calls' = calls /\ outcome = "none"
      /\ builder' = s.build /\ logger' = s.zaplog
      /\ outcome' = IF Build!StartFails(builder') THEN "failed" ELSE "started"
  BY Zenon DEF Build!Start, Build!Configures
<1>2. /\ Only(builder, builder', flags) /\ builder'.IsEnableZapLogs = TRUE
      /\ HasLoggerFields(logger')
      /\ \/ builder' = builder /\ logger' = logger
         \/ builder'.logInitErr = FALSE /\ Made(logger')
  <2>t. HasFields(builder) /\ HasLoggerFields(logger) /\ builder.IsEnableZapLogs \in BOOLEAN
    BY Zenon DEF Build!IInv, Build!TypeOK, Build!LoggerAsked, HasFields, HasLoggerFields
  <2>w. Build!Whole.build = builder /\ Build!Whole.zaplog = logger
    BY DEF Build!Whole
  <2>1. CASE builder.IsEnableZapLogs = TRUE
    <3>1. s = Build!Whole
      BY <2>1, Zenon
    <3>2. builder' = builder /\ logger' = logger
      BY <1>1, <2>w, <3>1, Zenon
    <3>3. Only(builder, builder', flags)
      BY <2>t, <3>2, Zenon DEF Only
    <3> QED
      BY <2>t, <2>1, <3>2, <3>3, Zenon
  <2>2. CASE builder.IsEnableZapLogs = FALSE
    <3> DEFINE w == Build!Whole
               r == Build!InitLog(w, ".", "debug")
    <3>1. s = r
      BY <2>2, Zenon
    <3>2. HasFields(w.build) /\ HasLoggerFields(w.zaplog) /\ w.build = builder
      BY <2>t, <2>w, Zenon
    <3> HIDE DEF w
    <3>3. /\ Only(w.build, r.build, flags)
          /\ r.build.IsEnableZapLogs = TRUE
          /\ HasLoggerFields(r.zaplog)
          /\ ~ r.build.logInitErr => Made(r.zaplog)
          /\ r.build.logInitErr = FALSE
      <4>1. "." # "empty" /\ "." # "unwritable"
        OBVIOUS
      <4> QED
        BY <3>2, <4>1, InitLogMakes, KnownLevels
    <3> HIDE DEF r, s
    <3> QED
      BY <1>1, <3>1, <3>2, <3>3
  <2> QED
    BY <2>t, <2>1, <2>2
<1> HIDE DEF s
<1>3. /\ builder'.seeds = builder.seeds /\ builder'.hooks = builder.hooks
      /\ builder'.IsEnableDB = builder.IsEnableDB
      /\ builder'.dbConfig = builder.dbConfig
      /\ builder'.databaseConfig = builder.databaseConfig
      /\ builder'.redis = builder.redis /\ builder'.mongo = builder.mongo
      /\ builder'.beforeSetups = builder.beforeSetups
      /\ builder'.IsRunningCronJob = builder.IsRunningCronJob
      /\ builder'.irisApp = builder.irisApp
      /\ builder'.adminRoutes = builder.adminRoutes
  BY <1>2 DEF Only, Build!Fields
<1>4. /\ \A op : Build!CallsOf(op)' = Build!CallsOf(op)
      /\ \A m : Build!Autos(m)' = Build!Autos(m)
      /\ \A op : Build!Arguments(op)' = Build!Arguments(op)
  BY <1>1, Zenon DEF Build!CallsOf, Build!Autos, Build!Arguments
<1>5. Build!TypeOK'
  BY <1>1, <1>2, <1>3, <1>4 DEF Build!IInv, Build!TypeOK, Only, HasFields, HasLoggerFields
<1>6. Build!DatabaseAsked'
  BY <1>1, <1>3, <1>4 DEF Build!IInv, Build!DatabaseAsked, Build!Database
<1>7. Build!StoresAsked'
  BY <1>1, <1>3, <1>4 DEF Build!IInv, Build!StoresAsked
<1>8. Build!CallbacksAsked'
  BY <1>1, <1>3, <1>4 DEF Build!IInv, Build!CallbacksAsked
<1>9. Build!ServicesAsked'
  BY <1>1, <1>3, <1>4 DEF Build!IInv, Build!ServicesAsked
<1>10. Build!LoggerAsked'
  BY <1>1, <1>2, <1>4 DEF Build!IInv, Build!LoggerAsked, Build!LoggerMade, Made
<1>11. Build!OutcomeFits'
  BY <1>1, <1>2 DEF Build!IInv, Build!OutcomeFits
<1> QED
  BY <1>5, <1>6, <1>7, <1>8, <1>9, <1>10, <1>11, Zenon DEF Build!IInv

-----------------------------------------------------------------------------
(* The invariant holds at first, is kept, and gives the property.          *)
LEMMA BuilderInit ==
  ASSUME Build!Init
  PROVE  Build!IInv
<1>1. calls = <<>> /\ outcome = "none"
  BY Zenon DEF Build!Init
<1>2. /\ builder.IsEnableDB = FALSE /\ builder.dbConfig = "nil"
      /\ builder.redis = "nil" /\ builder.mongo = "nil" /\ builder.irisApp = "nil"
      /\ builder.seeds = <<>> /\ builder.beforeSetups = <<>> /\ builder.hooks = <<>>
      /\ builder.IsRunningCronJob = FALSE
      /\ builder.IsEnableZapLogs = FALSE /\ builder.logInitErr = FALSE
      /\ builder = [f \in Build!Fields |-> builder[f]]
  BY DEF Build!Init, Build!Fields, Build!Nil
<1>3. logger = [f \in Build!LoggerFields |-> logger[f]]
  BY DEF Build!Init, Build!LoggerFields
<1>4. DOMAIN calls = {}
  BY <1>1
<1>5. /\ \A op : Build!CallsOf(op) = {}
      /\ \A m : Build!Autos(m) = {}
  BY <1>4 DEF Build!CallsOf, Build!Autos
<1>6. \A op : Build!Arguments(op) = <<>>
  <2> SUFFICES ASSUME NEW op PROVE Build!Arguments(op) = <<>>
    OBVIOUS
  <2> DEFINE given == [i \in DOMAIN calls |->
                         IF calls[i].op = op THEN Build!NotNil(calls[i].arg) ELSE <<>>]
  <2>1. given = <<>>
    BY <1>4
  <2>2. Build!Arguments(op) = Build!FlattenSeq(given)
    BY Zenon DEF Build!Arguments
  <2> HIDE DEF given
  <2> QED
    BY <2>1, <2>2, FlattenEmpty, Zenon
<1>7. Build!TypeOK
  <2>1. calls \in Seq(Build!Range(calls))
    BY <1>1, ShortSequences, Zenon
  <2>2. builder.seeds \in Seq(Build!Callbacks) /\ builder.hooks \in Seq({"queue"})
    BY <1>2, ShortSequences, Zenon
  <2> QED
    BY <2>1, <2>2, <1>2, <1>3, <1>5 DEF Build!TypeOK
<1>8. Build!DatabaseAsked /\ Build!StoresAsked /\ Build!ServicesAsked
  BY <1>2, <1>5
     DEF Build!DatabaseAsked, Build!StoresAsked, Build!ServicesAsked, Build!Nil
<1>9. Build!CallbacksAsked
  <2> DEFINE H == {i \in Build!CallsOf("OnShutdown") : calls[i].arg = <<"queue", "stop">>}
  <2>1. H = {}
    BY <1>5
  <2>2. Len(builder.hooks) = 0 /\ Build!Cardinality({}) = 0
    BY <1>2, SameCardinality, FS_EmptySet
  <2>3. Len(builder.hooks) = Build!Cardinality(H)
    BY <2>1, <2>2, Zenon
  <2>4. /\ builder.seeds = Build!Arguments("SetSeeds")
        /\ builder.beforeSetups = Build!Arguments("BeforeSetup")
    BY <1>2, <1>6, Zenon
  <2>5. builder.IsRunningCronJob <=>
          Build!CallsOf("InitCronJob") \cup Build!Autos("cron") # {} \/ builder.seeds # <<>>
    BY <1>2, <1>5
  <2> QED
    BY <2>3, <2>4, <2>5, Zenon DEF Build!CallbacksAsked
<1>10. Build!LoggerAsked /\ Build!OutcomeFits
  BY <1>1, <1>2 DEF Build!LoggerAsked, Build!OutcomeFits
<1> QED
  BY <1>7, <1>8, <1>9, <1>10, Zenon DEF Build!IInv

LEMMA EveryCallFollows ==
  ASSUME Build!TypeOK,
         \/ Build!CallWeb \/ Build!CallDatabase \/ Build!CallAdmin \/ Build!CallStores
         \/ Build!CallCallbacks \/ Build!CallLog \/ Build!CallAutoConfigure
  PROVE  \E c : Follows(c)
<1>1. CASE Build!CallWeb
  BY <1>1, WebFollows DEF Build!CallWeb
<1>2. CASE Build!CallDatabase
  BY <1>2, DbFollows, UnifiedFollows, NamedFollows, ModelsFollow, Zenon
     DEF Build!CallDatabase
<1>3. CASE Build!CallAdmin
  BY <1>3, AdminFollows, AdminRoutesFollow, Zenon DEF Build!CallAdmin
<1>4. CASE Build!CallStores
  BY <1>4, CacheFollows, MongoFollows, Zenon DEF Build!CallStores
<1>5. CASE Build!CallCallbacks
  <2>1. /\ <<"nil", "warm">> \in Seq(Build!Callbacks)
        /\ <<"nil">> \in Seq(Build!Callbacks)
        /\ <<"daily">> \in Seq(Build!Callbacks)
    BY DEF Build!Callbacks, Build!Nil
  <2>2. CASE /\ Build!Call("InitCronJob", Build!Nil, {})
             /\ Build!Sets(Build!InitCronJob(builder))
    BY <2>2, CronFollows, Zenon DEF Build!Nil
  <2>3. CASE /\ Build!Call("BeforeSetup", <<Build!Nil, "warm">>, {})
             /\ Build!Sets(Build!BeforeSetup(builder, <<Build!Nil, "warm">>))
    BY <2>1, <2>3, BeforeFollows, Zenon DEF Build!Nil
  <2>4. CASE /\ Build!Call("AfterSetup", <<"serve", Build!Nil, "warm">>, {})
             /\ Build!Sets(Build!AfterSetup(builder, <<"serve", Build!Nil, "warm">>))
    BY <2>4, AfterFollows, Zenon
  <2>5. ASSUME NEW fs \in {<<Build!Nil>>, <<"daily">>},
               Build!Call("SetSeeds", fs, {}), Build!Sets(Build!SetSeeds(builder, fs))
        PROVE  \E c : Follows(c)
    <3>1. fs \in Seq(Build!Callbacks)
      BY <2>1 DEF Build!Nil
    <3> QED
      BY <3>1, <2>5, SeedsFollow, Zenon
  <2>6. ASSUME NEW f \in {Build!Nil, "stop"},
               Build!Call("OnShutdown", <<"queue", f>>, {}),
               Build!Sets(Build!OnShutdown(builder, "queue", f))
        PROVE  \E c : Follows(c)
    BY <2>6, ShutdownFollows, Zenon DEF Build!Nil
  <2> QED
    BY <1>5, <2>2, <2>3, <2>4, <2>5, <2>6, Zenon DEF Build!CallCallbacks
<1>6. CASE Build!CallLog
  BY <1>6, InitLogFollows, Zenon DEF Build!CallLog
<1>7. CASE Build!CallAutoConfigure
  BY <1>7, AutoFollows, Zenon DEF Build!CallAutoConfigure
<1> QED
  BY <1>1, <1>2, <1>3, <1>4, <1>5, <1>6, <1>7, Zenon

LEMMA BuilderStep ==
  ASSUME Build!IInv, [Build!Next]_Build!builderVars
  PROVE  Build!IInv'
<1>1. CASE Build!Start
  BY <1>1, StartKeeps, Zenon
<1>2. CASE \/ Build!CallWeb \/ Build!CallDatabase \/ Build!CallAdmin \/ Build!CallStores
           \/ Build!CallCallbacks \/ Build!CallLog \/ Build!CallAutoConfigure
  <2>1. Build!TypeOK
    BY Zenon DEF Build!IInv
  <2>2. PICK c : Follows(c)
    BY <1>2, <2>1, EveryCallFollows, Zenon
  <2> QED
    BY <2>2, CallKept, Zenon
<1>3. CASE UNCHANGED Build!builderVars
  <2>1. calls' = calls /\ builder' = builder /\ logger' = logger /\ outcome' = outcome
    BY <1>3, Zenon DEF Build!builderVars
  <2>2. /\ \A op : Build!CallsOf(op)' = Build!CallsOf(op)
        /\ \A m : Build!Autos(m)' = Build!Autos(m)
        /\ \A op : Build!Arguments(op)' = Build!Arguments(op)
    BY <2>1, Zenon DEF Build!CallsOf, Build!Autos, Build!Arguments
  <2>3. Build!TypeOK'
    BY <2>1, <2>2 DEF Build!IInv, Build!TypeOK
  <2>4. Build!DatabaseAsked' /\ Build!StoresAsked' /\ Build!ServicesAsked'
    BY <2>1, <2>2
       DEF Build!IInv, Build!DatabaseAsked, Build!StoresAsked, Build!ServicesAsked
  <2>5. Build!CallbacksAsked'
    BY <2>1, <2>2 DEF Build!IInv, Build!CallbacksAsked
  <2>6. Build!LoggerAsked' /\ Build!OutcomeFits'
    BY <2>1, <2>2
       DEF Build!IInv, Build!LoggerAsked, Build!LoggerMade, Build!OutcomeFits
  <2> QED
    BY <2>3, <2>4, <2>5, <2>6, Zenon DEF Build!IInv
<1> QED
  BY <1>1, <1>2, <1>3, Zenon DEF Build!Next

LEMMA BuiltFollows ==
  ASSUME Build!IInv
  PROVE  BuiltAsAsked
<1> DEFINE started == Build!SetUp(builder)
<1>1. /\ started.database = IF builder.IsEnableDB THEN Build!Database(builder) ELSE "nil"
      /\ started.migrated = IF builder.IsEnableDB THEN Build!Migrated(builder) ELSE {}
      /\ started.redis = builder.redis /\ started.mongo = builder.mongo
      /\ started.web = builder.irisApp
      /\ started.before = IF builder.irisApp = "nil" THEN <<>> ELSE builder.beforeSetups
      /\ started.seeds = builder.seeds /\ started.cron = builder.IsRunningCronJob
      /\ started.adminRoutes = builder.adminRoutes /\ started.hooks = builder.hooks
  BY DEF Build!SetUp, Build!Nil
<1> HIDE DEF started
<1>2. outcome = "failed" =>
       \/ Build!CallsOf("InitLog") # {}
       \/ \E i \in Build!CallsOf("EnableDatabase") : calls[i].arg = "nil"
       \/ \E i \in Build!CallsOf("EnableWeb") : calls[i].arg = "invalid"
  BY DEF Build!IInv, Build!OutcomeFits, Build!StartFails, Build!LoggerAsked,
         Build!DatabaseAsked, Build!ServicesAsked, Build!Nil
<1>3. ASSUME outcome = "started"
      PROVE  /\ (started.database = "nil") <=>
                  (Build!CallsOf("EnableDb") \cup Build!CallsOf("EnableDatabase")
                     \cup Build!Autos("database") = {})
             /\ \A i \in Build!CallsOf("EnableDatabase") :
                  Build!After(i, (Build!CallsOf("EnableDatabase")
                                    \cup Build!Autos("database")) \ {i}) =>
                    started.database = IF calls[i].arg = "nil" THEN "pg"
                                       ELSE calls[i].arg
             /\ started.migrated # {} => started.database = "auto-migrate"
  <2>1. /\ builder.IsEnableDB \in BOOLEAN /\ builder.dbConfig \in {"nil", "pg"}
        /\ builder.IsEnableDB <=>
             Build!CallsOf("EnableDb") \cup (Build!CallsOf("EnableDatabase")
                                               \cup Build!Autos("database")) # {}
        /\ \A i \in Build!CallsOf("EnableDatabase") :
             Build!After(i, (Build!CallsOf("EnableDatabase")
                               \cup Build!Autos("database")) \ {i}) =>
               builder.databaseConfig = calls[i].arg
    BY Zenon DEF Build!IInv, Build!DatabaseAsked, Build!Nil
  <2>2. builder.IsEnableDB => Build!Database(builder) # "nil"
    BY <1>3 DEF Build!IInv, Build!OutcomeFits, Build!StartFails, Build!Nil
  <2>3. Build!Database(builder) =
          IF builder.databaseConfig # "nil" THEN builder.databaseConfig
          ELSE builder.dbConfig
    BY Zenon DEF Build!Database, Build!Nil
  <2>4. Build!Migrated(builder) # {} => builder.databaseConfig = "auto-migrate"
    BY DEF Build!Migrated
  <2>5. (started.database = "nil") <=>
          (Build!CallsOf("EnableDb") \cup Build!CallsOf("EnableDatabase")
             \cup Build!Autos("database") = {})
    BY <1>1, <2>1, <2>2
  <2>6. ASSUME NEW i \in Build!CallsOf("EnableDatabase"),
               Build!After(i, (Build!CallsOf("EnableDatabase")
                                 \cup Build!Autos("database")) \ {i})
        PROVE  started.database = IF calls[i].arg = "nil" THEN "pg" ELSE calls[i].arg
    <3>1. builder.databaseConfig = calls[i].arg
      BY <2>1, <2>6, Zenon
    <3>2. builder.IsEnableDB = TRUE
      BY <2>1
    <3> QED
      BY <3>1, <3>2, <1>1, <2>1, <2>2, <2>3
  <2>7. started.migrated # {} => started.database = "auto-migrate"
    BY <1>1, <2>1, <2>3, <2>4
  <2> QED
    BY <2>5, <2>6, <2>7, Zenon
<1>4. /\ \A i \in Build!CallsOf("EnableCache") :
           Build!After(i, Build!Autos("cache")) => started.redis = "redis"
      /\ (started.mongo = "nil") <=>
           (Build!Autos("mongo") = {}
              /\ \A i \in Build!CallsOf("EnableMongoDB") : calls[i].arg = "nil")
  BY <1>1 DEF Build!IInv, Build!StoresAsked, Build!Nil
<1>5. /\ started.cron <=>
           \/ Build!CallsOf("InitCronJob") \cup Build!Autos("cron") # {}
           \/ started.seeds # <<>>
      /\ started.seeds = Build!Arguments("SetSeeds")
      /\ started.web # "nil" => started.before = Build!Arguments("BeforeSetup")
      /\ Len(started.hooks) =
           Build!Cardinality({i \in Build!CallsOf("OnShutdown") :
                                calls[i].arg = <<"queue", "stop">>})
  BY <1>1, Zenon DEF Build!IInv, Build!CallbacksAsked
<1>6. /\ \A i \in Build!CallsOf("EnableWeb") :
           Build!After(i, Build!CallsOf("EnableWeb") \ {i}) => started.web = calls[i].arg
      /\ (started.web # "nil") <=>
           (Build!CallsOf("EnableWeb") \cup Build!Autos("web") # {})
      /\ \A i \in Build!CallsOf("EnableAdminRoutes") :
           started.adminRoutes = {} =>
             \E j \in Build!CallsOf("EnableAdmin") \cup Build!Autos("admin") : j > i
  BY <1>1 DEF Build!IInv, Build!ServicesAsked, Build!Nil
<1>7. outcome = "started" => Build!LoggerMade
  BY DEF Build!IInv, Build!OutcomeFits, Build!StartFails, Build!LoggerAsked
<1> USE DEF started
<1> QED
  BY <1>2, <1>3, <1>4, <1>5, <1>6, <1>7, Zenon
     DEF BuiltAsAsked, Build!BuiltAsAsked, Build!LoggerMade, Build!Nil

(* The builder: whatever the builder function calls, and in whatever       *)
(* order, Start sets up what it asked for and nothing else, or fails for a *)
(* reason that it gave (application.builder.go, Start).                    *)
THEOREM BuiltAsAskedAlways == Build!Spec => []BuiltAsAsked
<1>1. Build!Init => Build!IInv
  BY BuilderInit, Zenon
<1>2. Build!IInv /\ [Build!Next]_Build!builderVars => Build!IInv'
  BY BuilderStep, Zenon
<1>3. Build!IInv => BuiltAsAsked
  BY BuiltFollows, Zenon
<1> QED
  BY <1>1, <1>2, <1>3, PTL DEF Build!Spec
=============================================================================
