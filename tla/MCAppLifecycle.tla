--------------------------- MODULE MCAppLifecycle ---------------------------
(***************************************************************************)
(* Instances for TLC of the application's start and stop and of its        *)
(* container of components: `part' names the one that runs.                *)
(***************************************************************************)
EXTENDS AppLifecycle

CONSTANT Parts   \* the components to run

VARIABLES
  part

iocVars == <<registered, instance, constructing, shut, running, asking,
             lastRun, todo, initialised, order, destroyed, made, handed,
             beside, present>>

pipeVars ==
  <<installed, request, at, outer, inner, stopped, late, body, user, tokens,
    answers, handling, sees, down>>

builderVars == <<calls, builder, logger, outcome>>

(* Two components whose providers ask for each other.                      *)
MCNeeds == <<{2}, {1}>>

Asks(rs, hasNamed, webKind, hasAdmin, hasCron, hs) ==
  [resources |-> rs, named |-> hasNamed, web |-> webKind, admin |-> hasAdmin,
   cron |-> hasCron, hooks |-> hs]

(* A worker, an application with everything, and one whose web service     *)
(* cannot say that it is ready.                                            *)
Applications ==
  {Asks(<<"database", "Redis">>, FALSE, "none", FALSE, TRUE, <<"worker">>),
   Asks(<<"database", "Redis", "MongoDB">>, TRUE, "reports", TRUE, TRUE,
        <<"worker", "queue">>),
   Asks(<<"Redis">>, FALSE, "legacy", FALSE, FALSE, <<>>)}

(* Requests with and without the baseline: one that is in order, and those *)
(* that something is wrong with.                                           *)
Ordinary ==
  [size |-> 1, declared |-> TRUE, sql |-> "none", token |-> "valid",
   scope |-> TRUE, public |-> FALSE, user |-> [org |-> 1, dept |-> 0]]

RequestKinds ==
  {Ordinary,
   [Ordinary EXCEPT !.size = 5],
   [Ordinary EXCEPT !.size = 5, !.declared = FALSE],
   [Ordinary EXCEPT !.sql = "query"],
   [Ordinary EXCEPT !.size = 4, !.sql = "tail"],
   [Ordinary EXCEPT !.token = "invalid"],
   [Ordinary EXCEPT !.scope = FALSE, !.user = [org |-> 2, dept |-> 2]],
   [Ordinary EXCEPT !.token = "none", !.public = TRUE]}

RowKinds == {[org |-> o, dept |-> d] : o, d \in 1 .. 2}

(* Configuration files that enable everything, the web service beside the  *)
(* stores, and what runs in the background.                                *)
Enabled ==
  {{"log", "database", "cache", "mongo", "cron", "admin", "web",
    "baseline", "monitor", "openapi"},
   {"database", "cache", "web", "baseline"}, {"log", "cron", "admin"}}

(* The others are run beside an application that is never started; the     *)
(* second request is there to compete for the tokens.                      *)
MCInit ==
  /\ part \in Parts
  /\ Init /\ Ioc!Init /\ Pipe!Init /\ Build!Init
  /\ installed \in IF part = "bare" THEN {{}}
                  ELSE {{"baseline", "auth"}, {"baseline", "auth", "maxBody"}}
  /\ part \in {"web", "bare"} \/ "maxBody" \in installed
  /\ request["r2"] = Ordinary
  /\ part \in {"web", "bare"} \/ request["r1"] = Ordinary
  /\ part = "application" \/ config.web = "legacy"

MCNext ==
  /\ IF part = "application" THEN TRUE ELSE UNCHANGED vars
  /\ IF part = "container" THEN TRUE ELSE UNCHANGED iocVars
  /\ IF part \in {"web", "bare"} THEN TRUE ELSE UNCHANGED pipeVars
  /\ IF part = "builder" THEN TRUE ELSE UNCHANGED builderVars
  /\ \/ part = "application" /\ Next
     \/ part = "builder" /\ Build!Next
     \/ part = "container" /\ Ioc!Next
     \/ part \in {"web", "bare"} /\ Pipe!Next
  /\ UNCHANGED part

(* The fairness of the application, on its part.                           *)
MCSpec ==
  /\ MCInit /\ [][MCNext]_<<part, vars, iocVars, pipeVars, builderVars>>
  /\ WF_vars(part = "application" /\ Start)
  /\ WF_vars(part = "application" /\ WebStep)
  /\ WF_vars(part = "application" /\ monitorWebService)
  /\ WF_vars(part = "application" /\ runtime = "done" /\ AdminEnds)
  /\ WF_vars(part = "application" /\ Expire)
  /\ Pipe!Fairness

(* Any reason to exit stops the application, and what ran beside Start     *)
(* ends too (ExitStops, WebFailureStops, BackgroundEnds); so does a        *)
(* request with a deadline (RequestsReturn).                               *)
ExitsAreHeeded ==
  /\ ExitStops /\ WebFailureStops /\ BackgroundEnds
  /\ \A r \in {"r1", "r2"} :
       (part = "web" /\ outer[r] # "idle") ~> (outer[r] = "returned" \/ down)

(* PanicsAnswered of WebPipeline, with and without the baseline.           *)
PanicsAnswered == Pipe!PanicsAnswered
=============================================================================
