------------------------------ MODULE MCStores ----------------------------
(***************************************************************************)
(* Instances for TLC of the components that keep data, or a copy of it:    *)
(* one of them runs, the one that `part' names.                            *)
(***************************************************************************)
EXTENDS Snowflake

CONSTANT Parts   \* the components to run

VARIABLES
  part,
  server, cached, refresh, sub, channel, failures, stopped,
  dir, edits, messages, watch, failed, missed,
  helper

rbacVars == <<moment, version, replacedAt, cache, decider, crashed>>

configVars == <<server, cached, refresh, sub, channel, failures, stopped>>

migrateVars == <<table, schema, process, calls>>

databaseVars == <<dialectors, instances, pools, lastPool, caller, mutex>>

redisVars ==
  <<clock, home, client, redis, local, asking, written, given, held>>

i18nVars == <<dir, edits, messages, watch, failed, missed>>

settingsVars == <<env, global, project, edition, changed, override, config,
                  target, legacy, phase, reloaded, handled>>

guardVars == <<guardClock, mark, guardCalls, since, owner, robbed, overdue>>

apiVars == <<time, registry, nonces, limiter, req>>

captchaVars == <<tick, items, captchaIssued, asked>>

C == INSTANCE ConfigCache WITH
       Poller <- "poller", Getters <- {"g", "h"}, Subscribers <- {"s1"},
       MaxContent <- 3, MaxFailures <- 1

W == INSTANCE I18n WITH
       Langs <- <<"en", "zh">>, fallback <- "zh", MaxEdits <- 4

(* A key in camel case with a default, and a plain one without.            *)
Camel == <<"l", "U", "l">>

Plain == <<"l", "l">>

File(found, parses, camel, plain) ==
  [found |-> found, parses |-> parses,
   has |-> [k \in {Camel, Plain} |-> IF k = Camel THEN camel ELSE plain]]

MCEnvironments ==
  {[search |-> "off", plain |-> {Plain}, split |-> {Camel}],
   [search |-> "plain", plain |-> {Plain}, split |-> {Camel}],
   [search |-> "prefix", plain |-> {}, split |-> {Plain}],
   [search |-> "prefix", plain |-> {Camel}, split |-> {Camel}]}

MCKeys == {Camel, Plain}

MCBuiltIn == {Camel}

MCGlobalFiles ==
  {File(TRUE, TRUE, c, p) : c, p \in {"unset", "global"}}
    \cup {File(FALSE, TRUE, "unset", "unset"),
          File(TRUE, FALSE, "unset", "unset")}

MCProjectFiles ==
  {File(TRUE, TRUE, c, p) : c \in {"unset", "project", "mistyped"},
                            p \in {"unset", "project", "refused"}}
    \cup {File(FALSE, TRUE, "unset", "unset"),
          File(TRUE, FALSE, "unset", "unset")}

(* One request can be sent from the future and one with another's key.     *)
MCSendable ==
  {[secret |-> "key", nonce |-> "n", timestamp |-> 3],
   [secret |-> "key", nonce |-> "m", timestamp |-> 1],
   [secret |-> "other", nonce |-> "n", timestamp |-> 1]}

MCApps ==
  {[secret |-> "key", enabled |-> TRUE, rate |-> 1, burst |-> 0],
   [secret |-> "", enabled |-> TRUE, rate |-> 0, burst |-> 2]}

MCMigrations == <<"m1", "m2", "m3">>

A == INSTANCE Algorithms WITH
       Letters <- {"a", "b"}, MaxText <- 4, maxCopyDepth <- 1,
       call <- helper

MCInit ==
  /\ part \in Parts
  /\ Init /\ B!Init /\ C!Init /\ M!Init /\ D!Init /\ L!Init /\ W!Init
  /\ S!Init /\ G!Init /\ O!Init /\ P!Init /\ A!Init
  /\ part = "openapi" \/ ~ registry.enabled
  /\ part = "database" \/ dialectors = {}
  /\ home["c1"] = "p1" /\ (part = "rediscache" \/ home["c2"] = "p1")
  /\ \/ part = "settings"
     \/ /\ env.search = "off"
        /\ global = File(FALSE, TRUE, "unset", "unset")
        /\ project = global

MCNext ==
  /\ IF part = "snowflake" THEN TRUE ELSE UNCHANGED snowflakeVars
  /\ IF part = "rbac" THEN TRUE ELSE UNCHANGED rbacVars
  /\ IF part = "config" THEN TRUE ELSE UNCHANGED configVars
  /\ IF part = "migrate" THEN TRUE ELSE UNCHANGED migrateVars
  /\ IF part = "database" THEN TRUE ELSE UNCHANGED databaseVars
  /\ IF part = "rediscache" THEN TRUE ELSE UNCHANGED redisVars
  /\ IF part = "i18n" THEN TRUE ELSE UNCHANGED i18nVars
  /\ IF part = "settings" THEN TRUE ELSE UNCHANGED settingsVars
  /\ IF part = "idempotent" THEN TRUE ELSE UNCHANGED guardVars
  /\ IF part = "openapi" THEN TRUE ELSE UNCHANGED apiVars
  /\ IF part = "captcha" THEN TRUE ELSE UNCHANGED captchaVars
  /\ IF part = "helpers" THEN TRUE ELSE UNCHANGED helper
  /\ \/ part = "snowflake" /\ Next
     \/ part = "rbac" /\ B!Next
     \/ part = "config" /\ C!Next
     \/ part = "migrate" /\ M!Next
     \/ part = "database" /\ D!Next
     \/ part = "rediscache" /\ L!Next
     \/ part = "i18n" /\ W!Next
     \/ part = "settings" /\ S!Next
     \/ part = "idempotent" /\ G!Next
     \/ part = "openapi" /\ O!Next
     \/ part = "captcha" /\ P!Next
     \/ part = "helpers" /\ A!Next
  /\ UNCHANGED part

MCSpec ==
  /\ MCInit
  /\ [][MCNext]_<<part, snowflakeVars, rbacVars, configVars, migrateVars,
                  databaseVars, redisVars, i18nVars, settingsVars, guardVars,
                  apiVars, captchaVars, helper>>
  /\ WF_configVars(part = "config" /\ C!Fetch("poller"))
  /\ \A g \in {"g", "h", "poller"} : WF_configVars(C!Store(g) \/ C!broadcast(g))
  /\ W!Fairness

(* The configuration and the messages catch up with their source once it   *)
(* changes no more (CacheCatchesUp, WatchCatchesUp).                       *)
CopiesCatchUp == C!CacheCatchesUp /\ W!WatchCatchesUp

(* LayersKept of Settings, on its part.                                    *)
LayersKept == part = "settings" => S!LayersKept

(* ComputedRight of Algorithms, on its part.                               *)
ComputedRight == part = "helpers" => A!ComputedRight
=============================================================================
