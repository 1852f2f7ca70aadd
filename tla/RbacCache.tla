----------------------------- MODULE RbacCache -----------------------------
(***************************************************************************)
(* The permission cache of framework/rbac for one user.  What the provider *)
(* would answer is a version that changes; a decision looks the cache up,  *)
(* or loads permissions and then roles and stores both.  A load takes at   *)
(* most Longest ticks.  With Ttl = 0 the cache is disabled.                *)
(***************************************************************************)
EXTENDS Integers

CONSTANTS Deciders, Ttl, Longest, MaxVersion, MaxTime

RbacAssumption == Ttl \in Nat /\ Longest \in Nat /\ MaxVersion \in Nat \ {0}

VARIABLES
  moment,
  version,      \* what the provider answers now
  replacedAt,   \* when each version was superseded; 0 while it is not
  cache,        \* [is, version, roles, expires]; roles: they were loaded
  decider,      \* of each decision: [at, ...]
  crashed       \* the runtime stopped the process: concurrent map writes

rbacVars == <<moment, version, replacedAt, cache, decider, crashed>>

Nothing == [is |-> FALSE]

Init ==
  /\ moment = 1 /\ version = 1
  /\ replacedAt = [v \in 1 .. MaxVersion |-> 0]
  /\ cache = Nothing
  /\ decider = [d \in Deciders |-> [at |-> "new"]]
  /\ crashed = FALSE

(* Mutant: an entry is looked up whatever its age.                         *)
NeverExpired == FALSE

Expired == cache.is /\ moment > cache.expires

Hit == cache.is /\ ~ Expired

Goes(d, r) == decider' = [decider EXCEPT ![d] = r]

(* Both kinds of question look the cache up first; an expired entry is     *)
(* deleted there, under the read lock.                                     *)
cacheLookup(d, kind) ==
  /\ decider[d].at = "new"
  /\ IF Hit
     THEN /\ Goes(d, [at |-> "answered", kind |-> kind, version |-> cache.version,
                      roles |-> cache.roles, asked |-> moment])
          /\ cache' = cache
     ELSE /\ Goes(d, [at |-> "loading", kind |-> kind, since |-> moment])
          /\ cache' = Nothing
  /\ UNCHANGED <<moment, version, replacedAt, crashed>>

(* Two lookups delete the same entry at once.                              *)
LookupsCollide(d, e) ==
  /\ d /= e /\ decider[d].at = "new" /\ decider[e].at = "new" /\ Expired
  /\ crashed' = TRUE
  /\ UNCHANGED <<moment, version, replacedAt, cache, decider>>

loadPermissions(d) ==
  /\ decider[d].at = "loading"
  /\ \/ Goes(d, [at |-> "loaded", kind |-> decider[d].kind, version |-> version,
                 asked |-> decider[d].since, since |-> decider[d].since])
     \/ Goes(d, [at |-> "error"])
  /\ UNCHANGED <<moment, version, replacedAt, cache, crashed>>

(* The roles, which may fail to load and are then stored as none; then     *)
(* cacheStore.  A question about roles looks the cache up once more.       *)
cacheStore(d) ==
  /\ decider[d].at = "loaded"
  /\ \E ok \in BOOLEAN :
       /\ cache' = IF Ttl > 0
                   THEN [is |-> TRUE, version |-> decider[d].version, roles |-> ok,
                         expires |-> moment + Ttl]
                   ELSE cache
       /\ Goes(d, IF decider[d].kind = "permission"
                  THEN [at |-> "answered", kind |-> "permission",
                        version |-> decider[d].version, roles |-> ok,
                        asked |-> decider[d].asked]
                  ELSE [at |-> "stored", asked |-> decider[d].asked])
  /\ UNCHANGED <<moment, version, replacedAt, crashed>>

(* Without an entry, cleared or never stored, the user has no role.        *)
answerRole(d) ==
  /\ decider[d].at = "stored"
  /\ Goes(d, [at |-> "answered", kind |-> "role", asked |-> decider[d].asked,
              version |-> IF Hit THEN cache.version ELSE 0,
              roles |-> Hit /\ cache.roles])
  /\ cache' = IF Hit THEN cache ELSE Nothing
  /\ UNCHANGED <<moment, version, replacedAt, crashed>>

(* The user's grants change and the cache is cleared, here or by another   *)
(* call of ClearCache; a load under way stores what it has read.           *)
Change ==
  /\ version < MaxVersion
  /\ version' = version + 1
  /\ replacedAt' = [replacedAt EXCEPT ![version] = moment]
  /\ UNCHANGED <<moment, cache, decider, crashed>>

ClearCache ==
  /\ cache' = Nothing
  /\ UNCHANGED <<moment, version, replacedAt, decider, crashed>>

Tick ==
  /\ moment < MaxTime
  /\ \A d \in Deciders :
       decider[d].at \in {"loading", "loaded"} => moment < decider[d].since + Longest
  /\ \A d \in Deciders : decider[d].at /= "stored"
  /\ moment' = moment + 1
  /\ UNCHANGED <<version, replacedAt, cache, decider, crashed>>

Next ==
  /\ ~ crashed
  /\ \/ Change \/ ClearCache \/ Tick
     \/ \E d \in Deciders :
          \/ \E kind \in {"permission", "role"} : cacheLookup(d, kind)
          \/ loadPermissions(d) \/ cacheStore(d) \/ answerRole(d)
          \/ \E e \in Deciders : LookupsCollide(d, e)

Spec == Init /\ [][Next]_rbacVars

(* A decision never rests on grants taken away longer ago than the ttl and *)
(* one load: a load that overtakes ClearCache brings old grants back, but  *)
(* for no longer.                                                          *)
DecisionRecent ==
  \A d \in Deciders :
    decider[d].at = "answered" /\ decider[d].version > 0 =>
      LET replaced == replacedAt[decider[d].version]
      IN replaced = 0 \/ replaced >= decider[d].asked - Ttl - Longest

(* What DecisionRecent rests on: the answer v was the current one at time  *)
(* t or later, and t is past.                                              *)
CurrentSince(v, t) ==
  /\ v \in 1 .. MaxVersion /\ t \in Int /\ t <= moment
  /\ replacedAt[v] = 0 \/ replacedAt[v] >= t

TypeOK ==
  /\ moment \in Nat /\ version \in 1 .. MaxVersion
  /\ replacedAt \in [1 .. MaxVersion -> Nat]
  /\ \A v \in version .. MaxVersion : replacedAt[v] = 0
  /\ DOMAIN decider = Deciders

(* An entry is no older, when it expires, than its ttl and one load.       *)
CacheOK ==
  cache.is => /\ cache.expires \in Int /\ cache.expires <= moment + Ttl
              /\ CurrentSince(cache.version, cache.expires - Ttl - Longest)

DeciderOK(r) ==
  /\ r.at \in {"loading", "loaded"} =>
       r.since \in Int /\ r.since <= moment /\ moment <= r.since + Longest
  /\ r.at = "loaded" => CurrentSince(r.version, r.since) /\ r.asked = r.since
  /\ r.at = "stored" => r.asked \in Int /\ r.asked <= moment
  /\ r.at = "answered" /\ r.version /= 0 =>
       /\ r.asked \in Int /\ r.asked <= moment
       /\ CurrentSince(r.version, r.asked - Ttl - Longest)

IInv == TypeOK /\ CacheOK /\ \A d \in Deciders : DeciderOK(decider[d])
=============================================================================
