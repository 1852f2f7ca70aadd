----------------------------- MODULE Snowflake -----------------------------
(***************************************************************************)
(* The identifiers of framework/database/id: a millisecond, the number of  *)
(* the node and a sequence number, made under a mutex by each node from a  *)
(* clock that may be set back.  nextID holds the mutex while it sleeps     *)
(* after a step back and while it spins for the next millisecond.          *)
(*                                                                         *)
(* The second part names the other components that keep data, or a copy of *)
(* it, and proves what they promise.                                       *)
(***************************************************************************)
EXTENDS Integers, Sequences, FiniteSets, FiniteSetTheorems, TLAPS

CONSTANTS
  Nodes,            \* processes, each with a node number of its own
  snowflakeMaxSeq, maxClockBackoff,
  MaxStamp, MaxIds  \* bounds of the clocks and of the identifiers made

ASSUME SnowflakeAssumption ==
  snowflakeMaxSeq \in Nat /\ maxClockBackoff \in Nat /\ MaxIds \in Nat

VARIABLES
  nowMillis,  \* of each node
  lastStamp, sequence,
  generating, \* "no", "sleeping", "spinning"
  issued      \* the identifiers of each node, in order

snowflakeVars == <<nowMillis, lastStamp, sequence, generating, issued>>

Init ==
  /\ nowMillis = [n \in Nodes |-> 1]
  /\ lastStamp = [n \in Nodes |-> 0]
  /\ sequence = [n \in Nodes |-> 0]
  /\ generating = [n \in Nodes |-> "no"]
  /\ issued = [n \in Nodes |-> <<>>]

(* The identifier of a stamp and a sequence number, and what stays behind. *)
Issue(n, stamp, seq) ==
  /\ lastStamp' = [lastStamp EXCEPT ![n] = stamp]
  /\ sequence' = [sequence EXCEPT ![n] = seq]
  /\ issued' = [issued EXCEPT ![n] =
                  Append(@, [stamp |-> stamp, node |-> n, seq |-> seq])]
  /\ generating' = [generating EXCEPT ![n] = "no"]
  /\ UNCHANGED nowMillis

(* The clock reads what it read for the last identifier, and the sequence  *)
(* has room.                                                               *)
NextInStamp(n) ==
  /\ nowMillis[n] = lastStamp[n] /\ sequence[n] < snowflakeMaxSeq
  /\ Issue(n, nowMillis[n], sequence[n] + 1)

FirstInStamp(n) ==
  /\ nowMillis[n] > lastStamp[n]
  /\ Issue(n, nowMillis[n], 0)

Asked(n) == generating[n] \in {"no", "sleeping"} /\ Len(issued[n]) < MaxIds

nextID(n) == Asked(n) /\ (NextInStamp(n) \/ FirstInStamp(n))

(* Mutant: the sequence starts again within the millisecond.               *)
WrapsAround(n) ==
  /\ Asked(n)
  /\ nowMillis[n] = lastStamp[n] /\ sequence[n] = snowflakeMaxSeq
  /\ Issue(n, nowMillis[n], 0)

(* The sequence is used up: spin until the clock moves on.                 *)
Exhausted(n) ==
  /\ Asked(n)
  /\ nowMillis[n] = lastStamp[n] /\ sequence[n] = snowflakeMaxSeq
  /\ generating' = [generating EXCEPT ![n] = "spinning"]
  /\ UNCHANGED <<nowMillis, lastStamp, sequence, issued>>

SpinEnds(n) ==
  /\ generating[n] = "spinning" /\ nowMillis[n] > lastStamp[n]
  /\ Issue(n, nowMillis[n], 0)

(* The clock is behind, but little: wait for it, once.                     *)
SleepBack(n) ==
  /\ generating[n] = "no" /\ Len(issued[n]) < MaxIds
  /\ nowMillis[n] < lastStamp[n] /\ lastStamp[n] - nowMillis[n] <= maxClockBackoff
  /\ generating' = [generating EXCEPT ![n] = "sleeping"]
  /\ UNCHANGED <<nowMillis, lastStamp, sequence, issued>>

(* Still behind: ErrClockBackward.                                         *)
Refuse(n) ==
  /\ generating[n] = "sleeping" /\ nowMillis[n] < lastStamp[n]
  /\ generating' = [generating EXCEPT ![n] = "no"]
  /\ UNCHANGED <<nowMillis, lastStamp, sequence, issued>>

(* The clock moves on, or is set back by any amount.                       *)
Clock(n) ==
  /\ nowMillis' \in {[nowMillis EXCEPT ![n] = s] :
                       s \in (1 .. nowMillis[n] + 1) \cap (1 .. MaxStamp)}
  /\ UNCHANGED <<lastStamp, sequence, generating, issued>>

Next ==
  \E n \in Nodes :
    \/ nextID(n) \/ Exhausted(n) \/ SpinEnds(n) \/ SleepBack(n) \/ Refuse(n)
    \/ Clock(n)

Spec == Init /\ [][Next]_snowflakeVars

-----------------------------------------------------------------------------
Id == [stamp : Nat, node : Nodes, seq : 0 .. snowflakeMaxSeq]

TypeOK ==
  /\ nowMillis \in [Nodes -> Nat]
  /\ lastStamp \in [Nodes -> Nat]
  /\ sequence \in [Nodes -> 0 .. snowflakeMaxSeq]
  /\ generating \in [Nodes -> {"no", "sleeping", "spinning"}]
  /\ issued \in [Nodes -> Seq(Id)]

Before(i, j) == i.stamp < j.stamp \/ (i.stamp = j.stamp /\ i.seq < j.seq)

(* The identifiers of a node increase, so that no two identifiers of any   *)
(* nodes are the same, however the clock of a process is set.              *)
Increasing ==
  \A n \in Nodes : \A i, j \in 1 .. Len(issued[n]) :
    i < j => Before(issued[n][i], issued[n][j])

-----------------------------------------------------------------------------
(* What lastStamp and sequence are for: no identifier of the node lies     *)
(* above them, and every identifier carries the number of its node.        *)
BelowLast ==
  \A n \in Nodes : \A i \in 1 .. Len(issued[n]) :
    /\ issued[n][i].node = n
    /\ \/ issued[n][i].stamp < lastStamp[n]
       \/ issued[n][i].stamp = lastStamp[n] /\ issued[n][i].seq <= sequence[n]

IInv == TypeOK /\ BelowLast /\ Increasing

(* An identifier above lastStamp and sequence keeps the invariant: the     *)
(* end of nextID, however it was reached.                                  *)
LEMMA IssueAbove ==
  ASSUME IInv,
         NEW n \in Nodes, NEW stamp \in Nat, NEW seq \in 0 .. snowflakeMaxSeq,
         stamp > lastStamp[n] \/ (stamp = lastStamp[n] /\ seq > sequence[n]),
         Issue(n, stamp, seq)
  PROVE  IInv'
<1> DEFINE new == [stamp |-> stamp, node |-> n, seq |-> seq]
<1>0. snowflakeMaxSeq \in Nat
  BY SnowflakeAssumption
<1>1. new \in Id
  BY DEF Id
<1>2. issued[n] \in Seq(Id) /\ issued'[n] = Append(issued[n], new)
  BY DEF IInv, TypeOK, Issue
<1>3. \A m \in Nodes : m /= n => /\ issued'[m] = issued[m]
                                 /\ lastStamp'[m] = lastStamp[m]
                                 /\ sequence'[m] = sequence[m]
  BY DEF IInv, TypeOK, Issue
<1>4. lastStamp'[n] = stamp /\ sequence'[n] = seq
  BY DEF IInv, TypeOK, Issue
<1>5. /\ Len(issued'[n]) = Len(issued[n]) + 1
      /\ Len(issued[n]) \in Nat
      /\ issued'[n][Len(issued[n]) + 1] = new
      /\ \A i \in 1 .. Len(issued[n]) : issued'[n][i] = issued[n][i]
  BY <1>1, <1>2
<1>6. TypeOK'
  <2>1. issued' \in [Nodes -> Seq(Id)]
    BY <1>1, <1>2 DEF IInv, TypeOK, Issue
  <2>2. QED
    BY <1>0, <2>1 DEF IInv, TypeOK, Issue
<1>7. \A i \in 1 .. Len(issued[n]) :
         /\ issued[n][i] \in Id
         /\ issued[n][i].node = n
         /\ Before(issued[n][i], new)
  <2> SUFFICES ASSUME NEW i \in 1 .. Len(issued[n])
               PROVE  /\ issued[n][i] \in Id
                      /\ issued[n][i].node = n
                      /\ Before(issued[n][i], new)
    OBVIOUS
  <2>1. issued[n][i] \in Id
    BY <1>2
  <2>2. /\ issued[n][i].node = n
        /\ \/ issued[n][i].stamp < lastStamp[n]
           \/ issued[n][i].stamp = lastStamp[n] /\ issued[n][i].seq <= sequence[n]
    BY DEF IInv, BelowLast
  <2>3. lastStamp[n] \in Nat /\ sequence[n] \in 0 .. snowflakeMaxSeq
    BY DEF IInv, TypeOK
  <2>4. Before(issued[n][i], new)
    BY <1>0, <2>1, <2>2, <2>3 DEF Before, Id
  <2>5. QED
    BY <2>1, <2>2, <2>4
<1>8. BelowLast'
  <2> SUFFICES ASSUME NEW m \in Nodes, NEW i \in 1 .. Len(issued'[m])
               PROVE  /\ issued'[m][i].node = m
                      /\ \/ issued'[m][i].stamp < lastStamp'[m]
                         \/ /\ issued'[m][i].stamp = lastStamp'[m]
                            /\ issued'[m][i].seq <= sequence'[m]
    BY DEF BelowLast
  <2>1. CASE m /= n
    BY <1>3, <2>1 DEF IInv, BelowLast
  <2>2. CASE m = n /\ i = Len(issued[n]) + 1
    BY <1>0, <1>4, <1>5, <2>2
  <2>3. CASE m = n /\ i \in 1 .. Len(issued[n])
    <3>1. /\ issued[n][i].node = n
          /\ \/ issued[n][i].stamp < stamp
             \/ issued[n][i].stamp = stamp /\ issued[n][i].seq < seq
      BY <1>7, <2>3 DEF Before
    <3>2. issued[n][i].seq \in 0 .. snowflakeMaxSeq
      BY <1>7, <2>3 DEF Id
    <3>3. issued'[m][i] = issued[n][i]
      BY <1>5, <2>3
    <3>4. QED
      BY <1>0, <1>4, <2>3, <3>1, <3>2, <3>3
  <2>4. QED
    BY <1>5, <2>1, <2>2, <2>3
<1>9. Increasing'
  <2> SUFFICES ASSUME NEW m \in Nodes,
                      NEW i \in 1 .. Len(issued'[m]), NEW j \in 1 .. Len(issued'[m]),
                      i < j
               PROVE  Before(issued'[m][i], issued'[m][j])
    BY DEF Increasing, Before
  <2>1. CASE m /= n
    BY <1>3, <2>1 DEF IInv, Increasing
  <2>2. CASE m = n /\ j = Len(issued[n]) + 1
    <3>1. i \in 1 .. Len(issued[n])
      BY <1>5, <2>2
    <3>2. QED
      BY <1>5, <1>7, <2>2, <3>1
  <2>3. CASE m = n /\ j \in 1 .. Len(issued[n])
    <3>1. i \in 1 .. Len(issued[n])
      BY <1>5, <2>3
    <3>2. QED
      BY <1>5, <2>3, <3>1 DEF IInv, Increasing
  <2>4. QED
    BY <1>5, <2>1, <2>2, <2>3
<1>10. QED
  BY <1>6, <1>8, <1>9 DEF IInv

(* A step that issues nothing changes neither an identifier nor the two    *)
(* fields, and keeps the invariant.                                        *)
LEMMA NothingIssued ==
  ASSUME IInv, TypeOK', UNCHANGED <<lastStamp, sequence, issued>>
  PROVE  IInv'
BY DEF IInv, BelowLast, Increasing, Before

(* The types of the state of nextID, and that no identifier lies above     *)
(* lastStamp and sequence, for any nodes and any clocks.                   *)
THEOREM Invariance == Spec => []IInv
<1>0. snowflakeMaxSeq \in Nat
  BY SnowflakeAssumption
<1>1. Init => IInv
  BY <1>0 DEF Init, IInv, TypeOK, BelowLast, Increasing
<1>2. IInv /\ [Next]_snowflakeVars => IInv'
  <2> SUFFICES ASSUME IInv, [Next]_snowflakeVars
               PROVE  IInv'
    OBVIOUS
  <2> USE <1>0
  <2>1. ASSUME NEW n \in Nodes, nextID(n)
        PROVE  IInv'
    <3>1. nowMillis[n] \in Nat /\ lastStamp[n] \in Nat
          /\ sequence[n] \in 0 .. snowflakeMaxSeq
      BY DEF IInv, TypeOK
    <3>2. CASE NextInStamp(n)
      <4>1. sequence[n] + 1 \in 0 .. snowflakeMaxSeq /\ sequence[n] + 1 > sequence[n]
        BY <3>1, <3>2 DEF NextInStamp
      <4>2. QED
        BY <3>1, <3>2, <4>1, IssueAbove DEF NextInStamp
    <3>3. CASE FirstInStamp(n)
      BY <3>1, <3>3, IssueAbove DEF FirstInStamp
    <3>4. QED
      BY <2>1, <3>2, <3>3 DEF nextID
  <2>2. ASSUME NEW n \in Nodes, SpinEnds(n)
        PROVE  IInv'
    <3>1. nowMillis[n] \in Nat /\ lastStamp[n] \in Nat
      BY DEF IInv, TypeOK
    <3>2. QED
      BY <2>2, <3>1, IssueAbove DEF SpinEnds
  <2>3. ASSUME NEW n \in Nodes, Exhausted(n) \/ SleepBack(n) \/ Refuse(n)
        PROVE  IInv'
    <3>1. /\ UNCHANGED <<nowMillis, lastStamp, sequence, issued>>
          /\ generating' \in [Nodes -> {"no", "sleeping", "spinning"}]
      BY <2>3 DEF IInv, TypeOK, Exhausted, SleepBack, Refuse
    <3>2. TypeOK'
      BY <3>1 DEF IInv, TypeOK
    <3>3. QED
      BY <3>1, <3>2, NothingIssued
  <2>4. ASSUME NEW n \in Nodes, Clock(n)
        PROVE  IInv'
    <3>1. PICK s \in 1 .. nowMillis[n] + 1 :
             nowMillis' = [nowMillis EXCEPT ![n] = s]
      BY <2>4 DEF Clock
    <3>2. TypeOK'
      BY <2>4, <3>1 DEF IInv, TypeOK, Clock
    <3>3. QED
      BY <2>4, <3>2, NothingIssued DEF Clock
  <2>5. CASE UNCHANGED snowflakeVars
    <3>1. TypeOK'
      BY <2>5 DEF IInv, TypeOK, snowflakeVars
    <3>2. QED
      BY <2>5, <3>1, NothingIssued DEF snowflakeVars
  <2>6. QED
    BY <2>1, <2>2, <2>3, <2>4, <2>5 DEF Next
<1>3. QED
  BY <1>1, <1>2, PTL DEF Spec

(* The identifiers of a node increase for any number of nodes, any bounds  *)
(* and any clocks: nextID of snowflake.go never steps back.                *)
THEOREM IncreasingAlways == Spec => []Increasing
<1>1. IInv => Increasing
  BY DEF IInv
<1>2. QED
  BY <1>1, Invariance, PTL

(* No identifier is issued twice, by one node or by two of them, as long   *)
(* as every process has a node number of its own.                          *)
IssuedOnce ==
  \A n, m \in Nodes : \A i \in 1 .. Len(issued[n]), j \in 1 .. Len(issued[m]) :
    issued[n][i] = issued[m][j] => n = m /\ i = j

(* IssuedOnce for any nodes, bounds and clocks: the identifiers that       *)
(* NextID returns are unique.                                              *)
THEOREM IssuedOnceAlways == Spec => []IssuedOnce
<1>1. IInv => IssuedOnce
  <2> SUFFICES ASSUME IInv, NEW n \in Nodes, NEW m \in Nodes,
                      NEW i \in 1 .. Len(issued[n]), NEW j \in 1 .. Len(issued[m]),
                      issued[n][i] = issued[m][j]
               PROVE  n = m /\ i = j
    BY DEF IssuedOnce
  <2>1. n = m
    BY DEF IInv, BelowLast
  <2>2. issued[n] \in Seq(Id)
    BY DEF IInv, TypeOK
  <2>3. issued[n][i].stamp \in Nat /\ issued[n][i].seq \in 0 .. snowflakeMaxSeq
    <3>1. issued[n][i] \in Id
      BY <2>2
    <3>2. QED
      BY <3>1 DEF Id
  <2>4. ~ Before(issued[n][i], issued[n][i])
    BY <2>3, SnowflakeAssumption DEF Before
  <2>5. ~ (i < j) /\ ~ (j < i)
    BY <2>1, <2>4 DEF IInv, Increasing
  <2>6. QED
    BY <2>1, <2>2, <2>5
<1>2. QED
  BY <1>1, Invariance, PTL

-----------------------------------------------------------------------------
(* The other components, each with state of its own.                       *)
CONSTANTS
  Deciders, GrantTtl, LongestLoad, MaxVersion, MaxMoment,           \* RbacCache
  Procs, LocalTtl, DefaultTtl, Ttls, MaxValues, CacheClock,         \* RedisCache
  Calls, MarkTtl, GuardClock,                                       \* IdempotentGuard
  Requests, Sendable, Apps, TimestampWindow, NonceTTL, DefaultRate,
  ApiTime,                                                          \* OpenApi
  CaptchaIds, CaptchaTtl, CaptchaClock,                             \* CaptchaStore
  Processes, Migrations, Irreversible, MaxCalls,                    \* Migrator
  InstanceNames, DefaultInstance, Drivers, Callers, MaxPools,       \* Databases
  Keys, BuiltIn, PoolKey, Environments, GlobalFiles, ProjectFiles,
  MaxFileEdits                                                      \* Settings

VARIABLES
  moment, version, replacedAt, cache, decider, crashed,
  clock, home, client, redis, local, asking, written, given, held,
  guardClock, mark, guardCalls, since, owner, robbed, overdue,
  time, registry, nonces, limiter, req,
  tick, items, captchaIssued, asked,
  table, schema, process, calls,
  dialectors, instances, pools, lastPool, caller, mutex,
  env, global, project, edition, changed, override, config, target, legacy,
  phase, reloaded, handled

B == INSTANCE RbacCache WITH
       Ttl <- GrantTtl, Longest <- LongestLoad, MaxTime <- MaxMoment

L == INSTANCE RedisCache WITH defaultTtl <- DefaultTtl, MaxClock <- CacheClock

G == INSTANCE IdempotentGuard WITH
       MaxClock <- GuardClock,
       clock <- guardClock, call <- guardCalls

O == INSTANCE OpenApi WITH MaxTime <- ApiTime

P == INSTANCE CaptchaStore WITH
       Ids <- CaptchaIds, MaxClock <- CaptchaClock, issued <- captchaIssued

M == INSTANCE Migrator

D == INSTANCE Databases WITH Names <- InstanceNames, Default <- DefaultInstance

S == INSTANCE Settings WITH MaxEdits <- MaxFileEdits

ASSUME StoresAssumption ==
  /\ B!RbacAssumption /\ L!RedisCacheAssumption /\ G!IdempotentAssumption
  /\ O!OpenApiAssumption /\ P!CaptchaAssumption /\ M!MigratorAssumption
  /\ D!DatabaseAssumption /\ S!SettingsAssumption

(* What the caches answer is old by a bounded time only: the permissions   *)
(* by their ttl and one load, the Redis cache by its local ttl and the     *)
(* time of the Get that made the copy, but for what a process has itself   *)
(* set (DecisionRecent, StaleAtMostLocalTtl).                              *)
StaleForBoundedTime == B!DecisionRecent /\ L!StaleAtMostLocalTtl

(* Idempotent calls, open API requests and captchas: what may be accepted  *)
(* once is accepted once, and the open API lets no more through than it is *)
(* configured to (OnceWithinTtl, SentTwicePassesOnce, WithinLimits,        *)
(* OneAnswer).                                                             *)
AcceptedOnce ==
  /\ G!OnceWithinTtl
  /\ O!SentTwicePassesOnce /\ O!WithinLimits
  /\ P!OneAnswer

(* What is recorded is what there is: the schema of the database of the    *)
(* migrations, the open pools of the instances (TableMatchesSchema,        *)
(* NoPoolLeak).                                                            *)
RecordsAgree == M!TableMatchesSchema /\ D!NoPoolLeak

(* A handler sees, and a load leaves, a configuration in which each layer  *)
(* overrides the ones below it (SettingsLayered of Settings).              *)
SettingsLayered == S!SettingsLayered

(* No permission is cached and none is asked for at first.                 *)
LEMMA InitRbac == B!Init => B!IInv
<1> USE StoresAssumption DEF B!RbacAssumption
<1> QED
  BY DEF B!Init, B!Nothing, B!IInv, B!TypeOK, B!CacheOK, B!DeciderOK

(* What was current at a time or later was so at an earlier time or later. *)
LEMMA CurrentEarlier ==
  ASSUME B!TypeOK, NEW v, NEW t, NEW u \in Int, B!CurrentSince(v, t), u <= t
  PROVE  B!CurrentSince(v, u)
BY DEF B!TypeOK, B!CurrentSince

(* A decision that moves on to a sound record leaves the others sound.     *)
LEMMA DecisionGoesOn ==
  ASSUME B!IInv, NEW d \in Deciders, NEW r,
         decider' = [decider EXCEPT ![d] = r], B!DeciderOK(r), B!CacheOK',
         UNCHANGED <<moment, version, replacedAt>>
  PROVE  B!IInv'
<1>1. \A e \in Deciders : B!DeciderOK(decider'[e])
  BY DEF B!IInv, B!TypeOK
<1>2. ASSUME NEW e \in Deciders, B!DeciderOK(decider'[e])
      PROVE  B!DeciderOK(decider[e])'
  BY <1>2 DEF B!DeciderOK, B!CurrentSince
<1>3. B!TypeOK'
  BY DEF B!IInv, B!TypeOK
<1> QED
  BY <1>1, <1>2, <1>3 DEF B!IInv

(* What a decision uses was current when it was asked for, or a ttl and a  *)
(* load before: an entry is as old as the load that made it, and           *)
(* ClearCache between the load and the store does not make it older.       *)
LEMMA NextRbac == B!IInv /\ [B!Next]_B!rbacVars => B!IInv'
<1> SUFFICES ASSUME B!IInv, [B!Next]_B!rbacVars PROVE B!IInv'
  OBVIOUS
<1> USE StoresAssumption DEF B!RbacAssumption, B!IInv
<1> DEFINE now == <<moment, version, replacedAt>>
<1>1. ASSUME NEW d \in Deciders, NEW kind \in {"permission", "role"},
             B!cacheLookup(d, kind)
      PROVE  B!IInv'
  <2>1. CASE B!Hit
    <3> DEFINE r == [at |-> "answered", kind |-> kind, version |-> cache.version,
                     roles |-> cache.roles, asked |-> moment]
    <3>1. /\ r.at = "answered" /\ r.version = cache.version /\ r.asked = moment
          /\ decider' = [decider EXCEPT ![d] = r] /\ UNCHANGED now /\ cache' = cache
      BY <1>1, <2>1 DEF B!cacheLookup, B!Goes
    <3> HIDE DEF r
    <3>2. B!DeciderOK(r)
      BY <2>1, <3>1 DEF B!Hit, B!Expired, B!DeciderOK, B!TypeOK, B!CacheOK,
         B!CurrentSince
    <3>3. B!CacheOK'
      BY <3>1 DEF B!CacheOK, B!CurrentSince
    <3> QED
      BY <3>1, <3>2, <3>3, DecisionGoesOn
  <2>2. CASE ~ B!Hit
    <3> DEFINE r == [at |-> "loading", kind |-> kind, since |-> moment]
    <3>1. /\ r.at = "loading" /\ r.since = moment
          /\ decider' = [decider EXCEPT ![d] = r] /\ UNCHANGED now /\ ~ cache'.is
      BY <1>1, <2>2 DEF B!cacheLookup, B!Goes, B!Nothing
    <3> HIDE DEF r
    <3>2. B!DeciderOK(r)
      BY <3>1 DEF B!DeciderOK, B!TypeOK
    <3> QED
      BY <3>1, <3>2, DecisionGoesOn DEF B!CacheOK
  <2> QED
    BY <2>1, <2>2
<1>2. ASSUME NEW d \in Deciders, B!loadPermissions(d) PROVE B!IInv'
  <2>1. decider[d].at = "loading" /\ UNCHANGED now /\ cache' = cache
    BY <1>2 DEF B!loadPermissions
  <2>2. B!CacheOK'
    BY <2>1 DEF B!CacheOK, B!CurrentSince
  <2>3. CASE B!Goes(d, [at |-> "error"])
    <3>1. B!DeciderOK([at |-> "error"])
      BY DEF B!DeciderOK
    <3> QED
      BY <2>1, <2>2, <2>3, <3>1, DecisionGoesOn DEF B!Goes
  <2>4. CASE B!Goes(d, [at |-> "loaded", kind |-> decider[d].kind, version |-> version,
                        asked |-> decider[d].since, since |-> decider[d].since])
    <3> DEFINE r == [at |-> "loaded", kind |-> decider[d].kind, version |-> version,
                     asked |-> decider[d].since, since |-> decider[d].since]
    <3>1. /\ r.at = "loaded" /\ r.version = version /\ r.asked = decider[d].since
          /\ r.since = decider[d].since /\ decider' = [decider EXCEPT ![d] = r]
      BY <2>4 DEF B!Goes
    <3> HIDE DEF r
    <3>2. B!DeciderOK(decider[d])
      OBVIOUS
    <3>3. B!DeciderOK(r)
      BY <2>1, <3>1, <3>2 DEF B!DeciderOK, B!TypeOK, B!CurrentSince
    <3> QED
      BY <2>1, <2>2, <3>1, <3>3, DecisionGoesOn
  <2> QED
    BY <1>2, <2>3, <2>4 DEF B!loadPermissions
<1>3. ASSUME NEW d \in Deciders, B!cacheStore(d) PROVE B!IInv'
  <2>1. PICK ok \in BOOLEAN :
          /\ cache' = IF GrantTtl > 0
                      THEN [is |-> TRUE, version |-> decider[d].version, roles |-> ok,
                            expires |-> moment + GrantTtl]
                      ELSE cache
          /\ B!Goes(d, IF decider[d].kind = "permission"
                  THEN [at |-> "answered", kind |-> "permission",
                        version |-> decider[d].version, roles |-> ok,
                        asked |-> decider[d].asked]
                  ELSE [at |-> "stored", asked |-> decider[d].asked])
    BY <1>3 DEF B!cacheStore
  <2>2. decider[d].at = "loaded" /\ UNCHANGED now
    BY <1>3 DEF B!cacheStore
  <2>3. /\ B!CurrentSince(decider[d].version, decider[d].since)
        /\ decider[d].asked = decider[d].since /\ moment <= decider[d].since + LongestLoad
        /\ decider[d].since \in Int /\ decider[d].since <= moment /\ moment \in Nat
    BY <2>2 DEF B!DeciderOK, B!TypeOK
  <2>4. B!CacheOK'
    <3>1. CASE cache' = cache
      BY <2>2, <3>1 DEF B!CacheOK, B!CurrentSince
    <3>2. CASE /\ cache'.version = decider[d].version
               /\ cache'.expires = moment + GrantTtl
      <4>1. /\ moment + GrantTtl - GrantTtl - LongestLoad \in Int
            /\ moment + GrantTtl - GrantTtl - LongestLoad <= decider[d].since
            /\ moment + GrantTtl \in Int
        BY <2>3
      <4>2. B!CurrentSince(decider[d].version, moment + GrantTtl - GrantTtl - LongestLoad)
        BY <2>3, <4>1, CurrentEarlier
      <4>3. B!CurrentSince(decider[d].version, cache'.expires - GrantTtl - LongestLoad)
        BY <2>3, <3>2, <4>2
      <4>4. B!CurrentSince(cache.version, cache.expires - GrantTtl - LongestLoad)'
        BY <2>2, <3>2, <4>3 DEF B!CurrentSince
      <4>5. cache'.expires \in Int /\ cache'.expires <= moment' + GrantTtl
        BY <2>2, <3>2, <4>1
      <4> QED
        BY <4>4, <4>5 DEF B!CacheOK
    <3> QED
      BY <2>1, <3>1, <3>2
  <2>5. CASE decider[d].kind = "permission"
    <3> DEFINE r == [at |-> "answered", kind |-> "permission",
                     version |-> decider[d].version, roles |-> ok,
                     asked |-> decider[d].asked]
    <3>1. /\ r.at = "answered" /\ r.version = decider[d].version
          /\ r.asked = decider[d].asked /\ decider' = [decider EXCEPT ![d] = r]
      BY <2>1, <2>5 DEF B!Goes
    <3> HIDE DEF r
    <3>2. B!DeciderOK(r)
      <4>1. /\ decider[d].since - GrantTtl - LongestLoad \in Int
            /\ decider[d].since - GrantTtl - LongestLoad <= decider[d].since
        BY <2>3
      <4>2. B!CurrentSince(decider[d].version, decider[d].since - GrantTtl - LongestLoad)
        BY <2>3, <4>1, CurrentEarlier
      <4> QED
        BY <2>3, <3>1, <4>2 DEF B!DeciderOK
    <3> QED
      BY <2>2, <2>4, <3>1, <3>2, DecisionGoesOn
  <2>6. CASE decider[d].kind /= "permission"
    <3> DEFINE r == [at |-> "stored", asked |-> decider[d].asked]
    <3>1. /\ r.at = "stored" /\ r.asked = decider[d].asked
          /\ decider' = [decider EXCEPT ![d] = r]
      BY <2>1, <2>6 DEF B!Goes
    <3> HIDE DEF r
    <3>2. B!DeciderOK(r)
      BY <2>3, <3>1 DEF B!DeciderOK
    <3> QED
      BY <2>2, <2>4, <3>1, <3>2, DecisionGoesOn
  <2> QED
    BY <2>5, <2>6
<1>4. ASSUME NEW d \in Deciders, B!answerRole(d) PROVE B!IInv'
  <2> DEFINE r == [at |-> "answered", kind |-> "role", asked |-> decider[d].asked,
                   version |-> IF B!Hit THEN cache.version ELSE 0,
                   roles |-> B!Hit /\ cache.roles]
  <2>1. /\ r.at = "answered" /\ r.asked = decider[d].asked
        /\ r.version = IF B!Hit THEN cache.version ELSE 0
    OBVIOUS
  <2>2. /\ decider' = [decider EXCEPT ![d] = r] /\ UNCHANGED now
        /\ decider[d].at = "stored" /\ cache' = IF B!Hit THEN cache ELSE B!Nothing
    BY <1>4 DEF B!answerRole, B!Goes
  <2> HIDE DEF r
  <2>3. decider[d].asked \in Int /\ decider[d].asked <= moment
    BY <2>2 DEF B!DeciderOK
  <2>4. B!DeciderOK(r)
    <3>1. CASE B!Hit
      <4>1. /\ cache.expires \in Int /\ moment <= cache.expires /\ moment \in Nat
            /\ B!CurrentSince(cache.version, cache.expires - GrantTtl - LongestLoad)
        BY <3>1 DEF B!Hit, B!Expired, B!TypeOK, B!CacheOK
      <4>2. /\ decider[d].asked - GrantTtl - LongestLoad \in Int
            /\ decider[d].asked - GrantTtl - LongestLoad <= cache.expires - GrantTtl - LongestLoad
        BY <2>3, <4>1
      <4>3. B!CurrentSince(cache.version, decider[d].asked - GrantTtl - LongestLoad)
        BY <4>1, <4>2, CurrentEarlier
      <4> QED
        BY <2>1, <2>3, <3>1, <4>3 DEF B!DeciderOK
    <3>2. CASE ~ B!Hit
      BY <2>1, <3>2 DEF B!DeciderOK
    <3> QED
      BY <3>1, <3>2
  <2>5. B!CacheOK'
    <3>1. CASE cache' = cache
      BY <2>2, <3>1 DEF B!CacheOK, B!CurrentSince
    <3>2. CASE cache' = B!Nothing
      BY <3>2 DEF B!CacheOK, B!Nothing
    <3> QED
      BY <2>2, <3>1, <3>2
  <2> QED
    BY <2>2, <2>4, <2>5, DecisionGoesOn
<1>5. CASE B!Change
  BY <1>5 DEF B!Change, B!TypeOK, B!CacheOK, B!DeciderOK, B!CurrentSince
<1>6. CASE B!ClearCache
  BY <1>6 DEF B!ClearCache, B!Nothing, B!TypeOK, B!CacheOK, B!DeciderOK,
     B!CurrentSince
<1>7. CASE B!Tick
  BY <1>7 DEF B!Tick, B!TypeOK, B!CacheOK, B!DeciderOK, B!CurrentSince
<1>8. ASSUME NEW d \in Deciders, NEW e \in Deciders, B!LookupsCollide(d, e) PROVE B!IInv'
  BY <1>8 DEF B!LookupsCollide, B!TypeOK, B!CacheOK, B!DeciderOK, B!CurrentSince
<1>9. CASE UNCHANGED B!rbacVars
  BY <1>9 DEF B!rbacVars, B!TypeOK, B!CacheOK, B!DeciderOK, B!CurrentSince
<1> QED
  BY <1>1, <1>2, <1>3, <1>4, <1>5, <1>6, <1>7, <1>8, <1>9 DEF B!Next

(* A decision that answered used permissions that were recent.             *)
LEMMA RbacNow == B!IInv => B!DecisionRecent
BY StoresAssumption DEF B!RbacAssumption, B!IInv, B!DeciderOK, B!CurrentSince,
   B!DecisionRecent

(* Nothing is written, copied or read at first.                            *)
LEMMA InitRedisCache == L!Init => L!IInv
<1> USE StoresAssumption DEF L!RedisCacheAssumption
<1> QED
  BY DEF L!Init, L!IInv, L!TypeOK, L!CopyOK, L!AnswerOK, L!NoCall, L!NoCopy

(* What is noted of Redis only moves on.                                   *)
LEMMA NotedGrows ==
  ASSUME L!TypeOK
  PROVE  /\ L!Noted \subseteq [value : 1 .. MaxValues, at : Nat]
         /\ \A m \in L!Noted : m.at <= clock
         /\ \A m \in held :
              \E n \in L!Noted : n.value = m.value /\ m.at <= n.at
<1> USE StoresAssumption DEF L!RedisCacheAssumption
<1>1. CASE ~ L!InRedis(redis, clock)
  BY <1>1 DEF L!Noted, L!TypeOK
<1>2. CASE L!InRedis(redis, clock)
  <2> DEFINE now == [value |-> redis.value, at |-> clock]
  <2>1. now \in [value : 1 .. MaxValues, at : Nat]
    BY <1>2 DEF L!TypeOK, L!InRedis
  <2>2. L!Noted = {m \in held : m.value # now.value} \cup {now}
    BY <1>2 DEF L!Noted
  <2>3. \A m \in held : m.at <= clock
    BY DEF L!TypeOK
  <2>4. now.at = clock
    OBVIOUS
  <2>5. held \subseteq [value : 1 .. MaxValues, at : Nat]
    BY DEF L!TypeOK
  <2>6. clock \in Nat
    BY DEF L!TypeOK
  <2> HIDE DEF now
  <2> QED
    BY ONLY <2>1, <2>2, <2>3, <2>4, <2>5, <2>6
<1> QED
  BY <1>1, <1>2

(* What a step does not touch stays founded, for both histories only move  *)
(* on.                                                                     *)
LEMMA FoundedStays ==
  ASSUME L!IInv, L!TypeOK', clock <= clock', given \subseteq given',
         held' = held \/ held' = L!Noted
  PROVE  /\ \A p \in Procs : local'[p] = local[p] => L!CopyOK(p)'
         /\ \A c \in Callers : asking'[c] = asking[c] => L!AnswerOK(c)'
<1> USE StoresAssumption DEF L!RedisCacheAssumption
<1>k. LocalTtl \in Nat /\ clock \in Nat /\ clock' \in Nat
  BY DEF L!IInv, L!TypeOK
<1>t. /\ held \subseteq [value : 1 .. MaxValues, at : Nat]
      /\ held' \subseteq [value : 1 .. MaxValues, at : Nat]
  BY DEF L!IInv, L!TypeOK
<1>n. \A m \in held : \E n \in held' : n.value = m.value /\ m.at <= n.at
  <2>1. \A m \in held : m.at <= m.at
    BY <1>t
  <2> QED
    BY <2>1, NotedGrows DEF L!IInv
<1>1. ASSUME NEW p \in Procs, local'[p] = local[p] PROVE L!CopyOK(p)'
  <2> SUFFICES ASSUME local[p].value # 0
               PROVE  L!Founded(p, local[p].value, local[p].until, local[p].delay)'
    BY <1>1 DEF L!CopyOK
  <2> DEFINE copy == local[p]
  <2>1. copy.until \in Nat /\ copy.delay \in Nat
    BY DEF L!IInv, L!TypeOK
  <2>2. L!Founded(p, copy.value, copy.until, copy.delay)
    BY DEF L!IInv, L!CopyOK
  <2>3. local'[p] = copy
    BY <1>1
  <2> HIDE DEF copy
  <2>4. CASE \E m \in given : m.by = p /\ m.value = copy.value /\ copy.until <= m.at + LocalTtl
    BY <2>3, <2>4 DEF L!Founded
  <2>5. CASE \E m \in held : m.value = copy.value /\ copy.until <= m.at + LocalTtl + copy.delay
    <3>1. PICK m \in held : m.value = copy.value /\ copy.until <= m.at + LocalTtl + copy.delay
      BY <2>5
    <3>2. PICK n \in held' : n.value = m.value /\ m.at <= n.at
      BY <1>n
    <3>3. m.at \in Nat /\ n.at \in Nat
      BY <1>t
    <3>4. copy.until <= n.at + LocalTtl + copy.delay
      BY ONLY <1>k, <2>1, <3>1, <3>2, <3>3
    <3> QED
      BY ONLY <2>3, <3>1, <3>2, <3>4 DEF L!Founded
  <2> QED
    BY ONLY <2>2, <2>4, <2>5 DEF L!Founded
<1>2. ASSUME NEW c \in Callers, asking'[c] = asking[c] PROVE L!AnswerOK(c)'
  <2> SUFFICES ASSUME asking[c].op = "keep"
               PROVE  /\ asking'[c].value # 0 /\ asking'[c].at <= clock'
                      /\ \E m \in held' : m.value = asking'[c].value /\ asking'[c].at <= m.at
    BY <1>2 DEF L!AnswerOK
  <2>1. asking[c].at \in Nat
    BY DEF L!IInv, L!TypeOK
  <2>2. L!AnswerOK(c)
    BY DEF L!IInv
  <2>3. PICK m \in held : m.value = asking[c].value /\ asking[c].at <= m.at
    BY <2>2 DEF L!AnswerOK
  <2>4. PICK n \in held' : n.value = m.value /\ m.at <= n.at
    BY <1>n
  <2>5. m.at \in Nat /\ n.at \in Nat
    BY <1>t
  <2>6. asking[c].at <= n.at /\ asking[c].at <= clock' /\ asking[c].value # 0
    BY <1>k, <2>1, <2>2, <2>3, <2>4, <2>5 DEF L!AnswerOK
  <2> QED
    BY ONLY <1>2, <2>3, <2>4, <2>6
<1> QED
  BY <1>1, <1>2

(* No local copy outlives its value by more than LocalTtl and the time its *)
(* Get took: Get keeps only what Redis answered, SetTtl only what it was   *)
(* given, and whatever happens in between only moves the histories on.     *)
LEMMA NextRedisCache == L!IInv /\ [L!Next]_L!vars => L!IInv'
<1> SUFFICES ASSUME L!IInv, [L!Next]_L!vars PROVE L!IInv'
  OBVIOUS
<1> USE StoresAssumption DEF L!RedisCacheAssumption
<1>t. L!TypeOK
  BY DEF L!IInv
<1>n. /\ L!Noted \subseteq [value : 1 .. MaxValues, at : Nat]
      /\ \A m \in L!Noted : m.at <= clock
  BY <1>t, NotedGrows
<1>c. clock \in Nat /\ clock <= clock
  BY <1>t DEF L!TypeOK
<1>d. L!NoCall \in [op : {"none", "set", "ask", "keep"}, value : 0 .. MaxValues,
                    at : Nat, ttl : Nat]
      /\ L!NoCall.op = "none"
      /\ L!NoCopy \in [value : 0 .. MaxValues, until : Nat, delay : Nat]
      /\ L!NoCopy.value = 0
  BY DEF L!NoCall, L!NoCopy
<1>r. ASSUME L!TypeOK', clock <= clock', given \subseteq given',
             held' = held \/ held' = L!Noted, local' = local,
             \A c \in Callers : asking'[c] = asking[c] \/ asking'[c].op # "keep"
      PROVE  L!IInv'
  BY <1>r, FoundedStays DEF L!IInv, L!AnswerOK
<1>0. CASE UNCHANGED L!vars
  <2>1. L!TypeOK'
    BY <1>0, <1>t DEF L!vars, L!TypeOK
  <2> QED
    BY <1>0, <1>c, <1>r, <2>1 DEF L!vars
<1>1. CASE L!Tick
  <2>1. L!TypeOK'
    <3>1. \A m \in L!Noted : m.at \in Nat /\ m.at <= clock + 1
      BY <1>c, <1>n
    <3> QED
      BY <1>1, <1>t, <1>n, <3>1 DEF L!Tick, L!TypeOK
  <2> QED
    BY <1>1, <1>c, <1>r, <2>1 DEF L!Tick
<1>2. ASSUME NEW p \in Procs, L!Open(p) \/ L!Close(p) PROVE L!IInv'
  <2>1. L!TypeOK'
    BY <1>2, <1>t DEF L!Open, L!Close, L!TypeOK
  <2> QED
    BY <1>2, <1>c, <1>r, <2>1 DEF L!Open, L!Close
<1>3. ASSUME NEW c \in Callers, NEW ttl \in Ttls, L!SetTtl(c, ttl) PROVE L!IInv'
  <2>0. PICK p \in Procs : p = home[c]
    BY <1>t DEF L!TypeOK
  <2> DEFINE v == written + 1
             copy == [value |-> v, until |-> clock + LocalTtl, delay |-> 0]
             note == [by |-> p, value |-> v, at |-> clock]
             ask == [op |-> "set", value |-> v, at |-> 0, ttl |-> ttl]
  <2>1. /\ v \in 1 .. MaxValues /\ p \in Procs /\ written' = v
        /\ local' = [local EXCEPT ![p] = copy]
        /\ given' = given \cup {note}
        /\ asking' = [asking EXCEPT ![c] = ask]
        /\ UNCHANGED <<clock, home, client, redis, held>>
    BY <1>3, <1>t, <2>0 DEF L!SetTtl, L!Goes, L!TypeOK
  <2>2. /\ copy \in [value : 0 .. MaxValues, until : Nat, delay : Nat]
        /\ note \in [by : Procs, value : 1 .. MaxValues, at : Nat]
        /\ ask \in [op : {"none", "set", "ask", "keep"}, value : 0 .. MaxValues,
                    at : Nat, ttl : Nat]
    BY <1>c, <2>1
  <2>3. /\ note.by = p /\ note.value = copy.value
        /\ copy.until <= note.at + LocalTtl /\ ask.op # "keep"
    BY <1>c
  <2> HIDE DEF copy, note, ask, v
  <2>4. L!TypeOK'
    BY <1>t, <2>1, <2>2 DEF L!TypeOK
  <2>5. L!CopyOK(p)'
    <3>1. local'[p] = copy /\ note \in given'
      BY <1>t, <2>1 DEF L!TypeOK
    <3> QED
      BY ONLY <2>3, <3>1 DEF L!CopyOK, L!Founded
  <2>6. \A q \in Procs : q = p \/ local'[q] = local[q]
    BY <1>t, <2>1 DEF L!TypeOK
  <2>7. \A b \in Callers : asking'[b] = asking[b] \/ asking'[b].op # "keep"
    BY <1>t, <2>1, <2>3 DEF L!TypeOK
  <2>8. given \subseteq given' /\ held' = held /\ clock <= clock'
    BY <1>c, <2>1
  <2>9. /\ \A q \in Procs : local'[q] = local[q] => L!CopyOK(q)'
        /\ \A b \in Callers : asking'[b] = asking[b] => L!AnswerOK(b)'
    BY <2>4, <2>8, FoundedStays
  <2>10. \A b \in Callers : L!AnswerOK(b)'
    BY <2>7, <2>9 DEF L!AnswerOK
  <2>11. \A q \in Procs : L!CopyOK(q)'
    BY <2>5, <2>6, <2>9
  <2> QED
    BY <2>4, <2>9, <2>10, <2>11 DEF L!IInv
<1>4. ASSUME NEW c \in Callers, L!Store(c) PROVE L!IInv'
  <2>1. PICK t \in L!Expiries(asking[c].ttl) :
          redis' = [value |-> asking[c].value, expires |-> t]
    BY <1>4 DEF L!Store
  <2>2. t \in Nat /\ asking[c].value \in 0 .. MaxValues
    BY <1>t DEF L!Expiries, L!Ttl, L!TypeOK
  <2>3. redis' \in [value : 0 .. MaxValues, expires : Nat]
    BY <2>1, <2>2
  <2>4. L!TypeOK'
    BY <1>4, <1>t, <1>n, <1>d, <2>3 DEF L!Store, L!Goes, L!TypeOK
  <2>5. \A b \in Callers : asking'[b] = asking[b] \/ asking'[b].op # "keep"
    BY <1>4, <1>t, <1>d DEF L!Store, L!Goes, L!TypeOK
  <2> QED
    BY <1>4, <1>c, <1>r, <2>4, <2>5 DEF L!Store
<1>5. ASSUME NEW c \in Callers, L!StoreFails(c) \/ L!AskFails(c) PROVE L!IInv'
  <2>4. L!TypeOK'
    BY <1>5, <1>t, <1>d DEF L!StoreFails, L!AskFails, L!Goes, L!TypeOK
  <2>5. \A b \in Callers : asking'[b] = asking[b] \/ asking'[b].op # "keep"
    BY <1>5, <1>t, <1>d DEF L!StoreFails, L!AskFails, L!Goes, L!TypeOK
  <2> QED
    BY <1>5, <1>c, <1>r, <2>4, <2>5 DEF L!StoreFails, L!AskFails
<1>6. ASSUME NEW c \in Callers, L!Get(c) PROVE L!IInv'
  <2> DEFINE p == home[c]
             copy == local[p]
             ask == [L!NoCall EXCEPT !.op = "ask"]
  <2>1. p \in Procs /\ copy \in [value : 0 .. MaxValues, until : Nat, delay : Nat]
    BY <1>t DEF L!TypeOK
  <2>2. UNCHANGED <<clock, home, client, redis, local, written, given, held>>
    BY <1>6 DEF L!Get
  <2>3. CASE L!Copied(p)
    BY <1>6, <1>0, <2>2, <2>3 DEF L!Get, L!vars
  <2>4. CASE ~ L!Copied(p)
    <3>1. asking' = [asking EXCEPT ![c] = ask]
      BY <1>6, <2>4 DEF L!Get, L!Goes
    <3>2. ask.op # "keep" /\ ask \in [op : {"none", "set", "ask", "keep"},
                              value : 0 .. MaxValues, at : Nat, ttl : Nat]
      BY DEF L!NoCall
    <3> HIDE DEF ask
    <3>3. L!TypeOK'
      BY <1>t, <2>2, <3>1, <3>2 DEF L!TypeOK
    <3>4. \A b \in Callers : asking'[b] = asking[b] \/ asking'[b].op # "keep"
      BY <1>t, <3>1, <3>2 DEF L!TypeOK
    <3> QED
      BY <1>c, <1>r, <2>2, <3>1, <3>3, <3>4
  <2> QED
    BY <2>3, <2>4
<1>7. ASSUME NEW c \in Callers, L!Ask(c) PROVE L!IInv'
  <2> DEFINE now == [value |-> redis.value, at |-> clock]
             ask == [L!NoCall EXCEPT !.op = "keep", !.value = redis.value,
                                     !.at = clock]
  <2>1. /\ asking' = [asking EXCEPT ![c] = ask] /\ held' = L!Noted
        /\ UNCHANGED <<clock, home, client, redis, local, written, given>>
    BY <1>7 DEF L!Ask, L!Goes
  <2>2. now \in L!Noted /\ redis.value # 0
    BY <1>7 DEF L!Ask, L!Noted, L!InRedis
  <2>3. /\ ask.value = now.value /\ ask.at = clock /\ ask.value # 0
        /\ ask.at <= now.at /\ ask.at <= clock
    BY <1>c, <2>2 DEF L!NoCall
  <2>4. ask \in [op : {"none", "set", "ask", "keep"}, value : 0 .. MaxValues,
                 at : Nat, ttl : Nat]
    BY <1>t DEF L!NoCall, L!TypeOK
  <2> HIDE DEF now, ask
  <2>5. L!TypeOK'
    BY <1>t, <1>n, <2>1, <2>4 DEF L!TypeOK
  <2>6. L!AnswerOK(c)'
    BY <1>t, <2>1, <2>2, <2>3 DEF L!AnswerOK, L!TypeOK
  <2>7. \A b \in Callers : b = c \/ asking'[b] = asking[b]
    BY <1>t, <2>1 DEF L!TypeOK
  <2> QED
    BY <1>c, <2>1, <2>5, <2>6, <2>7, FoundedStays DEF L!IInv
<1>8. ASSUME NEW c \in Callers, L!Keep(c) PROVE L!IInv'
  <2>0. PICK p \in Procs : p = home[c]
    BY <1>t DEF L!TypeOK
  <2> DEFINE a == asking[c]
             copy == L!Copy(a)
  <2>1. /\ a.op = "keep" /\ p \in Procs
        /\ a \in [op : {"none", "set", "ask", "keep"}, value : 0 .. MaxValues,
                  at : Nat, ttl : Nat]
        /\ local' = [local EXCEPT ![p] = copy]
        /\ asking' = [asking EXCEPT ![c] = L!NoCall]
        /\ UNCHANGED <<clock, home, client, redis, written, given, held>>
    BY <1>8, <1>t, <2>0 DEF L!Keep, L!Goes, L!TypeOK
  <2>2. a.value # 0 /\ a.at <= clock /\ \E m \in held : m.value = a.value /\ a.at <= m.at
    BY <2>1 DEF L!IInv, L!AnswerOK
  <2>3. /\ copy.value = a.value /\ copy.until = clock + LocalTtl
        /\ copy.delay = clock - a.at
        /\ copy \in [value : 0 .. MaxValues, until : Nat, delay : Nat]
    BY <1>c, <2>1, <2>2 DEF L!Copy
  <2>a. a.at \in Nat /\ LocalTtl \in Nat \ {0}
    BY <2>1
  <2> HIDE DEF a, copy
  <2>4. L!Founded(p, copy.value, copy.until, copy.delay)
    <3>1. PICK m \in held : m.value = a.value /\ a.at <= m.at
      BY <2>2
    <3>2. m.at \in Nat
      BY <1>t DEF L!TypeOK
    <3>3. copy.until <= m.at + LocalTtl + copy.delay
      BY ONLY <1>c, <2>a, <2>2, <2>3, <3>1, <3>2
    <3> QED
      BY ONLY <2>3, <3>1, <3>3 DEF L!Founded
  <2>7. L!TypeOK'
    BY <1>t, <1>d, <2>1, <2>3 DEF L!TypeOK
  <2>8. L!CopyOK(p)'
    <3>1. local'[p] = copy /\ given' = given /\ held' = held
      BY <1>t, <2>1 DEF L!TypeOK
    <3> QED
      BY ONLY <2>4, <3>1 DEF L!CopyOK, L!Founded
  <2>9. /\ \A q \in Procs : q = p \/ local'[q] = local[q]
        /\ \A b \in Callers : asking'[b] = asking[b] \/ asking'[b].op # "keep"
    BY <1>t, <1>d, <2>1 DEF L!TypeOK
  <2>10. given \subseteq given' /\ held' = held /\ clock <= clock'
    BY <1>c, <2>1
  <2>11. /\ \A q \in Procs : local'[q] = local[q] => L!CopyOK(q)'
         /\ \A b \in Callers : asking'[b] = asking[b] => L!AnswerOK(b)'
    BY <2>7, <2>10, FoundedStays
  <2>12. \A b \in Callers : L!AnswerOK(b)'
    BY <2>9, <2>11 DEF L!AnswerOK
  <2>13. \A q \in Procs : L!CopyOK(q)'
    BY <2>8, <2>9, <2>11
  <2> QED
    BY <2>7, <2>12, <2>13 DEF L!IInv
<1>9. ASSUME NEW p \in Procs, L!Evict(p) PROVE L!IInv'
  <2>1. /\ local' = [local EXCEPT ![p] = L!NoCopy]
        /\ UNCHANGED <<clock, home, client, redis, asking, written, given, held>>
    BY <1>9 DEF L!Evict
  <2>2. L!TypeOK'
    BY <1>t, <1>d, <2>1 DEF L!TypeOK
  <2>3. \A q \in Procs : local'[q] = local[q] \/ local'[q].value = 0
    BY <1>t, <1>d, <2>1 DEF L!TypeOK
  <2> QED
    BY <1>c, <2>1, <2>2, <2>3, FoundedStays DEF L!IInv, L!CopyOK
<1>10. ASSUME NEW p \in Procs, L!Del(p) PROVE L!IInv'
  <2>1. redis' \in [value : 0 .. MaxValues, expires : Nat]
    <3>1. redis \in [value : 0 .. MaxValues, expires : Nat] /\ 0 \in 0 .. MaxValues
      BY <1>t DEF L!TypeOK
    <3> QED
      BY ONLY <1>10, <3>1 DEF L!Del
  <2>2. L!TypeOK'
    BY <1>10, <1>t, <1>n, <2>1 DEF L!Del, L!TypeOK
  <2> QED
    BY <1>10, <1>c, <1>r, <2>2 DEF L!Del
<1>11. ASSUME NEW p \in Procs, NEW ttl \in Ttls, L!Expire(p, ttl) PROVE L!IInv'
  <2>1. redis' \in [value : 0 .. MaxValues, expires : Nat]
    <3>1. /\ redis \in [value : 0 .. MaxValues, expires : Nat]
          /\ clock + ttl \in Nat
      BY <1>t DEF L!TypeOK
    <3> QED
      BY ONLY <1>11, <3>1 DEF L!Expire
  <2>2. L!TypeOK'
    BY <1>11, <1>t, <1>n, <2>1 DEF L!Expire, L!TypeOK
  <2> QED
    BY <1>11, <1>c, <1>r, <2>2 DEF L!Expire
<1>12. ASSUME NEW p \in Procs, NEW onlyNew \in BOOLEAN, L!Write(p, onlyNew)
       PROVE  L!IInv'
  <2>1. /\ redis' \in [value : 0 .. MaxValues, expires : Nat]
        /\ written' \in 0 .. MaxValues
    BY <1>12, <1>t DEF L!Write, L!Never, L!TypeOK
  <2>2. L!TypeOK'
    BY <1>12, <1>t, <1>n, <2>1 DEF L!Write, L!TypeOK
  <2> QED
    BY <1>12, <1>c, <1>r, <2>2 DEF L!Write
<1> QED
  BY <1>1, <1>2, <1>3, <1>4, <1>5, <1>6, <1>7, <1>8, <1>9, <1>10, <1>11, <1>12,
     <1>0 DEF L!Next

(* A copy that answers a Get is kept at least until the next moment.       *)
LEMMA RedisCacheNow == L!IInv => L!StaleAtMostLocalTtl
<1> USE StoresAssumption DEF L!RedisCacheAssumption
<1> SUFFICES ASSUME L!IInv, NEW p \in Procs, L!Copied(p)
             PROVE  L!Founded(p, local[p].value, clock + 1, local[p].delay)
  BY DEF L!StaleAtMostLocalTtl
<1> DEFINE copy == local[p]
<1>1. /\ copy.until \in Nat /\ copy.delay \in Nat /\ clock \in Nat
      /\ LocalTtl \in Nat /\ clock + 1 <= copy.until
  BY DEF L!IInv, L!TypeOK, L!Copied
<1>2. L!Founded(p, copy.value, copy.until, copy.delay)
  BY DEF L!IInv, L!CopyOK, L!Copied
<1>t. /\ \A m \in held : m.at \in Nat
      /\ \A m \in given : m.at \in Nat
  BY DEF L!IInv, L!TypeOK
<1> HIDE DEF copy
<1>3. \A t \in Nat : /\ copy.until <= t + LocalTtl => clock + 1 <= t + LocalTtl
                     /\ copy.until <= t + LocalTtl + copy.delay
                          => clock + 1 <= t + LocalTtl + copy.delay
  BY ONLY <1>1
<1>4. L!Founded(p, copy.value, clock + 1, copy.delay)
  BY ONLY <1>2, <1>t, <1>3 DEF L!Founded
<1> QED
  BY <1>4 DEF copy

(* However loads, lookups, ClearCache and changes of the grants            *)
(* interleave, no decision uses permissions replaced longer ago than the   *)
(* ttl and one load; and no process reads from its local copy what left    *)
(* Redis LocalTtl and the time of one Get ago, but for what it has itself  *)
(* set within LocalTtl.                                                    *)
THEOREM StaleForBoundedTimeAlways ==
  B!Spec /\ L!Spec => []StaleForBoundedTime
  BY InitRbac, NextRbac, RbacNow, InitRedisCache, NextRedisCache, RedisCacheNow,
     PTL DEF B!Spec, L!Spec, StaleForBoundedTime

(* No mark is set at first.                                                *)
LEMMA InitGuard == G!Init => G!IInv
<1> SUFFICES ASSUME G!Init PROVE G!IInv
  OBVIOUS
<1>1. G!Counts = {}
  BY DEF G!Init, G!Counts
<1>2. G!TypeOK
  BY DEF G!Init, G!TypeOK
<1> QED
  BY <1>1, <1>2 DEF G!Init, G!IInv, G!MarksKept, G!OnceWithinTtl

(* A call that counts keeps its mark until it expires or until another's   *)
(* Release takes it, which then no longer has a mark of its own.           *)
LEMMA NextGuard == G!IInv /\ [G!Next]_G!guardVars => G!IInv'
<1> SUFFICES ASSUME G!IInv, [G!Next]_G!guardVars PROVE G!IInv'
  OBVIOUS
<1> USE StoresAssumption DEF G!IdempotentAssumption
<1>i. G!TypeOK /\ G!MarksKept /\ G!OnceWithinTtl
  BY DEF G!IInv
<1>1. ASSUME NEW c \in Calls, G!Check(c) PROVE G!IInv'
  <2>1. G!TypeOK'
    BY <1>1, <1>i DEF G!Check, G!TypeOK
  <2>2. CASE /\ ~ G!Marked /\ mark' = guardClock + MarkTtl
             /\ owner' = {c} /\ robbed' = robbed \ {c}
             /\ guardCalls' = [guardCalls EXCEPT ![c] = "executing"]
             /\ since' = [since EXCEPT ![c] = guardClock]
             /\ UNCHANGED <<guardClock, overdue>>
    <3>1. /\ since'[c] = guardClock
          /\ \A d \in G!Counts' : d # c =>
               d \in G!Counts /\ since'[d] = since[d] /\ (d \in robbed' <=> d \in robbed)
      BY <1>i, <2>2 DEF G!TypeOK, G!Counts
    <3>2. \A d \in G!Counts : guardClock >= since[d] + MarkTtl \/ d \in robbed
      BY <1>i, <2>2 DEF G!MarksKept, G!Marked, G!TypeOK, G!Counts
    <3>3. G!MarksKept'
      BY <2>2, <3>1, <3>2 DEF G!MarksKept
    <3>4. G!OnceWithinTtl'
      BY <1>i, <2>2, <3>1, <3>2 DEF G!OnceWithinTtl
    <3> QED
      BY <2>1, <3>3, <3>4 DEF G!IInv
  <2>3. CASE /\ ~ G!Marked /\ mark' = guardClock + MarkTtl
             /\ owner' = {c} /\ robbed' = robbed \ {c}
             /\ guardCalls' = [guardCalls EXCEPT ![c] = "refused"]
             /\ since' = since /\ UNCHANGED <<guardClock, overdue>>
    <3>1. \A d \in G!Counts' : d # c /\ d \in G!Counts /\ (d \in robbed' <=> d \in robbed)
      BY <1>i, <2>3 DEF G!TypeOK, G!Counts
    <3>2. \A d \in G!Counts : guardClock >= since[d] + MarkTtl \/ d \in robbed
      BY <1>i, <2>3 DEF G!MarksKept, G!Marked, G!TypeOK, G!Counts
    <3>3. G!MarksKept' /\ G!OnceWithinTtl'
      BY <1>i, <2>3, <3>1, <3>2 DEF G!MarksKept, G!OnceWithinTtl
    <3> QED
      BY <2>1, <3>3 DEF G!IInv
  <2>4. CASE /\ guardCalls' = [guardCalls EXCEPT ![c] = "refused"]
             /\ UNCHANGED <<mark, since, owner, robbed, guardClock, overdue>>
    <3>1. G!Counts' \subseteq G!Counts
      BY <1>i, <2>4 DEF G!TypeOK, G!Counts
    <3> QED
      BY <1>i, <2>1, <2>4, <3>1 DEF G!MarksKept, G!OnceWithinTtl, G!IInv
  <2> QED
    BY <1>1, <2>2, <2>3, <2>4 DEF G!Check
<1>2. ASSUME NEW c \in Calls, G!Succeed(c) PROVE G!IInv'
  <2>1. G!TypeOK' /\ G!Counts' = G!Counts
    BY <1>2, <1>i DEF G!Succeed, G!TypeOK, G!Counts
  <2> QED
    BY <1>2, <1>i, <2>1 DEF G!Succeed, G!MarksKept, G!OnceWithinTtl, G!IInv
<1>3. ASSUME NEW c \in Calls, G!Release(c) PROVE G!IInv'
  <2>1. G!TypeOK'
    BY <1>3, <1>i DEF G!Release, G!TypeOK
  <2>2. /\ \A d \in G!Counts' : d # c /\ d \in G!Counts
        /\ c \in G!Counts /\ UNCHANGED <<guardClock, since>>
        /\ robbed' = IF G!Marked THEN robbed \cup (owner \ {c}) ELSE robbed
        /\ overdue' = (overdue \/ guardClock >= since[c] + MarkTtl)
    BY <1>3, <1>i DEF G!Release, G!TypeOK, G!Counts
  <2>3. ASSUME NEW d \in G!Counts' PROVE guardClock >= since[d] + MarkTtl \/ d \in robbed'
    <3>1. \/ owner = {d} /\ mark = since[d] + MarkTtl
          \/ guardClock >= since[d] + MarkTtl
          \/ d \in robbed
      BY <1>i, <2>2 DEF G!MarksKept
    <3>2. since[d] \in Nat /\ guardClock \in Nat /\ d # c
      BY <1>i, <2>2 DEF G!TypeOK, G!Counts
    <3> QED
      BY <2>2, <3>1, <3>2 DEF G!Marked
  <2>4. G!MarksKept'
    BY <2>2, <2>3 DEF G!MarksKept
  <2>5. \A d, e \in G!Counts' : d # e =>
          \/ since'[e] >= since'[d] + MarkTtl \/ since'[d] >= since'[e] + MarkTtl
          \/ d \in robbed' \/ e \in robbed'
    BY <1>i, <2>2 DEF G!OnceWithinTtl
  <2>6. robbed' # {} => overdue'
    <3>1. CASE robbed' # robbed
      <4>1. G!Marked /\ owner # {c}
        BY <2>2, <3>1
      <4>2. c \in robbed \/ guardClock >= since[c] + MarkTtl
        BY <1>i, <2>2, <4>1 DEF G!MarksKept
      <4> QED
        BY <1>i, <2>2, <4>2 DEF G!OnceWithinTtl
    <3>2. CASE robbed' = robbed
      BY <1>i, <2>2, <3>2 DEF G!OnceWithinTtl
    <3> QED
      BY <3>1, <3>2
  <2> QED
    BY <2>1, <2>4, <2>5, <2>6 DEF G!OnceWithinTtl, G!IInv
<1>4. ASSUME NEW c \in Calls, G!ReleaseFails(c) PROVE G!IInv'
  <2>1. G!TypeOK' /\ G!Counts' \subseteq G!Counts
    BY <1>4, <1>i DEF G!ReleaseFails, G!TypeOK, G!Counts
  <2> QED
    BY <1>4, <1>i, <2>1 DEF G!ReleaseFails, G!MarksKept, G!OnceWithinTtl, G!IInv
<1>5. CASE G!Tick
  <2>1. G!TypeOK' /\ G!Counts' = G!Counts
    BY <1>5, <1>i DEF G!Tick, G!TypeOK, G!Counts
  <2>2. \A d \in G!Counts : since[d] \in Nat /\ guardClock \in Nat
    BY <1>i DEF G!TypeOK, G!Counts
  <2>3. G!MarksKept'
    BY <1>5, <1>i, <2>1, <2>2 DEF G!Tick, G!MarksKept
  <2> QED
    BY <1>5, <1>i, <2>1, <2>3 DEF G!Tick, G!OnceWithinTtl, G!IInv
<1>6. CASE UNCHANGED G!guardVars
  <2>1. G!TypeOK' /\ G!Counts' = G!Counts
    BY <1>6, <1>i DEF G!guardVars, G!TypeOK, G!Counts
  <2> QED
    BY <1>6, <1>i, <2>1 DEF G!guardVars, G!MarksKept, G!OnceWithinTtl, G!IInv
<1> QED
  BY <1>1, <1>2, <1>3, <1>4, <1>5, <1>6 DEF G!Next

(* Cardinality as the gateway uses it is the one of the library.           *)
LEMMA FiniteAsHere ==
  \A T : O!Cardinality(T) = Cardinality(T) /\ O!IsFiniteSet(T) = IsFiniteSet(T)
BY DEF O!Cardinality, Cardinality, O!IsFiniteSet, IsFiniteSet

(* One more request that passes is counted once.                           *)
LEMMA PassedCounted ==
  O!Cardinality(O!Passed) \in Nat
  /\ \A r \in Requests : O!Cardinality(O!Passed \cup {r}) =
       IF r \in O!Passed THEN O!Cardinality(O!Passed) ELSE O!Cardinality(O!Passed) + 1
<1>1. O!Passed \subseteq Requests
  BY DEF O!Passed
<1>2. IsFiniteSet(Requests)
  BY FiniteAsHere, StoresAssumption DEF O!OpenApiAssumption
<1>3. IsFiniteSet(O!Passed) /\ Cardinality(O!Passed) \in Nat
  BY <1>1, <1>2, FS_Subset, FS_CardinalityType
<1> QED
  BY <1>3, FS_AddElement, FiniteAsHere

(* What is refilled in two intervals is what is refilled in both together. *)
LEMMA Products ==
  ASSUME NEW a \in Nat, NEW b \in Nat, NEW rate \in Nat, 1 <= a, a <= b
  PROVE  /\ (a - 1) * rate \in Nat /\ (b - 1) * rate \in Nat /\ (b - a) * rate \in Nat
         /\ (a - 1) * rate + (b - a) * rate = (b - 1) * rate
<1>1. a - 1 \in Nat /\ b - 1 \in Nat /\ b - a \in Nat
  OBVIOUS
<1>2. \A x, y \in Nat : x * y \in Nat
  OBVIOUS
<1>3. (a - 1) * rate + (b - a) * rate = ((a - 1) + (b - a)) * rate
  OBVIOUS
<1>4. (a - 1) + (b - a) = b - 1
  OBVIOUS
<1> QED
  BY <1>1, <1>2, <1>3, <1>4

(* No request is sent at first.                                            *)
LEMMA InitApi == O!Init => O!IInv
<1> SUFFICES ASSUME O!Init PROVE O!IInv
  OBVIOUS
<1>1. \A r \in Requests : req[r] = [at |-> "new"]
  BY DEF O!Init
<1>2. \A r \in Requests : req[r].at = "new"
  BY <1>1
<1>3. O!TypeOK
  BY DEF O!Init, O!TypeOK
<1> QED
  BY <1>2, <1>3 DEF O!Init, O!IInv, O!RequestsRecent, O!NoncesKnown,
     O!AcceptedApart,
                    O!Accepted, O!TokensAccounted, O!Passed

(* The types of what a request carries once it is identified.              *)
LEMMA RequestFields ==
  ASSUME O!TypeOK, NEW r \in Requests, req[r].at \notin {"new", "rejected"}
  PROVE  /\ req[r] \in O!Carried
         /\ req[r].sent \in Sendable /\ req[r].sent.timestamp \in Int
         /\ req[r].sent.nonce \in O!Nonces /\ nonces[req[r].sent.nonce] \in Nat
         /\ req[r].app \in Apps /\ req[r].checked \in Nat /\ req[r].noted \in Nat
         /\ time \in Nat
<1>1. req[r] \in O!Carried
  <2>1. req[r] \notin [at : {"new", "rejected"}]
    OBVIOUS
  <2> QED
    BY <2>1 DEF O!TypeOK
<1>2. /\ req[r].sent \in Sendable /\ req[r].app \in Apps
      /\ req[r].checked \in Nat /\ req[r].noted \in Nat
  BY <1>1 DEF O!Carried
<1> QED
  BY <1>1, <1>2, StoresAssumption DEF O!TypeOK, O!Nonces, O!OpenApiAssumption

(* A request that advances keeps what it carries.                          *)
LEMMA RequestAdvances ==
  ASSUME O!TypeOK, NEW r \in Requests, req[r].at \notin {"new", "rejected"},
         NEW stage \in O!Stages, O!advance(r, stage)
  PROVE  /\ req' \in [Requests -> [at : {"new", "rejected"}] \cup
                       O!Carried]
         /\ req'[r].at = stage /\ req'[r].sent = req[r].sent
         /\ req'[r].checked = req[r].checked /\ req'[r].noted = req[r].noted
         /\ \A s \in Requests : s # r => req'[s] = req[s]
<1> DEFINE new == [req[r] EXCEPT !.at = stage]
<1>1. req[r] \in O!Carried
  BY RequestFields
<1>2. /\ new \in O!Carried
      /\ new.at = stage /\ new.sent = req[r].sent
      /\ new.checked = req[r].checked /\ new.noted = req[r].noted
  BY <1>1 DEF O!Carried
<1>3. req' = [req EXCEPT ![r] = new]
  BY DEF O!advance
<1> HIDE DEF new
<1> QED
  BY <1>2, <1>3 DEF O!TypeOK

(* A request that is not accepted leaves the accepted nonces as they were. *)
LEMMA NotAccepted ==
  ASSUME O!NoncesKnown, O!AcceptedApart, NEW r \in Requests, UNCHANGED nonces,
         \A s \in Requests : s # r => req'[s] = req[s],
         req'[r].at \notin {"fresh", "passed"}
  PROVE  O!NoncesKnown' /\ O!AcceptedApart'
<1>1. \A s \in O!Accepted' : s \in O!Accepted /\ s \in Requests /\ req'[s] = req[s]
  BY DEF O!Accepted
<1> QED
  BY <1>1 DEF O!NoncesKnown, O!AcceptedApart

(* A request that does not pass leaves the count as it was.                *)
LEMMA NotPassed ==
  ASSUME O!TokensAccounted, NEW r \in Requests, UNCHANGED <<limiter, time>>,
         \A s \in Requests : s # r => req'[s] = req[s],
         req[r].at # "passed", req'[r].at # "passed"
  PROVE  O!TokensAccounted'
<1>1. O!Passed' = O!Passed
  BY DEF O!Passed
<1> QED
  BY <1>1 DEF O!TokensAccounted

(* The limiter a request gets, made for it or found, holds no more than    *)
(* what its application may still send.                                    *)
LEMMA LimiterSound ==
  ASSUME O!IInv, NEW app \in Apps
  PROVE  LET l == O!limiterFor(app)
         IN /\ l \in [limits : [rate : Nat, burst : Nat], tokens : Nat, last : Nat \ {0}]
            /\ O!Refilled(l) \in Nat
            /\ O!Cardinality(O!Passed) + O!Refilled(l)
                 <= l.limits.burst + (time - 1) * l.limits.rate
<1> DEFINE l == O!limiterFor(app)
           limits == O!Limits(app)
<1>0. O!Cardinality(O!Passed) \in Nat /\ O!Cardinality({}) = 0
  BY PassedCounted, FiniteAsHere, FS_EmptySet
<1>t. time \in Nat \ {0}
  BY DEF O!IInv, O!TypeOK
<1>1. limits \in [rate : Nat, burst : Nat]
  BY StoresAssumption DEF O!Limits, O!OpenApiAssumption
<1>2. /\ l \in [limits : [rate : Nat, burst : Nat], tokens : Nat, last : Nat \ {0}]
      /\ l.last <= time
      /\ O!Cardinality(O!Passed) + l.tokens <= l.limits.burst + (l.last - 1) * l.limits.rate
  <2>1. CASE limiter = O!NoLimiter
    <3>1. O!Passed = {}
      <4>1. limiter.tokens \notin Nat
        BY <2>1 DEF O!NoLimiter
      <4> QED
        BY <4>1 DEF O!IInv, O!TokensAccounted
    <3>2. l = [limits |-> limits, tokens |-> limits.burst, last |-> time]
      BY <2>1 DEF O!limiterFor
    <3> HIDE DEF l, limits
    <3>3. /\ l \in [limits : [rate : Nat, burst : Nat], tokens : Nat, last : Nat \ {0}]
          /\ l.last = time /\ l.tokens = limits.burst /\ l.limits = limits
      BY <1>1, <1>t, <3>2
    <3>4. (time - 1) * limits.rate \in Nat /\ limits.burst \in Nat
      BY <1>1, <1>t, Products
    <3> QED
      BY <1>0, <1>t, <3>1, <3>3, <3>4
  <2>2. CASE limiter # O!NoLimiter
    <3>1. l = limiter
      BY <2>2 DEF O!limiterFor
    <3> QED
      BY <2>2, <3>1 DEF O!IInv, O!TokensAccounted
  <2> QED
    BY <2>1, <2>2
<1> DEFINE passed == O!Cardinality(O!Passed)
           rate == l.limits.rate
           burst == l.limits.burst
           tokens == l.tokens
           last == l.last
<1>3. /\ rate \in Nat /\ burst \in Nat /\ tokens \in Nat /\ last \in Nat /\ 1 <= last
      /\ last <= time /\ passed + tokens <= burst + (last - 1) * rate /\ passed \in Nat
  BY <1>0, <1>2
<1>4. O!Refilled(l) = IF tokens + (time - last) * rate > burst THEN burst
                      ELSE tokens + (time - last) * rate
  BY DEF O!Refilled
<1> HIDE DEF l, passed, rate, burst, tokens, last
<1> DEFINE before == (last - 1) * rate
           since1 == (time - last) * rate
           all == (time - 1) * rate
<1>5. before \in Nat /\ since1 \in Nat /\ all \in Nat /\ before + since1 = all
  BY <1>3, <1>t, Products
<1>6. /\ passed + tokens <= burst + before
      /\ O!Refilled(l) = IF tokens + since1 > burst THEN burst ELSE tokens + since1
  BY <1>3, <1>4
<1> HIDE DEF before, since1, all
<1>7. O!Refilled(l) \in Nat /\ passed + O!Refilled(l) <= burst + all
  BY <1>3, <1>5, <1>6
<1> QED
  BY <1>2, <1>7 DEF l, passed, burst, all, rate

(* A nonce is known for NonceTTL from when it was accepted, so the same is *)
(* accepted again that much later at the earliest; a request that passes   *)
(* takes a token.                                                          *)
LEMMA NextApi == O!IInv /\ [O!Next]_O!apiVars => O!IInv'
<1> SUFFICES ASSUME O!IInv, [O!Next]_O!apiVars PROVE O!IInv'
  OBVIOUS
<1>i. /\ O!TypeOK /\ O!RequestsRecent /\ O!NoncesKnown /\ O!AcceptedApart
      /\ O!TokensAccounted /\ time \in Nat \ {0}
  BY DEF O!IInv, O!TypeOK
<1>1. ASSUME UNCHANGED <<time, nonces, limiter, req>>, registry' \in Apps \cup {O!NoApp}
      PROVE  O!IInv'
  <2>1. O!TypeOK'
    BY <1>1, <1>i DEF O!TypeOK
  <2>2. O!RequestsRecent' /\ O!NoncesKnown' /\ O!AcceptedApart' /\ O!TokensAccounted'
    BY <1>1, <1>i DEF O!RequestsRecent, O!NoncesKnown, O!AcceptedApart,
       O!Accepted,
                      O!TokensAccounted, O!Passed
  <2> QED
    BY <2>1, <2>2 DEF O!IInv
<1>2. CASE O!Register \/ O!Set \/ O!Unregister
  BY <1>1, <1>2 DEF O!Register, O!Set, O!Unregister
<1>3. CASE O!Tick
  <2>1. time' = time + 1 /\ UNCHANGED <<registry, nonces, limiter, req>>
    BY <1>3 DEF O!Tick
  <2>2. O!TypeOK'
    BY <1>i, <2>1 DEF O!TypeOK
  <2>3. O!RequestsRecent'
    <3>1. \A r \in Requests : req[r].at \notin {"new", "rejected"} =>
            req[r].checked \in Nat /\ req[r].noted \in Nat
      BY <1>i, RequestFields
    <3> QED
      BY <1>i, <2>1, <3>1 DEF O!RequestsRecent
  <2>4. O!NoncesKnown' /\ O!AcceptedApart'
    BY <1>i, <2>1 DEF O!NoncesKnown, O!AcceptedApart, O!Accepted
  <2>5. O!TokensAccounted'
    BY <1>i, <2>1 DEF O!TokensAccounted, O!Passed
  <2> QED
    BY <2>2, <2>3, <2>4, <2>5 DEF O!IInv
<1>4. ASSUME NEW r \in Requests, req[r].at \in {"identified", "signed"},
             NEW stage \in {"identified", "signed", "rejected"}, O!advance(r, stage),
             UNCHANGED <<time, registry, nonces, limiter>>
      PROVE  O!IInv'
  <2>1. stage \in O!Stages
    BY DEF O!Stages
  <2>2. /\ req' \in [Requests -> [at : {"new", "rejected"}] \cup
                       O!Carried]
        /\ req'[r].at = stage /\ req'[r].sent = req[r].sent
        /\ req'[r].checked = req[r].checked /\ req'[r].noted = req[r].noted
        /\ \A s \in Requests : s # r => req'[s] = req[s]
    BY <1>i, <1>4, <2>1, RequestAdvances
  <2>3. O!TypeOK'
    BY <1>4, <1>i, <2>2 DEF O!TypeOK
  <2>4. O!RequestsRecent'
    BY <1>4, <1>i, <2>2 DEF O!RequestsRecent
  <2>5. O!NoncesKnown' /\ O!AcceptedApart' /\ O!TokensAccounted'
    BY <1>4, <1>i, <2>2, NotAccepted, NotPassed
  <2> QED
    BY <2>3, <2>4, <2>5 DEF O!IInv
<1>5. ASSUME NEW r \in Requests, O!Identify(r) PROVE O!IInv'
  <2>1. PICK sent \in Sendable :
          req' = [req EXCEPT ![r] =
                 IF registry.enabled /\ O!InWindow(sent)
                 THEN [at |-> "identified", sent |-> sent, app |-> registry,
                       checked |-> time, noted |-> 0]
                 ELSE [at |-> "rejected"]]
    BY <1>5 DEF O!Identify
  <2>2. req[r].at = "new" /\ UNCHANGED <<time, registry, nonces, limiter>>
    BY <1>5 DEF O!Identify
  <2>3. ASSUME NEW new \in [at : {"new", "rejected"}] \cup
                 O!Carried,
               req' = [req EXCEPT ![r] = new],
               \/ new.at = "rejected"
               \/ /\ new.at = "identified" /\ new.checked = time
                  /\ new.sent.timestamp - TimestampWindow <= time
                  /\ time <= new.sent.timestamp + TimestampWindow
        PROVE  O!IInv'
    <3>1. req'[r] = new /\ \A s \in Requests : s # r => req'[s] = req[s]
      BY <1>i, <2>3 DEF O!TypeOK
    <3>2. O!TypeOK'
      BY <1>i, <2>2, <2>3 DEF O!TypeOK
    <3>3. O!RequestsRecent'
      BY <1>i, <2>2, <2>3, <3>1 DEF O!RequestsRecent
    <3>4. O!NoncesKnown' /\ O!AcceptedApart' /\ O!TokensAccounted'
      BY <1>i, <2>2, <2>3, <3>1, NotAccepted, NotPassed
    <3> QED
      BY <3>2, <3>3, <3>4 DEF O!IInv
  <2>4. CASE registry.enabled /\ O!InWindow(sent)
    <3> DEFINE new == [at |-> "identified", sent |-> sent, app |-> registry,
                       checked |-> time, noted |-> 0]
    <3>1. registry \in Apps
      BY <1>i, <2>4 DEF O!TypeOK, O!NoApp
    <3>2. new \in O!Carried
      BY <1>i, <3>1 DEF O!Stages, O!Carried
    <3>3. new.at = "identified" /\ new.checked = time /\ new.sent = sent
      OBVIOUS
    <3>4. /\ sent.timestamp - TimestampWindow <= time
          /\ time <= sent.timestamp + TimestampWindow
      BY <1>i, <2>4, StoresAssumption DEF O!InWindow, O!OpenApiAssumption
    <3>5. req' = [req EXCEPT ![r] = new]
      BY <2>1, <2>4
    <3> HIDE DEF new
    <3> QED
      BY <2>3, <3>2, <3>3, <3>4, <3>5
  <2>5. CASE ~ (registry.enabled /\ O!InWindow(sent))
    <3> DEFINE new == [at |-> "rejected"]
    <3>1. new \in [at : {"new", "rejected"}] /\ new.at = "rejected"
      OBVIOUS
    <3>2. req' = [req EXCEPT ![r] = new]
      BY <2>1, <2>5
    <3> HIDE DEF new
    <3> QED
      BY <2>3, <3>1, <3>2
  <2> QED
    BY <2>4, <2>5
<1>6. ASSUME NEW r \in Requests, O!VerifySignature(r) PROVE O!IInv'
  <2>1. O!reject(r) => O!advance(r, "rejected")
    BY DEF O!reject, O!advance
  <2> QED
    <3>1. /\ req[r].at = "identified" /\ UNCHANGED <<time, registry, nonces, limiter>>
          /\ O!advance(r, "signed") \/ O!reject(r)
      BY <1>6, Zenon DEF O!VerifySignature
    <3> QED
      BY <1>4, <2>1, <3>1
<1>7. ASSUME NEW r \in Requests, O!Fails(r) PROVE O!IInv'
  <2>1. O!reject(r) => O!advance(r, "rejected")
    BY DEF O!reject, O!advance
  <2>2. req[r].at \in {"identified", "signed"} /\ O!advance(r, "rejected")
        /\ UNCHANGED <<time, registry, limiter>>
    BY <1>7, <2>1 DEF O!Fails
  <2>3. CASE UNCHANGED nonces
    BY <1>4, <2>2, <2>3
  <2>4. CASE ~ UNCHANGED nonces
    <3> DEFINE n == req[r].sent.nonce
    <3>1. /\ ~ (nonces[n] > time)
          /\ nonces' = [nonces EXCEPT ![n] = time + NonceTTL]
      BY <1>7, <2>4 DEF O!Fails, O!Used
    <3>2. "rejected" \in O!Stages
      BY DEF O!Stages
    <3>3. /\ req' \in [Requests -> [at : {"new", "rejected"}] \cup O!Carried]
          /\ req'[r].at = "rejected" /\ req'[r].sent = req[r].sent
          /\ req'[r].checked = req[r].checked /\ req'[r].noted = req[r].noted
          /\ \A s \in Requests : s # r => req'[s] = req[s]
      BY <1>i, <2>2, <3>2, RequestAdvances
    <3>4. n \in O!Nonces /\ nonces[n] \in Nat
      BY <1>i, <2>2, RequestFields
    <3>5. NonceTTL \in Nat /\ time + NonceTTL \in Nat
      BY <1>i, StoresAssumption DEF O!OpenApiAssumption
    <3>6. /\ nonces' \in [O!Nonces -> Nat]
          /\ \A m \in O!Nonces : nonces'[m] >= nonces[m]
      BY <1>i, <3>1, <3>4, <3>5 DEF O!TypeOK
    <3>7. O!TypeOK'
      BY <1>i, <2>2, <3>3, <3>6 DEF O!TypeOK
    <3>8. O!RequestsRecent'
      BY <1>i, <2>2, <3>3 DEF O!RequestsRecent
    <3>9. \A s \in O!Accepted' : s \in O!Accepted /\ req'[s] = req[s]
      BY <3>3 DEF O!Accepted
    <3>10. O!NoncesKnown'
      <4> SUFFICES ASSUME NEW s \in O!Accepted'
                   PROVE  nonces'[req'[s].sent.nonce] >= req'[s].noted + NonceTTL
        BY DEF O!NoncesKnown
      <4>1. s \in O!Accepted /\ req'[s] = req[s]
        BY <3>9
      <4>2. /\ nonces[req[s].sent.nonce] \in Nat /\ req[s].noted \in Nat
            /\ req[s].sent.nonce \in O!Nonces
            /\ nonces[req[s].sent.nonce] >= req[s].noted + NonceTTL
        <5>1. s \in Requests /\ req[s].at \notin {"new", "rejected"}
          BY <4>1 DEF O!Accepted
        <5> QED
          BY <1>i, <4>1, <5>1, RequestFields DEF O!NoncesKnown
      <4>3. nonces'[req[s].sent.nonce] \in Nat
        BY <3>6, <4>2
      <4> QED
        BY <3>5, <3>6, <4>1, <4>2, <4>3
    <3>11. O!AcceptedApart' /\ O!TokensAccounted'
      BY <1>i, <2>2, <3>3, <3>9, NotPassed DEF O!AcceptedApart
    <3> QED
      BY <3>7, <3>8, <3>10, <3>11 DEF O!IInv
  <2> QED
    BY <2>3, <2>4
<1>8. ASSUME NEW r \in Requests, O!TrySet(r) PROVE O!IInv'
  <2> DEFINE n == req[r].sent.nonce
  <2>1. req[r].at = "signed" /\ UNCHANGED <<time, registry, limiter>>
    BY <1>8 DEF O!TrySet
  <2>2. CASE nonces[n] > time
    <3>1. O!advance(r, "rejected") /\ UNCHANGED nonces
      BY <1>8, <2>2 DEF O!TrySet, O!Used, O!reject, O!advance
    <3> QED
      BY <1>4, <2>1, <3>1
  <2>3. CASE ~ (nonces[n] > time)
    <3> DEFINE new == [req[r] EXCEPT !.at = "fresh", !.noted = time]
    <3>1. /\ req' = [req EXCEPT ![r] = new]
          /\ nonces' = [nonces EXCEPT ![n] = time + NonceTTL]
      BY <1>8, <2>3 DEF O!TrySet, O!Used, O!accept
    <3>2. req[r] \in O!Carried
      BY <1>i, <2>1, RequestFields
    <3>3. /\ new \in O!Carried /\ new.at = "fresh" /\ new.noted = time
          /\ new.sent = req[r].sent /\ new.checked = req[r].checked
      BY <1>i, <3>2 DEF O!Carried, O!Stages
    <3> HIDE DEF new
    <3>a. /\ req' \in [Requests -> [at : {"new", "rejected"}] \cup O!Carried]
          /\ req'[r].at = "fresh" /\ req'[r].sent = req[r].sent
          /\ req'[r].noted = time /\ req'[r].checked = req[r].checked
          /\ \A s \in Requests : s # r => req'[s] = req[s]
      BY <1>i, <3>1, <3>3 DEF O!TypeOK
    <3>4. /\ n \in O!Nonces /\ nonces[n] \in Nat /\ req[r].checked \in Nat
          /\ req[r].sent.timestamp \in Int
      BY <1>i, <2>1, RequestFields
    <3>5. NonceTTL \in Nat /\ time + NonceTTL \in Nat
      BY <1>i, StoresAssumption DEF O!OpenApiAssumption
    <3>7. O!TypeOK'
      BY <1>i, <2>1, <3>1, <3>a, <3>5 DEF O!TypeOK
    <3>8. O!RequestsRecent'
      BY <1>i, <2>1, <3>a, <3>4 DEF O!RequestsRecent
    <3>9. \A s \in O!Accepted' :
            s \in Requests /\ (s = r \/ (s # r /\ s \in O!Accepted /\ req'[s] = req[s]))
      BY <3>a DEF O!Accepted
    <3>10. ASSUME NEW s \in O!Accepted
           PROVE  /\ nonces[req[s].sent.nonce] \in Nat /\ req[s].noted \in Nat
                  /\ req[s].sent.nonce \in O!Nonces
                  /\ nonces[req[s].sent.nonce] >= req[s].noted + NonceTTL
      <4>1. s \in Requests /\ req[s].at \notin {"new", "rejected"}
        BY DEF O!Accepted
      <4> QED
        BY <1>i, <4>1, RequestFields DEF O!NoncesKnown
    <3>11. O!NoncesKnown'
      <4> SUFFICES ASSUME NEW s \in O!Accepted'
                   PROVE  nonces'[req'[s].sent.nonce] >= req'[s].noted + NonceTTL
        BY DEF O!NoncesKnown
      <4>1. CASE s = r
        <5>1. nonces'[n] = time + NonceTTL
          BY <1>i, <3>1, <3>4 DEF O!TypeOK
        <5> QED
          BY <3>a, <3>5, <4>1, <5>1
      <4>2. CASE s # r /\ s \in O!Accepted /\ req'[s] = req[s]
        <5>1. nonces'[req[s].sent.nonce] =
                IF req[s].sent.nonce = n THEN time + NonceTTL
                ELSE nonces[req[s].sent.nonce]
          BY <1>i, <3>1, <3>10, <4>2 DEF O!TypeOK
        <5>2. nonces'[req[s].sent.nonce] >= nonces[req[s].sent.nonce]
          BY <1>i, <2>3, <3>4, <3>5, <3>10, <4>2, <5>1
        <5>3. nonces'[req[s].sent.nonce] \in Nat
          BY <1>i, <3>5, <3>10, <4>2, <5>1
        <5> QED
          BY <3>5, <3>10, <4>2, <5>2, <5>3
      <4> QED
        BY <3>9, <4>1, <4>2
    <3>12. \A s \in O!Accepted :
             req[s].sent = req[r].sent => req[s].noted + NonceTTL <= time
      BY <1>i, <2>3, <3>4, <3>5, <3>10
    <3>13. O!AcceptedApart'
      BY <1>i, <3>a, <3>9, <3>12 DEF O!AcceptedApart
    <3>14. O!TokensAccounted'
      BY <1>i, <2>1, <3>a, NotPassed
    <3> QED
      BY <3>7, <3>8, <3>11, <3>13, <3>14 DEF O!IInv
  <2> QED
    BY <2>2, <2>3
<1>9. ASSUME NEW r \in Requests, O!Limit(r) PROVE O!IInv'
  <2> DEFINE l == O!limiterFor(req[r].app)
             left == O!Refilled(l)
  <2>1. req[r].at = "fresh" /\ UNCHANGED <<time, registry, nonces>>
    BY <1>9 DEF O!Limit
  <2>2. req[r].app \in Apps
    BY <1>i, <2>1, RequestFields
  <2>3. /\ l \in [limits : [rate : Nat, burst : Nat], tokens : Nat, last : Nat \ {0}]
        /\ left \in Nat
        /\ O!Cardinality(O!Passed) + left <= l.limits.burst + (time - 1) * l.limits.rate
    BY <2>2, LimiterSound
  <2>4. PICK stage \in {"passed", "rejected"} :
          /\ O!advance(r, stage) /\ (stage = "passed" => left >= 1)
          /\ limiter' = [l EXCEPT !.tokens = IF stage = "passed" THEN left - 1 ELSE left,
                                  !.last = time]
    BY <1>9 DEF O!Limit, O!reject, O!advance
  <2>5. stage \in O!Stages
    BY DEF O!Stages
  <2>6. /\ req' \in [Requests -> [at : {"new", "rejected"}] \cup
                       O!Carried]
        /\ req'[r].at = stage /\ req'[r].sent = req[r].sent
        /\ req'[r].checked = req[r].checked /\ req'[r].noted = req[r].noted
        /\ \A s \in Requests : s # r => req'[s] = req[s]
    BY <1>i, <2>1, <2>4, <2>5, RequestAdvances
  <2>7. O!TypeOK'
    BY <1>i, <2>1, <2>6 DEF O!TypeOK
  <2>8. O!RequestsRecent'
    BY <1>i, <2>1, <2>6 DEF O!RequestsRecent
  <2>9. O!NoncesKnown' /\ O!AcceptedApart'
    <3>1. \A s \in O!Accepted' : /\ s \in O!Accepted /\ req'[s].sent = req[s].sent
                                  /\ req'[s].noted = req[s].noted
      BY <2>1, <2>6 DEF O!Accepted
    <3> QED
      BY <1>i, <2>1, <3>1 DEF O!NoncesKnown, O!AcceptedApart
  <2>10. O!TokensAccounted'
    <3> DEFINE tokens == IF stage = "passed" THEN left - 1 ELSE left
               passed == O!Cardinality(O!Passed)
               all == l.limits.burst + (time - 1) * l.limits.rate
    <3>1. tokens \in Nat
      BY <2>3, <2>4
    <3>2. O!Passed' = IF stage = "passed" THEN O!Passed \cup {r} ELSE O!Passed
      BY <2>1, <2>4, <2>6 DEF O!Passed
    <3>3. O!Cardinality(O!Passed') = (IF stage = "passed" THEN passed + 1 ELSE passed)
          /\ passed \in Nat
      <4>1. r \notin O!Passed
        BY <2>1 DEF O!Passed
      <4> QED
        BY <3>2, <4>1, PassedCounted
    <3>4. /\ limiter' \in [limits : [rate : Nat, burst : Nat], tokens : Nat,
                         last : Nat \ {0}]
          /\ limiter'.limits = l.limits /\ limiter'.tokens = tokens
          /\ limiter'.last = time
      <4> HIDE DEF l, tokens
      <4> QED
        BY <1>i, <2>3, <2>4, <3>1 DEF tokens
    <3>5. O!Cardinality(O!Passed') + tokens <= all
      <4>1. all \in Int
        <5>1. l.limits.rate \in Nat /\ l.limits.burst \in Nat
          BY <2>3
        <5> QED
          BY <1>i, <5>1, Products
      <4> HIDE DEF l, passed, all, left
      <4>2. passed + left <= all
        BY <2>3 DEF passed, all
      <4> QED
        BY <2>3, <3>3, <4>1, <4>2
    <3> QED
      BY <1>i, <2>1, <3>4, <3>5 DEF O!TokensAccounted
  <2> QED
    BY <2>7, <2>8, <2>9, <2>10 DEF O!IInv
<1>10. CASE UNCHANGED O!apiVars
  BY <1>1, <1>10, <1>i DEF O!apiVars, O!TypeOK
<1> QED
  BY <1>2, <1>3, <1>5, <1>6, <1>7, <1>8, <1>9, <1>10 DEF O!Next

(* Nonces that are apart let no request pass twice, and the tokens         *)
(* accounted for are within the limits.                                    *)
LEMMA ApiNow == O!IInv => O!SentTwicePassesOnce /\ O!WithinLimits
<1> SUFFICES ASSUME O!IInv PROVE O!SentTwicePassesOnce /\ O!WithinLimits
  OBVIOUS
<1>1. O!SentTwicePassesOnce
  <2> SUFFICES ASSUME NEW r \in O!Passed, NEW s \in O!Passed,
                      req[r].sent = req[s].sent, r # s, req[r].noted <= req[s].noted
               PROVE  /\ req[r].noted + NonceTTL <= req[s].noted
                      /\ NonceTTL - 2 * TimestampWindow <= req[s].noted - req[s].checked
    BY DEF O!SentTwicePassesOnce
  <2>1. /\ r \in Requests /\ s \in Requests /\ r \in O!Accepted /\ s \in O!Accepted
        /\ req[r].at = "passed" /\ req[s].at = "passed"
    BY DEF O!Passed, O!Accepted
  <2>2. /\ req[r].noted \in Nat /\ req[s].noted \in Nat /\ req[r].checked \in Nat
        /\ req[s].checked \in Nat /\ req[s].sent.timestamp \in Int
    BY <2>1, RequestFields DEF O!IInv
  <2>3. NonceTTL \in Nat \ {0} /\ TimestampWindow \in Nat
    BY StoresAssumption DEF O!OpenApiAssumption
  <2>4. \/ req[r].noted + NonceTTL <= req[s].noted
        \/ req[s].noted + NonceTTL <= req[r].noted
    BY <2>1 DEF O!IInv, O!AcceptedApart
  <2>5. /\ req[r].checked <= req[r].noted
        /\ req[r].sent.timestamp - TimestampWindow <= req[r].checked
        /\ req[s].checked <= req[s].sent.timestamp + TimestampWindow
    BY <2>1 DEF O!IInv, O!RequestsRecent
  <2> QED
    BY <2>2, <2>3, <2>4, <2>5
<1>2. ASSUME limiter # O!NoLimiter
      PROVE  O!Cardinality(O!Passed) <= limiter.limits.burst + (time - 1) * limiter.limits.rate
  <2> DEFINE rate == limiter.limits.rate
             burst == limiter.limits.burst
             last == limiter.last
             passed == O!Cardinality(O!Passed)
  <2>1. /\ limiter \in [limits : [rate : Nat, burst : Nat], tokens : Nat, last : Nat \ {0}]
        /\ last <= time /\ passed + limiter.tokens <= burst + (last - 1) * rate
        /\ time \in Nat
    BY <1>2 DEF O!IInv, O!TokensAccounted, O!TypeOK
  <2>2. /\ rate \in Nat /\ burst \in Nat /\ last \in Nat /\ 1 <= last /\ limiter.tokens \in Nat
    BY <2>1
  <2>3. passed \in Nat
    BY PassedCounted
  <2>4. (last - 1) * rate \in Nat /\ (time - last) * rate \in Nat /\ (time - 1) * rate \in Nat
        /\ (last - 1) * rate + (time - last) * rate = (time - 1) * rate
    BY <2>1, <2>2, Products
  <2> DEFINE before == (last - 1) * rate
             after == (time - last) * rate
             all == (time - 1) * rate
  <2>5. /\ before \in Nat /\ after \in Nat /\ all \in Nat /\ before + after = all
        /\ passed + limiter.tokens <= burst + before
    BY <2>1, <2>4
  <2> HIDE DEF before, after, all, rate, burst, last, passed
  <2>6. passed <= burst + all
    BY <2>2, <2>3, <2>5
  <2> QED
    BY <2>6 DEF passed, burst, all, rate
<1> QED
  BY <1>1, <1>2 DEF O!WithinLimits

(* No captcha is made at first.                                            *)
LEMMA InitCaptcha == P!Init => P!IInv
BY DEF P!Init, P!IInv, P!TypeOK, P!AskedIsGone, P!OneAnswer

(* Verify takes the answer with it, right or wrong.                        *)
LEMMA NextCaptcha == P!IInv /\ [P!Next]_P!captchaVars => P!IInv'
<1> SUFFICES ASSUME P!IInv, [P!Next]_P!captchaVars PROVE P!IInv'
  OBVIOUS
<1> USE StoresAssumption DEF P!CaptchaAssumption, P!IInv, P!TypeOK, P!AskedIsGone, P!OneAnswer
<1>1. ASSUME NEW i \in CaptchaIds, P!Generate(i) PROVE P!IInv'
  BY <1>1 DEF P!Generate
<1>2. ASSUME NEW i \in CaptchaIds, NEW a \in {"right", "wrong"}, P!Verify(i, a) PROVE P!IInv'
  BY <1>2 DEF P!Verify
<1>3. ASSUME NEW i \in CaptchaIds, P!Exists(i) PROVE P!IInv'
  BY <1>3 DEF P!Exists
<1>4. CASE P!Tick
  BY <1>4 DEF P!Tick
<1>5. CASE UNCHANGED P!captchaVars
  BY <1>5 DEF P!captchaVars
<1> QED
  BY <1>1, <1>2, <1>3, <1>4, <1>5 DEF P!Next

(* However calls of one key, concurrent requests with changes of the       *)
(* registry, and answers to captchas interleave and whenever they expire,  *)
(* each is accepted once, and no more requests pass than the limits allow. *)
(* A call may be repeated once its mark has expired or another's late      *)
(* Release has deleted it, a request once NonceTTL is over, which is       *)
(* before its timestamp is too old when NonceTTL is two windows or less.   *)
THEOREM AcceptedOnceAlways ==
  G!Spec /\ O!Spec /\ P!Spec => []AcceptedOnce
<1>1. G!IInv => G!OnceWithinTtl
  BY DEF G!IInv
<1>2. P!IInv => P!OneAnswer
  BY DEF P!IInv
<1> QED
  BY <1>1, <1>2, InitGuard, NextGuard, InitApi, NextApi, ApiNow, InitCaptcha,
     NextCaptcha, PTL DEF G!Spec, O!Spec, P!Spec, AcceptedOnce

(* No migration is applied at first.                                       *)
LEMMA InitMigrator == M!Init => M!IInv
BY DEF M!Init, M!IInv, M!TypeOK, M!AtMigration, M!TableMatchesSchema

(* A call that is done with a migration is at another, or idle.            *)
LEMMA CallGoesOn ==
  ASSUME M!TypeOK, M!AtMigration, NEW p \in Processes, process[p].at /= "idle",
         \/ M!Returns(p) \/ M!Continues(p)
         \/ /\ process[p].next /= 1
            /\ process' = [process EXCEPT ![p].next = @ - 1],
         table' \subseteq M!Names, schema' \in [M!Names -> Nat]
  PROVE  M!TypeOK' /\ M!AtMigration'
<1>1. \A q \in Processes : /\ process[q] \in [at : {"idle", "migrate", "rollback"},
                                             applied : SUBSET M!Names, next : Int]
                          /\ process[q].next \in Int
  BY DEF M!TypeOK
<1>2. /\ process[p].next \in 1 .. Len(Migrations)
      /\ DOMAIN Migrations = 1 .. Len(Migrations)
      /\ Len(Migrations) \in Nat
  BY StoresAssumption DEF M!AtMigration, M!MigratorAssumption
<1>3. ASSUME NEW new \in [at : {"idle", "migrate", "rollback"},
                          applied : SUBSET M!Names, next : Int],
             process' = [process EXCEPT ![p] = new],
             new.at = "idle" \/ new.next \in 1 .. Len(Migrations)
      PROVE  M!TypeOK' /\ M!AtMigration'
  <2>1. M!TypeOK'
    BY <1>3 DEF M!TypeOK
  <2>2. M!AtMigration'
    BY <1>2, <1>3 DEF M!TypeOK, M!AtMigration
  <2> QED
    BY <2>1, <2>2
<1>4. CASE M!Returns(p)
  <2> DEFINE new == [process[p] EXCEPT !.at = "idle"]
  <2>1. /\ new \in [at : {"idle", "migrate", "rollback"},
                   applied : SUBSET M!Names, next : Int]
        /\ new.at = "idle"
    BY <1>1
  <2>2. process' = [process EXCEPT ![p] = new]
    BY <1>4 DEF M!Returns
  <2> HIDE DEF new
  <2> QED
    BY <1>3, <2>1, <2>2
<1>5. CASE M!Continues(p)
  <2> DEFINE at == IF process[p].next = Len(Migrations) THEN "idle" ELSE process[p].at
             new == [process[p] EXCEPT !.next = process[p].next + 1, !.at = at]
  <2>1. /\ at \in {"idle", "migrate", "rollback"} /\ process[p].next + 1 \in Int
        /\ at = "idle" \/ process[p].next + 1 \in 1 .. Len(Migrations)
    BY <1>1, <1>2
  <2>2. process' = [process EXCEPT ![p] = new]
    BY <1>5 DEF M!Continues
  <2> HIDE DEF at
  <2>3. /\ new \in [at : {"idle", "migrate", "rollback"},
                   applied : SUBSET M!Names, next : Int]
        /\ new.next = process[p].next + 1 /\ new.at = at
    BY <1>1, <2>1
  <2> HIDE DEF new
  <2> QED
    BY <1>3, <2>1, <2>2, <2>3
<1>6. CASE /\ process[p].next /= 1
           /\ process' = [process EXCEPT ![p].next = @ - 1]
  <2> DEFINE new == [process[p] EXCEPT !.next = process[p].next - 1]
  <2>1. /\ new \in [at : {"idle", "migrate", "rollback"},
                   applied : SUBSET M!Names, next : Int]
        /\ new.next = process[p].next - 1
    BY <1>1
  <2>2. process' = [process EXCEPT ![p] = new]
    BY <1>6
  <2>3. process[p].next - 1 \in 1 .. Len(Migrations)
    BY <1>2, <1>6
  <2> HIDE DEF new
  <2> QED
    BY <1>3, <2>1, <2>2, <2>3
<1> QED
  BY <1>4, <1>5, <1>6

(* applyOne and rollbackOne change the schema and its record in one        *)
(* transaction, and fail where another process came first.                 *)
LEMMA NextMigrator == M!IInv /\ [M!Next]_M!migrateVars => M!IInv'
<1> SUFFICES ASSUME M!IInv, [M!Next]_M!migrateVars PROVE M!IInv'
  OBVIOUS
<1>t. /\ M!TypeOK /\ M!AtMigration /\ M!TableMatchesSchema
      /\ table \subseteq M!Names /\ schema \in [M!Names -> Nat]
  BY DEF M!IInv, M!TypeOK
<1>m. ASSUME NEW p \in Processes, process[p].at /= "idle"
      PROVE  M!Current(p) \in M!Names
  <2>1. Migrations \in Seq(M!Names)
    BY StoresAssumption DEF M!MigratorAssumption, M!Names
  <2>2. process[p].next \in DOMAIN Migrations
    BY <1>t, <1>m DEF M!AtMigration
  <2> QED
    BY <2>1, <2>2 DEF M!Current
<1>1. ASSUME NEW p \in Processes, NEW c \in {"migrate", "rollback"}, M!ReadApplied(p, c)
      PROVE  M!IInv'
  <2> DEFINE at == IF Migrations = <<>> THEN "idle" ELSE c
             next == IF c = "migrate" THEN 1 ELSE Len(Migrations)
             r == [at |-> at, applied |-> table, next |-> next]
  <2>1. Len(Migrations) \in Nat /\ DOMAIN Migrations = 1 .. Len(Migrations)
        /\ (Migrations # <<>> => Len(Migrations) # 0)
    BY StoresAssumption DEF M!MigratorAssumption
  <2>2. /\ at \in {"idle", "migrate", "rollback"} /\ next \in Int
        /\ at /= "idle" => next \in DOMAIN Migrations
    BY <2>1
  <2>3. process' = [process EXCEPT ![p] = r] /\ UNCHANGED <<table, schema>>
    BY <1>1 DEF M!ReadApplied
  <2> HIDE DEF at, next
  <2>4. /\ r \in [at : {"idle", "migrate", "rollback"}, applied : SUBSET M!Names, next : Int]
        /\ r.at = at /\ r.next = next
    BY <1>t, <2>2
  <2> HIDE DEF r
  <2>5. M!TypeOK'
    BY <1>t, <2>3, <2>4 DEF M!TypeOK
  <2>6. M!AtMigration'
    BY <1>t, <2>2, <2>3, <2>4 DEF M!TypeOK, M!AtMigration
  <2> QED
    BY <1>t, <2>3, <2>5, <2>6 DEF M!IInv, M!TableMatchesSchema
<1>2. ASSUME NEW p \in Processes, process[p].at /= "idle", UNCHANGED <<table, schema>>,
             \/ M!Returns(p) \/ M!Continues(p)
             \/ /\ process[p].next /= 1
                /\ process' = [process EXCEPT ![p].next = @ - 1]
      PROVE  M!IInv'
  <2>1. M!TypeOK' /\ M!AtMigration'
    BY <1>t, <1>2, CallGoesOn
  <2> QED
    BY <1>t, <1>2, <2>1 DEF M!IInv, M!TableMatchesSchema
<1>3. ASSUME NEW p \in Processes, M!SkipApplied(p) PROVE M!IInv'
  BY <1>2, <1>3 DEF M!SkipApplied
<1>4. ASSUME NEW p \in Processes, M!applyOne(p) PROVE M!IInv'
  <2>1. process[p].at /= "idle"
    BY <1>4 DEF M!applyOne
  <2>2. CASE M!Current(p) \in table
    BY <1>2, <1>4, <2>1, <2>2 DEF M!applyOne
  <2>3. CASE M!Current(p) \notin table
    <3> DEFINE m == M!Current(p)
    <3>1. /\ schema' = [schema EXCEPT ![m] = @ + 1] /\ table' = table \cup {m}
          /\ m \notin table /\ M!Continues(p)
      BY <1>4, <2>3 DEF M!applyOne
    <3>2. m \in M!Names
      BY <1>m, <2>1
    <3> HIDE DEF m
    <3>3. table' \subseteq M!Names /\ schema' \in [M!Names -> Nat] /\ M!TableMatchesSchema'
      BY <1>t, <3>1, <3>2 DEF M!TableMatchesSchema
    <3> QED
      BY <1>t, <2>1, <3>1, <3>3, CallGoesOn DEF M!IInv
  <2> QED
    BY <2>2, <2>3
<1>5. ASSUME NEW p \in Processes, M!Fails(p) PROVE M!IInv'
  BY <1>2, <1>5 DEF M!Fails
<1>6. ASSUME NEW p \in Processes, M!LookBack(p) PROVE M!IInv'
  BY <1>2, <1>6 DEF M!LookBack
<1>7. ASSUME NEW p \in Processes, M!rollbackOne(p) PROVE M!IInv'
  <2>1. process[p].at /= "idle" /\ M!Returns(p)
    BY <1>7 DEF M!rollbackOne
  <2>2. CASE UNCHANGED <<table, schema>>
    BY <1>2, <2>1, <2>2
  <2>3. CASE ~ UNCHANGED <<table, schema>>
    <3> DEFINE m == M!Current(p)
    <3>1. /\ schema' = [schema EXCEPT ![m] = @ - 1] /\ table' = table \ {m}
          /\ schema[m] > 0
      BY <1>7, <2>3 DEF M!rollbackOne
    <3>2. m \in M!Names
      BY <1>m, <2>1
    <3> HIDE DEF m
    <3>3. table' \subseteq M!Names /\ schema' \in [M!Names -> Nat] /\ M!TableMatchesSchema'
      BY <1>t, <3>1, <3>2 DEF M!TableMatchesSchema
    <3> QED
      BY <1>t, <2>1, <3>1, <3>3, CallGoesOn DEF M!IInv
  <2> QED
    BY <2>2, <2>3
<1>8. CASE UNCHANGED M!migrateVars
  BY <1>8 DEF M!migrateVars, M!IInv, M!TypeOK, M!AtMigration,
     M!TableMatchesSchema
<1> QED
  BY <1>1, <1>3, <1>4, <1>5, <1>6, <1>7, <1>8 DEF M!Next

(* No pool is open at first.                                               *)
LEMMA InitDatabases == D!Init => D!IInv
BY DEF D!Init, D!IInv, D!TypeOK, D!OpenersHoldMutex, D!NoPoolLeak, D!NoInstance

(* A pool is recorded, or closed again where the ping or the migration     *)
(* fails, before the mutex is given back.                                  *)
LEMMA NextDatabases == D!IInv /\ [D!Next]_D!databaseVars => D!IInv'
<1> SUFFICES ASSUME D!IInv, [D!Next]_D!databaseVars PROVE D!IInv'
  OBVIOUS
<1> USE StoresAssumption DEF D!DatabaseAssumption, D!IInv, D!TypeOK, D!OpenersHoldMutex, D!NoPoolLeak, D!NoInstance, D!Goes
<1>1. ASSUME NEW d \in Drivers, D!RegisterDialector(d) PROVE D!IInv'
  BY <1>1 DEF D!RegisterDialector
<1>2. ASSUME NEW n \in InstanceNames, D!Close(n) PROVE D!IInv'
  <2> DEFINE new == [instances[n] EXCEPT !.closed = TRUE]
  <2>1. instances[n] \in [driver : Drivers, pool : Nat \ {0}, closed : BOOLEAN]
    BY <1>2 DEF D!Close
  <2>2. /\ new \in [driver : Drivers, pool : Nat \ {0}, closed : BOOLEAN]
        /\ new.pool = instances[n].pool /\ new /= [pool |-> 0] /\ new.pool /= 0
    BY <2>1
  <2>3. /\ instances' = [instances EXCEPT ![n] = new]
        /\ pools' = pools \ {instances[n].pool}
        /\ UNCHANGED <<lastPool, caller, mutex>> /\ instances[n] /= [pool |-> 0]
    BY <1>2 DEF D!Close
  <2> HIDE DEF new
  <2>4. D!TypeOK'
    BY <2>2, <2>3
  <2>5. D!OpenersHoldMutex'
    BY <2>2, <2>3
  <2>6. D!NoPoolLeak'
    BY <2>2, <2>3
  <2> QED
    BY <2>4, <2>5, <2>6
<1>3. ASSUME NEW c \in Callers, D!OpenFails(c) PROVE D!IInv'
  BY <1>3 DEF D!OpenFails
<1>4. ASSUME NEW c \in Callers, D!Registered(c) PROVE D!IInv'
  BY <1>4 DEF D!Registered
<1>5. ASSUME NEW c \in Callers, D!Done(c) PROVE D!IInv'
  BY <1>5 DEF D!Done
<1>6. ASSUME NEW c \in Callers, NEW n \in InstanceNames, D!GetDB(c, n) PROVE D!IInv'
  BY <1>6 DEF D!GetDB
<1>7. ASSUME NEW c \in Callers, NEW n \in InstanceNames, NEW d \in Drivers, D!NewFinds(c, n, d)
      PROVE  D!IInv'
  BY <1>7 DEF D!NewFinds
<1>8. ASSUME NEW c \in Callers, NEW n \in InstanceNames, NEW d \in Drivers, D!NewOpens(c, n, d)
      PROVE  D!IInv'
  <2>1. CASE d \notin dialectors
    <3>1. /\ caller' = [caller EXCEPT ![c] = [at |-> "error"]]
          /\ UNCHANGED <<mutex, lastPool, pools, instances>> /\ caller[c].at = "idle"
      BY <1>8, <2>1 DEF D!NewOpens
    <3> QED
      BY <3>1
  <2>2. CASE d \in dialectors
    <3> DEFINE new == [at |-> "opening", name |-> n, driver |-> d, pool |-> lastPool + 1]
    <3>1. /\ new.at = "opening" /\ new.name = n /\ new.driver = d
          /\ new.pool = lastPool + 1 /\ caller' = [caller EXCEPT ![c] = new]
          /\ mutex = "free" /\ mutex' = c /\ instances[n] = [pool |-> 0]
          /\ lastPool' = lastPool + 1 /\ pools' = pools \cup {lastPool + 1}
          /\ caller[c].at = "idle" /\ UNCHANGED instances
      BY <1>8, <2>2 DEF D!NewOpens
    <3> HIDE DEF new
    <3>2. \A e \in Callers : caller[e].at /= "opening"
      BY <3>1
    <3>3. \A e \in Callers : caller'[e] = IF e = c THEN new ELSE caller[e]
      BY <3>1
    <3>4. D!TypeOK'
      BY <3>1
    <3>5. D!OpenersHoldMutex'
      BY <3>1, <3>2, <3>3
    <3>6. D!NoPoolLeak'
      BY <3>1, <3>2, <3>3
    <3> QED
      BY <3>4, <3>5, <3>6
  <2> QED
    BY <2>1, <2>2
<1>9. CASE UNCHANGED D!databaseVars
  BY <1>9 DEF D!databaseVars
<1> QED
  BY <1>1, <1>2, <1>3, <1>4, <1>5, <1>6, <1>7, <1>8, <1>9 DEF D!Next

(* However processes that migrate or roll back one database interleave,    *)
(* fail or die, its table names what its schema holds; and every open pool *)
(* is in an instance or in the hands of the caller that opens it.          *)
THEOREM RecordsAgreeAlways == M!Spec /\ D!Spec => []RecordsAgree
<1>1. M!IInv => M!TableMatchesSchema
  BY DEF M!IInv
<1>2. D!IInv => D!NoPoolLeak
  BY DEF D!IInv
<1> QED
  BY <1>1, <1>2, InitMigrator, NextMigrator, InitDatabases, NextDatabases, PTL
     DEF M!Spec, D!Spec, RecordsAgree

(* Nothing is loaded at first.                                             *)
LEMMA InitSettings == S!Init => S!IInv
<1> SUFFICES ASSUME S!Init PROVE S!IInv
  OBVIOUS
<1>1. S!TypeOK
  BY DEF S!Init, S!TypeOK, S!NoValues, S!FileValues, S!ProjectValues,
     S!TargetValues, S!Unset
<1>2. S!OverridesSet
  BY DEF S!Init, S!OverridesSet
<1>3. S!SettingsLayered
  BY DEF S!Init, S!SettingsLayered
<1> QED
  BY <1>1, <1>2, <1>3 DEF S!IInv

(* The values of the two files, merged.                                    *)
LEMMA FileContent ==
  ASSUME S!TypeOK
  PROVE  /\ \A k \in Keys : S!Content(project)[k] \in S!ProjectValues
         /\ \A k \in Keys : S!Content(global)[k] \in {S!Unset, "global"}
         /\ S!Content(project) \in [Keys -> S!FileValues]
         /\ project.has \in [Keys -> S!ProjectValues]
         /\ \A k \in Keys : S!Content(global)[k] # S!Unset => global.has[k] # S!Unset
         /\ project.found /\ project.parses => S!Content(project) = project.has
<1>1. /\ project.has \in [Keys -> S!ProjectValues]
      /\ global.has \in [Keys -> {S!Unset, "global"}]
  BY StoresAssumption DEF S!TypeOK, S!SettingsAssumption
<1> QED
  BY <1>1 DEF S!Content, S!NoValues, S!ProjectValues, S!FileValues

(* What viper answers for a key once the environment is bound.             *)
LEMMA Layers ==
  ASSUME S!TypeOK, NEW over \in [Keys -> {S!Unset, "split"}],
         NEW conf \in [Keys -> S!FileValues], NEW k \in Keys
  PROVE  LET value == S!Get(over, conf, k)
         IN /\ value \in S!FileValues \cup {"split", "env", "default"}
            /\ over[k] = "split" => value = "split"
            /\ S!Bound(k) = "env" => value \in {"env", "split"}
            /\ value \in {S!Unset, "default"} => over[k] = S!Unset /\ conf[k] = S!Unset
            /\ value = "default" => k \in BuiltIn
            /\ value = "global" => conf[k] = "global"
<1>1. over[k] \in {S!Unset, "split"} /\ conf[k] \in S!FileValues
  OBVIOUS
<1>2. S!Bound(k) \in {S!Unset, "env"}
  BY DEF S!Bound
<1>3. /\ S!applyBuiltInDefaults(k) \in {S!Unset, "default"}
      /\ S!applyBuiltInDefaults(k) = "default" => k \in BuiltIn
  BY DEF S!applyBuiltInDefaults, S!Unset
<1> QED
  BY <1>1, <1>2, <1>3 DEF S!Get, S!Over, S!FileValues, S!ProjectValues, S!Unset,
     S!WrongType, S!Refused

(* Unmarshal and the normalisation after it write each field of the target *)
(* by its layers.                                                          *)
LEMMA TargetWritten ==
  ASSUME S!TypeOK, NEW over \in [Keys -> {S!Unset, "split"}],
         NEW conf \in [Keys -> S!FileValues],
         over = IF env.search = "off" THEN S!NoValues ELSE S!applySplitEnvOverrides
  PROVE  /\ S!Unmarshalled(over, conf) \in [Keys -> S!TargetValues]
         /\ S!FromEnvironment(S!Unmarshalled(over, conf))
<1> DEFINE new == S!Unmarshalled(over, conf)
<1>1. ASSUME NEW k \in Keys
      PROVE  /\ new[k] \in S!TargetValues
             /\ over[k] = "split" => new[k] = "split"
             /\ S!Bound(k) = "env" => new[k] \in {"env", "split"}
  <2>1. new[k] = IF S!Get(over, conf, k) \in {S!Unset, S!WrongType}
                 THEN target[k] ELSE S!Get(over, conf, k)
    BY DEF S!Unmarshalled
  <2>2. target[k] \in S!TargetValues
    BY DEF S!TypeOK
  <2> DEFINE value == S!Get(over, conf, k)
  <2>3. /\ value \in S!FileValues \cup {"split", "env", "default"}
        /\ over[k] = "split" => value = "split"
        /\ S!Bound(k) = "env" => value \in {"env", "split"}
    BY Layers
  <2> HIDE DEF value
  <2> QED
    BY <2>1, <2>2, <2>3 DEF value, S!TargetValues, S!FileValues,
       S!ProjectValues, S!Unset, S!WrongType, S!Refused
<1>2. new \in [Keys -> S!TargetValues]
  <2>1. new = [k \in Keys |-> new[k]]
    BY DEF S!Unmarshalled
  <2> HIDE DEF new
  <2> QED
    BY <1>1, <2>1
<1>3. ASSUME NEW k \in Keys
      PROVE  /\ (env.search = "prefix" /\ k \in env.split /\ S!splitCamel(k) # {}) =>
                  over[k] = "split"
             /\ (env.search # "off" /\ k \in env.plain) => S!Bound(k) = "env"
  BY DEF S!applySplitEnvOverrides, S!Bound
<1> HIDE DEF new
<1>4. S!FromEnvironment(new)
  BY <1>1, <1>3 DEF S!FromEnvironment
<1> QED
  BY <1>2, <1>4 DEF new

(* A load that succeeds leaves a target that follows the layers.           *)
LEMMA LoadedLayered ==
  ASSUME S!TypeOK, ~ S!LayersFail, target = [k \in Keys |-> "zero"],
         NEW over \in [Keys -> {S!Unset, "split"}], NEW conf \in [Keys -> S!FileValues],
         conf = S!mergeConfigMaps(S!Content(global), S!Content(project)),
         S!Decodes(over, conf), NEW k \in Keys
  PROVE  LET value == S!Unmarshalled(over, conf)[k]
         IN /\ value = "global" => global.has[k] # S!Unset /\ project.has[k] = S!Unset
            /\ value = "default" => over[k] = S!Unset /\ k \in BuiltIn
            /\ value \in {"zero", "default"} =>
                 project.has[k] = S!Unset /\ S!Content(global)[k] = S!Unset
<1> DEFINE value == S!Get(over, conf, k)
           new == S!Unmarshalled(over, conf)[k]
<1>1. new = IF value \in {S!Unset, S!WrongType} THEN "zero" ELSE value
  BY DEF S!Unmarshalled
<1>2. value # S!WrongType
  BY DEF S!Decodes
<1>3. /\ value \in S!FileValues \cup {"split", "env", "default"}
      /\ value \in {S!Unset, "default"} => over[k] = S!Unset /\ conf[k] = S!Unset
      /\ value = "default" => k \in BuiltIn
      /\ value = "global" => conf[k] = "global"
  BY Layers
<1>4. conf[k] = S!Over(S!Content(project)[k], S!Content(global)[k])
  BY DEF S!mergeConfigMaps
<1>5. /\ S!Content(project)[k] \in S!ProjectValues /\ S!Content(project) = project.has
      /\ S!Content(global)[k] \in {S!Unset, "global"}
      /\ S!Content(global)[k] # S!Unset => global.has[k] # S!Unset
  BY FileContent DEF S!LayersFail
<1> HIDE DEF value, new
<1>6. /\ new = "global" => value = "global"
      /\ new = "default" => value = "default"
      /\ new \in {"zero", "default"} => value \in {S!Unset, "default"}
  BY <1>1, <1>2, <1>3 DEF S!FileValues, S!ProjectValues, S!Unset, S!WrongType,
     S!Refused
<1>7. /\ conf[k] = "global" => S!Content(project)[k] = S!Unset /\ S!Content(global)[k] = "global"
      /\ conf[k] = S!Unset => S!Content(project)[k] = S!Unset /\ S!Content(global)[k] = S!Unset
  BY <1>4, <1>5 DEF S!Over, S!ProjectValues, S!Unset, S!WrongType, S!Refused
<1>8. /\ new = "global" => global.has[k] # S!Unset /\ project.has[k] = S!Unset
      /\ new = "default" => over[k] = S!Unset /\ k \in BuiltIn
      /\ new \in {"zero", "default"} => project.has[k] = S!Unset /\ S!Content(global)[k] = S!Unset
  BY <1>3, <1>5, <1>6, <1>7 DEF S!Unset
<1> QED
  BY <1>8 DEF new

(* A reload that calls its handler has written the target from what viper  *)
(* read and found it valid; the values that were set for the environment   *)
(* stay.                                                                   *)
LEMMA NextSettings == S!IInv /\ [S!Next]_S!settingsVars => S!IInv'
<1> SUFFICES ASSUME S!IInv, [S!Next]_S!settingsVars PROVE S!IInv'
  OBVIOUS
<1>i. S!TypeOK /\ S!OverridesSet /\ S!SettingsLayered
  BY DEF S!IInv
<1>1. CASE S!LoadToStruct
  <2> DEFINE over == override'
             conf == config'
  <2>1. /\ phase = "new" /\ UNCHANGED <<env, global, project, edition, reloaded, handled>>
        /\ conf = S!mergeConfigMaps(S!Content(global), S!Content(project))
        /\ over = IF env.search = "off" THEN override ELSE S!applySplitEnvOverrides
    BY <1>1 DEF S!LoadToStruct
  <2>2. /\ override = S!NoValues /\ target = [k \in Keys |-> "zero"]
        /\ edition = 0 /\ ~ handled.called
    BY <1>i, <2>1 DEF S!OverridesSet
  <2>3. over = IF env.search = "off" THEN S!NoValues ELSE S!applySplitEnvOverrides
    BY <2>1, <2>2
  <2>4. over \in [Keys -> {S!Unset, "split"}]
    <3>1. override \in [Keys -> {S!Unset, "split"}]
      BY <1>i DEF S!TypeOK
    <3>2. S!applySplitEnvOverrides \in [Keys -> {S!Unset, "split"}]
      BY <3>1 DEF S!applySplitEnvOverrides
    <3> QED
      BY <2>1, <3>1, <3>2
  <2>5. conf \in [Keys -> S!FileValues]
    <3>1. \A k \in Keys : S!Content(project)[k] \in S!FileValues /\ S!Content(global)[k] \in S!FileValues
      BY <1>i, FileContent DEF S!FileValues, S!ProjectValues, S!Unset
    <3> QED
      BY <2>1, <3>1 DEF S!mergeConfigMaps, S!Over
  <2>6. CASE S!LayersFail
    <3>1. UNCHANGED <<target, legacy>> /\ phase' = "failed"
      BY <1>1, <2>6 DEF S!LoadToStruct
    <3>2. S!TypeOK'
      BY <1>i, <2>1, <2>4, <2>5, <3>1 DEF S!TypeOK
    <3>3. S!OverridesSet'
      BY <2>1, <2>3, <3>1 DEF S!OverridesSet, S!applySplitEnvOverrides,
         S!NoValues
    <3>4. S!SettingsLayered'
      BY <2>1, <2>2, <3>1 DEF S!SettingsLayered
    <3> QED
      BY <3>2, <3>3, <3>4 DEF S!IInv
  <2>7. CASE ~ S!LayersFail
    <3>1. /\ target' = S!Unmarshalled(over, conf)
          /\ legacy' = IF S!Decodes(over, conf) THEN target'[PoolKey] ELSE legacy
          /\ phase' = IF S!Decodes(over, conf) /\ S!Validate(target') THEN "loaded" ELSE "failed"
      BY <1>1, <2>7 DEF S!LoadToStruct, S!normalizeBuiltInConfiguration
    <3> HIDE DEF over, conf
    <3>2. target' \in [Keys -> S!TargetValues] /\ S!FromEnvironment(target')
      BY <1>i, <2>3, <2>4, <2>5, <3>1, TargetWritten
    <3>3. S!TypeOK'
      BY <1>i, <2>1, <2>4, <2>5, <3>2 DEF S!TypeOK, over, conf
    <3>4. S!OverridesSet'
      BY <2>1, <2>3, <3>1 DEF S!OverridesSet, S!applySplitEnvOverrides,
         S!NoValues, over
    <3>5. ASSUME S!Decodes(over, conf)
          PROVE  \A k \in Keys :
                   /\ target'[k] = "global" => global.has[k] # S!Unset /\ project.has[k] = S!Unset
                   /\ target'[k] = "default" => over[k] = S!Unset /\ k \in BuiltIn
                   /\ target'[k] \in {"zero", "default"} =>
                        project.has[k] = S!Unset /\ S!Content(global)[k] = S!Unset
      BY <1>i, <2>1, <2>2, <2>4, <2>5, <2>7, <3>1, <3>5, LoadedLayered
    <3>6. S!SettingsLayered'
      <4>1. ~ handled'.called
        BY <2>1, <2>2
      <4>2. CASE phase' = "failed"
        BY <4>1, <4>2 DEF S!SettingsLayered
      <4>3. CASE S!Decodes(over, conf)
        <5>1. legacy' = target'[PoolKey] /\ S!FromEnvironment(target)'
          BY <2>1, <3>1, <3>2, <4>3 DEF S!FromEnvironment
        <5>2. S!Content(global)' = S!Content(global)
          BY <2>1 DEF S!Content
        <5> QED
          BY <2>1, <3>5, <4>1, <4>3, <5>1, <5>2 DEF S!SettingsLayered, over
      <4> QED
        BY <3>1, <4>2, <4>3
    <3> QED
      BY <3>3, <3>4, <3>6 DEF S!IInv
  <2> QED
    BY <2>6, <2>7
<1>2. ASSUME UNCHANGED <<env, global, override, config, target, legacy, reloaded, handled>>,
             phase \in {"loaded", "watched", "handled"}, phase' \in {"loaded", "watched", "handled"},
             project' \in ProjectFiles, edition' \in Nat,
             UNCHANGED <<project, edition>> \/ edition' # 0
      PROVE  S!IInv'
  <2>1. S!TypeOK'
    BY <1>i, <1>2 DEF S!TypeOK
  <2>2. S!OverridesSet'
    BY <1>i, <1>2 DEF S!OverridesSet, S!applySplitEnvOverrides, S!NoValues
  <2>3. S!SettingsLayered'
    <3>1. S!FromEnvironment(target)' <=> S!FromEnvironment(target)
      BY <1>2 DEF S!FromEnvironment
    <3>2. S!FromEnvironment(handled.target)' <=> S!FromEnvironment(handled.target)
      BY <1>2 DEF S!FromEnvironment
    <3>3. S!Content(global)' = S!Content(global)
      BY <1>2 DEF S!Content
    <3> QED
      BY <1>i, <1>2, <3>1, <3>2, <3>3 DEF S!SettingsLayered
  <2> QED
    BY <2>1, <2>2, <2>3 DEF S!IInv
<1>3. CASE S!WatchConfig \/ S!OnConfigChange
  <2>1. project \in ProjectFiles /\ edition \in Nat
    BY <1>i DEF S!TypeOK
  <2> QED
    BY <1>2, <1>3, <2>1 DEF S!WatchConfig, S!OnConfigChange
<1>4. ASSUME NEW file \in ProjectFiles, S!Edit(file) PROVE S!IInv'
  <2>1. edition' # 0
    BY <1>i, <1>4 DEF S!Edit, S!TypeOK
  <2>2. edition' \in Nat
    BY <1>i, <1>4 DEF S!Edit, S!TypeOK
  <2> QED
    BY <1>2, <1>4, <2>1, <2>2 DEF S!Edit
<1>5. CASE S!Reload
  <2> DEFINE conf == config'
  <2>1. /\ UNCHANGED <<env, global, project, edition, override, phase>>
        /\ conf = IF project.parses THEN project.has ELSE config
    BY <1>5 DEF S!Reload
  <2>2. conf \in [Keys -> S!FileValues]
    <3>1. project.has \in [Keys -> S!ProjectValues] /\ config \in [Keys -> S!FileValues]
      BY <1>i, FileContent DEF S!TypeOK
    <3>2. project.has \in [Keys -> S!FileValues]
      BY <3>1 DEF S!FileValues
    <3> QED
      BY <2>1, <3>1, <3>2
  <2>3. S!OverridesSet' \/ phase = "new"
    BY <1>i, <2>1 DEF S!OverridesSet, S!applySplitEnvOverrides, S!NoValues
  <2>4. CASE phase # "handled"
    <3>1. UNCHANGED <<reloaded, target, legacy, handled>>
      BY <1>5, <2>4 DEF S!Reload
    <3>2. S!TypeOK'
      BY <1>i, <2>1, <2>2, <3>1 DEF S!TypeOK
    <3>3. S!OverridesSet'
      BY <1>i, <2>1, <3>1 DEF S!OverridesSet, S!applySplitEnvOverrides,
         S!NoValues
    <3>4. S!SettingsLayered'
      <4>1. /\ S!FromEnvironment(target)' <=> S!FromEnvironment(target)
            /\ S!FromEnvironment(handled.target)' <=> S!FromEnvironment(handled.target)
        BY <2>1, <3>1 DEF S!FromEnvironment
      <4>2. S!Content(global)' = S!Content(global)
        BY <2>1 DEF S!Content
      <4> QED
        BY <1>i, <2>1, <3>1, <4>1, <4>2 DEF S!SettingsLayered
    <3> QED
      BY <3>2, <3>3, <3>4 DEF S!IInv
  <2>5. CASE phase = "handled"
    <3>1. /\ reloaded' /\ target' = S!Unmarshalled(override, conf)
          /\ legacy' = IF S!Decodes(override, conf) THEN target'[PoolKey] ELSE legacy
          /\ handled' = IF S!Succeeds(conf)
                        THEN [called |-> TRUE, target |-> target',
                              legacy |-> legacy', file |-> conf]
                        ELSE handled
      BY <1>5, <2>5 DEF S!Reload, S!normalizeBuiltInConfiguration
    <3>2. /\ override \in [Keys -> {S!Unset, "split"}]
          /\ override = IF env.search = "off" THEN S!NoValues ELSE S!applySplitEnvOverrides
      BY <1>i, <2>5 DEF S!TypeOK, S!OverridesSet
    <3> HIDE DEF conf
    <3>3. target' \in [Keys -> S!TargetValues] /\ S!FromEnvironment(target')
      BY <1>i, <2>2, <3>1, <3>2, TargetWritten
    <3>4. S!TypeOK'
      BY <1>i, <2>1, <2>2, <3>2, <3>3 DEF S!TypeOK, conf
    <3>5. S!OverridesSet'
      BY <2>1, <2>3, <2>5
    <3>6. ASSUME S!Succeeds(conf)
          PROVE  /\ handled'.called /\ handled'.target = target' /\ handled'.file = conf
                 /\ handled'.legacy = target'[PoolKey]
                 /\ \A k \in Keys :
                      /\ target'[k] \notin {S!WrongType, S!Refused}
                      /\ target'[k] = "default" => conf[k] = S!Unset
      <4>1. S!Decodes(override, conf) /\ S!Validate(target')
        BY <3>1, <3>6 DEF S!Succeeds
      <4>2. \A k \in Keys : target'[k] \notin {S!WrongType, S!Refused}
        BY <3>3, <4>1 DEF S!Validate, S!TargetValues, S!WrongType, S!Refused
      <4>3. ASSUME NEW k \in Keys, target'[k] = "default"
            PROVE  conf[k] = S!Unset
        <5> DEFINE value == S!Get(override, conf, k)
        <5>1. target'[k] = IF value \in {S!Unset, S!WrongType} THEN target[k] ELSE value
          BY <3>1 DEF S!Unmarshalled
        <5>2. value # S!WrongType
          BY <4>1 DEF S!Decodes
        <5>3. value \in {S!Unset, "default"} => conf[k] = S!Unset
          BY <1>i, <2>2, <3>2, Layers
        <5> HIDE DEF value
        <5> QED
          BY <4>3, <5>1, <5>2, <5>3
      <4> QED
        BY <3>1, <3>6, <4>1, <4>2, <4>3
    <3>7. S!SettingsLayered'
      <4>1. CASE S!Succeeds(conf)
        <5>1. S!FromEnvironment(handled.target)'
          BY <2>1, <3>3, <3>6, <4>1 DEF S!FromEnvironment
        <5> QED
          BY <3>1, <3>6, <4>1, <5>1 DEF S!SettingsLayered
      <4>2. CASE ~ S!Succeeds(conf)
        <5>1. handled' = handled
          BY <3>1, <4>2
        <5>2. S!FromEnvironment(handled.target)' <=> S!FromEnvironment(handled.target)
          BY <2>1, <5>1 DEF S!FromEnvironment
        <5> QED
          BY <1>i, <3>1, <5>1, <5>2 DEF S!SettingsLayered
      <4> QED
        BY <4>1, <4>2
    <3> QED
      BY <3>4, <3>5, <3>7 DEF S!IInv
  <2> QED
    BY <2>4, <2>5
<1>6. CASE UNCHANGED S!settingsVars
  <2>1. S!TypeOK' /\ S!OverridesSet'
    BY <1>i, <1>6 DEF S!settingsVars, S!TypeOK, S!OverridesSet,
       S!applySplitEnvOverrides, S!NoValues
  <2>2. S!SettingsLayered'
    <3>1. /\ S!FromEnvironment(target)' <=> S!FromEnvironment(target)
          /\ S!FromEnvironment(handled.target)' <=> S!FromEnvironment(handled.target)
      BY <1>6 DEF S!settingsVars, S!FromEnvironment
    <3>2. S!Content(global)' = S!Content(global)
      BY <1>6 DEF S!settingsVars, S!Content
    <3> QED
      BY <1>i, <1>6, <3>1, <3>2 DEF S!settingsVars, S!SettingsLayered
  <2> QED
    BY <2>1, <2>2 DEF S!IInv
<1> QED
  BY <1>1, <1>3, <1>4, <1>5, <1>6 DEF S!Next

(* Whatever the files hold, through edits that come early, do not parse or *)
(* are refused, the layers hold in what a load leaves and a handler sees.  *)
THEOREM SettingsLayeredAlways == S!Spec => []SettingsLayered
<1>1. S!IInv => S!SettingsLayered
  BY DEF S!IInv
<1> QED
  BY <1>1, InitSettings, NextSettings, PTL DEF S!Spec, SettingsLayered
=============================================================================
