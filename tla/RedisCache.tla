----------------------------- MODULE RedisCache ---------------------------
(***************************************************************************)
(* The Redis cache of framework/cache: RedisCache with its local copy, and *)
(* RedisTemplate, which goes past that copy.                               *)
(*                                                                         *)
(* The callers of several processes share one key.  Get and IsExists look  *)
(* into the local copy of their process, ask Redis when there is none and  *)
(* keep the answer for LocalTtl: three steps.  SetTtl changes the local    *)
(* copy and then sends a command that may fail.  RedisTemplate and the     *)
(* other processes change Redis without touching the copy.                 *)
(***************************************************************************)
EXTENDS Naturals, FiniteSets

CONSTANTS
  Procs,       \* processes with a RedisCache each
  Callers,     \* those who call them
  LocalTtl,    \* the minute of cache.NewTinyLFU, its random part included
  defaultTtl,  \* RedisCache.defaultTtl, 0 for none
  Ttls,        \* the TTLs given to SetTtl; 0 asks for the default
  MaxValues,   \* bound: values ever written
  MaxClock     \* bound: clock

RedisCacheAssumption ==
  /\ LocalTtl \in Nat \ {0} /\ defaultTtl \in Nat /\ Ttls \subseteq Nat
  /\ MaxValues \in Nat /\ MaxClock \in Nat

VARIABLES
  clock,
  home,     \* the process of each caller
  client,   \* per process: "none", "open" or "closed"
  redis,    \* the key in Redis: its value and when it expires; 0 is no value
  local,    \* per process: the local copy, until when it is kept and, a
            \* history, how long before it was made Redis had answered
  asking,   \* per caller: the call of RedisCache under way
  written,  \* values written so far
  given,    \* history: which process set which value, and when
  held      \* history: which values Redis held, and when it last did

vars == <<clock, home, client, redis, local, asking, written, given, held>>

Never == MaxClock + 1

InRedis(r, t) == r.value # 0 /\ t < r.expires

NoCall == [op |-> "none", value |-> 0, at |-> 0, ttl |-> 0]

NoCopy == [value |-> 0, until |-> 0, delay |-> 0]

Init ==
  /\ clock = 0
  /\ client = [p \in Procs |-> "none"]
  /\ redis = [value |-> 0, expires |-> 0]
  /\ local = [p \in Procs |-> NoCopy]
  /\ home \in [Callers -> Procs]
  /\ asking = [c \in Callers |-> NoCall]
  /\ written = 0
  /\ given = {} /\ held = {}

(* What Redis holds now, noted before it changes.                          *)
Noted ==
  IF InRedis(redis, clock)
  THEN {m \in held : m.value # redis.value}
         \cup {[value |-> redis.value, at |-> clock]}
  ELSE held

Tick ==
  /\ clock < MaxClock
  /\ clock' = clock + 1
  /\ held' = Noted
  /\ UNCHANGED <<home, client, redis, local, asking, written, given>>

(* Init of redis.new.go: the ping fails and nothing is kept, or the        *)
(* instance becomes the global one.  Once closed it stays what it is.      *)
Open(p) ==
  /\ client[p] = "none"
  /\ client' = [client EXCEPT ![p] = "open"]
  /\ UNCHANGED <<clock, home, redis, local, asking, written, given, held>>

Close(p) ==
  /\ client[p] = "open"
  /\ client' = [client EXCEPT ![p] = "closed"]
  /\ UNCHANGED <<clock, home, redis, local, asking, written, given, held>>

-----------------------------------------------------------------------------
(* There is a client, perhaps a closed one: its commands fail.             *)
requireClient(p) == client[p] # "none"

Reaches(p) == client[p] = "open"

Idle(c) == requireClient(home[c]) /\ asking[c].op = "none"

Goes(c, next) == asking' = [asking EXCEPT ![c] = next]

Ttl(ttl) == IF ttl > 0 THEN ttl ELSE defaultTtl

(* Without a TTL the item lives as long as go-redis/cache sees fit.        *)
Expiries(ttl) ==
  IF Ttl(ttl) > 0 THEN {clock + Ttl(ttl)} ELSE {t \in 1 .. Never : clock < t}

(* SetTtl, at the local copy; Set and SetTtlWithJitter end here.           *)
SetTtl(c, ttl) ==
  /\ Idle(c)
  /\ written < MaxValues
  /\ written' = written + 1
  /\ local' = [local EXCEPT ![home[c]] =
                 [value |-> written + 1, until |-> clock + LocalTtl,
                  delay |-> 0]]
  /\ given' = given
         \cup {[by |-> home[c], value |-> written + 1, at |-> clock]}
  /\ Goes(c, [op |-> "set", value |-> written + 1, at |-> 0, ttl |-> ttl])
  /\ UNCHANGED <<clock, home, client, redis, held>>

(* Its command reaches Redis, whether or not the answer comes back...      *)
Store(c) ==
  /\ asking[c].op = "set" /\ Reaches(home[c])
  /\ \E t \in Expiries(asking[c].ttl) :
       redis' = [value |-> asking[c].value, expires |-> t]
  /\ held' = Noted
  /\ Goes(c, NoCall)
  /\ UNCHANGED <<clock, home, client, local, written, given>>

(* ...or it fails, and the local copy stays.                               *)
StoreFails(c) ==
  /\ asking[c].op = "set"
  /\ Goes(c, NoCall)
  /\ UNCHANGED <<clock, home, client, redis, local, written, given, held>>

Copied(p) == local[p].value # 0 /\ clock < local[p].until

(* Mutant: reading the local copy keeps it for another LocalTtl.           *)
GetKeeping(c) ==
  /\ Idle(c)
  /\ IF Copied(home[c])
     THEN /\ local' = [local EXCEPT ![home[c]].until = clock + LocalTtl]
          /\ UNCHANGED asking
     ELSE Goes(c, [NoCall EXCEPT !.op = "ask"]) /\ UNCHANGED local
  /\ UNCHANGED <<clock, home, client, redis, written, given, held>>

(* proxy.Get: the local copy answers, or Redis is going to be asked.       *)
Get(c) ==
  /\ Idle(c)
  /\ IF Copied(home[c])
     THEN UNCHANGED <<asking, local>>
     ELSE Goes(c, [NoCall EXCEPT !.op = "ask"]) /\ UNCHANGED local
  /\ UNCHANGED <<clock, home, client, redis, written, given, held>>

(* The answer of Redis: the value...                                       *)
Ask(c) ==
  /\ asking[c].op = "ask" /\ Reaches(home[c])
  /\ InRedis(redis, clock)
  /\ Goes(c, [NoCall EXCEPT !.op = "keep", !.value = redis.value,
                            !.at = clock])
  /\ held' = Noted
  /\ UNCHANGED <<clock, home, client, redis, local, written, given>>

(* ...that it has none, or an error.                                       *)
AskFails(c) ==
  /\ asking[c].op = "ask"
  /\ Goes(c, NoCall)
  /\ UNCHANGED <<clock, home, client, redis, local, written, given, held>>

Copy(a) ==
  [value |-> a.value, until |-> clock + LocalTtl, delay |-> clock - a.at]

(* The answer becomes the local copy, however old it is by now, and the    *)
(* result of Get.                                                          *)
Keep(c) ==
  /\ asking[c].op = "keep"
  /\ local' = [local EXCEPT ![home[c]] = Copy(asking[c])]
  /\ Goes(c, NoCall)
  /\ UNCHANGED <<clock, home, client, redis, written, given, held>>

(* The local cache has no room for the copy any longer.                    *)
Evict(p) ==
  /\ local[p].value # 0
  /\ local' = [local EXCEPT ![p] = NoCopy]
  /\ UNCHANGED <<clock, home, client, redis, asking, written, given, held>>

(* RedisTemplate: one command of an open client.  Del and Expire; SetNX    *)
(* and Incr, which write a value.                                          *)
Del(p) ==
  /\ Reaches(p)
  /\ redis' = [redis EXCEPT !.value = 0]
  /\ held' = Noted
  /\ UNCHANGED <<clock, home, client, local, asking, written, given>>

Expire(p, ttl) ==
  /\ Reaches(p)
  /\ InRedis(redis, clock)
  /\ redis' = [redis EXCEPT !.expires = clock + ttl]
  /\ held' = Noted
  /\ UNCHANGED <<clock, home, client, local, asking, written, given>>

Write(p, onlyNew) ==
  /\ Reaches(p)
  /\ written < MaxValues
  /\ onlyNew => ~ InRedis(redis, clock)
  /\ written' = written + 1
  /\ redis' = [value |-> written + 1, expires |-> Never]
  /\ held' = Noted
  /\ UNCHANGED <<clock, home, client, local, asking, given>>

-----------------------------------------------------------------------------
Next ==
  \/ Tick
  \/ \E p \in Procs :
       \/ Open(p) \/ Close(p) \/ Evict(p) \/ Del(p)
       \/ \E ttl \in Ttls : Expire(p, ttl)
       \/ \E onlyNew \in BOOLEAN : Write(p, onlyNew)
  \/ \E c \in Callers :
       \/ Get(c) \/ Ask(c) \/ AskFails(c) \/ Keep(c)
       \/ Store(c) \/ StoreFails(c)
       \/ \E ttl \in Ttls : SetTtl(c, ttl)

Spec == Init /\ [][Next]_vars

-----------------------------------------------------------------------------
(* What process p has of v may be used before `end': p set v itself less   *)
(* than LocalTtl earlier, whatever became of the command, or Redis held v  *)
(* less than LocalTtl and the given delay earlier.                         *)
Founded(p, v, end, delay) ==
  \/ \E m \in given : m.by = p /\ m.value = v /\ end <= m.at + LocalTtl
  \/ \E m \in held : m.value = v /\ end <= m.at + LocalTtl + delay

(* What Get answers with, at any moment, is a value Redis still held less  *)
(* than LocalTtl ago, to which the time adds that the Get which copied it  *)
(* took to keep the answer it had, whoever overwrote, deleted or let it    *)
(* expire since; or one its own process set less than LocalTtl ago, which  *)
(* Redis may have refused: no other process ever sees such a value.        *)
StaleAtMostLocalTtl ==
  \A p \in Procs :
    Copied(p) => Founded(p, local[p].value, clock + 1, local[p].delay)

-----------------------------------------------------------------------------
TypeOK ==
  /\ clock \in Nat /\ written \in 0 .. MaxValues
  /\ redis \in [value : 0 .. MaxValues, expires : Nat]
  /\ local \in [Procs -> [value : 0 .. MaxValues, until : Nat, delay : Nat]]
  /\ home \in [Callers -> Procs]
  /\ asking \in [Callers -> [op : {"none", "set", "ask", "keep"},
                             value : 0 .. MaxValues, at : Nat, ttl : Nat]]
  /\ held \subseteq [value : 1 .. MaxValues, at : Nat]
  /\ \A m \in held : m.at <= clock
  /\ given \subseteq [by : Procs, value : 1 .. MaxValues, at : Nat]

(* A local copy is given up in time, and an answer to be kept is one that  *)
(* Redis gave.                                                             *)
CopyOK(p) ==
  local[p].value # 0 =>
    Founded(p, local[p].value, local[p].until, local[p].delay)

AnswerOK(c) ==
  asking[c].op = "keep" =>
    /\ asking[c].value # 0 /\ asking[c].at <= clock
    /\ \E m \in held : m.value = asking[c].value /\ asking[c].at <= m.at

IInv ==
  /\ TypeOK
  /\ \A p \in Procs : CopyOK(p)
  /\ \A c \in Callers : AnswerOK(c)
=============================================================================
