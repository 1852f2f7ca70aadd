----------------------------- MODULE RedisLock -----------------------------
(***************************************************************************)
(* The distributed lock of framework/cache/lock.go: one Redis key, set     *)
(* with SETNX to a token of the holder and an expiry, deleted and renewed  *)
(* by scripts that compare the token first.  Redis answers may be lost.    *)
(***************************************************************************)
EXTENDS Integers, FiniteSets

CONSTANTS
  Callers,      \* goroutines, of any process, that want the lock
  Ttl,          \* expiry given to TryLock, Lock and Renew
  Wait,         \* waitTimeout of Lock
  MaxTime,      \* bound of the clock
  MaxAttempts   \* bound of the tokens a caller draws

RedisLockAssumption ==
  /\ Callers /= {}
  /\ Ttl \in Nat \ {0} /\ {Wait, MaxTime, MaxAttempts} \subseteq Nat

VARIABLES
  now,
  lockKey,   \* the key in Redis: owner and number of its token, its expiry
  caller,    \* "idle", "waiting" in Lock, "holding" a *Lock
  drawn,     \* tokens the caller has drawn; the last is that of its *Lock
  deadline,  \* of the caller's Lock
  lease      \* when the caller's lock expires, as far as Redis told it

lockVars == <<now, lockKey, caller, drawn, deadline, lease>>

Token == [owner : Callers, number : 0 .. MaxAttempts]

Free == ~ lockKey.set \/ lockKey.expires <= now

newLockToken(c) == [owner |-> c, number |-> drawn[c] + 1]

(* The script's comparison, with the token of the caller's *Lock.          *)
Holds(c) == ~ Free /\ lockKey.token = [owner |-> c, number |-> drawn[c]]

Init ==
  /\ now = 0
  /\ lockKey = [set |-> FALSE, token |-> CHOOSE t \in Token : TRUE, expires |-> 0]
  /\ caller = [c \in Callers |-> "idle"]
  /\ drawn = [c \in Callers |-> 0]
  /\ deadline = [c \in Callers |-> 0]
  /\ lease = [c \in Callers |-> 0]

Lock(c) ==
  /\ caller[c] = "idle" /\ drawn[c] < MaxAttempts
  /\ now + Wait < MaxTime
  /\ caller' = [caller EXCEPT ![c] = "waiting"]
  /\ deadline' = [deadline EXCEPT ![c] = now + Wait]
  /\ UNCHANGED <<now, lockKey, drawn, lease>>

(* SETNX finds the key free; the answer may be lost on its way back, and   *)
(* then the caller fails while the key stays, held by nobody.              *)
TryLockAcquires(c) ==
  /\ caller[c] = "waiting"
  /\ Free
  /\ lockKey' = [set |-> TRUE, token |-> newLockToken(c), expires |-> now + Ttl]
  /\ drawn' = [drawn EXCEPT ![c] = @ + 1]
  /\ \/ /\ caller' = [caller EXCEPT ![c] = "holding"]
        /\ lease' = [lease EXCEPT ![c] = now + Ttl]
     \/ /\ caller' = [caller EXCEPT ![c] = "idle"]
        /\ lease' = lease
  /\ UNCHANGED <<now, deadline>>

(* The key is taken: the deadline is looked at after the attempt only, so  *)
(* an attempt is made after it, and otherwise the caller waits 100 ms.     *)
TryLockTaken(c) ==
  /\ caller[c] = "waiting"
  /\ ~ Free
  /\ caller' = [caller EXCEPT ![c] = IF now > deadline[c] THEN "idle" ELSE @]
  /\ UNCHANGED <<now, lockKey, drawn, deadline, lease>>

(* The context ends, or Redis cannot be reached.                           *)
LockFails(c) ==
  /\ caller[c] = "waiting"
  /\ caller' = [caller EXCEPT ![c] = "idle"]
  /\ UNCHANGED <<now, lockKey, drawn, deadline, lease>>

(* Mutant: the key is deleted without a look at its token.                 *)
UnlockAnyToken(c) ==
  /\ caller[c] = "holding"
  /\ caller' = [caller EXCEPT ![c] = "idle"]
  /\ lockKey' = [lockKey EXCEPT !.set = FALSE]
  /\ lease' = [lease EXCEPT ![c] = now]
  /\ UNCHANGED <<now, drawn, deadline>>

Unlock(c) ==
  /\ caller[c] = "holding"
  /\ caller' = [caller EXCEPT ![c] = "idle"]
  /\ lockKey' = IF Holds(c) THEN [lockKey EXCEPT !.set = FALSE] ELSE lockKey
  /\ lease' = [lease EXCEPT ![c] = now]
  /\ UNCHANGED <<now, drawn, deadline>>

(* Renew returns nil whether or not the script found the caller's token:   *)
(* a caller that has lost the lock is not told.                            *)
Renew(c) ==
  /\ caller[c] = "holding"
  /\ IF Holds(c)
     THEN /\ lockKey' = [lockKey EXCEPT !.expires = now + Ttl]
          /\ lease' = [lease EXCEPT ![c] = now + Ttl]
     ELSE UNCHANGED <<lockKey, lease>>
  /\ UNCHANGED <<now, caller, drawn, deadline>>

Tick == now < MaxTime /\ now' = now + 1
        /\ UNCHANGED <<lockKey, caller, drawn, deadline, lease>>

Next ==
  \/ Tick
  \/ \E c \in Callers :
       \/ Lock(c) \/ TryLockAcquires(c) \/ TryLockTaken(c) \/ LockFails(c)
       \/ Unlock(c) \/ Renew(c)

Spec == Init /\ [][Next]_lockVars

Fairness ==
  /\ WF_lockVars(Tick)
  /\ \A c \in Callers : WF_lockVars(TryLockAcquires(c) \/ TryLockTaken(c))

FairSpec == Spec /\ Fairness

-----------------------------------------------------------------------------
TypeOK ==
  /\ now \in 0 .. MaxTime
  /\ lockKey \in [set : BOOLEAN, token : Token, expires : Nat]
  /\ caller \in [Callers -> {"idle", "waiting", "holding"}]
  /\ drawn \in [Callers -> 0 .. MaxAttempts]
  /\ deadline \in [Callers -> Nat]
  /\ lease \in [Callers -> Nat]

(* Two callers never hold the lock at a time: one whose expiry Redis has   *)
(* confirmed and has not been reached excludes every other, whatever late  *)
(* Unlock or Renew of an earlier holder comes in between.                  *)
LeaseExclusive ==
  \A c, d \in Callers :
    /\ caller[c] = "holding" /\ lease[c] > now
    /\ caller[d] = "holding" /\ lease[d] > now
    => c = d

(* Lock returns, with the lock or without it: past the deadline the next   *)
(* attempt that finds the key taken is the last.                           *)
LockReturns == \A c \in Callers : caller[c] = "waiting" ~> caller[c] /= "waiting"

-----------------------------------------------------------------------------
(* What a lease rests on: the key is in Redis with the token of its holder *)
(* and does not expire before the lease does.                              *)
LeaseBacked ==
  \A c \in Callers :
    caller[c] = "holding" /\ lease[c] > now
    => /\ lockKey.set
       /\ lockKey.token = [owner |-> c, number |-> drawn[c]]
       /\ lockKey.expires >= lease[c]

(* A caller that waits has a token left to draw.                           *)
MayDraw == \A c \in Callers : caller[c] = "waiting" => drawn[c] < MaxAttempts

IInv == TypeOK /\ MayDraw /\ LeaseBacked
=============================================================================
