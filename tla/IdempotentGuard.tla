-------------------------- MODULE IdempotentGuard --------------------------
(***************************************************************************)
(* framework/idempotent: a mark in Redis, set by Check when it is absent,  *)
(* that lets one of several calls of the same business key through.  The   *)
(* caller releases it when the business operation fails and keeps it when  *)
(* it succeeds.  The operation is external and takes any time, also longer *)
(* than its mark lives.                                                    *)
(***************************************************************************)
EXTENDS Integers, FiniteSets

CONSTANTS Calls, MarkTtl, MaxClock

IdempotentAssumption == MarkTtl \in Nat /\ MaxClock \in Nat

VARIABLES
  clock,
  mark,     \* expiry of the mark; 0 when there is none
  call,     \* "new", "executing", "refused", "failed", "succeeded"
  since,    \* when the call was let through
  owner,    \* history: the calls, one at most, whose Check set the mark
  robbed,   \* history: calls whose mark another call's Release deleted
  overdue   \* history: a call released after its mark had expired

guardVars == <<clock, mark, call, since, owner, robbed, overdue>>

Marked == mark > clock

Init ==
  /\ clock = 1
  /\ mark = 0
  /\ call = [c \in Calls |-> "new"]
  /\ since = [c \in Calls |-> 0]
  /\ owner = {} /\ robbed = {}
  /\ overdue = FALSE

(* Mutant: the mark is looked up and then set, and the lookup misses it.   *)
CheckWithoutNX(c) ==
  /\ call[c] \in {"new", "failed"}
  /\ mark' = clock + MarkTtl
  /\ call' = [call EXCEPT ![c] = "executing"]
  /\ since' = [since EXCEPT ![c] = clock]
  /\ owner' = {c} /\ robbed' = robbed \ {c}
  /\ UNCHANGED <<clock, overdue>>

(* SETNX; an error after it has been applied leaves the mark without a     *)
(* call, and the caller must not go on.                                    *)
Check(c) ==
  /\ call[c] \in {"new", "failed"}
  /\ \/ /\ ~ Marked
        /\ mark' = clock + MarkTtl
        /\ owner' = {c} /\ robbed' = robbed \ {c}
        /\ \/ /\ call' = [call EXCEPT ![c] = "executing"]
              /\ since' = [since EXCEPT ![c] = clock]
           \/ call' = [call EXCEPT ![c] = "refused"] /\ since' = since
     \/ /\ Marked
        /\ call' = [call EXCEPT ![c] = "refused"]
        /\ UNCHANGED <<mark, since, owner, robbed>>
  /\ UNCHANGED <<clock, overdue>>

Succeed(c) ==
  /\ call[c] = "executing"
  /\ call' = [call EXCEPT ![c] = "succeeded"]
  /\ UNCHANGED <<clock, mark, since, owner, robbed, overdue>>

(* DEL does not ask whose mark it is.                                      *)
Release(c) ==
  /\ call[c] = "executing"
  /\ call' = [call EXCEPT ![c] = "failed"]
  /\ mark' = 0
  /\ robbed' = IF Marked THEN robbed \cup (owner \ {c}) ELSE robbed
  /\ owner' = {}
  /\ overdue' = (overdue \/ clock >= since[c] + MarkTtl)
  /\ UNCHANGED <<clock, since>>

(* DEL fails and the mark stays until it expires.                          *)
ReleaseFails(c) ==
  /\ call[c] = "executing"
  /\ call' = [call EXCEPT ![c] = "failed"]
  /\ UNCHANGED <<clock, mark, since, owner, robbed, overdue>>

Tick ==
  /\ clock < MaxClock
  /\ clock' = clock + 1
  /\ UNCHANGED <<mark, call, since, owner, robbed, overdue>>

Next ==
  \/ Tick
  \/ \E c \in Calls : Check(c) \/ Succeed(c) \/ Release(c) \/ ReleaseFails(c)

Spec == Init /\ [][Next]_guardVars

(* The calls let through that have not failed.                             *)
Counts == {c \in Calls : call[c] \in {"executing", "succeeded"}}

(* Two calls of a key that have not failed were let through MarkTtl apart, *)
(* unless a Release deleted the mark of one of them: DEL does not ask      *)
(* whose it is.  And that happens only after some operation outlived its   *)
(* mark and released it all the same.                                      *)
OnceWithinTtl ==
  /\ \A c, d \in Counts : c /= d =>
       \/ since[d] >= since[c] + MarkTtl
       \/ since[c] >= since[d] + MarkTtl
       \/ c \in robbed \/ d \in robbed
  /\ robbed /= {} => overdue

TypeOK ==
  /\ clock \in Nat /\ mark \in Nat
  /\ call \in [Calls -> {"new", "executing", "refused", "failed", "succeeded"}]
  /\ since \in [Calls -> Nat]
  /\ owner \subseteq Calls /\ robbed \subseteq Calls /\ overdue \in BOOLEAN

(* A call that counts has its mark, or the mark has expired, or another's  *)
(* Release took it.                                                        *)
MarksKept ==
  \A c \in Counts :
    \/ owner = {c} /\ mark = since[c] + MarkTtl
    \/ clock >= since[c] + MarkTtl
    \/ c \in robbed

IInv == TypeOK /\ MarksKept /\ OnceWithinTtl
=============================================================================
