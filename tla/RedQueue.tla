------------------------------ MODULE RedQueue ------------------------------
(***************************************************************************)
(* The Redis task queue of framework/taskqueue/redqueue/redqueue.go.       *)
(*                                                                         *)
(* A queue is three Redis keys: a list of tasks to run now, a sorted set   *)
(* of delayed tasks and a list of dead letters.  Any number of processes   *)
(* call Submit, Consume and RequeueDeadLetter on them.  Every Redis        *)
(* command, and the Lua script of moveDueTasks, is one atomic step; what   *)
(* lies between two commands of one caller is not.                         *)
(*                                                                         *)
(* list is kept with the end BRPOP takes from first; dead is kept with     *)
(* the end LPUSH writes first, so dead[1] is the dead letter of index 0.   *)
(***************************************************************************)
EXTENDS Naturals, FiniteSets, Sequences, SequencesExt, Functions

CONSTANTS
  Payloads,        \* business payloads; the same one may be submitted twice
  Consumers,       \* goroutines running Consume
  Operators,       \* callers of RequeueDeadLetter
  MaxRetries,      \* WithMaxRetries; 0 means retry for ever
  MoveLimit,       \* LIMIT of the ZRANGEBYSCORE of moveDueTasks (100)
  Delays,          \* delays, in clock units, that Submit is called with
  Faults,          \* which of "crash", "redis", "cancel" may happen
  MaxSubmits,      \* bound: tasks accepted in all
  MaxRequeues,     \* bound: calls of RequeueDeadLetter
  MaxTime,         \* bound: clock
  LegacyBacklogs   \* what an early version may have left in the list:
                   \* sequences of bare payloads

ASSUME RedQueueAssumption ==
  /\ MaxRetries \in Nat
  /\ MoveLimit \in Nat \ {0}
  /\ Delays \subseteq Nat
  /\ Faults \subseteq {"crash", "redis", "cancel"}
  /\ MaxSubmits \in Nat
  /\ MaxRequeues \in Nat
  /\ MaxTime \in Nat
  /\ LegacyBacklogs \subseteq Seq(Payloads)

(* For TLC: the list starts empty, or with a bare payload.                 *)
StartEmpty == {<<>>}

EmptyOrLegacy == StartEmpty \cup {<<p>> : p \in Payloads}

VARIABLES
  list,      \* prefix:list, a sequence of stored values
  zset,      \* prefix:zset, a set of members with their score
  dead,      \* prefix:dead, a sequence of dead letters
  now,       \* the clock
  consumer,  \* where each Consume stands and the task it holds
  cancelled, \* consumers whose context is cancelled
  operator,  \* where each RequeueDeadLetter stands and the letter it read
  requeues,  \* calls of RequeueDeadLetter so far
  accepted,  \* history: Submit calls that reached Redis, per payload
  done,      \* history: handler calls that returned nil, per payload
  lost,      \* history: tasks popped and then dropped, per payload
  merged,    \* history: delayed tasks overwritten by an equal ZADD member
  copied,    \* history: dead letters pushed back on the list
  removed    \* history: dead letters removed by the LREM that follows

vars == <<list, zset, dead, now, consumer, cancelled, operator, requeues,
          accepted, done, lost, merged, copied, removed>>

history == <<accepted, done, lost, merged, copied, removed>>

-----------------------------------------------------------------------------
(* What is stored.  An envelope is the JSON of {data, retries}; equal      *)
(* envelopes have equal JSON, so they are the same member of the sorted    *)
(* set.  "raw" values are the bare payloads of early versions.             *)

Envelope == [kind : {"env"}, data : Payloads, retries : Nat]

RawValue == [kind : {"raw"}, data : Payloads, retries : {0}]

Env(p, r) == [kind |-> "env", data |-> p, retries |-> r]

Letter == [payload : Payloads, retries : Nat, failedAt : Nat]

(* Mutant: bare payloads are handed on as they are.                        *)
decodeVerbatim(v) == v

decodeEnvelope(v) ==
  IF v.kind = "env" THEN v ELSE Env(v.data, 0)

NoTask == [kind |-> "none", data |-> "none", retries |-> 0]

NoLetter == [payload |-> "none", retries |-> 0, failedAt |-> 0]

Running == {"loop", "move", "pop", "handle", "settle"}

Holding == {"handle", "settle"}

TypeOK ==
  /\ list \in Seq(Envelope \cup RawValue)
  /\ zset \subseteq [member : Envelope, score : Nat]
  /\ dead \in Seq(Letter)
  /\ now \in Nat
  /\ consumer \in [Consumers ->
                     [pc : Running \cup {"stopped", "failed"},
                      task : Envelope \cup {NoTask}]]
  /\ \A c \in Consumers :
       consumer[c].pc \in Holding => consumer[c].task \in Envelope
  /\ cancelled \subseteq Consumers
  /\ operator \in [Operators ->
                     [pc : {"idle", "push", "remove"},
                      letter : Letter \cup {NoLetter}]]
  /\ \A o \in Operators :
       operator[o].pc # "idle" => operator[o].letter \in Letter
  /\ requeues \in Nat
  /\ accepted \in [Payloads -> Nat]
  /\ done \in [Payloads -> Nat]
  /\ lost \in [Payloads -> Nat]
  /\ merged \in [Payloads -> Nat]
  /\ copied \in [Payloads -> Nat]
  /\ removed \in [Payloads -> Nat]

Zero == [p \in Payloads |-> 0]

Plus(f, p) == [f EXCEPT ![p] = @ + 1]

CountIn(s, p) == Cardinality({i \in DOMAIN s : s[i].data = p})

Init ==
  /\ \E backlog \in LegacyBacklogs :
       /\ list = [i \in DOMAIN backlog |->
                    [kind |-> "raw", data |-> backlog[i], retries |-> 0]]
       /\ accepted = [p \in Payloads |->
                        Cardinality({i \in DOMAIN backlog : backlog[i] = p})]
  /\ zset = {}
  /\ dead = <<>>
  /\ now = 0
  /\ consumer = [c \in Consumers |-> [pc |-> "loop", task |-> NoTask]]
  /\ cancelled = {}
  /\ operator = [o \in Operators |-> [pc |-> "idle", letter |-> NoLetter]]
  /\ requeues = 0
  /\ done = Zero
  /\ lost = Zero
  /\ merged = Zero
  /\ copied = Zero
  /\ removed = Zero

-----------------------------------------------------------------------------
(* Submit: a task without delay is pushed on the list, one with a delay is *)
(* added to the sorted set; ZADD of a member that is there already only    *)
(* moves its score.                                                        *)

LPush(v) == list' = Append(list, v)

ZAdd(m, s) ==
  zset' = {z \in zset : z.member # m} \cup {[member |-> m, score |-> s]}

Submit(p, delay) ==
  /\ SumFunction(accepted) < MaxSubmits
  /\ now + delay <= MaxTime
  /\ accepted' = Plus(accepted, p)
  /\ \/ /\ delay = 0
        /\ LPush(Env(p, 0))
        /\ UNCHANGED <<zset, merged>>
     \/ /\ delay > 0
        /\ ZAdd(Env(p, 0), now + delay)
        /\ merged' = IF \E z \in zset : z.member = Env(p, 0)
                     THEN Plus(merged, p) ELSE merged
        /\ UNCHANGED list
  /\ UNCHANGED <<dead, now, consumer, cancelled, operator, requeues,
                 done, lost, copied, removed>>

Tick ==
  /\ now < MaxTime
  /\ now' = now + 1
  /\ UNCHANGED <<list, zset, dead, consumer, cancelled, operator, requeues,
                 history>>

-----------------------------------------------------------------------------
(* Consume.  One pass of the loop: look at the context, move what is due,  *)
(* pop, run the handler, and on an error push the task back or push it on  *)
(* the dead letters.  A Redis call made with a cancelled context fails, as *)
(* go-redis takes no connection for it; only BRPOP can be under way when   *)
(* the context is cancelled, and it then runs to its end.                  *)

At(c, pc) == consumer[c].pc = pc

GoTo(c, pc) == consumer' = [consumer EXCEPT ![c].pc = pc]

Drop(c, pc) == consumer' = [consumer EXCEPT ![c] = [pc |-> pc, task |-> NoTask]]

CallFails(c) == c \in cancelled \/ "redis" \in Faults

CallSucceeds(c) == c \notin cancelled

(* Where a consumer goes after a command that Redis has executed: on to    *)
(* the next step, or out of Consume when the reply is lost.                *)
Replies(next) == {next} \cup (IF "redis" \in Faults THEN {"failed"} ELSE {})

CheckContext(c) ==
  /\ At(c, "loop")
  /\ GoTo(c, IF c \in cancelled THEN "stopped" ELSE "move")
  /\ UNCHANGED <<list, zset, dead, now, cancelled, operator, requeues, history>>

(* Mutant: the clock is rounded up before it is compared with the score.   *)
DueEarly == {z \in zset : z.score <= now + 1}

Due == {z \in zset : z.score <= now}

(* The due members as ZRANGEBYSCORE returns them: by score (members of     *)
(* equal score in the order of their bytes, any order here), the first     *)
(* MoveLimit of them.                                                      *)
DueItems ==
  LET n == Cardinality(Due) IN
  {SubSeq(s, 1, IF n < MoveLimit THEN n ELSE MoveLimit) :
     s \in {t \in [1..n -> Due] :
              \A i, j \in 1..n :
                i < j => t[i] # t[j] /\ t[i].score <= t[j].score}}

(* Mutant: the script pushes the due members and forgets ZREM.             *)
MovedWithoutZRem(items) == zset

Moved(items) == zset \ {items[i] : i \in DOMAIN items}

moveDueTasks(c) ==
  /\ At(c, "move")
  /\ \/ /\ CallSucceeds(c)
        /\ \E items \in DueItems :
             /\ zset' = Moved(items)
             /\ list' = list \o [i \in DOMAIN items |-> items[i].member]
        /\ \E pc \in Replies("pop") : GoTo(c, pc)
     \/ /\ CallFails(c)
        /\ GoTo(c, "failed")
        /\ UNCHANGED <<zset, list>>
  /\ UNCHANGED <<dead, now, cancelled, operator, requeues, history>>

BRPop(c) ==
  /\ At(c, "pop")
  /\ \/ /\ list # <<>>
        /\ list' = Tail(list)
        /\ consumer' = [consumer EXCEPT
                          ![c] = [pc |-> "handle",
                                  task |-> decodeEnvelope(Head(list))]]
        /\ UNCHANGED lost
     \/ /\ list = <<>>                     \* redis.Nil after one second
        /\ GoTo(c, IF c \in cancelled THEN "stopped" ELSE "loop")
        /\ UNCHANGED <<list, lost>>
     \/ /\ CallFails(c)
        /\ GoTo(c, "failed")
        /\ UNCHANGED <<list, lost>>
     \/ /\ "redis" \in Faults /\ list # <<>>  \* popped, the reply is lost
        /\ list' = Tail(list)
        /\ lost' = Plus(lost, Head(list).data)
        /\ GoTo(c, "failed")
  /\ UNCHANGED <<zset, dead, now, cancelled, operator, requeues,
                 accepted, done, merged, copied, removed>>

HandlerSucceeds(c) ==
  /\ At(c, "handle")
  /\ done' = Plus(done, consumer[c].task.data)
  /\ Drop(c, "loop")
  /\ UNCHANGED <<list, zset, dead, now, cancelled, operator, requeues,
                 accepted, lost, merged, copied, removed>>

(* A returned error, or a panic that invokeHandler turns into one.         *)
HandlerFails(c) ==
  /\ At(c, "handle")
  /\ GoTo(c, "settle")
  /\ UNCHANGED <<list, zset, dead, now, cancelled, operator, requeues, history>>

nextRetries(task) == task.retries + 1

(* Mutant: the limit is compared with the count before this failure.       *)
ExhaustedLate(task) == MaxRetries > 0 /\ task.retries > MaxRetries

Exhausted(task) == MaxRetries > 0 /\ nextRetries(task) > MaxRetries

(* Mutant: the retry is sent with the count it came with.                  *)
requeueUncounted(c) ==
  /\ ~Exhausted(consumer[c].task)
  /\ LPush(consumer[c].task)
  /\ UNCHANGED dead

requeue(c) ==
  /\ ~Exhausted(consumer[c].task)
  /\ LPush(Env(consumer[c].task.data, nextRetries(consumer[c].task)))
  /\ UNCHANGED dead

pushDead(c) ==
  /\ Exhausted(consumer[c].task)
  /\ dead' = <<[payload |-> consumer[c].task.data,
                retries |-> consumer[c].task.retries,
                failedAt |-> now]>> \o dead
  /\ UNCHANGED list

Settle(c) ==
  /\ At(c, "settle")
  /\ \/ /\ CallSucceeds(c)
        /\ requeue(c) \/ pushDead(c)
        /\ \E pc \in Replies("loop") : Drop(c, pc)
        /\ UNCHANGED lost
     \/ /\ CallFails(c)
        /\ lost' = Plus(lost, consumer[c].task.data)
        /\ Drop(c, "failed")
        /\ UNCHANGED <<list, dead>>
  /\ UNCHANGED <<zset, now, cancelled, operator, requeues,
                 accepted, done, merged, copied, removed>>

Cancel(c) ==
  /\ "cancel" \in Faults
  /\ consumer[c].pc \in Running
  /\ c \notin cancelled
  /\ cancelled' = cancelled \cup {c}
  /\ UNCHANGED <<list, zset, dead, now, consumer, operator, requeues, history>>

(* The process of a consumer dies; what it popped is in no Redis key.      *)
Crash(c) ==
  /\ "crash" \in Faults
  /\ consumer[c].pc \in Running
  /\ lost' = IF consumer[c].pc \in Holding
             THEN Plus(lost, consumer[c].task.data) ELSE lost
  /\ Drop(c, "failed")
  /\ UNCHANGED <<list, zset, dead, now, cancelled, operator, requeues,
                 accepted, done, merged, copied, removed>>

(* Consume is called again with a fresh context.                           *)
Restart(c) ==
  /\ consumer[c].pc \in {"stopped", "failed"}
  /\ Drop(c, "loop")
  /\ cancelled' = cancelled \ {c}
  /\ UNCHANGED <<list, zset, dead, now, operator, requeues, history>>

-----------------------------------------------------------------------------
(* RequeueDeadLetter: read the letter, push it on the list with its own    *)
(* count, then LREM it by value.  A failure after the push leaves both.    *)

ReadLetter(o, index) ==
  /\ operator[o].pc = "idle"
  /\ requeues < MaxRequeues
  /\ index \in DOMAIN dead
  /\ requeues' = requeues + 1
  /\ operator' = [operator EXCEPT ![o] = [pc |-> "push", letter |-> dead[index]]]
  /\ UNCHANGED <<list, zset, dead, now, consumer, cancelled, history>>

PushLetter(o) ==
  /\ operator[o].pc = "push"
  /\ LPush(Env(operator[o].letter.payload, operator[o].letter.retries))
  /\ copied' = Plus(copied, operator[o].letter.payload)
  /\ operator' = [operator EXCEPT ![o].pc = "remove"]
  /\ UNCHANGED <<zset, dead, now, consumer, cancelled, requeues,
                 accepted, done, lost, merged, removed>>

LRem(letter) ==
  \/ \E i \in DOMAIN dead :
       /\ dead[i] = letter
       /\ \A j \in 1..(i - 1) : dead[j] # letter
       /\ dead' = RemoveAt(dead, i)
       /\ removed' = Plus(removed, letter.payload)
  \/ /\ ~Contains(dead, letter)
     /\ UNCHANGED <<dead, removed>>

RemoveLetter(o) ==
  /\ operator[o].pc = "remove"
  /\ LRem(operator[o].letter)
  /\ operator' = [operator EXCEPT ![o] = [pc |-> "idle", letter |-> NoLetter]]
  /\ UNCHANGED <<list, zset, now, consumer, cancelled, requeues,
                 accepted, done, lost, merged, copied>>

AbandonRequeue(o) ==
  /\ Faults \cap {"redis", "crash"} # {}
  /\ operator[o].pc # "idle"
  /\ operator' = [operator EXCEPT ![o] = [pc |-> "idle", letter |-> NoLetter]]
  /\ UNCHANGED <<list, zset, dead, now, consumer, cancelled, requeues, history>>

-----------------------------------------------------------------------------
ConsumeStep(c) ==
  \/ CheckContext(c)
  \/ moveDueTasks(c)
  \/ BRPop(c)
  \/ HandlerSucceeds(c)
  \/ HandlerFails(c)
  \/ Settle(c)

RequeueDeadLetter(o) ==
  \/ \E index \in DOMAIN dead : ReadLetter(o, index)
  \/ PushLetter(o)
  \/ RemoveLetter(o)
  \/ AbandonRequeue(o)

Next ==
  \/ \E p \in Payloads, d \in Delays : Submit(p, d)
  \/ Tick
  \/ \E c \in Consumers : ConsumeStep(c) \/ Cancel(c) \/ Crash(c) \/ Restart(c)
  \/ \E o \in Operators : RequeueDeadLetter(o)

Spec == Init /\ [][Next]_vars

(* A goroutine that runs Consume keeps being scheduled, handlers return,   *)
(* and the clock moves on.                                                 *)
FairSpec ==
  /\ Spec
  /\ \A c \in Consumers : WF_vars(ConsumeStep(c))
  /\ WF_vars(Tick)

-----------------------------------------------------------------------------
(* Properties.                                                             *)

InList(p) == CountIn(list, p)

InZset(p) == Cardinality({z \in zset : z.member.data = p})

InHand(p) ==
  Cardinality({c \in Consumers :
                 consumer[c].pc \in Holding /\ consumer[c].task.data = p})

InDead(p) == Cardinality({i \in DOMAIN dead : dead[i].payload = p})

(* Every accepted task is in exactly one place: the list, the sorted set,  *)
(* the hands of one consumer, the dead letters, or finished; the exceptions*)
(* are counted: a task dropped after BRPOP (lost), a delayed task          *)
(* overwritten by an equal one (merged), a letter pushed back (copied) and *)
(* the one then removed for it (removed).  This is the accounting that     *)
(* Submit, moveDueTasks, Consume and RequeueDeadLetter share without       *)
(* sharing a lock.                                                         *)
TaskLedger ==
  \A p \in Payloads :
    accepted[p] + copied[p] =
      done[p] + InList(p) + InZset(p) + InHand(p) + InDead(p)
              + lost[p] + merged[p] + removed[p]

(* With a limit, no task in the list or in a handler has used more than    *)
(* MaxRetries retries, and a dead letter has used exactly MaxRetries, also *)
(* after any number of RequeueDeadLetter, which keep the count.            *)
RetryBudget ==
  MaxRetries > 0 =>
    /\ \A i \in DOMAIN list : list[i].retries <= MaxRetries
    /\ \A c \in Consumers : consumer[c].task.retries <= MaxRetries
    /\ \A i \in DOMAIN dead : dead[i].retries = MaxRetries

(* A task leaves the sorted set for the list only once its time has come,  *)
(* and goes to the list in the same step.                                  *)
DelayedUntilDue ==
  [][\A z \in zset \ zset' :
        \/ \E y \in zset' : y.member = z.member
        \/ z.score <= now /\ \E i \in DOMAIN list' : list'[i] = z.member]_vars

(* As long as no consumer leaves Consume, every submitted task is finished *)
(* or becomes a dead letter: retries are bounded, delayed tasks come due   *)
(* and no consumer keeps another from popping.                             *)
EventuallySettled ==
  \A p \in Payloads :
    InList(p) + InZset(p) + InHand(p) > 0
      ~> \/ InList(p) + InZset(p) + InHand(p) = 0
         \/ \E c \in Consumers : consumer[c].pc \notin Running

-----------------------------------------------------------------------------
(* What the documentation says and the code does not do.                   *)

(* A graceful stop finishes the task in hand: no task that was popped is   *)
(* dropped.                                                                *)
NoTaskLost == \A p \in Payloads : lost[p] = 0
=============================================================================
