--------------------------- MODULE RedQueueProofs ---------------------------
(* Proofs about RedQueue, for any number of consumers, operators, payloads *)
(* and retries, with crashes, cancellations and failing Redis calls.       *)
EXTENDS RedQueue, SequenceTheorems, FiniteSetTheorems, TLAPS

(* The count a queued task may carry, and the one a dead letter carries.   *)
Within(r) == MaxRetries > 0 => r <= MaxRetries

Queued == {v \in Envelope \cup RawValue : Within(v.retries)}

Attempt == {v \in Envelope : Within(v.retries)}

FirstAttempt == {z \in [member : Envelope, score : Nat] : z.member.retries = 0}

Spent == {l \in Letter : MaxRetries > 0 => l.retries = MaxRetries}

(* RetryBudget is not inductive: an operator between its two steps holds a *)
(* letter that is in no key and goes back on the list, so its count must   *)
(* be known too.  The rest types the state with the narrower sets.         *)
KeysOK ==
  /\ list \in Seq(Queued)
  /\ zset \subseteq FirstAttempt
  /\ IsFiniteSet(zset)
  /\ dead \in Seq(Spent)

ConsumersOK ==
  /\ consumer \in [Consumers ->
                     [pc : Running \cup {"stopped", "failed"},
                      task : Attempt \cup {NoTask}]]
  /\ \A c \in Consumers : consumer[c].pc \in Holding => consumer[c].task \in Attempt
  /\ cancelled \subseteq Consumers

OperatorsOK ==
  /\ operator \in [Operators ->
                     [pc : {"idle", "push", "remove"},
                      letter : Spent \cup {NoLetter}]]
  /\ \A o \in Operators : operator[o].pc # "idle" => operator[o].letter \in Spent
  /\ requeues \in Nat

HistoryOK ==
  /\ now \in Nat
  /\ accepted \in [Payloads -> Nat]
  /\ done \in [Payloads -> Nat]
  /\ lost \in [Payloads -> Nat]
  /\ merged \in [Payloads -> Nat]
  /\ copied \in [Payloads -> Nat]
  /\ removed \in [Payloads -> Nat]

IInv == KeysOK /\ ConsumersOK /\ OperatorsOK /\ HistoryOK

-----------------------------------------------------------------------------
(* Facts about the operators of the model.                                 *)

LEMMA PlusType ==
  ASSUME NEW f \in [Payloads -> Nat], NEW p \in Payloads
  PROVE  Plus(f, p) \in [Payloads -> Nat]
BY DEF Plus

LEMMA AttemptQueued == Attempt \subseteq Queued
BY DEF Attempt, Queued

LEMMA SpentAttempt ==
  ASSUME NEW l \in Spent
  PROVE  Env(l.payload, l.retries) \in Attempt /\ l.payload \in Payloads
BY RedQueueAssumption DEF Spent, Letter, Env, Attempt, Envelope, Within

LEMMA DecodedAttempt ==
  ASSUME NEW v \in Queued
  PROVE  decodeEnvelope(v) \in Attempt /\ v.data \in Payloads
BY RedQueueAssumption
   DEF Queued, Attempt, Envelope, RawValue, decodeEnvelope, Env, Within

LEMMA LPushType ==
  ASSUME list \in Seq(Queued), NEW v \in Attempt, LPush(v)
  PROVE  list' \in Seq(Queued)
BY AttemptQueued, AppendProperties DEF LPush

LEMMA RemoveAtType ==
  ASSUME NEW S, NEW s \in Seq(S), NEW i \in DOMAIN s
  PROVE  RemoveAt(s, i) \in Seq(S)
<1>1. /\ Len(s) \in Nat
      /\ DOMAIN s = 1..Len(s)
      /\ \A j \in 1..Len(s) : s[j] \in S
  BY LenProperties, ElementOfSeq
<1>2. SubSeq(s, 1, i - 1) \in Seq(S)
  BY <1>1, SubSeqProperties
<1>3. SubSeq(s, i + 1, Len(s)) \in Seq(S)
  BY <1>1, SubSeqProperties
<1> QED
  BY <1>2, <1>3, ConcatProperties DEF RemoveAt

LEMMA DueItemsType ==
  ASSUME KeysOK, NEW items \in DueItems
  PROVE  /\ items \in Seq(Due)
         /\ [i \in DOMAIN items |-> items[i].member] \in Seq(Queued)
<1> DEFINE n == Cardinality(Due)
           k == IF n < MoveLimit THEN n ELSE MoveLimit
<1>1. n \in Nat
  BY FS_Subset, FS_CardinalityType DEF KeysOK, Due
<1>2. PICK s \in [1..n -> Due] : items = SubSeq(s, 1, k)
  BY DEF DueItems
<1>3. k \in Nat /\ k <= n
  BY <1>1, RedQueueAssumption
<1> HIDE DEF n, k
<1>4. items \in Seq(Due)
  BY <1>2, <1>3, <1>1, SubSeqProperties
<1>5. /\ Len(items) \in Nat
      /\ DOMAIN items = 1..Len(items)
      /\ \A i \in 1..Len(items) : items[i] \in Due
  BY <1>4, LenProperties, ElementOfSeq
<1>6. \A z \in Due : z.member \in Queued
  BY RedQueueAssumption
     DEF Due, KeysOK, FirstAttempt, Queued, Envelope, Within
<1> QED
  BY <1>4, <1>5, <1>6

-----------------------------------------------------------------------------
(* The inductive invariant, action by action.                              *)

LEMMA InitIInv == Init => IInv
<1> SUFFICES ASSUME Init PROVE IInv
  OBVIOUS
<1>1. PICK backlog \in LegacyBacklogs :
        /\ list = [i \in DOMAIN backlog |->
                     [kind |-> "raw", data |-> backlog[i], retries |-> 0]]
        /\ accepted = [p \in Payloads |->
                         Cardinality({i \in DOMAIN backlog : backlog[i] = p})]
  BY DEF Init
<1>2. /\ Len(backlog) \in Nat
      /\ \A i \in 1..Len(backlog) : backlog[i] \in Payloads
      /\ DOMAIN backlog = 1..Len(backlog)
  BY RedQueueAssumption, LenProperties, ElementOfSeq
<1>3. KeysOK
  <2>1. list \in Seq(Queued)
    BY <1>1, <1>2, RedQueueAssumption DEF Queued, RawValue, Within
  <2> QED
    BY <2>1, FS_EmptySet, EmptySeq DEF Init, KeysOK
<1>4. ConsumersOK /\ OperatorsOK
  BY DEF Init, ConsumersOK, OperatorsOK, Running, Holding
<1>5. accepted \in [Payloads -> Nat]
  <2>1. ASSUME NEW p \in Payloads
        PROVE  Cardinality({i \in DOMAIN backlog : backlog[i] = p}) \in Nat
    <3>1. IsFiniteSet(1..Len(backlog))
      BY <1>2, FS_Interval
    <3> QED
      BY <1>2, <3>1, FS_Subset, FS_CardinalityType
  <2> QED
    BY <1>1, <2>1
<1>6. HistoryOK
  BY <1>5 DEF Init, HistoryOK, Zero
<1> QED
  BY <1>3, <1>4, <1>6 DEF IInv

LEMMA SubmitIInv ==
  ASSUME IInv, NEW p \in Payloads, NEW d \in Delays, Submit(p, d)
  PROVE  IInv'
<1>1. Env(p, 0) \in Attempt
  BY RedQueueAssumption DEF Env, Attempt, Envelope, Within
<1>2. d \in Nat
  BY RedQueueAssumption
<1>3. KeysOK'
  <2>1. CASE d = 0
    <3>1. LPush(Env(p, 0)) /\ zset' = zset /\ dead' = dead
      BY <2>1 DEF Submit
    <3> QED
      BY <3>1, <1>1, LPushType DEF IInv, KeysOK
  <2>2. CASE d > 0
    <3> DEFINE keep == {z \in zset : z.member # Env(p, 0)}
               new == [member |-> Env(p, 0), score |-> now + d]
    <3>1. zset' = keep \cup {new} /\ list' = list /\ dead' = dead
      BY <2>2 DEF Submit, ZAdd
    <3>2. new \in FirstAttempt
      BY <1>2 DEF FirstAttempt, Env, Envelope, IInv, HistoryOK
    <3>3. IsFiniteSet(keep)
      BY FS_Subset DEF IInv, KeysOK
    <3>4. IsFiniteSet(zset')
      BY <3>1, <3>3, FS_AddElement
    <3> QED
      BY <3>1, <3>2, <3>4 DEF IInv, KeysOK
  <2> QED
    BY <1>2, <2>1, <2>2
<1>4. ConsumersOK' /\ OperatorsOK'
  BY DEF Submit, IInv, ConsumersOK, OperatorsOK
<1>5. HistoryOK'
  BY PlusType DEF Submit, IInv, HistoryOK
<1> QED
  BY <1>3, <1>4, <1>5 DEF IInv

LEMMA moveDueTasksIInv ==
  ASSUME IInv, NEW c \in Consumers, moveDueTasks(c)
  PROVE  IInv'
<1>1. KeysOK'
  <2>1. CASE UNCHANGED <<zset, list>>
    BY <2>1 DEF moveDueTasks, IInv, KeysOK
  <2>2. ASSUME NEW items \in DueItems, zset' = Moved(items),
               list' = list \o [i \in DOMAIN items |-> items[i].member]
        PROVE  KeysOK'
    <3>1. list' \in Seq(Queued)
      BY <2>2, DueItemsType, ConcatProperties DEF IInv, KeysOK
    <3>2. zset' \subseteq zset
      BY <2>2 DEF Moved
    <3>3. IsFiniteSet(zset')
      BY <3>2, FS_Subset DEF IInv, KeysOK
    <3> QED
      BY <3>1, <3>2, <3>3 DEF moveDueTasks, IInv, KeysOK
  <2> QED
    BY <2>1, <2>2 DEF moveDueTasks
<1>2. ConsumersOK'
  <2>1. PICK pc \in {"pop", "failed"} : GoTo(c, pc)
    BY DEF moveDueTasks, Replies
  <2> QED
    BY <2>1 DEF moveDueTasks, GoTo, IInv, ConsumersOK, Running, Holding
<1>3. OperatorsOK' /\ HistoryOK'
  BY DEF moveDueTasks, history, IInv, OperatorsOK, HistoryOK
<1> QED
  BY <1>1, <1>2, <1>3 DEF IInv

LEMMA BRPopIInv ==
  ASSUME IInv, NEW c \in Consumers, BRPop(c)
  PROVE  IInv'
<1>1. list # <<>> => /\ Tail(list) \in Seq(Queued)
                     /\ decodeEnvelope(Head(list)) \in Attempt
                     /\ Head(list).data \in Payloads
  BY HeadTailProperties, DecodedAttempt DEF IInv, KeysOK
<1>2. KeysOK'
  BY <1>1 DEF BRPop, IInv, KeysOK
<1>3. ConsumersOK'
  <2>1. \/ list # <<>> /\ consumer' = [consumer EXCEPT
                ![c] = [pc |-> "handle", task |-> decodeEnvelope(Head(list))]]
        \/ \E pc \in {"stopped", "loop", "failed"} :
             consumer' = [consumer EXCEPT ![c].pc = pc]
    BY DEF BRPop, GoTo
  <2> QED
    BY <1>1, <2>1 DEF BRPop, IInv, ConsumersOK, Running, Holding
<1>4. OperatorsOK'
  BY DEF BRPop, IInv, OperatorsOK
<1>5. HistoryOK'
  <2>1. lost' = lost \/ (list # <<>> /\ lost' = Plus(lost, Head(list).data))
    BY DEF BRPop
  <2>2. list # <<>> => Plus(lost, Head(list).data) \in [Payloads -> Nat]
    <3> SUFFICES ASSUME list # <<>>
                 PROVE  Plus(lost, Head(list).data) \in [Payloads -> Nat]
      OBVIOUS
    <3>1. Head(list).data \in Payloads /\ lost \in [Payloads -> Nat]
      BY <1>1 DEF IInv, HistoryOK
    <3> QED
      BY <3>1, PlusType
  <2> QED
    BY <2>1, <2>2 DEF BRPop, IInv, HistoryOK
<1> QED
  BY <1>2, <1>3, <1>4, <1>5 DEF IInv

(* Drop puts a consumer back without a task.                               *)
LEMMA DropOK ==
  ASSUME ConsumersOK, NEW c \in Consumers, NEW pc \in {"loop", "failed"},
         Drop(c, pc), cancelled' \subseteq Consumers
  PROVE  ConsumersOK'
BY DEF Drop, ConsumersOK, Running, Holding

(* What a consumer that holds a task holds.                                *)
LEMMA HeldTask ==
  ASSUME IInv, NEW c \in Consumers, consumer[c].pc \in Holding
  PROVE  /\ consumer[c].task \in Attempt
         /\ consumer[c].task.data \in Payloads
         /\ consumer[c].task.retries \in Nat
         /\ Within(consumer[c].task.retries)
BY DEF IInv, ConsumersOK, Attempt, Envelope

LEMMA SettleIInv ==
  ASSUME IInv, NEW c \in Consumers, Settle(c)
  PROVE  IInv'
<1> DEFINE t == consumer[c].task
<1>1. t.data \in Payloads /\ t.retries \in Nat /\ Within(t.retries)
  BY HeldTask DEF Settle, At, Holding
<1>2. KeysOK'
  <2>1. CASE requeue(c)
    <3> DEFINE n == nextRetries(t)
    <3>0. n \in Nat /\ Within(n)
      BY <1>1, <2>1, RedQueueAssumption DEF requeue, Exhausted, nextRetries, Within
    <3> HIDE DEF n
    <3>1. Env(t.data, n) \in Attempt
      BY <1>1, <3>0 DEF Env, Attempt, Envelope
    <3> USE DEF n
    <3>2. LPush(Env(t.data, nextRetries(t))) /\ dead' = dead /\ zset' = zset
      BY <2>1 DEF requeue, Settle
    <3> QED
      BY <3>1, <3>2, LPushType DEF IInv, KeysOK
  <2>2. CASE pushDead(c)
    <3> DEFINE letter == [payload |-> t.data, retries |-> t.retries, failedAt |-> now]
    <3>1. dead' = <<letter>> \o dead /\ list' = list /\ zset' = zset
      BY <2>2 DEF pushDead, Settle
    <3>2. letter \in Spent
      BY <1>1, <2>2, RedQueueAssumption
         DEF pushDead, Exhausted, nextRetries, Spent, Letter, Within, IInv, HistoryOK
    <3>3. <<letter>> \in Seq(Spent)
      BY <3>2
    <3> QED
      BY <3>1, <3>3, ConcatProperties DEF IInv, KeysOK
  <2>3. CASE UNCHANGED <<list, dead>>
    BY <2>3 DEF Settle, IInv, KeysOK
  <2> QED
    BY <2>1, <2>2, <2>3 DEF Settle
<1>3. ConsumersOK'
  <2>1. PICK pc \in {"loop", "failed"} : Drop(c, pc)
    BY DEF Settle, Replies
  <2> QED
    BY <2>1, DropOK DEF Settle, IInv, ConsumersOK
<1>4. OperatorsOK'
  BY DEF Settle, IInv, OperatorsOK
<1>5. HistoryOK'
  <2>1. Plus(lost, t.data) \in [Payloads -> Nat]
    BY <1>1, PlusType DEF IInv, HistoryOK
  <2> QED
    BY <2>1 DEF Settle, IInv, HistoryOK
<1> QED
  BY <1>2, <1>3, <1>4, <1>5 DEF IInv

LEMMA HandlerIInv ==
  ASSUME IInv, NEW c \in Consumers,
         CheckContext(c) \/ HandlerSucceeds(c) \/ HandlerFails(c)
  PROVE  IInv'
<1>1. CASE CheckContext(c)
  BY <1>1 DEF CheckContext, GoTo, history, IInv, KeysOK, ConsumersOK,
              OperatorsOK, HistoryOK, Running, Holding
<1>2. CASE HandlerSucceeds(c)
  <2>1. Plus(done, consumer[c].task.data) \in [Payloads -> Nat]
    BY <1>2, HeldTask, PlusType DEF HandlerSucceeds, At, Holding, IInv, HistoryOK
  <2>2. ConsumersOK'
    BY <1>2, DropOK DEF HandlerSucceeds, IInv, ConsumersOK
  <2> QED
    BY <1>2, <2>1, <2>2 DEF HandlerSucceeds, IInv, KeysOK, OperatorsOK, HistoryOK
<1>3. CASE HandlerFails(c)
  BY <1>3 DEF HandlerFails, At, GoTo, history, IInv, KeysOK, ConsumersOK,
              OperatorsOK, HistoryOK, Running, Holding
<1> QED
  BY <1>1, <1>2, <1>3

LEMMA FaultIInv ==
  ASSUME IInv, NEW c \in Consumers, Cancel(c) \/ Crash(c) \/ Restart(c)
  PROVE  IInv'
<1>1. CASE Cancel(c)
  BY <1>1 DEF Cancel, history, IInv, KeysOK, ConsumersOK, OperatorsOK, HistoryOK
<1>2. CASE Crash(c)
  <2>1. consumer[c].pc \in Holding =>
          Plus(lost, consumer[c].task.data) \in [Payloads -> Nat]
    BY HeldTask, PlusType DEF IInv, HistoryOK
  <2>2. ConsumersOK'
    BY <1>2, DropOK DEF Crash, IInv, ConsumersOK
  <2> QED
    BY <1>2, <2>1, <2>2 DEF Crash, IInv, KeysOK, OperatorsOK, HistoryOK
<1>3. CASE Restart(c)
  <2>1. ConsumersOK'
    BY <1>3, DropOK DEF Restart, IInv, ConsumersOK
  <2> QED
    BY <1>3, <2>1 DEF Restart, history, IInv, KeysOK, OperatorsOK, HistoryOK
<1> QED
  BY <1>1, <1>2, <1>3

LEMMA OperatorIInv ==
  ASSUME IInv, NEW o \in Operators, RequeueDeadLetter(o)
  PROVE  IInv'
<1>1. ASSUME NEW index \in DOMAIN dead, ReadLetter(o, index) PROVE IInv'
  <2>1. dead[index] \in Spent
    BY <1>1, LenProperties, ElementOfSeq DEF IInv, KeysOK
  <2>2. OperatorsOK'
    BY <1>1, <2>1 DEF ReadLetter, IInv, OperatorsOK
  <2> QED
    BY <1>1, <2>2 DEF ReadLetter, history, IInv, KeysOK, ConsumersOK, HistoryOK
<1> DEFINE l == operator[o].letter
<1>2. CASE PushLetter(o)
  <2>1. l \in Spent
    BY <1>2 DEF PushLetter, IInv, OperatorsOK
  <2>2. Env(l.payload, l.retries) \in Attempt /\ l.payload \in Payloads
    BY <2>1, SpentAttempt
  <2>3. KeysOK'
    BY <1>2, <2>2, LPushType DEF PushLetter, IInv, KeysOK
  <2>4. Plus(copied, l.payload) \in [Payloads -> Nat]
    BY <2>2, PlusType DEF IInv, HistoryOK
  <2>5. OperatorsOK'
    BY <1>2, <2>1 DEF PushLetter, IInv, OperatorsOK
  <2> QED
    BY <1>2, <2>3, <2>4, <2>5 DEF PushLetter, IInv, ConsumersOK, HistoryOK
<1>3. CASE RemoveLetter(o)
  <2>1. l.payload \in Payloads
    BY <1>3, SpentAttempt DEF RemoveLetter, IInv, OperatorsOK
  <2>2. Plus(removed, l.payload) \in [Payloads -> Nat]
    BY <2>1, PlusType DEF IInv, HistoryOK
  <2>3. dead' \in Seq(Spent) /\ removed' \in [Payloads -> Nat]
    BY <1>3, <2>2, RemoveAtType DEF RemoveLetter, LRem, IInv, KeysOK, HistoryOK
  <2>4. OperatorsOK'
    BY <1>3 DEF RemoveLetter, IInv, OperatorsOK
  <2> QED
    BY <1>3, <2>3, <2>4 DEF RemoveLetter, IInv, KeysOK, ConsumersOK, HistoryOK
<1>4. CASE AbandonRequeue(o)
  BY <1>4 DEF AbandonRequeue, history, IInv, KeysOK, ConsumersOK, OperatorsOK,
              HistoryOK
<1> QED
  BY <1>1, <1>2, <1>3, <1>4 DEF RequeueDeadLetter

LEMMA NextIInv == IInv /\ [Next]_vars => IInv'
<1> SUFFICES ASSUME IInv, [Next]_vars PROVE IInv'
  OBVIOUS
<1>1. ASSUME NEW p \in Payloads, NEW d \in Delays, Submit(p, d) PROVE IInv'
  BY <1>1, SubmitIInv
<1>2. CASE Tick
  BY <1>2 DEF Tick, history, IInv, KeysOK, ConsumersOK, OperatorsOK, HistoryOK
<1>3. ASSUME NEW c \in Consumers, ConsumeStep(c) PROVE IInv'
  BY <1>3, moveDueTasksIInv, BRPopIInv, SettleIInv, HandlerIInv DEF ConsumeStep
<1>4. ASSUME NEW c \in Consumers, Cancel(c) \/ Crash(c) \/ Restart(c) PROVE IInv'
  BY <1>4, FaultIInv
<1>5. ASSUME NEW o \in Operators, RequeueDeadLetter(o) PROVE IInv'
  BY <1>5, OperatorIInv
<1>6. CASE UNCHANGED vars
  BY <1>6 DEF vars, IInv, KeysOK, ConsumersOK, OperatorsOK, HistoryOK
<1> QED
  BY <1>1, <1>2, <1>3, <1>4, <1>5, <1>6 DEF Next

LEMMA SpecIInv == Spec => []IInv
BY InitIInv, NextIInv, PTL DEF Spec

-----------------------------------------------------------------------------
(* The three keys, the consumers and the operators keep their types, with  *)
(* any number of them and any of the faults.                               *)
THEOREM TypeCorrect == Spec => []TypeOK
<1>1. IInv => TypeOK
  <2> SUFFICES ASSUME IInv PROVE TypeOK
    OBVIOUS
  <2>1. list \in Seq(Envelope \cup RawValue) /\ dead \in Seq(Letter)
    BY SeqMonotonic DEF IInv, KeysOK, Queued, Spent
  <2>2. zset \subseteq [member : Envelope, score : Nat]
    BY DEF IInv, KeysOK, FirstAttempt
  <2>3. Attempt \subseteq Envelope /\ Spent \subseteq Letter
    BY DEF Attempt, Spent
  <2> QED
    BY <2>1, <2>2, <2>3 DEF IInv, ConsumersOK, OperatorsOK, HistoryOK, TypeOK
<1> QED
  BY <1>1, SpecIInv, PTL

(* No task is handed to a handler more than MaxRetries + 1 times on one    *)
(* count, and a dead letter keeps its spent count through any number of    *)
(* RequeueDeadLetter calls, crashed or not.                                *)
THEOREM RetryBudgetAlways == Spec => []RetryBudget
<1>1. IInv => RetryBudget
  <2> SUFFICES ASSUME IInv PROVE RetryBudget
    OBVIOUS
  <2>1. \A i \in DOMAIN list : list[i] \in Queued
    BY LenProperties, ElementOfSeq DEF IInv, KeysOK
  <2>2. \A i \in DOMAIN dead : dead[i] \in Spent
    BY LenProperties, ElementOfSeq DEF IInv, KeysOK
  <2>3. \A c \in Consumers : consumer[c].task \in Attempt \cup {NoTask}
    BY DEF IInv, ConsumersOK
  <2> QED
    BY <2>1, <2>2, <2>3, RedQueueAssumption
       DEF RetryBudget, Queued, Spent, Attempt, NoTask, Within
<1> QED
  BY <1>1, SpecIInv, PTL
(* A task leaves the sorted set only when due, and is on the list in the   *)
(* same step; an equal ZADD moves its score and keeps the member.          *)
THEOREM DelayedUntilDueAlways == Spec => DelayedUntilDue
<1> DEFINE A(z) == \/ \E y \in zset' : y.member = z.member
                   \/ z.score <= now /\ \E i \in DOMAIN list' : list'[i] = z.member
<1>1. ASSUME IInv, [Next]_vars, NEW z \in zset \ zset' PROVE A(z)
  <2>1. ASSUME NEW p \in Payloads, NEW d \in Delays, Submit(p, d) PROVE A(z)
    BY <1>1, <2>1 DEF Submit, ZAdd
  <2>2. ASSUME NEW c \in Consumers, moveDueTasks(c) PROVE A(z)
    <3>1. PICK items \in DueItems :
            /\ zset' = Moved(items)
            /\ list' = list \o [i \in DOMAIN items |-> items[i].member]
      BY <1>1, <2>2 DEF moveDueTasks
    <3> DEFINE moved == [i \in DOMAIN items |-> items[i].member]
    <3>2. items \in Seq(Due) /\ moved \in Seq(Queued) /\ list \in Seq(Queued)
      BY <1>1, DueItemsType DEF IInv, KeysOK
    <3>3. PICK i \in DOMAIN items : z = items[i]
      BY <1>1, <3>1 DEF Moved
    <3>4. z.score <= now
      BY <3>2, <3>3, LenProperties, ElementOfSeq DEF Due
    <3>5. i \in 1..Len(moved) /\ moved[i] = z.member /\ Len(list) \in Nat
      BY <3>2, <3>3, LenProperties
    <3> HIDE DEF moved
    <3>6. /\ list' = list \o moved
          /\ Len(list') = Len(list) + Len(moved)
          /\ list' \in Seq(Queued)
          /\ list'[Len(list) + i] = moved[i]
      <4>1. list' = list \o moved
        BY <3>1 DEF moved
      <4>2. i \in Nat /\ i >= 1 /\ i <= Len(moved) /\ Len(moved) \in Nat
        BY <3>2, <3>5, LenProperties
      <4>3. /\ Len(list) + i \in 1..(Len(list) + Len(moved))
            /\ ~(Len(list) + i <= Len(list))
            /\ (Len(list) + i) - Len(list) = i
        BY <3>5, <4>2
      <4> QED
        BY <3>2, <4>1, <4>3, ConcatProperties
    <3>7. Len(list) + i \in DOMAIN list'
      BY <3>2, <3>5, <3>6, LenProperties
    <3> QED
      BY <3>4, <3>5, <3>6, <3>7
  <2>3. ASSUME zset' = zset PROVE A(z)
    BY <1>1, <2>3
  <2> QED
    BY <1>1, <2>1, <2>2, <2>3
       DEF Next, Tick, ConsumeStep, CheckContext, BRPop, HandlerSucceeds,
           HandlerFails, Settle, Cancel, Crash, Restart, RequeueDeadLetter,
           ReadLetter, PushLetter, RemoveLetter, AbandonRequeue, vars
<1>2. IInv /\ [Next]_vars => [\A z \in zset \ zset' : A(z)]_vars
  BY <1>1
<1> QED
  BY <1>2, SpecIInv, PTL DEF Spec, DelayedUntilDue
-----------------------------------------------------------------------------
(* How often a sequence holds an element of a set.                         *)
Hits(s, T) == Cardinality({i \in DOMAIN s : s[i] \in T})

Hit(e, T) == IF e \in T THEN 1 ELSE 0

(* The hits of a concatenation are those of its parts.                     *)
LEMMA HitsConcat ==
  ASSUME NEW S, NEW T, NEW s \in Seq(S), NEW t \in Seq(S)
  PROVE  /\ Hits(s, T) \in Nat /\ Hits(t, T) \in Nat
         /\ Hits(s \o t, T) = Hits(s, T) + Hits(t, T)
<1> DEFINE n == Len(s)
           m == Len(t)
           A == {i \in 1..n : s[i] \in T}
           B == {j \in 1..m : t[j] \in T}
           C == {i \in (n + 1)..(n + m) : (s \o t)[i] \in T}
<1>1. n \in Nat /\ m \in Nat /\ DOMAIN s = 1..n /\ DOMAIN t = 1..m
  BY LenProperties
<1>2. /\ DOMAIN (s \o t) = 1..(n + m)
      /\ \A i \in 1..(n + m) : (s \o t)[i] = IF i <= n THEN s[i] ELSE t[i - n]
  BY ConcatProperties, LenProperties
<1> HIDE DEF n, m
<1>3. IsFiniteSet(A) /\ IsFiniteSet(B) /\ IsFiniteSet(C)
  <2>1. IsFiniteSet(1..n) /\ IsFiniteSet(1..m) /\ IsFiniteSet((n + 1)..(n + m))
    BY <1>1, FS_Interval
  <2>2. A \subseteq 1..n /\ B \subseteq 1..m /\ C \subseteq (n + 1)..(n + m)
    OBVIOUS
  <2> QED
    BY <2>1, <2>2, FS_Subset
<1>4. {i \in DOMAIN (s \o t) : (s \o t)[i] \in T} = A \cup C
  BY <1>1, <1>2
<1>5. A \cap C = {}
  BY <1>1
<1>6. Cardinality(C) = Cardinality(B)
  <2> DEFINE f == [j \in B |-> n + j]
  <2>1. \A j \in B : n + j \in C
    BY <1>1, <1>2
  <2>2. \A i \in C : i - n \in B /\ n + (i - n) = i
    BY <1>1, <1>2
  <2>3. f \in [B -> C] /\ \A i \in C : \E j \in B : f[j] = i
    BY <2>1, <2>2
  <2>4. \A j, k \in B : f[j] = f[k] => j = k
    BY <1>1
  <2>5. f \in Bijection(B, C)
    BY <2>3, <2>4 DEF Bijection, Injection, Surjection, IsInjective
  <2> HIDE DEF f
  <2>6. ExistsBijection(B, C)
    BY <2>5 DEF ExistsBijection
  <2> QED
    BY <1>3, <2>6, FS_Bijection
<1>7. /\ Cardinality(A) \in Nat /\ Cardinality(B) \in Nat
      /\ Cardinality(A \cup C) = Cardinality(A) + Cardinality(C)
  <2>1. Cardinality(A \cup C) = Cardinality(A) + Cardinality(C) - Cardinality(A \cap C)
    BY <1>3, FS_Union
  <2>2. /\ Cardinality(A) \in Nat /\ Cardinality(B) \in Nat
        /\ Cardinality(C) \in Nat
    BY <1>3, FS_CardinalityType
  <2>3. Cardinality(A \cap C) = 0
    BY <1>5, FS_EmptySet
  <2> HIDE DEF A, B, C
  <2> QED
    BY <2>1, <2>2, <2>3
<1>8. Hits(s, T) = Cardinality(A) /\ Hits(t, T) = Cardinality(B)
      /\ Hits(s \o t, T) = Cardinality(A \cup C)
  BY <1>1, <1>4 DEF Hits
<1> HIDE DEF A, B, C
<1> QED
  BY <1>6, <1>7, <1>8

(* The hits of a sequence of one.                                          *)
LEMMA HitsOne ==
  ASSUME NEW T, NEW e
  PROVE  Hits(<<e>>, T) = Hit(e, T)
<1>1. {i \in DOMAIN <<e>> : <<e>>[i] \in T} = IF e \in T THEN {1} ELSE {}
  OBVIOUS
<1> QED
  BY <1>1, FS_Singleton, FS_EmptySet DEF Hits, Hit

(* One element more at the back, at the front, and one less at the front. *)
LEMMA HitsAppend ==
  ASSUME NEW S, NEW T, NEW s \in Seq(S), NEW e \in S
  PROVE  Hits(Append(s, e), T) = Hits(s, T) + Hit(e, T)
<1>1. <<e>> \in Seq(S) /\ Append(s, e) = s \o <<e>>
  BY AppendIsConcat
<1>2. Hits(s \o <<e>>, T) = Hits(s, T) + Hits(<<e>>, T)
  BY <1>1, HitsConcat
<1> QED
  BY <1>1, <1>2, HitsOne

LEMMA HitsPrepend ==
  ASSUME NEW S, NEW T, NEW s \in Seq(S), NEW e \in S
  PROVE  Hits(<<e>> \o s, T) = Hits(s, T) + Hit(e, T)
<1>1. <<e>> \in Seq(S)
  OBVIOUS
<1>2. /\ Hits(<<e>> \o s, T) = Hits(<<e>>, T) + Hits(s, T)
      /\ Hits(s, T) \in Nat /\ Hits(<<e>>, T) \in Nat
  BY <1>1, HitsConcat
<1> QED
  BY <1>2, HitsOne

LEMMA HitsTail ==
  ASSUME NEW S, NEW T, NEW s \in Seq(S), s # <<>>
  PROVE  Hits(s, T) = Hits(Tail(s), T) + Hit(Head(s), T)
<1>1. Head(s) \in S /\ Tail(s) \in Seq(S)
  BY HeadTailProperties
<1>2. s = <<Head(s)>> \o Tail(s)
  <2>1. Len(s) \in Nat /\ 1 \in 1..Len(s) /\ Head(s) = s[1]
    BY EmptySeq
  <2>2. SubSeq(s, 1, Len(s)) = <<s[1]>> \o SubSeq(s, 1 + 1, Len(s))
    BY <2>1, SubSeqRecursiveFirst
  <2>3. SubSeq(s, 1, Len(s)) = s /\ Tail(s) = SubSeq(s, 2, Len(s))
    BY SubSeqFull, TailIsSubSeq
  <2> QED
    BY <2>1, <2>2, <2>3
<1>3. Hits(<<Head(s)>> \o Tail(s), T) = Hits(Tail(s), T) + Hit(Head(s), T)
  BY <1>1, HitsPrepend
<1>4. Hits(s, T) = Hits(<<Head(s)>> \o Tail(s), T)
  BY <1>2
<1> QED
  BY <1>3, <1>4

(* Removing one element takes its hit away.                                *)
LEMMA HitsRemoveAt ==
  ASSUME NEW S, NEW T, NEW s \in Seq(S), NEW i \in DOMAIN s
  PROVE  Hits(s, T) = Hits(RemoveAt(s, i), T) + Hit(s[i], T)
<1> DEFINE front == SubSeq(s, 1, i - 1)
           back == SubSeq(s, i + 1, Len(s))
<1>1. /\ Len(s) \in Nat /\ i \in 1..Len(s)
      /\ \A j \in 1..Len(s) : s[j] \in S
  BY LenProperties, ElementOfSeq
<1>2. front \in Seq(S) /\ back \in Seq(S) /\ <<s[i]>> \in Seq(S)
  BY <1>1, SubSeqProperties
<1>3. s = front \o (<<s[i]>> \o back)
  <2>1. SubSeq(s, i, Len(s)) = <<s[i]>> \o back
    <3>1. i \in 1..Len(s) /\ Len(s) \in i..Len(s)
      BY <1>1
    <3> QED
      BY <3>1, SubSeqRecursiveFirst
  <2>2. SubSeq(s, 1, i - 1) \o SubSeq(s, (i - 1) + 1, Len(s)) = SubSeq(s, 1, Len(s))
    <3>1. /\ 1 \in 1..Len(s) + 1 /\ i - 1 \in 1 - 1..Len(s)
          /\ Len(s) \in i - 1..Len(s)
      BY <1>1
    <3> QED
      BY <3>1, ConcatAdjacentSubSeq
  <2>3. (i - 1) + 1 = i
    BY <1>1
  <2> QED
    BY <2>1, <2>2, <2>3, SubSeqFull
<1>4. RemoveAt(s, i) = front \o back
  BY DEF RemoveAt
<1> HIDE DEF front, back
<1>5. <<s[i]>> \o back \in Seq(S)
  BY <1>2, ConcatProperties
<1>6. /\ Hits(front \o (<<s[i]>> \o back), T)
           = Hits(front, T) + Hits(<<s[i]>> \o back, T)
      /\ Hits(<<s[i]>> \o back, T) = Hits(<<s[i]>>, T) + Hits(back, T)
      /\ Hits(front \o back, T) = Hits(front, T) + Hits(back, T)
      /\ Hits(front, T) \in Nat /\ Hits(back, T) \in Nat /\ Hits(<<s[i]>>, T) \in Nat
  BY <1>2, <1>5, HitsConcat
<1>7. /\ Hits(s, T) = Hits(front \o (<<s[i]>> \o back), T)
      /\ Hits(RemoveAt(s, i), T) = Hits(front \o back, T)
  BY <1>3, <1>4
<1> QED
  BY <1>6, <1>7, HitsOne

-----------------------------------------------------------------------------
(* The terms of the ledger, as functions of the state they count in.       *)
Is(q, p) == IF q = p THEN 1 ELSE 0

OfTask(p) == {v \in Queued : v.data = p}

OfLetter(p) == {l \in Spent : l.payload = p}

LettersIn(s, p) == Cardinality({i \in DOMAIN s : s[i].payload = p})

Delayed(Z, p) == {z \in Z : z.member.data = p}

Hands(h) == {c \in Consumers : h[c].pc \in Holding}

HandsWith(h, p) ==
  {c \in Consumers : h[c].pc \in Holding /\ h[c].task.data = p}

HeldBy(h, c, p) == IF h[c].pc \in Holding THEN Is(h[c].task.data, p) ELSE 0

(* Counting one more on a history counter.                                 *)
LEMMA PlusCount ==
  ASSUME NEW f \in [Payloads -> Nat], NEW q \in Payloads, NEW p \in Payloads
  PROVE  Plus(f, q)[p] = f[p] + Is(q, p)
BY DEF Plus, Is

(* The count of a payload in the list, as the list grows and shrinks.      *)
LEMMA ListCount ==
  ASSUME NEW s \in Seq(Queued), NEW p \in Payloads
  PROVE  /\ CountIn(s, p) \in Nat
         /\ \A v \in Queued : CountIn(Append(s, v), p) = CountIn(s, p) + Is(v.data, p)
         /\ s # <<>> => CountIn(s, p) = CountIn(Tail(s), p) + Is(Head(s).data, p)
         /\ \A t \in Seq(Queued) : CountIn(s \o t, p) = CountIn(s, p) + CountIn(t, p)
<1>1. ASSUME NEW t \in Seq(Queued) PROVE CountIn(t, p) = Hits(t, OfTask(p))
  <2>1. \A i \in DOMAIN t : t[i] \in Queued
    BY LenProperties, ElementOfSeq
  <2>2. {i \in DOMAIN t : t[i].data = p} = {i \in DOMAIN t : t[i] \in OfTask(p)}
    BY <2>1 DEF OfTask
  <2> QED
    BY <2>2 DEF CountIn, Hits
<1>2. \A v \in Queued : Hit(v, OfTask(p)) = Is(v.data, p)
  BY DEF Hit, Is, OfTask
<1>3. ASSUME NEW v \in Queued
      PROVE  CountIn(Append(s, v), p) = CountIn(s, p) + Is(v.data, p)
  <2>1. Append(s, v) \in Seq(Queued)
    BY AppendProperties
  <2>2. Hits(Append(s, v), OfTask(p)) = Hits(s, OfTask(p)) + Hit(v, OfTask(p))
    BY HitsAppend
  <2> QED
    BY <1>1, <1>2, <2>1, <2>2
<1>4. ASSUME s # <<>>
      PROVE  CountIn(s, p) = CountIn(Tail(s), p) + Is(Head(s).data, p)
  <2>1. Tail(s) \in Seq(Queued) /\ Head(s) \in Queued
    BY <1>4, HeadTailProperties
  <2>2. Hits(s, OfTask(p)) = Hits(Tail(s), OfTask(p)) + Hit(Head(s), OfTask(p))
    BY <1>4, HitsTail
  <2> QED
    BY <1>1, <1>2, <2>1, <2>2
<1>5. ASSUME NEW t \in Seq(Queued)
      PROVE  CountIn(s \o t, p) = CountIn(s, p) + CountIn(t, p)
  <2>1. s \o t \in Seq(Queued)
    BY ConcatProperties
  <2>2. Hits(s \o t, OfTask(p)) = Hits(s, OfTask(p)) + Hits(t, OfTask(p))
    BY HitsConcat
  <2> QED
    BY <1>1, <2>1, <2>2
<1>6. CountIn(s, p) \in Nat
  BY <1>1, HitsConcat
<1> QED
  BY <1>3, <1>4, <1>5, <1>6

(* The count of a payload among the dead letters.                          *)
LEMMA LetterCount ==
  ASSUME NEW s \in Seq(Spent), NEW p \in Payloads
  PROVE  /\ LettersIn(s, p) \in Nat
         /\ \A l \in Spent : LettersIn(<<l>> \o s, p) = LettersIn(s, p) + Is(l.payload, p)
         /\ \A i \in DOMAIN s :
              LettersIn(s, p) = LettersIn(RemoveAt(s, i), p) + Is(s[i].payload, p)
<1>1. ASSUME NEW t \in Seq(Spent) PROVE LettersIn(t, p) = Hits(t, OfLetter(p))
  <2>1. \A i \in DOMAIN t : t[i] \in Spent
    BY LenProperties, ElementOfSeq
  <2>2. {i \in DOMAIN t : t[i].payload = p} = {i \in DOMAIN t : t[i] \in OfLetter(p)}
    BY <2>1 DEF OfLetter
  <2> QED
    BY <2>2 DEF LettersIn, Hits
<1>2. \A l \in Spent : Hit(l, OfLetter(p)) = Is(l.payload, p)
  BY DEF Hit, Is, OfLetter
<1>3. ASSUME NEW l \in Spent
      PROVE  LettersIn(<<l>> \o s, p) = LettersIn(s, p) + Is(l.payload, p)
  <2>1. <<l>> \in Seq(Spent)
    OBVIOUS
  <2>2. <<l>> \o s \in Seq(Spent)
    BY <2>1, ConcatProperties
  <2>3. Hits(<<l>> \o s, OfLetter(p)) = Hits(s, OfLetter(p)) + Hit(l, OfLetter(p))
    BY HitsPrepend
  <2> QED
    BY <1>1, <1>2, <2>2, <2>3
<1>4. ASSUME NEW i \in DOMAIN s
      PROVE  LettersIn(s, p) = LettersIn(RemoveAt(s, i), p) + Is(s[i].payload, p)
  <2>1. RemoveAt(s, i) \in Seq(Spent) /\ s[i] \in Spent
    BY RemoveAtType, LenProperties, ElementOfSeq
  <2>2. Hits(s, OfLetter(p)) = Hits(RemoveAt(s, i), OfLetter(p)) + Hit(s[i], OfLetter(p))
    BY HitsRemoveAt
  <2> QED
    BY <1>1, <1>2, <2>1, <2>2
<1>5. LettersIn(s, p) \in Nat
  BY <1>1, HitsConcat
<1> QED
  BY <1>3, <1>4, <1>5

(* One consumer taking, keeping or giving up a task moves the count in     *)
(* hand by what that consumer held before and holds after.                 *)
LEMMA HandCount ==
  ASSUME NEW h, NEW k, NEW c \in Consumers, NEW p \in Payloads,
         IsFiniteSet(Hands(h)),
         \A d \in Consumers : d # c => k[d] = h[d]
  PROVE  /\ IsFiniteSet(Hands(k))
         /\ Cardinality(HandsWith(h, p)) \in Nat
         /\ Cardinality(HandsWith(k, p)) \in Nat
         /\ Cardinality(HandsWith(k, p)) + HeldBy(h, c, p)
              = Cardinality(HandsWith(h, p)) + HeldBy(k, c, p)
<1> DEFINE H == HandsWith(h, p)
           K == HandsWith(k, p)
<1>1. Hands(k) \subseteq Hands(h) \cup {c}
  BY DEF Hands
<1>2. IsFiniteSet(Hands(k))
  BY <1>1, FS_AddElement, FS_Subset
<1>3. H \subseteq Hands(h) /\ K \subseteq Hands(k)
  BY DEF HandsWith, Hands
<1>4. IsFiniteSet(H) /\ IsFiniteSet(K)
  BY <1>2, <1>3, FS_Subset
<1>5. H \ {c} = K \ {c}
  BY DEF HandsWith, Hands
<1>6. /\ c \in H <=> h[c].pc \in Holding /\ h[c].task.data = p
      /\ c \in K <=> k[c].pc \in Holding /\ k[c].task.data = p
  BY DEF HandsWith, Hands
<1>7. /\ HeldBy(h, c, p) = IF c \in H THEN 1 ELSE 0
      /\ HeldBy(k, c, p) = IF c \in K THEN 1 ELSE 0
  BY <1>6 DEF HeldBy, Is
<1> HIDE DEF H, K
<1>8. /\ Cardinality(H) \in Nat /\ Cardinality(K) \in Nat
      /\ Cardinality(H \ {c}) = IF c \in H THEN Cardinality(H) - 1 ELSE Cardinality(H)
      /\ Cardinality(K \ {c}) = IF c \in K THEN Cardinality(K) - 1 ELSE Cardinality(K)
  BY <1>4, FS_CardinalityType, FS_RemoveElement
<1>9. Cardinality(H \ {c}) = Cardinality(K \ {c})
  BY <1>5
<1>10. Cardinality(K) + HeldBy(h, c, p) = Cardinality(H) + HeldBy(k, c, p)
  BY <1>7, <1>8, <1>9
<1> QED
  BY <1>2, <1>8, <1>10 DEF H, K

(* What the sorted set holds, as ZADD and ZREM change it.                  *)
LEMMA DelayedCount ==
  ASSUME NEW Z, IsFiniteSet(Z), Z \subseteq FirstAttempt,
         \A y, z \in Z : y.member = z.member => y = z,
         NEW q \in Payloads, NEW n \in Nat, NEW p \in Payloads
  PROVE  LET E == [member |-> Env(q, 0), score |-> n]
             Y == {z \in Z : z.member # Env(q, 0)} \cup {E}
         IN /\ Cardinality(Delayed(Z, p)) \in Nat
            /\ \A y, z \in Y : y.member = z.member => y = z
            /\ Cardinality(Delayed(Y, p)) =
                 IF \E z \in Z : z.member = Env(q, 0)
                 THEN Cardinality(Delayed(Z, p))
                 ELSE Cardinality(Delayed(Z, p)) + Is(q, p)
<1> DEFINE E == [member |-> Env(q, 0), score |-> n]
           Keep == {z \in Z : z.member # Env(q, 0)}
           Y == Keep \cup {E}
           D == Delayed(Z, p)
           K == Delayed(Keep, p)
<1>1. E.member = Env(q, 0) /\ E.member.data = q
  BY DEF Env
<1>2. \A y, z \in Y : y.member = z.member => y = z
  BY <1>1
<1>3. IsFiniteSet(Z) /\ Keep \subseteq Z /\ D \subseteq Z /\ K \subseteq D
  BY DEF Delayed
<1>4. /\ IsFiniteSet(D) /\ IsFiniteSet(K)
      /\ Cardinality(D) \in Nat /\ Cardinality(K) \in Nat
  BY <1>3, FS_Subset, FS_CardinalityType
<1>5. E \notin K
  BY <1>1 DEF Delayed
<1>6. Cardinality(Delayed(Y, p)) = Cardinality(K) + Is(q, p)
  <2>1. CASE q = p
    <3>1. Delayed(Y, p) = K \cup {E}
      BY <1>1, <2>1 DEF Delayed
    <3> QED
      BY <1>4, <1>5, <2>1, <3>1, FS_AddElement DEF Is
  <2>2. CASE q # p
    <3>1. Delayed(Y, p) = K
      BY <1>1, <2>2 DEF Delayed
    <3> QED
      BY <1>4, <2>2, <3>1 DEF Is
  <2> QED
    BY <2>1, <2>2
<1>7. ASSUME NEW z \in Z, z.member = Env(q, 0)
      PROVE  Cardinality(D) = Cardinality(K) + Is(q, p)
  <2>1. z.member.data = q
    BY <1>7 DEF Env
  <2>2. \A y \in Z : y.member = Env(q, 0) => y = z
    BY <1>7
  <2>3. CASE q = p
    <3>1. D = K \cup {z} /\ z \notin K
      BY <1>7, <2>1, <2>2, <2>3 DEF Delayed
    <3> QED
      BY <1>4, <2>3, <3>1, FS_AddElement DEF Is
  <2>4. CASE q # p
    <3>1. D = K
      BY <1>7, <2>1, <2>2, <2>4 DEF Delayed
    <3> QED
      BY <1>4, <2>4, <3>1 DEF Is
  <2> QED
    BY <2>3, <2>4
<1>8. ASSUME ~ \E z \in Z : z.member = Env(q, 0) PROVE D = K
  BY <1>8 DEF Delayed
<1> QED
  BY <1>2, <1>4, <1>6, <1>7, <1>8

(* The script moves as many tasks of each payload to the list as it takes  *)
(* from the sorted set: the items are distinct, each is in the set, and    *)
(* equal members do not occur there.                                       *)
LEMMA MoveCount ==
  ASSUME KeysOK, NEW items \in DueItems, NEW p \in Payloads
  PROVE  Cardinality(Delayed(zset, p)) =
           Cardinality(Delayed(Moved(items), p))
             + CountIn([i \in DOMAIN items |-> items[i].member], p)
<1> DEFINE m == [i \in DOMAIN items |-> items[i].member]
           R == {items[i] : i \in DOMAIN items}
           I == {i \in DOMAIN m : m[i].data = p}
           D == Delayed(zset, p)
<1>1. /\ DOMAIN items = 1..Len(items) /\ Len(items) \in Nat
      /\ \A i \in DOMAIN items : items[i] \in zset
  BY DueItemsType, LenProperties, ElementOfSeq DEF Due
<1>2. \A i, j \in DOMAIN items : items[i] = items[j] => i = j
  <2> DEFINE n == Cardinality(Due)
             k == IF n < MoveLimit THEN n ELSE MoveLimit
  <2>1. n \in Nat
    BY FS_Subset, FS_CardinalityType DEF KeysOK, Due
  <2>2. PICK s \in [1..n -> Due] :
          /\ items = SubSeq(s, 1, k)
          /\ \A i, j \in 1..n : i < j => s[i] # s[j]
    BY DEF DueItems
  <2>3. k \in Nat /\ k <= n
    BY <2>1, RedQueueAssumption
  <2> HIDE DEF n, k
  <2>4. DOMAIN items = 1..k /\ \A i \in 1..k : items[i] = s[i]
    BY <2>1, <2>2, <2>3
  <2> QED
    BY <2>1, <2>2, <2>3, <2>4
<1>3. I \subseteq 1..Len(items) /\ IsFiniteSet(1..Len(items))
  BY <1>1, FS_Interval
<1>4. IsFiniteSet(I)
  BY <1>3, FS_Subset
<1>5. Cardinality(D \cap R) = Cardinality(I)
  <2> DEFINE f == [i \in I |-> items[i]]
  <2>1. \A i \in I : items[i] \in D \cap R
    BY <1>1 DEF Delayed
  <2>2. \A z \in D \cap R : \E i \in I : items[i] = z
    BY DEF Delayed
  <2>3. I \subseteq DOMAIN items
    OBVIOUS
  <2>4. f \in [I -> D \cap R] /\ \A z \in D \cap R : \E i \in I : f[i] = z
    BY <2>1, <2>2
  <2>5. \A i, j \in I : f[i] = f[j] => i = j
    BY <1>2, <2>3
  <2>6. f \in Bijection(I, D \cap R)
    BY <2>4, <2>5 DEF Bijection, Injection, Surjection, IsInjective
  <2> HIDE DEF f
  <2>7. ExistsBijection(I, D \cap R)
    BY <2>6 DEF ExistsBijection
  <2> QED
    BY <1>4, <2>7, FS_Bijection
<1>6. Delayed(Moved(items), p) = D \ R
  BY DEF Delayed, Moved
<1>7. IsFiniteSet(D)
  BY FS_Subset DEF Delayed, KeysOK
<1>8. /\ Cardinality(D) \in Nat /\ Cardinality(I) \in Nat
      /\ Cardinality(D \ R) = Cardinality(D) - Cardinality(D \cap R)
  BY <1>4, <1>7, FS_CardinalityType, FS_Difference
<1>9. CountIn(m, p) = Cardinality(I)
  BY DEF CountIn
<1>10. Cardinality(D) = Cardinality(D \ R) + Cardinality(I)
  <2> HIDE DEF D, I, R
  <2> QED
    BY <1>5, <1>8
<1> QED
  BY <1>6, <1>9, <1>10

-----------------------------------------------------------------------------
(* TaskLedger is not inductive: a second member equal to one that is there *)
(* would survive ZADD and ZREM, and infinitely many hands cannot be        *)
(* counted.                                                                *)
UniqueMembers == \A y, z \in zset : y.member = z.member => y = z

LedgerInv ==
  /\ UniqueMembers
  /\ IsFiniteSet(Hands(consumer))
  /\ TaskLedger

Numbers(p) ==
  /\ accepted[p] \in Nat /\ done[p] \in Nat /\ lost[p] \in Nat
  /\ merged[p] \in Nat /\ copied[p] \in Nat /\ removed[p] \in Nat
  /\ CountIn(list, p) \in Nat /\ LettersIn(dead, p) \in Nat
  /\ Cardinality(Delayed(zset, p)) \in Nat
  /\ Cardinality(HandsWith(consumer, p)) \in Nat

(* The ledger of one payload: in is what came in, by Submit and by         *)
(* PushLetter; the rest is where it can be.                                *)
Books(in, again, fin, inList, inZset, inHand, inDead, out, over, gone) ==
  in + again = fin + inList + inZset + inHand + inDead + out + over + gone

Balanced(p) ==
  Books(accepted[p], copied[p], done[p], CountIn(list, p),
        Cardinality(Delayed(zset, p)), Cardinality(HandsWith(consumer, p)),
        LettersIn(dead, p), lost[p], merged[p], removed[p])

(* The entries that keep the books: a task goes to the list, to the sorted *)
(* set or into an equal member; from the sorted set to the list; back from *)
(* the dead letters; a dead letter is taken away; a consumer moves a task. *)
LEMMA BooksSubmit ==
  ASSUME NEW a \in Nat, NEW b \in Nat, NEW d \in Nat, NEW l \in Nat, NEW z \in Nat,
         NEW h \in Nat, NEW x \in Nat, NEW o \in Nat, NEW m \in Nat, NEW r \in Nat,
         NEW k \in Nat, Books(a, b, d, l, z, h, x, o, m, r)
  PROVE  /\ Books(a + k, b, d, l + k, z, h, x, o, m, r)
         /\ Books(a + k, b, d, l, z + k, h, x, o, m, r)
         /\ Books(a + k, b, d, l, z, h, x, o, m + k, r)
         /\ Books(a, b + k, d, l + k, z, h, x, o, m, r)
BY DEF Books

LEMMA BooksMove ==
  ASSUME NEW a \in Nat, NEW b \in Nat, NEW d \in Nat, NEW l \in Nat, NEW z \in Nat,
         NEW h \in Nat, NEW x \in Nat, NEW o \in Nat, NEW m \in Nat, NEW r \in Nat,
         NEW l2 \in Nat, NEW z2 \in Nat, l2 + z2 = l + z,
         Books(a, b, d, l, z, h, x, o, m, r)
  PROVE  Books(a, b, d, l2, z2, h, x, o, m, r)
BY DEF Books

LEMMA BooksRemove ==
  ASSUME NEW a \in Nat, NEW b \in Nat, NEW d \in Nat, NEW l \in Nat, NEW z \in Nat,
         NEW h \in Nat, NEW x \in Nat, NEW o \in Nat, NEW m \in Nat, NEW r \in Nat,
         NEW k \in Nat, Books(a, b, d, l, z, h, x + k, o, m, r)
  PROVE  Books(a, b, d, l, z, h, x, o, m, r + k)
BY DEF Books

(* Every term of the ledger is a number, and they balance.                 *)
LEMMA LedgerTerms ==
  ASSUME IInv, LedgerInv, NEW p \in Payloads
  PROVE  Numbers(p) /\ Balanced(p)
<1>1. CountIn(list, p) \in Nat /\ LettersIn(dead, p) \in Nat
  BY ListCount, LetterCount DEF IInv, KeysOK
<1>2. Delayed(zset, p) \subseteq zset
  BY DEF Delayed
<1>3. HandsWith(consumer, p) \subseteq Hands(consumer)
  BY DEF HandsWith, Hands
<1>4. /\ Cardinality(Delayed(zset, p)) \in Nat
      /\ Cardinality(HandsWith(consumer, p)) \in Nat
  BY <1>2, <1>3, FS_Subset, FS_CardinalityType DEF IInv, KeysOK, LedgerInv
<1>5. /\ accepted[p] \in Nat /\ done[p] \in Nat /\ lost[p] \in Nat
      /\ merged[p] \in Nat /\ copied[p] \in Nat /\ removed[p] \in Nat
  BY DEF IInv, HistoryOK
<1>6. /\ InList(p) = CountIn(list, p) /\ InDead(p) = LettersIn(dead, p)
      /\ InZset(p) = Cardinality(Delayed(zset, p))
      /\ InHand(p) = Cardinality(HandsWith(consumer, p))
  BY DEF InList, InDead, InZset, InHand, LettersIn, Delayed, HandsWith
<1> QED
  BY <1>1, <1>4, <1>5, <1>6 DEF LedgerInv, TaskLedger, Numbers, Balanced, Books

(* The ledger after a step, in the same terms.                             *)
LEMMA LedgerAfter ==
  ASSUME UniqueMembers', IsFiniteSet(Hands(consumer')),
         \A p \in Payloads :
           Books(accepted'[p], copied'[p], done'[p], CountIn(list', p),
                 Cardinality(Delayed(zset', p)),
                 Cardinality(HandsWith(consumer', p)),
                 LettersIn(dead', p), lost'[p], merged'[p], removed'[p])
  PROVE  LedgerInv'
<1>1. ASSUME NEW p \in Payloads
      PROVE  /\ InList(p)' = CountIn(list', p) /\ InDead(p)' = LettersIn(dead', p)
             /\ InZset(p)' = Cardinality(Delayed(zset', p))
             /\ InHand(p)' = Cardinality(HandsWith(consumer', p))
  BY DEF InList, InDead, InZset, InHand, LettersIn, Delayed, HandsWith, CountIn
<1>2. TaskLedger'
  BY <1>1 DEF TaskLedger, Books
<1> QED
  BY <1>2 DEF LedgerInv, Hands

(* What a step of consumer c leaves alone, and what it must conserve.      *)
OnlyOf(c) ==
  /\ \A d \in Consumers : d # c => consumer'[d] = consumer[d]
  /\ UNCHANGED <<zset, accepted, merged, copied, removed>>

Conserves(c) ==
  \A p \in Payloads :
    done'[p] + CountIn(list', p) + LettersIn(dead', p) + lost'[p]
        + HeldBy(consumer', c, p)
      = done[p] + CountIn(list, p) + LettersIn(dead, p) + lost[p]
        + HeldBy(consumer, c, p)

(* A step of one consumer keeps the ledger when what it finishes, pushes,  *)
(* buries or drops is what it popped or held.                              *)
LEMMA ConsumerLedger ==
  ASSUME IInv, LedgerInv, IInv', NEW c \in Consumers,
         OnlyOf(c), Conserves(c)
  PROVE  LedgerInv'
<1>1. UniqueMembers'
  BY DEF LedgerInv, UniqueMembers, OnlyOf
<1>2. IsFiniteSet(Hands(consumer))
  BY DEF LedgerInv
<1>3. ASSUME NEW p \in Payloads
      PROVE  /\ IsFiniteSet(Hands(consumer'))
             /\ Cardinality(HandsWith(consumer', p)) \in Nat
             /\ Cardinality(HandsWith(consumer', p)) + HeldBy(consumer, c, p)
                  = Cardinality(HandsWith(consumer, p)) + HeldBy(consumer', c, p)
  BY <1>2, HandCount DEF OnlyOf
<1>4. IsFiniteSet(Hands(consumer'))
  <2>1. Hands(consumer') \subseteq Hands(consumer) \cup {c}
    BY DEF Hands, OnlyOf
  <2> QED
    BY <1>2, <2>1, FS_AddElement, FS_Subset
<1>5. ASSUME NEW p \in Payloads
      PROVE  Books(accepted'[p], copied'[p], done'[p], CountIn(list', p),
                   Cardinality(Delayed(zset', p)),
                   Cardinality(HandsWith(consumer', p)),
                   LettersIn(dead', p), lost'[p], merged'[p], removed'[p])
  <2>1. /\ CountIn(list', p) \in Nat /\ LettersIn(dead', p) \in Nat
        /\ done'[p] \in Nat /\ lost'[p] \in Nat
    BY ListCount, LetterCount DEF IInv, KeysOK, HistoryOK
  <2>2. HeldBy(consumer, c, p) \in Nat /\ HeldBy(consumer', c, p) \in Nat
    BY DEF HeldBy, Is
  <2>3. Numbers(p) /\ Balanced(p)
    BY LedgerTerms
  <2>4. /\ accepted'[p] = accepted[p] /\ copied'[p] = copied[p]
        /\ merged'[p] = merged[p] /\ removed'[p] = removed[p]
        /\ Cardinality(Delayed(zset', p)) = Cardinality(Delayed(zset, p))
    BY DEF OnlyOf
  <2>5. done'[p] + CountIn(list', p) + LettersIn(dead', p) + lost'[p]
            + HeldBy(consumer', c, p)
          = done[p] + CountIn(list, p) + LettersIn(dead, p) + lost[p]
            + HeldBy(consumer, c, p)
    BY DEF Conserves
  <2>6. Cardinality(HandsWith(consumer', p)) \in Nat
        /\ Cardinality(HandsWith(consumer', p)) + HeldBy(consumer, c, p)
             = Cardinality(HandsWith(consumer, p)) + HeldBy(consumer', c, p)
    BY <1>3
  <2> QED
    BY <2>1, <2>2, <2>3, <2>4, <2>5, <2>6 DEF Numbers, Balanced, Books
<1> QED
  BY <1>1, <1>4, <1>5, LedgerAfter

(* The counts a step of one consumer starts from and ends with.            *)
LEMMA TermsOfStep ==
  ASSUME IInv, IInv', NEW c \in Consumers, NEW p \in Payloads
  PROVE  /\ done[p] \in Nat /\ lost[p] \in Nat
         /\ CountIn(list, p) \in Nat /\ LettersIn(dead, p) \in Nat
         /\ CountIn(list', p) \in Nat /\ LettersIn(dead', p) \in Nat
         /\ HeldBy(consumer, c, p) \in Nat /\ HeldBy(consumer', c, p) \in Nat
<1>1. /\ list \in Seq(Queued) /\ list' \in Seq(Queued)
      /\ dead \in Seq(Spent) /\ dead' \in Seq(Spent)
  BY DEF IInv, KeysOK
<1>2. HeldBy(consumer, c, p) \in Nat /\ HeldBy(consumer', c, p) \in Nat
  BY DEF HeldBy, Is
<1> QED
  BY <1>1, <1>2, ListCount, LetterCount DEF IInv, HistoryOK

LEMMA HandlerLedger ==
  ASSUME IInv, LedgerInv, IInv', NEW c \in Consumers,
         CheckContext(c) \/ HandlerSucceeds(c) \/ HandlerFails(c) \/ Restart(c)
  PROVE  LedgerInv'
<1>1. consumer \in [Consumers -> [pc : Running \cup {"stopped", "failed"},
                                  task : Attempt \cup {NoTask}]]
  BY DEF IInv, ConsumersOK
<1>2. OnlyOf(c) /\ list' = list /\ dead' = dead /\ lost' = lost
  BY <1>1 DEF OnlyOf, CheckContext, HandlerSucceeds, HandlerFails, Restart,
              GoTo, Drop, history
<1>3. CASE HandlerSucceeds(c)
  <2>1. /\ consumer[c].pc = "handle" /\ consumer'[c].pc = "loop"
        /\ done' = Plus(done, consumer[c].task.data)
    BY <1>1, <1>3 DEF HandlerSucceeds, At, Drop
  <2>2. consumer[c].task.data \in Payloads
    BY <2>1, HeldTask DEF Holding
  <2>3. ASSUME NEW p \in Payloads
        PROVE  /\ done'[p] = done[p] + HeldBy(consumer, c, p)
               /\ HeldBy(consumer', c, p) = 0
    BY <2>1, <2>2, PlusCount DEF IInv, HistoryOK, HeldBy, Holding
  <2>4. Conserves(c)
    BY <1>2, <2>3, TermsOfStep DEF Conserves
  <2> QED
    BY <1>2, <2>4, ConsumerLedger
<1>4. CASE CheckContext(c) \/ HandlerFails(c) \/ Restart(c)
  <2>1. /\ done' = done
        /\ \/ consumer[c].pc \notin Holding /\ consumer'[c].pc \notin Holding
           \/ /\ consumer[c].pc \in Holding /\ consumer'[c].pc \in Holding
              /\ consumer'[c].task = consumer[c].task
    BY <1>1, <1>4 DEF CheckContext, HandlerFails, Restart, At, GoTo, Drop,
                      history, Holding
  <2>2. \A p \in Payloads : HeldBy(consumer', c, p) = HeldBy(consumer, c, p)
    BY <2>1 DEF HeldBy
  <2>3. Conserves(c)
    BY <1>2, <2>1, <2>2 DEF Conserves
  <2> QED
    BY <1>2, <2>3, ConsumerLedger
<1> QED
  BY <1>3, <1>4

LEMMA BRPopLedger ==
  ASSUME IInv, LedgerInv, IInv', NEW c \in Consumers, BRPop(c)
  PROVE  LedgerInv'
<1>1. consumer \in [Consumers -> [pc : Running \cup {"stopped", "failed"},
                                  task : Attempt \cup {NoTask}]]
  BY DEF IInv, ConsumersOK
<1>2. OnlyOf(c) /\ dead' = dead /\ done' = done
  BY <1>1 DEF OnlyOf, BRPop, GoTo
<1>3. list # <<>> => /\ Head(list) \in Queued
                     /\ Head(list).data \in Payloads
                     /\ decodeEnvelope(Head(list)).data = Head(list).data
  BY HeadTailProperties, DecodedAttempt DEF IInv, KeysOK, decodeEnvelope, Env
<1>4. \A p \in Payloads : HeldBy(consumer, c, p) = 0
  BY DEF BRPop, At, HeldBy, Holding
<1>5. \A p \in Payloads :
        list # <<>> => CountIn(list, p) = CountIn(Tail(list), p) + Is(Head(list).data, p)
  BY ListCount DEF IInv, KeysOK
<1>6. \/ /\ list # <<>> /\ list' = Tail(list) /\ lost' = lost
         /\ consumer'[c] = [pc |-> "handle", task |-> decodeEnvelope(Head(list))]
      \/ /\ list' = list /\ lost' = lost
         /\ consumer'[c].pc \in {"stopped", "loop", "failed"}
      \/ /\ list # <<>> /\ list' = Tail(list)
         /\ lost' = Plus(lost, Head(list).data)
         /\ consumer'[c].pc = "failed"
  BY <1>1 DEF BRPop, GoTo
<1>7. ASSUME NEW p \in Payloads
      PROVE  CountIn(list, p) + lost[p]
               = CountIn(list', p) + lost'[p] + HeldBy(consumer', c, p)
  <2>1. /\ CountIn(list, p) \in Nat /\ CountIn(list', p) \in Nat
        /\ lost[p] \in Nat
    BY TermsOfStep
  <2>2. CASE /\ list # <<>> /\ list' = Tail(list) /\ lost' = lost
             /\ consumer'[c] = [pc |-> "handle", task |-> decodeEnvelope(Head(list))]
    <3>1. HeldBy(consumer', c, p) = Is(Head(list).data, p)
      BY <1>3, <2>2 DEF HeldBy, Holding
    <3>2. Is(Head(list).data, p) \in Nat
      BY DEF Is
    <3> QED
      BY <1>5, <2>1, <2>2, <3>1, <3>2
  <2>3. CASE /\ list' = list /\ lost' = lost
             /\ consumer'[c].pc \in {"stopped", "loop", "failed"}
    <3>1. HeldBy(consumer', c, p) = 0
      BY <2>3 DEF HeldBy, Holding
    <3> QED
      BY <2>1, <2>3, <3>1
  <2>4. CASE /\ list # <<>> /\ list' = Tail(list)
             /\ lost' = Plus(lost, Head(list).data)
             /\ consumer'[c].pc = "failed"
    <3>1. HeldBy(consumer', c, p) = 0
      BY <2>4 DEF HeldBy, Holding
    <3>2. lost'[p] = lost[p] + Is(Head(list).data, p)
      BY <1>3, <2>4, PlusCount DEF IInv, HistoryOK
    <3>3. Is(Head(list).data, p) \in Nat
      BY DEF Is
    <3> QED
      BY <1>5, <2>1, <2>4, <3>1, <3>2, <3>3
  <2> QED
    BY <1>6, <2>2, <2>3, <2>4
<1>8. Conserves(c)
  <2> SUFFICES ASSUME NEW p \in Payloads
      PROVE  done'[p] + CountIn(list', p) + LettersIn(dead', p) + lost'[p]
               + HeldBy(consumer', c, p)
             = done[p] + CountIn(list, p) + LettersIn(dead, p) + lost[p]
               + HeldBy(consumer, c, p)
    BY DEF Conserves
  <2>1. lost'[p] \in Nat
    BY DEF IInv, HistoryOK
  <2>2. /\ done[p] \in Nat /\ lost[p] \in Nat
        /\ CountIn(list, p) \in Nat /\ LettersIn(dead, p) \in Nat
        /\ CountIn(list', p) \in Nat /\ HeldBy(consumer', c, p) \in Nat
    BY TermsOfStep
  <2>3. CountIn(list, p) + lost[p]
          = CountIn(list', p) + lost'[p] + HeldBy(consumer', c, p)
    BY <1>7
  <2>4. /\ done'[p] = done[p] /\ LettersIn(dead', p) = LettersIn(dead, p)
        /\ HeldBy(consumer, c, p) = 0
    BY <1>2, <1>4
  <2> QED
    BY <2>1, <2>2, <2>3, <2>4
<1> QED
  BY <1>2, <1>8, ConsumerLedger

LEMMA SettleLedger ==
  ASSUME IInv, LedgerInv, IInv', NEW c \in Consumers, Settle(c) \/ Crash(c)
  PROVE  LedgerInv'
<1> DEFINE t == consumer[c].task
<1>1. consumer \in [Consumers -> [pc : Running \cup {"stopped", "failed"},
                                  task : Attempt \cup {NoTask}]]
  BY DEF IInv, ConsumersOK
<1>2. OnlyOf(c) /\ done' = done /\ consumer'[c].pc \in {"loop", "failed"}
  BY <1>1 DEF OnlyOf, Settle, Crash, Drop, Replies
<1>3. \A p \in Payloads : HeldBy(consumer', c, p) = 0
  BY <1>2 DEF HeldBy, Holding
<1>4. consumer[c].pc \in Holding =>
        /\ t.data \in Payloads /\ t.retries \in Nat
        /\ \A p \in Payloads : HeldBy(consumer, c, p) = Is(t.data, p)
  BY HeldTask DEF HeldBy
<1>5. ASSUME NEW p \in Payloads
      PROVE  CountIn(list', p) + LettersIn(dead', p) + lost'[p]
               = CountIn(list, p) + LettersIn(dead, p) + lost[p]
                   + HeldBy(consumer, c, p)
  <2>1. /\ CountIn(list, p) \in Nat /\ LettersIn(dead, p) \in Nat
        /\ lost[p] \in Nat /\ Is(t.data, p) \in Nat
    BY TermsOfStep DEF Is
  <2>2. CASE Settle(c)
    <3>1. consumer[c].pc \in Holding
      BY <2>2 DEF Settle, At, Holding
    <3>2. CASE requeue(c) /\ lost' = lost
      <4>1. Env(t.data, nextRetries(t)) \in Attempt
        BY <1>4, <3>1, <3>2, RedQueueAssumption
           DEF requeue, Exhausted, nextRetries, Env, Attempt, Envelope, Within
      <4>2. /\ list' = Append(list, Env(t.data, nextRetries(t))) /\ dead' = dead
            /\ Env(t.data, nextRetries(t)) \in Queued
            /\ Env(t.data, nextRetries(t)).data = t.data
        BY <3>2, <4>1, AttemptQueued DEF requeue, LPush, Env
      <4>3. CountIn(list', p) = CountIn(list, p) + Is(t.data, p)
        BY <4>2, ListCount DEF IInv, KeysOK
      <4> QED
        BY <1>4, <2>1, <3>1, <3>2, <4>2, <4>3
    <3>3. CASE pushDead(c) /\ lost' = lost
      <4> DEFINE l == [payload |-> t.data, retries |-> t.retries, failedAt |-> now]
      <4>1. dead' = <<l>> \o dead /\ list' = list
        BY <3>3 DEF pushDead
      <4>2. l \in Spent
        <5>1. Within(t.retries) /\ now \in Nat
          BY <3>1, HeldTask DEF IInv, HistoryOK
        <5>2. t.data \in Payloads /\ t.retries \in Nat
          BY <1>4, <3>1
        <5>3. MaxRetries > 0 => t.retries = MaxRetries
          BY <3>3, <5>1, <5>2, RedQueueAssumption
             DEF pushDead, Exhausted, nextRetries, Within
        <5> QED
          BY <5>1, <5>2, <5>3 DEF Spent, Letter
      <4>3. l.payload = t.data
        OBVIOUS
      <4> HIDE DEF l
      <4>4. LettersIn(dead', p) = LettersIn(dead, p) + Is(t.data, p)
        BY <4>1, <4>2, <4>3, LetterCount DEF IInv, KeysOK
      <4> QED
        BY <1>4, <2>1, <3>1, <3>3, <4>1, <4>4
    <3>4. CASE lost' = Plus(lost, t.data) /\ list' = list /\ dead' = dead
      <4>1. lost'[p] = lost[p] + Is(t.data, p)
        BY <1>4, <3>1, <3>4, PlusCount DEF IInv, HistoryOK
      <4> QED
        BY <1>4, <2>1, <3>1, <3>4, <4>1
    <3> QED
      BY <2>2, <3>2, <3>3, <3>4 DEF Settle
  <2>3. CASE Crash(c)
    <3>1. list' = list /\ dead' = dead
      BY <2>3 DEF Crash
    <3>2. CASE consumer[c].pc \in Holding
      <4>1. lost' = Plus(lost, t.data)
        BY <2>3, <3>2 DEF Crash
      <4>2. lost'[p] = lost[p] + Is(t.data, p)
        BY <1>4, <3>2, <4>1, PlusCount DEF IInv, HistoryOK
      <4> QED
        BY <1>4, <2>1, <3>1, <3>2, <4>2
    <3>3. CASE consumer[c].pc \notin Holding
      <4>1. lost' = lost /\ HeldBy(consumer, c, p) = 0
        BY <2>3, <3>3 DEF Crash, HeldBy
      <4> QED
        BY <2>1, <3>1, <4>1
    <3> QED
      BY <3>2, <3>3
  <2> QED
    BY <2>2, <2>3
<1>6. Conserves(c)
  <2> SUFFICES ASSUME NEW p \in Payloads
      PROVE  done'[p] + CountIn(list', p) + LettersIn(dead', p) + lost'[p]
               + HeldBy(consumer', c, p)
             = done[p] + CountIn(list, p) + LettersIn(dead, p) + lost[p]
               + HeldBy(consumer, c, p)
    BY DEF Conserves
  <2>1. lost'[p] \in Nat
    BY DEF IInv, HistoryOK
  <2>2. /\ done[p] \in Nat /\ lost[p] \in Nat
        /\ CountIn(list, p) \in Nat /\ LettersIn(dead, p) \in Nat
        /\ CountIn(list', p) \in Nat /\ LettersIn(dead', p) \in Nat
        /\ HeldBy(consumer, c, p) \in Nat
    BY TermsOfStep
  <2>3. CountIn(list', p) + LettersIn(dead', p) + lost'[p]
          = CountIn(list, p) + LettersIn(dead, p) + lost[p] + HeldBy(consumer, c, p)
    BY <1>5
  <2>4. done'[p] = done[p] /\ HeldBy(consumer', c, p) = 0
    BY <1>2, <1>3
  <2> QED
    BY <2>1, <2>2, <2>3, <2>4
<1> QED
  BY <1>2, <1>6, ConsumerLedger

LEMMA SubmitLedger ==
  ASSUME IInv, LedgerInv, NEW q \in Payloads, NEW d \in Delays, Submit(q, d)
  PROVE  LedgerInv'
<1>1. /\ consumer' = consumer /\ accepted' = Plus(accepted, q)
      /\ UNCHANGED <<dead, done, lost, copied, removed>>
      /\ IsFiniteSet(Hands(consumer')) /\ d \in Nat
  BY RedQueueAssumption DEF Submit, LedgerInv
<1>2. ASSUME NEW p \in Payloads
      PROVE  accepted'[p] = accepted[p] + Is(q, p) /\ Is(q, p) \in Nat
  BY <1>1, PlusCount DEF IInv, HistoryOK, Is
<1>3. CASE d = 0
  <2>1. /\ list' = Append(list, Env(q, 0)) /\ zset' = zset /\ merged' = merged
        /\ Env(q, 0).data = q
    BY <1>3 DEF Submit, LPush, Env
  <2>2. Env(q, 0) \in Queued
    BY RedQueueAssumption DEF Env, Queued, Envelope, Within
  <2>3. UniqueMembers'
    BY <2>1 DEF LedgerInv, UniqueMembers
  <2>4. ASSUME NEW p \in Payloads
        PROVE  Books(accepted'[p], copied'[p], done'[p], CountIn(list', p),
                   Cardinality(Delayed(zset', p)),
                   Cardinality(HandsWith(consumer', p)),
                   LettersIn(dead', p), lost'[p], merged'[p], removed'[p])
    <3>1. CountIn(list', p) = CountIn(list, p) + Is(q, p)
      BY <2>1, <2>2, ListCount DEF IInv, KeysOK
    <3>2. /\ accepted'[p] = accepted[p] + Is(q, p) /\ copied'[p] = copied[p]
          /\ done'[p] = done[p] /\ lost'[p] = lost[p] /\ removed'[p] = removed[p]
          /\ merged'[p] = merged[p]
          /\ Cardinality(Delayed(zset', p)) = Cardinality(Delayed(zset, p))
          /\ LettersIn(dead', p) = LettersIn(dead, p)
          /\ Cardinality(HandsWith(consumer', p)) = Cardinality(HandsWith(consumer, p))
      BY <1>1, <1>2, <2>1
    <3>3. Is(q, p) \in Nat /\ Numbers(p) /\ Balanced(p)
      BY <1>2, LedgerTerms
    <3>4. Books(accepted[p] + Is(q, p), copied[p], done[p], CountIn(list, p) + Is(q, p),
                Cardinality(Delayed(zset, p)), Cardinality(HandsWith(consumer, p)),
                LettersIn(dead, p), lost[p], merged[p], removed[p])
      BY <3>3, BooksSubmit DEF Numbers, Balanced
    <3> QED
      BY <3>1, <3>2, <3>4
  <2> QED
    BY <1>1, <2>3, <2>4, LedgerAfter
<1>4. CASE d > 0
  <2> DEFINE E == [member |-> Env(q, 0), score |-> now + d]
             Y == {z \in zset : z.member # Env(q, 0)} \cup {E}
  <2>1. /\ zset' = Y /\ list' = list
        /\ merged' = IF \E z \in zset : z.member = Env(q, 0)
                     THEN Plus(merged, q) ELSE merged
    BY <1>4 DEF Submit, ZAdd
  <2>2. /\ IsFiniteSet(zset) /\ zset \subseteq FirstAttempt /\ now + d \in Nat
        /\ \A y, z \in zset : y.member = z.member => y = z
    BY <1>1 DEF IInv, KeysOK, HistoryOK, LedgerInv, UniqueMembers
  <2>3. ASSUME NEW p \in Payloads
        PROVE  /\ \A y, z \in Y : y.member = z.member => y = z
               /\ Cardinality(Delayed(Y, p)) =
                    IF \E z \in zset : z.member = Env(q, 0)
                    THEN Cardinality(Delayed(zset, p))
                    ELSE Cardinality(Delayed(zset, p)) + Is(q, p)
    BY <2>2, DelayedCount
  <2>4. UniqueMembers'
    BY <2>1, <2>3 DEF UniqueMembers
  <2> HIDE DEF Y
  <2>5. ASSUME NEW p \in Payloads
        PROVE  Books(accepted'[p], copied'[p], done'[p], CountIn(list', p),
                   Cardinality(Delayed(zset', p)),
                   Cardinality(HandsWith(consumer', p)),
                   LettersIn(dead', p), lost'[p], merged'[p], removed'[p])
    <3>1. \/ /\ merged'[p] = merged[p] + Is(q, p)
             /\ Cardinality(Delayed(zset', p)) = Cardinality(Delayed(zset, p))
          \/ /\ merged'[p] = merged[p]
             /\ Cardinality(Delayed(zset', p)) = Cardinality(Delayed(zset, p)) + Is(q, p)
      <4>1. Plus(merged, q)[p] = merged[p] + Is(q, p)
        BY PlusCount DEF IInv, HistoryOK
      <4> QED
        BY <2>1, <2>3, <4>1
    <3>2. /\ accepted'[p] = accepted[p] + Is(q, p) /\ copied'[p] = copied[p]
          /\ done'[p] = done[p] /\ lost'[p] = lost[p] /\ removed'[p] = removed[p]
          /\ CountIn(list', p) = CountIn(list, p)
          /\ LettersIn(dead', p) = LettersIn(dead, p)
          /\ Cardinality(HandsWith(consumer', p)) = Cardinality(HandsWith(consumer, p))
      BY <1>1, <1>2, <2>1
    <3>3. Is(q, p) \in Nat /\ Numbers(p) /\ Balanced(p)
      BY <1>2, LedgerTerms
    <3>4. /\ Books(accepted[p] + Is(q, p), copied[p], done[p], CountIn(list, p),
                   Cardinality(Delayed(zset, p)) + Is(q, p),
                   Cardinality(HandsWith(consumer, p)),
                   LettersIn(dead, p), lost[p], merged[p], removed[p])
          /\ Books(accepted[p] + Is(q, p), copied[p], done[p], CountIn(list, p),
                   Cardinality(Delayed(zset, p)), Cardinality(HandsWith(consumer, p)),
                   LettersIn(dead, p), lost[p], merged[p] + Is(q, p), removed[p])
      BY <3>3, BooksSubmit DEF Numbers, Balanced
    <3> QED
      BY <3>1, <3>2, <3>4
  <2> QED
    BY <1>1, <2>4, <2>5, LedgerAfter
<1> QED
  BY <1>1, <1>3, <1>4

LEMMA moveDueTasksLedger ==
  ASSUME IInv, LedgerInv, IInv', NEW c \in Consumers, moveDueTasks(c)
  PROVE  LedgerInv'
<1>1. consumer \in [Consumers -> [pc : Running \cup {"stopped", "failed"},
                                  task : Attempt \cup {NoTask}]]
  BY DEF IInv, ConsumersOK
<1>2. /\ UNCHANGED <<dead, accepted, done, lost, merged, copied, removed>>
      /\ consumer[c].pc = "move"
      /\ \E pc \in {"pop", "failed"} : consumer' = [consumer EXCEPT ![c].pc = pc]
  BY DEF moveDueTasks, history, At, GoTo, Replies
<1>3. Hands(consumer') = Hands(consumer)
  BY <1>1, <1>2 DEF Hands, Holding
<1>4. \A p \in Payloads : HandsWith(consumer', p) = HandsWith(consumer, p)
  BY <1>1, <1>2 DEF HandsWith, Holding
<1>5. /\ UniqueMembers'
      /\ \A p \in Payloads :
           /\ CountIn(list', p) \in Nat /\ Cardinality(Delayed(zset', p)) \in Nat
           /\ CountIn(list', p) + Cardinality(Delayed(zset', p))
                = CountIn(list, p) + Cardinality(Delayed(zset, p))
  <2>1. CASE UNCHANGED <<zset, list>>
    BY <2>1, LedgerTerms DEF LedgerInv, UniqueMembers, Numbers
  <2>2. ASSUME NEW items \in DueItems, zset' = Moved(items),
               list' = list \o [i \in DOMAIN items |-> items[i].member]
        PROVE  /\ UniqueMembers'
               /\ \A p \in Payloads :
                    /\ CountIn(list', p) \in Nat
                    /\ Cardinality(Delayed(zset', p)) \in Nat
                    /\ CountIn(list', p) + Cardinality(Delayed(zset', p))
                         = CountIn(list, p) + Cardinality(Delayed(zset, p))
    <3> DEFINE m == [i \in DOMAIN items |-> items[i].member]
    <3>1. UniqueMembers'
      BY <2>2 DEF Moved, LedgerInv, UniqueMembers
    <3>2. KeysOK /\ m \in Seq(Queued) /\ list \in Seq(Queued)
      BY DueItemsType DEF IInv, KeysOK
    <3>3. \A p \in Payloads : Cardinality(Delayed(zset, p)) =
            Cardinality(Delayed(Moved(items), p)) + CountIn(m, p)
      BY <3>2, MoveCount
    <3>4. list' = list \o m
      BY <2>2
    <3> HIDE DEF m
    <3>5. \A p \in Payloads : /\ CountIn(list', p) = CountIn(list, p) + CountIn(m, p)
                              /\ CountIn(m, p) \in Nat /\ CountIn(list, p) \in Nat
      BY <3>2, <3>4, ListCount
    <3>6. ASSUME NEW p \in Payloads PROVE Cardinality(Delayed(zset', p)) \in Nat
      <4>1. IsFiniteSet(zset') /\ Delayed(zset', p) \subseteq zset'
        BY DEF Delayed, IInv, KeysOK
      <4> QED
        BY <4>1, FS_Subset, FS_CardinalityType
    <3>7. ASSUME NEW p \in Payloads
          PROVE  /\ CountIn(list', p) \in Nat
                 /\ CountIn(list', p) + Cardinality(Delayed(zset', p))
                      = CountIn(list, p) + Cardinality(Delayed(zset, p))
      <4>1. Cardinality(Delayed(zset, p)) = Cardinality(Delayed(zset', p)) + CountIn(m, p)
        BY <2>2, <3>3
      <4> QED
        BY <3>5, <3>6, <4>1
    <3> QED
      BY <3>1, <3>6, <3>7
  <2> QED
    BY <2>1, <2>2 DEF moveDueTasks
<1>6. ASSUME NEW p \in Payloads
      PROVE  Books(accepted'[p], copied'[p], done'[p], CountIn(list', p),
                   Cardinality(Delayed(zset', p)),
                   Cardinality(HandsWith(consumer', p)),
                   LettersIn(dead', p), lost'[p], merged'[p], removed'[p])
  <2>1. /\ CountIn(list', p) \in Nat /\ Cardinality(Delayed(zset', p)) \in Nat
        /\ CountIn(list', p) + Cardinality(Delayed(zset', p))
             = CountIn(list, p) + Cardinality(Delayed(zset, p))
    BY <1>5
  <2>2. /\ accepted'[p] = accepted[p] /\ copied'[p] = copied[p]
        /\ done'[p] = done[p] /\ lost'[p] = lost[p] /\ merged'[p] = merged[p]
        /\ removed'[p] = removed[p] /\ LettersIn(dead', p) = LettersIn(dead, p)
        /\ Cardinality(HandsWith(consumer', p)) = Cardinality(HandsWith(consumer, p))
    BY <1>2, <1>4
  <2>3. Numbers(p) /\ Balanced(p)
    BY LedgerTerms
  <2> QED
    BY <2>1, <2>2, <2>3, BooksMove DEF Numbers, Balanced
<1>7. IsFiniteSet(Hands(consumer'))
  BY <1>3 DEF LedgerInv
<1> QED
  BY <1>5, <1>6, <1>7, LedgerAfter

(* PushLetter counts a copy for the task it adds, the LREM a removal for   *)
(* the letter it takes, or neither when the letter is gone.                *)
LEMMA OperatorLedger ==
  ASSUME IInv, LedgerInv, NEW o \in Operators,
         PushLetter(o) \/ RemoveLetter(o)
  PROVE  LedgerInv'
<1> DEFINE l == operator[o].letter
<1>1. /\ UNCHANGED <<zset, consumer, accepted, done, lost, merged>>
      /\ l \in Spent
      /\ UniqueMembers' /\ IsFiniteSet(Hands(consumer'))
  BY DEF PushLetter, RemoveLetter, LedgerInv, UniqueMembers, IInv, OperatorsOK
<1>2. l.payload \in Payloads /\ Env(l.payload, l.retries) \in Queued
  BY <1>1, SpentAttempt, AttemptQueued
<1>3. ASSUME NEW p \in Payloads
      PROVE  Books(accepted'[p], copied'[p], done'[p], CountIn(list', p),
                   Cardinality(Delayed(zset', p)),
                   Cardinality(HandsWith(consumer', p)),
                   LettersIn(dead', p), lost'[p], merged'[p], removed'[p])
  <2>1. Is(l.payload, p) \in Nat /\ Numbers(p) /\ Balanced(p)
    BY LedgerTerms DEF Is
  <2>2. /\ accepted'[p] = accepted[p] /\ done'[p] = done[p] /\ lost'[p] = lost[p]
        /\ merged'[p] = merged[p]
        /\ Cardinality(Delayed(zset', p)) = Cardinality(Delayed(zset, p))
        /\ Cardinality(HandsWith(consumer', p)) = Cardinality(HandsWith(consumer, p))
    BY <1>1
  <2>3. CASE PushLetter(o)
    <3>1. /\ list' = Append(list, Env(l.payload, l.retries)) /\ dead' = dead
          /\ removed' = removed /\ copied' = Plus(copied, l.payload)
          /\ Env(l.payload, l.retries).data = l.payload
      BY <2>3 DEF PushLetter, LPush, Env
    <3>2. CountIn(list', p) = CountIn(list, p) + Is(l.payload, p)
      BY <1>2, <3>1, ListCount DEF IInv, KeysOK
    <3>3. copied'[p] = copied[p] + Is(l.payload, p)
      BY <1>2, <3>1, PlusCount DEF IInv, HistoryOK
    <3>4. LettersIn(dead', p) = LettersIn(dead, p) /\ removed'[p] = removed[p]
      BY <3>1
    <3>5. Books(accepted[p], copied[p] + Is(l.payload, p), done[p],
                CountIn(list, p) + Is(l.payload, p),
                Cardinality(Delayed(zset, p)), Cardinality(HandsWith(consumer, p)),
                LettersIn(dead, p), lost[p], merged[p], removed[p])
      BY <2>1, BooksSubmit DEF Numbers, Balanced
    <3> QED
      BY <2>2, <3>2, <3>3, <3>4, <3>5
  <2>4. CASE RemoveLetter(o)
    <3>1. CountIn(list', p) = CountIn(list, p) /\ copied'[p] = copied[p]
      BY <2>4 DEF RemoveLetter
    <3>2. CASE UNCHANGED <<dead, removed>>
      <4>1. LettersIn(dead', p) = LettersIn(dead, p) /\ removed'[p] = removed[p]
        BY <3>2
      <4> QED
        BY <2>1, <2>2, <3>1, <4>1 DEF Balanced
    <3>3. ASSUME NEW i \in DOMAIN dead, dead[i] = l, dead' = RemoveAt(dead, i),
                 removed' = Plus(removed, l.payload)
          PROVE  Books(accepted[p], copied[p], done[p], CountIn(list, p),
                       Cardinality(Delayed(zset, p)),
                       Cardinality(HandsWith(consumer, p)),
                       LettersIn(dead', p), lost[p], merged[p], removed'[p])
      <4>1. dead \in Seq(Spent) /\ dead' \in Seq(Spent)
        BY <3>3, RemoveAtType DEF IInv, KeysOK
      <4>2. /\ LettersIn(dead, p) = LettersIn(dead', p) + Is(l.payload, p)
            /\ LettersIn(dead', p) \in Nat
        BY <3>3, <4>1, LetterCount
      <4>3. removed'[p] = removed[p] + Is(l.payload, p)
        BY <1>2, <3>3, PlusCount DEF IInv, HistoryOK
      <4>4. Books(accepted[p], copied[p], done[p], CountIn(list, p),
                  Cardinality(Delayed(zset, p)), Cardinality(HandsWith(consumer, p)),
                  LettersIn(dead', p) + Is(l.payload, p), lost[p], merged[p], removed[p])
        BY <2>1, <4>2 DEF Balanced
      <4>5. Books(accepted[p], copied[p], done[p], CountIn(list, p),
                  Cardinality(Delayed(zset, p)), Cardinality(HandsWith(consumer, p)),
                  LettersIn(dead', p), lost[p], merged[p], removed[p] + Is(l.payload, p))
        BY <2>1, <4>2, <4>4, BooksRemove DEF Numbers
      <4> QED
        BY <4>3, <4>5
    <3>4. \/ UNCHANGED <<dead, removed>>
          \/ \E i \in DOMAIN dead : /\ dead[i] = l /\ dead' = RemoveAt(dead, i)
                                   /\ removed' = Plus(removed, l.payload)
      BY <2>4 DEF RemoveLetter, LRem
    <3> QED
      BY <2>2, <3>1, <3>2, <3>3, <3>4
  <2> QED
    BY <2>3, <2>4
<1> QED
  BY <1>1, <1>3, LedgerAfter

(* Steps that move no task.                                                *)
LEMMA IdleLedger ==
  ASSUME LedgerInv, UNCHANGED <<list, zset, dead, consumer, history>>
  PROVE  LedgerInv'
BY DEF LedgerInv, UniqueMembers, TaskLedger, InList, InZset, InHand, InDead,
       CountIn, Hands, history

LEMMA InitLedger == Init => LedgerInv
<1> SUFFICES ASSUME Init PROVE LedgerInv
  OBVIOUS
<1>1. PICK backlog \in LegacyBacklogs :
        /\ list = [i \in DOMAIN backlog |->
                     [kind |-> "raw", data |-> backlog[i], retries |-> 0]]
        /\ accepted = [p \in Payloads |->
                         Cardinality({i \in DOMAIN backlog : backlog[i] = p})]
  BY DEF Init
<1>2. IInv
  BY InitIInv
<1>3. Hands(consumer) = {} /\ UniqueMembers
  BY DEF Init, Hands, Holding, UniqueMembers
<1>4. ASSUME NEW p \in Payloads
      PROVE  accepted[p] + copied[p] =
               done[p] + InList(p) + InZset(p) + InHand(p) + InDead(p)
                 + lost[p] + merged[p] + removed[p]
  <2>1. /\ {z \in zset : z.member.data = p} = {}
        /\ {c \in Consumers : consumer[c].pc \in Holding /\ consumer[c].task.data = p} = {}
        /\ {i \in DOMAIN dead : dead[i].payload = p} = {}
    BY DEF Init, Holding
  <2>2. InZset(p) = 0 /\ InHand(p) = 0 /\ InDead(p) = 0
    BY <2>1, FS_EmptySet DEF InZset, InHand, InDead
  <2>3. {i \in DOMAIN list : list[i].data = p} = {i \in DOMAIN backlog : backlog[i] = p}
    BY <1>1
  <2>4. accepted[p] = InList(p) /\ accepted[p] \in Nat
    BY <1>1, <1>2, <2>3 DEF InList, CountIn, IInv, HistoryOK
  <2>5. /\ copied[p] = 0 /\ done[p] = 0 /\ lost[p] = 0 /\ merged[p] = 0
        /\ removed[p] = 0
    BY DEF Init, Zero
  <2> QED
    BY <2>2, <2>4, <2>5
<1> QED
  BY <1>3, <1>4, FS_EmptySet DEF LedgerInv, TaskLedger

LEMMA NextLedger == IInv /\ IInv' /\ LedgerInv /\ [Next]_vars => LedgerInv'
<1> SUFFICES ASSUME IInv, IInv', LedgerInv, [Next]_vars PROVE LedgerInv'
  OBVIOUS
<1>1. ASSUME NEW p \in Payloads, NEW d \in Delays, Submit(p, d) PROVE LedgerInv'
  BY <1>1, SubmitLedger
<1>2. CASE Tick \/ UNCHANGED vars
  BY <1>2, IdleLedger DEF Tick, vars, history
<1>3. ASSUME NEW c \in Consumers, ConsumeStep(c) PROVE LedgerInv'
  BY <1>3, moveDueTasksLedger, BRPopLedger, SettleLedger, HandlerLedger
     DEF ConsumeStep
<1>4. ASSUME NEW c \in Consumers, Cancel(c) \/ Crash(c) \/ Restart(c)
      PROVE  LedgerInv'
  <2>1. CASE Cancel(c)
    BY <2>1, IdleLedger DEF Cancel
  <2>2. CASE Crash(c) \/ Restart(c)
    BY <2>2, SettleLedger, HandlerLedger
  <2> QED
    BY <1>4, <2>1, <2>2
<1>5. ASSUME NEW o \in Operators, RequeueDeadLetter(o) PROVE LedgerInv'
  <2>1. CASE PushLetter(o) \/ RemoveLetter(o)
    BY <2>1, OperatorLedger
  <2>2. CASE AbandonRequeue(o) \/ \E index \in DOMAIN dead : ReadLetter(o, index)
    BY <2>2, IdleLedger DEF AbandonRequeue, ReadLetter
  <2> QED
    BY <1>5, <2>1, <2>2 DEF RequeueDeadLetter
<1> QED
  BY <1>1, <1>2, <1>3, <1>4, <1>5 DEF Next

(* However submitters, consumers, crashes, cancellations, lost replies and *)
(* operators interleave, every accepted task is in exactly one place or    *)
(* finished, but for the counted exceptions: no command sequence of two    *)
(* callers can duplicate or drop a task unseen.                            *)
THEOREM TaskLedgerAlways == Spec => []TaskLedger
<1>1. IInv /\ LedgerInv /\ [Next]_vars => (IInv /\ LedgerInv)'
  BY NextIInv, NextLedger
<1>2. LedgerInv => TaskLedger
  BY DEF LedgerInv
<1> QED
  BY <1>1, <1>2, InitIInv, InitLedger, PTL DEF Spec
=============================================================================
