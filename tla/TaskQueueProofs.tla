-------------------------- MODULE TaskQueueProofs ---------------------------
(***************************************************************************)
(* What works in the background, with the proofs about it: TaskQueue, for  *)
(* any number of Run loops, workers and tasks, and at the end the audit    *)
(* queue, the cron tasks and the alert watcher, for any entries, sizes,    *)
(* goroutines and rules.                                                   *)
(***************************************************************************)
EXTENDS TaskQueue, SequenceTheorems, FiniteSetTheorems, TLAPS

StatesOfRun == {"select", "pop", "slot", "start", "drain", "returned"}

Starters == {r \in Runs : loop[r].pc = "start"}

(* The order of dispatch: nothing pending is due before what was taken     *)
(* last, because no clock that popDue or Submit reads runs ahead.          *)
OrderInv ==
  /\ popped <= now
  /\ \A r \in Runs : loop[r].asOf <= now
  /\ \A i \in DOMAIN pending : popped <= pending[i].runAt

(* The count of workers: each Run between the check and the increment may  *)
(* have seen the same free worker.                                         *)
CountInv ==
  /\ IsFiniteSet(executing)
  /\ Cardinality(executing) <= running
  /\ running + Cardinality(Starters) <= Workers + Cardinality(Runs) - 1

IdleInv ==
  \A r \in Runs :
    /\ loop[r].pc \notin {"slot", "start"} => loop[r].task = NoTask
    /\ loop[r].pc = "returned" => \A e \in executing : e.run # r

LEMMA RunsFinite == IsFiniteSet(Runs) /\ Cardinality(Runs) \in Nat
BY TaskQueueAssumption, FS_CardinalityType

(* What is before the element removed stays, and what is behind it moves   *)
(* up by one.                                                              *)
LEMMA RemoveAtElements ==
  ASSUME NEW S, NEW s \in Seq(S), NEW i \in DOMAIN s
  PROVE  /\ RemoveAt(s, i) \in Seq(S)
         /\ DOMAIN RemoveAt(s, i) = 1..(Len(s) - 1)
         /\ \A j \in 1..(Len(s) - 1) :
              RemoveAt(s, i)[j] = IF j < i THEN s[j] ELSE s[j + 1]
<1> DEFINE front == SubSeq(s, 1, i - 1)
           back == SubSeq(s, i + 1, Len(s))
<1>1. /\ Len(s) \in Nat
      /\ DOMAIN s = 1..Len(s)
      /\ \A j \in 1..Len(s) : s[j] \in S
      /\ i \in 1..Len(s)
  BY LenProperties, ElementOfSeq
<1>2. /\ front \in Seq(S)
      /\ Len(front) = i - 1
      /\ \A j \in 1..(i - 1) : front[j] = s[j]
  BY <1>1, SubSeqProperties
<1>3. /\ back \in Seq(S)
      /\ Len(back) = Len(s) - i
      /\ \A j \in 1..(Len(s) - i) : back[j] = s[i + j]
  <2>1. /\ back \in Seq(S)
        /\ Len(back) = IF i + 1 <= Len(s) THEN Len(s) - (i + 1) + 1 ELSE 0
        /\ \A j \in 1..(Len(s) - (i + 1) + 1) : back[j] = s[(i + 1) + j - 1]
    BY <1>1, SubSeqProperties
  <2>2. /\ Len(s) - (i + 1) + 1 = Len(s) - i
        /\ (IF i + 1 <= Len(s) THEN Len(s) - (i + 1) + 1 ELSE 0) = Len(s) - i
        /\ \A j \in 1..(Len(s) - i) : (i + 1) + j - 1 = i + j
    BY <1>1
  <2> HIDE DEF back
  <2> QED
    BY <2>1, <2>2
<1> HIDE DEF front, back
<1>4. RemoveAt(s, i) = front \o back
  BY DEF RemoveAt, front, back
<1>5. /\ front \o back \in Seq(S)
      /\ Len(front \o back) = Len(front) + Len(back)
      /\ \A j \in 1..(Len(front) + Len(back)) :
           (front \o back)[j] = IF j <= Len(front) THEN front[j]
                                ELSE back[j - Len(front)]
  BY <1>2, <1>3, ConcatProperties
<1>6. Len(front \o back) = Len(s) - 1
  BY <1>1, <1>2, <1>3, <1>5
<1>7. ASSUME NEW j \in 1..(Len(s) - 1)
      PROVE  (front \o back)[j] = IF j < i THEN s[j] ELSE s[j + 1]
  <2>1. CASE j < i
    BY <1>1, <1>2, <1>3, <1>5, <2>1
  <2>2. CASE ~(j < i)
    <3>1. (front \o back)[j] = back[j - (i - 1)]
      BY <1>1, <1>2, <1>3, <1>5, <2>2
    <3>2. j - (i - 1) \in 1..(Len(s) - i) /\ i + (j - (i - 1)) = j + 1
      BY <1>1, <2>2
    <3>3. back[j - (i - 1)] = s[j + 1]
      BY <1>3, <3>2
    <3> QED
      BY <2>2, <3>1, <3>3
  <2> QED
    BY <2>1, <2>2
<1> QED
  BY <1>4, <1>5, <1>6, <1>7, LenProperties

LEMMA RemoveAtProperties ==
  ASSUME NEW S, NEW s \in Seq(S), NEW i \in DOMAIN s
  PROVE  /\ RemoveAt(s, i) \in Seq(S)
         /\ \A j \in DOMAIN RemoveAt(s, i) :
              \E k \in DOMAIN s \ {i} : RemoveAt(s, i)[j] = s[k]
<1>1. Len(s) \in Nat /\ DOMAIN s = 1..Len(s) /\ i \in 1..Len(s)
  BY LenProperties
<1>2. ASSUME NEW j \in 1..(Len(s) - 1)
      PROVE  \E k \in DOMAIN s \ {i} : RemoveAt(s, i)[j] = s[k]
  <2>1. CASE j < i
    BY <1>1, <2>1, RemoveAtElements
  <2>2. CASE ~(j < i)
    <3>1. j + 1 \in DOMAIN s \ {i} /\ RemoveAt(s, i)[j] = s[j + 1]
      BY <1>1, <2>2, RemoveAtElements
    <3> QED
      BY <3>1
  <2> QED
    BY <2>1, <2>2
<1> QED
  BY <1>2, RemoveAtElements

-----------------------------------------------------------------------------
LEMMA InitAll == Init => TypeOK /\ OrderInv /\ CountInv /\ IdleInv
<1> SUFFICES ASSUME Init PROVE TypeOK /\ OrderInv /\ CountInv /\ IdleInv
  OBVIOUS
<1>1. TypeOK /\ OrderInv /\ IdleInv
  <2>1. TypeOK
    BY EmptySeq DEF Init, TypeOK, Task, NoTask
  <2>2. OrderInv
    BY EmptySeq, LenProperties DEF Init, OrderInv
  <2> QED
    BY <2>1, <2>2 DEF Init, IdleInv
<1>2. Starters = {} /\ executing = {} /\ running = 0
  BY DEF Init, Starters
<1>3. CountInv
  BY <1>2, RunsFinite, TaskQueueAssumption, FS_EmptySet DEF CountInv
<1> QED
  BY <1>1, <1>3

(* popDue leaves the loop without a task or takes one of pending.          *)
LEMMA popDueCases ==
  ASSUME NEW r \in Runs, popDue(r)
  PROVE  /\ UNCHANGED <<wake, running, nextID, now, cancelled, executing, finished>>
         /\ At(r, "pop")
         /\ \/ GoTo(r, "select") /\ UNCHANGED <<pending, popped>>
            \/ \E i \in DOMAIN pending :
                 loop' = [loop EXCEPT ![r].pc = "slot", ![r].task = pending[i]]
<1>1. \A i \in Earliest(DueAt(loop[r].asOf)) : i \in DOMAIN pending
  BY DEF Earliest, DueAt
<1> QED
  BY <1>1, Zenon DEF popDue

(* The two ways a Run moves in its loop.                                   *)
Loops == [Runs -> [pc : StatesOfRun, asOf : Nat, task : Task]]

LEMMA GoToEffect ==
  ASSUME loop \in Loops, NEW r \in Runs, NEW pc \in StatesOfRun, GoTo(r, pc)
  PROVE  /\ loop' \in Loops
         /\ \A q \in Runs : /\ loop'[q].asOf = loop[q].asOf
                            /\ loop'[q].task = loop[q].task
                            /\ loop'[q].pc = IF q = r THEN pc ELSE loop[q].pc
BY DEF GoTo, Loops

LEMMA StartDispatchEffect ==
  ASSUME loop \in Loops, now \in Nat, NEW r \in Runs, StartDispatch(r)
  PROVE  /\ loop' \in Loops
         /\ \A q \in Runs : /\ loop'[q].asOf = IF q = r THEN now ELSE loop[q].asOf
                            /\ loop'[q].task = loop[q].task
                            /\ loop'[q].pc = IF q = r THEN "pop" ELSE loop[q].pc
<1>1. loop' = [loop EXCEPT ![r] = [loop[r] EXCEPT !.pc = "pop", !.asOf = now]]
  BY DEF StartDispatch, Loops
<1>2. /\ [loop[r] EXCEPT !.pc = "pop", !.asOf = now]
             \in [pc : StatesOfRun, asOf : Nat, task : Task]
      /\ [loop[r] EXCEPT !.pc = "pop", !.asOf = now].pc = "pop"
      /\ [loop[r] EXCEPT !.pc = "pop", !.asOf = now].asOf = now
      /\ [loop[r] EXCEPT !.pc = "pop", !.asOf = now].task = loop[r].task
  BY DEF Loops, StatesOfRun
<1> QED
  BY <1>1, <1>2 DEF Loops

LEMMA LoopType == TypeOK => loop \in Loops
BY DEF TypeOK, Loops, StatesOfRun

LEMMA NextTypeOK == TypeOK /\ CountInv /\ [Next]_vars => TypeOK'
<1> SUFFICES ASSUME TypeOK, CountInv, [Next]_vars PROVE TypeOK'
  OBVIOUS
<1>1. ASSUME NEW d \in Delays, Submit(d) PROVE TypeOK'
  <2>1. [id |-> nextID', runAt |-> now + d] \in Task
    BY <1>1, TaskQueueAssumption DEF Submit, TypeOK, Task
  <2>2. pending' \in Seq(Task)
    BY <1>1, <2>1, AppendProperties DEF Submit, TypeOK
  <2> QED
    BY <1>1, <2>2 DEF Submit, TypeOK
<1>2. CASE Tick
  BY <1>2 DEF Tick, TypeOK
<1>3. ASSUME NEW r \in Runs, popDue(r) PROVE TypeOK'
  <2>1. ASSUME NEW i \in DOMAIN pending
        PROVE  RemoveAt(pending, i) \in Seq(Task) /\ pending[i] \in Task
    <3>1. pending \in Seq(Task)
      BY DEF TypeOK
    <3>2. RemoveAt(pending, i) \in Seq(Task)
      BY <3>1, RemoveAtElements
    <3> QED
      BY <3>1, <3>2, LenProperties, ElementOfSeq
  <2>0. UNCHANGED <<wake, running, nextID, now, cancelled, executing, finished>>
    BY <1>3 DEF popDue
  <2>2. CASE GoTo(r, "select") /\ UNCHANGED <<pending, popped>>
    BY <2>0, <2>2 DEF GoTo, TypeOK
  <2>3. ASSUME NEW i \in Earliest(DueAt(loop[r].asOf)),
               loop' = [loop EXCEPT ![r].pc = "slot", ![r].task = pending[i]],
               pending' = RemoveAt(pending, i),
               popped' = pending[i].runAt
        PROVE  TypeOK'
    <3>1. i \in DOMAIN pending
      BY DEF Earliest, DueAt
    <3>2. pending' \in Seq(Task) /\ pending[i] \in Task /\ popped' \in Nat
      BY <2>1, <2>3, <3>1 DEF Task
    <3>3. loop' \in [Runs -> [pc : StatesOfRun, asOf : Nat, task : Task]]
      BY <2>3, <3>2 DEF TypeOK, StatesOfRun
    <3> QED
      BY <1>3, <3>2, <3>3 DEF popDue, TypeOK, StatesOfRun
  <2> QED
    BY <1>3, <2>2, <2>3 DEF popDue
<1>4. ASSUME NEW r \in Runs,
             Done(r) \/ Woken(r) \/ Timer(r) \/ FindSlot(r) \/ Return(r) \/ Cancel(r)
      PROVE  TypeOK'
  <2>1. CASE Done(r) \/ FindSlot(r) \/ Return(r)
    BY <2>1 DEF Done, FindSlot, Return, GoTo, TypeOK
  <2>2. CASE Woken(r) \/ Timer(r)
    BY <2>2, LoopType, StartDispatchEffect
       DEF Woken, Timer, TypeOK, Loops, StatesOfRun
  <2>3. CASE Cancel(r)
    BY <2>3 DEF Cancel, TypeOK
  <2> QED
    BY <1>4, <2>1, <2>2, <2>3
<1>7. ASSUME NEW r \in Runs, StartTask(r) PROVE TypeOK'
  <2>1. loop[r].task.id \in Nat
    BY DEF TypeOK, Task
  <2>2. executing' \subseteq [id : Nat, run : Runs]
    BY <1>7, <2>1 DEF StartTask, TypeOK
  <2>3. loop' \in [Runs -> [pc : StatesOfRun, asOf : Nat, task : Task]]
    BY <1>7 DEF StartTask, TypeOK, StatesOfRun, Task, NoTask
  <2> QED
    BY <1>7, <2>2, <2>3 DEF StartTask, TypeOK, StatesOfRun
<1>5. ASSUME NEW e \in executing, NEW p \in BOOLEAN, TaskEnds(e, p) PROVE TypeOK'
  <2>1. Cardinality(executing) \in Nat /\ Cardinality(executing) # 0
    BY FS_CardinalityType, FS_EmptySet DEF CountInv
  <2>2. running - 1 \in Nat
    BY <2>1 DEF CountInv, TypeOK
  <2> QED
    BY <1>5, <2>2 DEF TaskEnds, Released, TypeOK
<1>6. CASE UNCHANGED vars
  BY <1>6 DEF vars, TypeOK
<1> QED
  BY <1>1, <1>2, <1>3, <1>4, <1>5, <1>6, <1>7 DEF Next, RunStep

LEMMA NextOrderInv ==
  TypeOK /\ OrderInv /\ [Next]_vars => OrderInv' /\ popped <= popped'
<1> SUFFICES ASSUME TypeOK, OrderInv, [Next]_vars
             PROVE  OrderInv' /\ popped <= popped'
  OBVIOUS
<1> USE DEF TypeOK
<1>1. ASSUME NEW d \in Delays, Submit(d) PROVE OrderInv' /\ popped <= popped'
  <2> DEFINE t == [id |-> nextID', runAt |-> now + d]
  <2>1. t \in Task /\ popped <= t.runAt
    BY <1>1, TaskQueueAssumption DEF Submit, Task, OrderInv
  <2>2. pending' = Append(pending, t)
    BY <1>1 DEF Submit
  <2> HIDE DEF t
  <2>3. \A i \in DOMAIN pending' : popped <= pending'[i].runAt
    <3> SUFFICES ASSUME NEW i \in DOMAIN pending' PROVE popped <= pending'[i].runAt
      OBVIOUS
    <3>1. i \in 1..(Len(pending) + 1) /\ Len(pending) \in Nat
      BY <2>1, <2>2, AppendProperties, LenProperties
    <3>2. i \in 1..Len(pending) \/ i = Len(pending) + 1
      BY <3>1
    <3>3. pending'[i] = t \/ (i \in DOMAIN pending /\ pending'[i] = pending[i])
      BY <2>1, <2>2, <3>1, <3>2, AppendProperties, LenProperties
    <3> QED
      BY <2>1, <3>3 DEF OrderInv
  <2> QED
    BY <1>1, <2>3 DEF Submit, OrderInv
<1>2. CASE Tick
  BY <1>2 DEF Tick, OrderInv
<1>3. ASSUME NEW r \in Runs, popDue(r) PROVE OrderInv' /\ popped <= popped'
  <2>1. CASE GoTo(r, "select") /\ UNCHANGED <<pending, popped>>
    BY <1>3, <2>1, LoopType, GoToEffect DEF popDue, OrderInv, StatesOfRun
  <2>2. ASSUME NEW i \in Earliest(DueAt(loop[r].asOf)),
               loop' = [loop EXCEPT ![r].pc = "slot", ![r].task = pending[i]],
               pending' = RemoveAt(pending, i),
               popped' = pending[i].runAt
        PROVE  OrderInv' /\ popped <= popped'
    <3>1. /\ i \in DOMAIN pending
          /\ pending[i].runAt <= loop[r].asOf
          /\ \A j \in DOMAIN pending : pending[j] \in Task
      BY LenProperties, ElementOfSeq DEF Earliest, DueAt
    <3>2. \A j \in DOMAIN pending : pending[i].runAt <= pending[j].runAt
      <4> SUFFICES ASSUME NEW j \in DOMAIN pending
                   PROVE  pending[i].runAt <= pending[j].runAt
        OBVIOUS
      <4>1. pending[i].runAt \in Nat /\ pending[j].runAt \in Nat /\ loop[r].asOf \in Nat
        BY <3>1 DEF Task
      <4>2. CASE j \in DueAt(loop[r].asOf)
        BY <4>1, <4>2 DEF Earliest
      <4>3. CASE j \notin DueAt(loop[r].asOf)
        BY <3>1, <4>1, <4>3 DEF DueAt
      <4> QED
        BY <4>2, <4>3
    <3>3. \A j \in DOMAIN pending' : popped' <= pending'[j].runAt
      BY <2>2, <3>1, <3>2, RemoveAtProperties
    <3>4. popped <= popped' /\ popped' <= now
      BY <2>2, <3>1 DEF OrderInv, Task
    <3>5. \A q \in Runs : loop'[q].asOf = loop[q].asOf
      BY <2>2
    <3> QED
      BY <1>3, <3>3, <3>4, <3>5 DEF popDue, OrderInv
  <2> QED
    BY <1>3, <2>1, <2>2 DEF popDue
<1>4. ASSUME NEW r \in Runs, Done(r) \/ FindSlot(r) \/ Return(r)
      PROVE  OrderInv' /\ popped <= popped'
  BY <1>4, LoopType, GoToEffect DEF Done, FindSlot, Return, OrderInv,
     StatesOfRun
<1>9. ASSUME NEW r \in Runs, StartTask(r) PROVE OrderInv' /\ popped <= popped'
  <2>1. \A q \in Runs : loop'[q].asOf = loop[q].asOf
    BY <1>9 DEF StartTask
  <2> QED
    BY <1>9, <2>1 DEF StartTask, OrderInv
<1>5. ASSUME NEW r \in Runs, Woken(r) \/ Timer(r)
      PROVE  OrderInv' /\ popped <= popped'
  <2>1. StartDispatch(r) /\ UNCHANGED <<pending, now, popped>>
    BY <1>5 DEF Woken, Timer
  <2>2. \A q \in Runs : loop'[q].asOf \in {loop[q].asOf, now}
    BY <2>1, LoopType, StartDispatchEffect
  <2> QED
    BY <2>1, <2>2 DEF OrderInv
<1>6. ASSUME NEW r \in Runs, Cancel(r) PROVE OrderInv' /\ popped <= popped'
  BY <1>6 DEF Cancel, OrderInv
<1>7. ASSUME NEW e \in executing, NEW p \in BOOLEAN, TaskEnds(e, p)
      PROVE  OrderInv' /\ popped <= popped'
  BY <1>7 DEF TaskEnds, OrderInv
<1>8. CASE UNCHANGED vars
  BY <1>8 DEF vars, OrderInv
<1> QED
  BY <1>1, <1>2, <1>3, <1>4, <1>5, <1>6, <1>7, <1>8, <1>9 DEF Next, RunStep

(* A Run that enters or leaves "start" changes the count of starters by    *)
(* one at most, and there are never more of them than Runs.                *)
LEMMA StartersCount ==
  /\ IsFiniteSet(Starters)
  /\ Cardinality(Starters) \in Nat
  /\ Cardinality(Starters) <= Cardinality(Runs)
  /\ \A r \in Runs : /\ IsFiniteSet(Starters \cup {r})
                     /\ Cardinality(Starters \cup {r}) <= Cardinality(Runs)
BY RunsFinite, FS_Subset, FS_CardinalityType DEF Starters

LEMMA CountUnchanged ==
  ASSUME CountInv, Starters' = Starters, UNCHANGED <<running, executing>>
  PROVE  CountInv'
BY DEF CountInv

LEMMA StartersShrink ==
  ASSUME TypeOK, CountInv, Starters' \subseteq Starters,
         UNCHANGED <<running, executing>>
  PROVE  CountInv'
<1>1. Cardinality(Starters') <= Cardinality(Starters) /\ Cardinality(Starters') \in Nat
  BY StartersCount, FS_Subset, FS_CardinalityType
<1>2. Cardinality(Starters) \in Nat /\ Cardinality(Runs) \in Nat /\ Workers \in Nat
  BY StartersCount, RunsFinite, TaskQueueAssumption
<1>3. running + Cardinality(Starters') <= Workers + Cardinality(Runs) - 1
  BY <1>1, <1>2 DEF CountInv, TypeOK
<1> QED
  BY <1>3 DEF CountInv

LEMMA NextCountInv == TypeOK /\ CountInv /\ [Next]_vars => CountInv'
<1> SUFFICES ASSUME TypeOK, CountInv, [Next]_vars PROVE CountInv'
  OBVIOUS
<1>0. /\ Workers \in Nat \ {0}
      /\ Cardinality(Runs) \in Nat
      /\ running \in Nat
      /\ Cardinality(executing) \in Nat
      /\ Cardinality(Starters) \in Nat
  BY TaskQueueAssumption, RunsFinite, StartersCount, FS_CardinalityType
     DEF TypeOK, CountInv
<1>1. ASSUME NEW d \in Delays, Submit(d) PROVE CountInv'
  BY <1>1, CountUnchanged DEF Submit, Starters
<1>2. CASE Tick
  BY <1>2, CountUnchanged DEF Tick, Starters
<1>3. ASSUME NEW r \in Runs, popDue(r) PROVE CountInv'
  <2>1. Starters' \subseteq Starters
    <3>1. CASE GoTo(r, "select")
      <4>1. \A q \in Runs : loop'[q].pc = IF q = r THEN "select" ELSE loop[q].pc
        BY <3>1, LoopType, GoToEffect DEF StatesOfRun
      <4> QED
        BY <4>1 DEF Starters
    <3>2. ASSUME NEW i \in DOMAIN pending,
                 loop' = [loop EXCEPT ![r].pc = "slot", ![r].task = pending[i]]
          PROVE  Starters' \subseteq Starters
      <4>1. \A q \in Runs : loop'[q].pc = IF q = r THEN "slot" ELSE loop[q].pc
        BY <3>2, LoopType DEF Loops
      <4> QED
        BY <4>1 DEF Starters
    <3> QED
      BY <1>3, <3>1, <3>2, popDueCases
  <2>2. UNCHANGED <<running, executing>>
    BY <1>3, popDueCases
  <2> QED
    BY <2>1, <2>2, StartersShrink
<1>4. ASSUME NEW r \in Runs, Done(r) \/ Return(r) PROVE CountInv'
  <2>1. \E pc \in {"drain", "returned"} :
          \A q \in Runs : loop'[q].pc = IF q = r THEN pc ELSE loop[q].pc
    BY <1>4, LoopType, GoToEffect DEF Done, Return, StatesOfRun
  <2>2. Starters' \subseteq Starters
    BY <2>1 DEF Starters
  <2> QED
    BY <1>4, <2>2, StartersShrink DEF Done, Return
<1>5. ASSUME NEW r \in Runs, Woken(r) \/ Timer(r) PROVE CountInv'
  <2>1. StartDispatch(r) /\ UNCHANGED <<running, executing>>
    BY <1>5 DEF Woken, Timer
  <2>2. Starters' \subseteq Starters
    BY <2>1, LoopType, StartDispatchEffect DEF Starters, TypeOK
  <2> QED
    BY <2>1, <2>2, StartersShrink
<1>6. ASSUME NEW r \in Runs, FindSlot(r) PROVE CountInv'
  <2>1. Starters' = Starters \cup {r}
    BY <1>6, LoopType, GoToEffect DEF FindSlot, Starters, StatesOfRun
  <2>2. Cardinality(Starters') <= Cardinality(Runs) /\ Cardinality(Starters') \in Nat
    BY <2>1, StartersCount, FS_CardinalityType
  <2>3. running + Cardinality(Starters') <= Workers + Cardinality(Runs) - 1
    BY <1>0, <1>6, <2>2 DEF FindSlot, SlotFree
  <2> QED
    BY <1>6, <2>3 DEF FindSlot, CountInv
<1>7. ASSUME NEW r \in Runs, StartTask(r) PROVE CountInv'
  <2> DEFINE e == [id |-> loop[r].task.id, run |-> r]
  <2>1. Starters' = Starters \ {r} /\ r \in Starters
    <3>1. \A q \in Runs : loop'[q].pc = IF q = r THEN "pop" ELSE loop[q].pc
      BY <1>7, LoopType DEF StartTask, Loops
    <3>2. r \in Starters
      BY <1>7 DEF StartTask, At, Starters
    <3>3. \A q \in Runs : (q \in Starters') <=> (q \in Starters /\ q # r)
      BY <3>1 DEF Starters
    <3>4. Starters \subseteq Runs /\ Starters' \subseteq Runs
      BY DEF Starters
    <3> QED
      BY <3>2, <3>3, <3>4
  <2>2. Cardinality(Starters') = Cardinality(Starters) - 1
    BY <2>1, StartersCount, FS_RemoveElement
  <2>4. executing' = executing \cup {e} /\ running' = running + 1
    BY <1>7 DEF StartTask
  <2> HIDE DEF e
  <2>3. /\ IsFiniteSet(executing \cup {e})
        /\ Cardinality(executing \cup {e}) <= Cardinality(executing) + 1
    <3>1. IsFiniteSet(executing)
      BY DEF CountInv
    <3>2. /\ IsFiniteSet(executing \cup {e})
          /\ Cardinality(executing \cup {e}) =
               IF e \in executing THEN Cardinality(executing)
                                 ELSE Cardinality(executing) + 1
      BY <3>1, FS_AddElement, Zenon
    <3> QED
      BY <1>0, <3>2
  <2>5. Cardinality(executing') \in Nat
    BY <2>3, <2>4, FS_CardinalityType
  <2>6. Cardinality(executing') <= running'
    BY <1>0, <2>3, <2>4, <2>5 DEF CountInv
  <2>7. running' + Cardinality(Starters') <= Workers + Cardinality(Runs) - 1
    BY <1>0, <2>2, <2>4 DEF CountInv
  <2> QED
    BY <2>3, <2>4, <2>6, <2>7 DEF CountInv
<1>8. ASSUME NEW e \in executing, NEW p \in BOOLEAN, TaskEnds(e, p) PROVE CountInv'
  <2>1. executing' = executing \ {e} /\ running' = running - 1 /\ Starters' = Starters
    BY <1>8 DEF TaskEnds, Released, Starters
  <2>2. IsFiniteSet(executing') /\ Cardinality(executing') = Cardinality(executing) - 1
    BY <2>1, FS_RemoveElement DEF CountInv
  <2> QED
    BY <1>0, <2>1, <2>2 DEF CountInv
<1>9. ASSUME NEW r \in Runs, Cancel(r) PROVE CountInv'
  BY <1>9, CountUnchanged DEF Cancel, Starters
<1>10. CASE UNCHANGED vars
  BY <1>10, CountUnchanged DEF vars, Starters
<1> QED
  BY <1>1, <1>2, <1>3, <1>4, <1>5, <1>6, <1>7, <1>8, <1>9, <1>10 DEF Next,
     RunStep

LEMMA NextIdleInv == TypeOK /\ IdleInv /\ [Next]_vars => IdleInv'
<1> SUFFICES ASSUME TypeOK, IdleInv, [Next]_vars PROVE IdleInv'
  OBVIOUS
<1>1. ASSUME NEW r \in Runs, popDue(r) PROVE IdleInv'
  <2>1. CASE GoTo(r, "select")
    BY <1>1, <2>1, LoopType, GoToEffect DEF popDue, At, IdleInv, StatesOfRun
  <2>2. ASSUME NEW i \in DOMAIN pending,
               loop' = [loop EXCEPT ![r].pc = "slot", ![r].task = pending[i]]
        PROVE  IdleInv'
    <3>1. \A q \in Runs : q # r => loop'[q] = loop[q]
      BY <2>2, LoopType DEF Loops
    <3>2. loop'[r].pc = "slot"
      BY <2>2, LoopType DEF Loops
    <3> QED
      BY <1>1, <3>1, <3>2 DEF popDue, IdleInv
  <2> QED
    BY <1>1, <2>1, <2>2, popDueCases
<1>2. ASSUME NEW r \in Runs, Done(r) \/ FindSlot(r) \/ Return(r) PROVE IdleInv'
  BY <1>2, LoopType, GoToEffect
     DEF Done, FindSlot, Return, AllDone, At, IdleInv, StatesOfRun
<1>3. ASSUME NEW r \in Runs, Woken(r) \/ Timer(r) PROVE IdleInv'
  <2>1. StartDispatch(r) /\ At(r, "select") /\ executing' = executing
    BY <1>3 DEF Woken, Timer
  <2> QED
    BY <2>1, LoopType, StartDispatchEffect DEF At, IdleInv, TypeOK
<1>4. ASSUME NEW r \in Runs, StartTask(r) PROVE IdleInv'
  <2>1. \A q \in Runs : q # r => loop'[q] = loop[q]
    BY <1>4, LoopType DEF StartTask, Loops
  <2>2. loop'[r].pc = "pop" /\ loop'[r].task = NoTask
    BY <1>4, LoopType DEF StartTask, Loops
  <2>3. \A e \in executing' : e \in executing \/ e.run = r
    BY <1>4 DEF StartTask
  <2> QED
    BY <2>1, <2>2, <2>3 DEF IdleInv
<1>5. ASSUME NEW e \in executing, NEW p \in BOOLEAN, TaskEnds(e, p) PROVE IdleInv'
  BY <1>5 DEF TaskEnds, IdleInv
<1>6. CASE UNCHANGED <<loop, executing>>
  BY <1>6 DEF IdleInv
<1> QED
  BY <1>1, <1>2, <1>3, <1>4, <1>5, <1>6
     DEF Next, RunStep, Submit, Tick, Cancel, vars

(* Where tasks are.  No two places share a task: no two positions of       *)
(* pending, Runs, goroutines, nor two of these and the finished ones.      *)
Holding(r) == loop[r].pc \in {"slot", "start"}

PendingOnce ==
  \A i, j \in DOMAIN pending : pending[i].id = pending[j].id => i = j

HeldOnce ==
  \A r \in Runs : Holding(r) =>
    /\ loop[r].task.id \in 1..nextID \ (PendingIDs \cup finished)
    /\ \A q \in Runs : Holding(q) /\ loop[q].task.id = loop[r].task.id => q = r

ExecutingOnce ==
  \A e \in executing :
    /\ e.id \in 1..nextID \ (PendingIDs \cup finished)
    /\ \A r \in Runs : Holding(r) => loop[r].task.id # e.id
    /\ \A f \in executing : f.id = e.id => f = e

Somewhere ==
  \A id \in 1..nextID :
    \/ id \in PendingIDs \cup finished
    \/ \E r \in Runs : Holding(r) /\ loop[r].task.id = id
    \/ \E e \in executing : e.id = id

LedgerInv ==
  /\ PendingIDs \subseteq 1..nextID
  /\ finished \subseteq 1..nextID
  /\ PendingIDs \cap finished = {}
  /\ PendingOnce /\ HeldOnce /\ ExecutingOnce /\ Somewhere

(* A step that moves no task.                                              *)
LEMMA NothingMoved ==
  ASSUME LedgerInv, UNCHANGED <<pending, nextID, executing, finished>>,
         \A r \in Runs : /\ Holding(r)' <=> Holding(r)
                         /\ Holding(r) => loop'[r].task = loop[r].task
  PROVE  LedgerInv'
<1>1. PendingIDs' = PendingIDs /\ PendingOnce'
  BY DEF PendingIDs, LedgerInv, PendingOnce
<1>2. HeldOnce'
  BY <1>1 DEF LedgerInv, HeldOnce
<1>3. ExecutingOnce'
  BY <1>1 DEF LedgerInv, ExecutingOnce
<1>4. Somewhere'
  BY <1>1 DEF LedgerInv, Somewhere
<1> QED
  BY <1>1, <1>2, <1>3, <1>4 DEF LedgerInv

LEMMA SubmitLedger ==
  ASSUME TypeOK, LedgerInv, NEW d \in Delays, Submit(d)
  PROVE  LedgerInv'
<1> DEFINE t == [id |-> nextID', runAt |-> now + d]
<1>1. /\ nextID \in Nat /\ nextID' = nextID + 1
      /\ pending \in Seq(Task)
      /\ t \in Task /\ t.id = nextID + 1
      /\ pending' = Append(pending, t)
      /\ UNCHANGED <<loop, executing, finished>>
  BY TaskQueueAssumption DEF Submit, TypeOK, Task
<1> HIDE DEF t
<1>2. /\ Len(pending) \in Nat /\ DOMAIN pending = 1..Len(pending)
      /\ DOMAIN pending' = 1..(Len(pending) + 1)
      /\ \A i \in 1..Len(pending) : pending'[i] = pending[i]
      /\ pending'[Len(pending) + 1] = t
  BY <1>1, AppendProperties, LenProperties
<1>3. PendingIDs' = PendingIDs \cup {nextID + 1}
  <2>1. \A i \in DOMAIN pending' :
          pending'[i].id \in PendingIDs \cup {nextID + 1}
    BY <1>1, <1>2 DEF PendingIDs
  <2>2. \A i \in DOMAIN pending : pending[i].id \in PendingIDs'
    BY <1>2 DEF PendingIDs
  <2>3. nextID + 1 \in PendingIDs'
    BY <1>1, <1>2 DEF PendingIDs
  <2> QED
    BY <2>1, <2>2, <2>3 DEF PendingIDs
<1>4. nextID + 1 \notin 1..nextID
  BY <1>1
<1>5. PendingOnce'
  <2> SUFFICES ASSUME NEW i \in DOMAIN pending', NEW j \in DOMAIN pending',
                      pending'[i].id = pending'[j].id
               PROVE  i = j
    BY DEF PendingOnce
  <2>1. \A k \in 1..Len(pending) : pending'[k].id \in 1..nextID
    BY <1>2 DEF LedgerInv, PendingIDs
  <2>2. CASE i \in 1..Len(pending) /\ j \in 1..Len(pending)
    BY <1>2, <2>2 DEF LedgerInv, PendingOnce
  <2>3. CASE i = Len(pending) + 1 /\ j = Len(pending) + 1
    BY <2>3
  <2>4. CASE i = Len(pending) + 1 /\ j \in 1..Len(pending)
    BY <1>1, <1>2, <1>4, <2>1, <2>4
  <2>5. CASE i \in 1..Len(pending) /\ j = Len(pending) + 1
    BY <1>1, <1>2, <1>4, <2>1, <2>5
  <2> QED
    BY <1>2, <2>2, <2>3, <2>4, <2>5
<1>6. 1..nextID' = 1..nextID \cup {nextID + 1}
  BY <1>1
<1>7. \A r \in Runs : Holding(r)' <=> Holding(r)
  BY <1>1 DEF Holding
<1>8. HeldOnce' /\ ExecutingOnce'
  BY <1>1, <1>3, <1>4, <1>6, <1>7 DEF LedgerInv, HeldOnce, ExecutingOnce
<1>9. Somewhere'
  BY <1>1, <1>3, <1>6, <1>7 DEF LedgerInv, Somewhere
<1> QED
  BY <1>1, <1>3, <1>4, <1>5, <1>6, <1>8, <1>9 DEF LedgerInv

(* A task leaves pending for the hands of a Run that held none.            *)
LEMMA TakenLedger ==
  ASSUME LedgerInv, NEW r \in Runs, NEW id \in PendingIDs,
         PendingIDs' = PendingIDs \ {id}, PendingOnce',
         UNCHANGED <<nextID, executing, finished>>,
         ~ Holding(r), Holding(r)', loop'[r].task.id = id,
         \A q \in Runs : q # r => /\ Holding(q)' <=> Holding(q)
                                  /\ loop'[q].task = loop[q].task
  PROVE  LedgerInv'
<1>1. id \in 1..nextID \ (PendingIDs' \cup finished)
  BY DEF LedgerInv
<1>2. HeldOnce'
  <2>1. ASSUME NEW q \in Runs, Holding(q)', q # r
        PROVE  /\ loop'[q].task.id \in 1..nextID \ (PendingIDs' \cup finished)
               /\ loop'[q].task.id # id
               /\ \A p \in Runs : Holding(p)' /\ loop'[p].task.id = loop'[q].task.id
                                    => p = q
    <3>1. /\ loop[q].task.id \in 1..nextID \ (PendingIDs \cup finished)
          /\ \A p \in Runs : Holding(p) /\ loop[p].task.id = loop[q].task.id => p = q
      BY <2>1 DEF LedgerInv, HeldOnce
    <3>2. loop'[q].task.id = loop[q].task.id /\ loop[q].task.id # id
      BY <2>1, <3>1
    <3> QED
      BY <2>1, <3>1, <3>2
  <2> QED
    BY <1>1, <2>1 DEF HeldOnce
<1>3. ExecutingOnce'
  <2> SUFFICES ASSUME NEW e \in executing
               PROVE  /\ e.id \in 1..nextID \ (PendingIDs' \cup finished)
                      /\ \A q \in Runs : Holding(q)' => loop'[q].task.id # e.id
                      /\ \A f \in executing : f.id = e.id => f = e
    BY DEF ExecutingOnce
  <2>1. /\ e.id \in 1..nextID \ (PendingIDs \cup finished)
        /\ \A q \in Runs : Holding(q) => loop[q].task.id # e.id
        /\ \A f \in executing : f.id = e.id => f = e
    BY DEF LedgerInv, ExecutingOnce
  <2> QED
    BY <2>1
<1>4. Somewhere'
  BY DEF LedgerInv, Somewhere
<1> QED
  BY <1>2, <1>3, <1>4 DEF LedgerInv

(* popDue takes a task out of pending into the hands of its Run.           *)
LEMMA PopLedger ==
  ASSUME TypeOK, LedgerInv, NEW r \in Runs, At(r, "pop"), NEW i \in DOMAIN pending,
         loop' = [loop EXCEPT ![r].pc = "slot", ![r].task = pending[i]],
         pending' = RemoveAt(pending, i),
         UNCHANGED <<nextID, executing, finished>>
  PROVE  LedgerInv'
<1>1. /\ pending \in Seq(Task)
      /\ Len(pending) \in Nat /\ DOMAIN pending = 1..Len(pending)
      /\ i \in 1..Len(pending)
  BY LenProperties DEF TypeOK
<1>2. /\ DOMAIN pending' = 1..(Len(pending) - 1)
      /\ \A j \in 1..(Len(pending) - 1) :
           pending'[j] = IF j < i THEN pending[j] ELSE pending[j + 1]
  BY <1>1, RemoveAtElements
<1>3. PendingIDs' = PendingIDs \ {pending[i].id}
  <2>1. ASSUME NEW j \in DOMAIN pending'
        PROVE  pending'[j].id \in PendingIDs \ {pending[i].id}
    <3>1. \E k \in DOMAIN pending \ {i} : pending'[j] = pending[k]
      <4>1. CASE j < i
        BY <1>1, <1>2, <4>1
      <4>2. CASE ~(j < i)
        <5>1. j + 1 \in DOMAIN pending \ {i} /\ pending'[j] = pending[j + 1]
          BY <1>1, <1>2, <4>2
        <5> QED
          BY <5>1
      <4> QED
        BY <4>1, <4>2
    <3> QED
      BY <3>1 DEF LedgerInv, PendingOnce, PendingIDs
  <2>2. ASSUME NEW k \in DOMAIN pending, k # i
        PROVE  pending[k].id \in PendingIDs'
    <3>1. CASE k < i
      <4>1. k \in DOMAIN pending' /\ pending'[k] = pending[k]
        BY <1>1, <1>2, <3>1
      <4> QED
        BY <4>1 DEF PendingIDs
    <3>2. CASE ~(k < i)
      <4>1. k - 1 \in DOMAIN pending' /\ pending'[k - 1] = pending[k]
        BY <1>1, <1>2, <2>2, <3>2
      <4> QED
        BY <4>1 DEF PendingIDs
    <3> QED
      BY <3>1, <3>2
  <2> QED
    BY <2>1, <2>2 DEF PendingIDs
<1>4. PendingOnce'
  <2> SUFFICES ASSUME NEW j \in DOMAIN pending', NEW k \in DOMAIN pending',
                      pending'[j].id = pending'[k].id
               PROVE  j = k
    BY DEF PendingOnce
  <2> DEFINE At0(m) == IF m < i THEN m ELSE m + 1
  <2>1. /\ At0(j) \in DOMAIN pending /\ pending'[j] = pending[At0(j)]
        /\ At0(k) \in DOMAIN pending /\ pending'[k] = pending[At0(k)]
    BY <1>1, <1>2
  <2>2. At0(j) = At0(k)
    BY <2>1 DEF LedgerInv, PendingOnce
  <2> QED
    BY <1>1, <1>2, <2>2
<1>5. pending[i].id \in PendingIDs
  BY DEF PendingIDs
<1>6. \A q \in Runs : q # r => loop'[q] = loop[q]
  BY LoopType DEF Loops
<1>7. /\ loop'[r].pc = "slot" /\ loop'[r].task = pending[i]
      /\ ~ Holding(r) /\ Holding(r)'
      /\ \A q \in Runs : q # r => (Holding(q)' <=> Holding(q))
  BY <1>6, LoopType DEF Loops, At, Holding
<1>8. loop'[r].task.id = pending[i].id
  BY <1>7
<1>9. \A q \in Runs : q # r => /\ Holding(q)' <=> Holding(q)
                             /\ loop'[q].task = loop[q].task
  BY <1>6, <1>7
<1> QED
  BY <1>3, <1>4, <1>5, <1>7, <1>8, <1>9, TakenLedger

(* StartTask hands the task to a goroutine.                                *)
LEMMA StartLedger ==
  ASSUME TypeOK, LedgerInv, NEW r \in Runs, StartTask(r)
  PROVE  LedgerInv'
<1> DEFINE e == [id |-> loop[r].task.id, run |-> r]
<1>1. /\ executing' = executing \cup {e}
      /\ UNCHANGED <<pending, nextID, finished>>
      /\ loop[r].pc = "start"
  BY DEF StartTask, At
<1>2. \A q \in Runs : q # r => loop'[q] = loop[q]
  BY LoopType DEF StartTask, Loops
<1>3. /\ loop'[r].pc = "pop" /\ Holding(r) /\ ~ Holding(r)'
      /\ \A q \in Runs : q # r => (Holding(q)' <=> Holding(q))
  BY <1>1, <1>2, LoopType DEF StartTask, Loops, Holding
<1>4. PendingIDs' = PendingIDs /\ PendingOnce'
  BY <1>1 DEF PendingIDs, LedgerInv, PendingOnce
<1>5. HeldOnce'
  BY <1>1, <1>2, <1>3, <1>4 DEF LedgerInv, HeldOnce
<1>6. e.id = loop[r].task.id
  OBVIOUS
<1> HIDE DEF e
<1>7. /\ e.id \in 1..nextID \ (PendingIDs \cup finished)
      /\ \A q \in Runs : Holding(q) /\ q # r => loop[q].task.id # e.id
      /\ \A f \in executing : f.id # e.id
  BY <1>3, <1>6 DEF LedgerInv, HeldOnce, ExecutingOnce
<1>8. ExecutingOnce'
  <2> SUFFICES ASSUME NEW f \in executing'
               PROVE  /\ f.id \in 1..nextID \ (PendingIDs \cup finished)
                      /\ \A q \in Runs : Holding(q)' => loop'[q].task.id # f.id
                      /\ \A g \in executing' : g.id = f.id => g = f
    BY <1>1, <1>4 DEF ExecutingOnce
  <2>1. CASE f = e
    BY <1>1, <1>2, <1>3, <1>7, <2>1
  <2>2. CASE f # e
    <3>1. f \in executing
      BY <1>1, <2>2
    <3>2. /\ f.id \in 1..nextID \ (PendingIDs \cup finished)
          /\ \A q \in Runs : Holding(q) => loop[q].task.id # f.id
          /\ \A g \in executing : g.id = f.id => g = f
      BY <3>1 DEF LedgerInv, ExecutingOnce
    <3> QED
      BY <1>1, <1>2, <1>3, <1>7, <3>1, <3>2
  <2> QED
    BY <2>1, <2>2
<1>9. Somewhere'
  <2> SUFFICES ASSUME NEW id \in 1..nextID
               PROVE  \/ id \in PendingIDs \cup finished
                      \/ \E q \in Runs : Holding(q)' /\ loop'[q].task.id = id
                      \/ \E f \in executing' : f.id = id
    BY <1>1, <1>4 DEF Somewhere
  <2>1. \/ id \in PendingIDs \cup finished
        \/ \E q \in Runs : Holding(q) /\ loop[q].task.id = id
        \/ \E f \in executing : f.id = id
    BY DEF LedgerInv, Somewhere
  <2>2. CASE id = e.id
    BY <1>1, <2>2
  <2>3. CASE id # e.id
    BY <1>1, <1>2, <1>3, <1>6, <2>1, <2>3
  <2> QED
    BY <2>2, <2>3
<1> QED
  BY <1>1, <1>4, <1>5, <1>8, <1>9 DEF LedgerInv

(* The goroutine of a task ends.                                           *)
LEMMA EndLedger ==
  ASSUME TypeOK, LedgerInv, NEW e \in executing, NEW p \in BOOLEAN, TaskEnds(e, p)
  PROVE  LedgerInv'
<1>1. /\ executing' = executing \ {e}
      /\ finished' = finished \cup {e.id}
      /\ UNCHANGED <<pending, nextID, loop>>
  BY DEF TaskEnds
<1>2. PendingIDs' = PendingIDs /\ PendingOnce'
  BY <1>1 DEF PendingIDs, LedgerInv, PendingOnce
<1>3. \A r \in Runs : Holding(r)' <=> Holding(r)
  BY <1>1 DEF Holding
<1>4. /\ e.id \in 1..nextID \ (PendingIDs \cup finished)
      /\ \A r \in Runs : Holding(r) => loop[r].task.id # e.id
      /\ \A f \in executing : f.id = e.id => f = e
  BY DEF LedgerInv, ExecutingOnce
<1>5. HeldOnce'
  BY <1>1, <1>2, <1>3, <1>4 DEF LedgerInv, HeldOnce
<1>6. ExecutingOnce'
  BY <1>1, <1>2, <1>3, <1>4 DEF LedgerInv, ExecutingOnce
<1>7. Somewhere'
  BY <1>1, <1>2, <1>3 DEF LedgerInv, Somewhere
<1> QED
  BY <1>1, <1>2, <1>4, <1>5, <1>6, <1>7 DEF LedgerInv

LEMMA InitLedger == Init => LedgerInv
<1> SUFFICES ASSUME Init PROVE LedgerInv
  OBVIOUS
<1>1. DOMAIN pending = {} /\ nextID = 0 /\ executing = {} /\ finished = {}
  BY EmptySeq, LenProperties DEF Init
<1>2. PendingIDs = {} /\ 1..nextID = {}
  BY <1>1 DEF PendingIDs
<1>3. \A r \in Runs : ~ Holding(r)
  BY DEF Init, Holding
<1> QED
  BY <1>1, <1>2, <1>3
     DEF LedgerInv, PendingOnce, HeldOnce, ExecutingOnce, Somewhere

LEMMA NextLedger == TypeOK /\ LedgerInv /\ [Next]_vars => LedgerInv'
<1> SUFFICES ASSUME TypeOK, LedgerInv, [Next]_vars PROVE LedgerInv'
  OBVIOUS
<1>1. ASSUME NEW r \in Runs, popDue(r) PROVE LedgerInv'
  <2>1. CASE GoTo(r, "select") /\ UNCHANGED <<pending, popped>>
    <3>1. \A q \in Runs : /\ Holding(q)' <=> Holding(q)
                          /\ Holding(q) => loop'[q].task = loop[q].task
      BY <1>1, <2>1, LoopType, GoToEffect DEF popDue, At, Holding, StatesOfRun
    <3> QED
      BY <1>1, <2>1, <3>1, NothingMoved DEF popDue
  <2>2. ASSUME NEW i \in Earliest(DueAt(loop[r].asOf)),
               loop' = [loop EXCEPT ![r].pc = "slot", ![r].task = pending[i]],
               pending' = RemoveAt(pending, i)
        PROVE  LedgerInv'
    <3>1. i \in DOMAIN pending
      BY DEF Earliest, DueAt
    <3> QED
      BY <1>1, <2>2, <3>1, PopLedger DEF popDue
  <2> QED
    BY <1>1, <2>1, <2>2 DEF popDue
<1>2. ASSUME NEW r \in Runs, Done(r) \/ FindSlot(r) \/ Return(r) PROVE LedgerInv'
  <2>1. \A q \in Runs : /\ Holding(q)' <=> Holding(q)
                        /\ Holding(q) => loop'[q].task = loop[q].task
    BY <1>2, LoopType, GoToEffect DEF Done, FindSlot, Return, At, Holding,
       StatesOfRun
  <2> QED
    BY <1>2, <2>1, NothingMoved DEF Done, FindSlot, Return
<1>3. ASSUME NEW r \in Runs, Woken(r) \/ Timer(r) PROVE LedgerInv'
  <2>1. StartDispatch(r) /\ At(r, "select")
        /\ UNCHANGED <<pending, nextID, executing, finished>>
    BY <1>3 DEF Woken, Timer
  <2>2. \A q \in Runs : /\ Holding(q)' <=> Holding(q)
                        /\ Holding(q) => loop'[q].task = loop[q].task
    BY <2>1, LoopType, StartDispatchEffect DEF At, Holding, TypeOK
  <2> QED
    BY <2>1, <2>2, NothingMoved
<1>4. ASSUME UNCHANGED <<pending, nextID, executing, finished, loop>> PROVE LedgerInv'
  <2>1. \A q \in Runs : (Holding(q)' <=> Holding(q)) /\ loop'[q].task = loop[q].task
    BY <1>4 DEF Holding
  <2> QED
    BY <1>4, <2>1, NothingMoved
<1>5. ASSUME NEW r \in Runs, Cancel(r) PROVE LedgerInv'
  BY <1>4, <1>5 DEF Cancel
<1>6. CASE Tick \/ UNCHANGED vars
  BY <1>4, <1>6 DEF Tick, vars
<1> QED
  BY <1>1, <1>2, <1>3, <1>5, <1>6, SubmitLedger, StartLedger, EndLedger
     DEF Next, RunStep

(* One place for each task, so that the counts of TaskLedger add up to one. *)
LEMMA LedgerCounts == LedgerInv => TaskLedger
<1> SUFFICES ASSUME LedgerInv, NEW id \in 1..nextID
             PROVE  (IF id \in PendingIDs THEN 1 ELSE 0) + Cardinality(Holders(id))
                      + Cardinality(Goroutines(id))
                      + (IF id \in finished THEN 1 ELSE 0) = 1
  BY DEF TaskLedger
<1>1. Cardinality({}) = 0
  BY FS_EmptySet
<1>2. CASE id \in PendingIDs \cup finished
  <2>1. Holders(id) = {}
    BY <1>2 DEF LedgerInv, HeldOnce, Holders, Holding
  <2>2. Goroutines(id) = {}
    BY <1>2 DEF LedgerInv, ExecutingOnce, Goroutines
  <2>3. ~ (id \in PendingIDs /\ id \in finished)
    BY DEF LedgerInv
  <2> QED
    BY <1>1, <1>2, <2>1, <2>2, <2>3
<1>3. ASSUME NEW r \in Runs, Holding(r), loop[r].task.id = id
      PROVE  /\ Holders(id) = {r} /\ Goroutines(id) = {}
             /\ id \notin PendingIDs /\ id \notin finished
  <2>1. id \notin PendingIDs /\ id \notin finished
    BY <1>3 DEF LedgerInv, HeldOnce
  <2>2. Holders(id) = {r}
    BY <1>3 DEF LedgerInv, HeldOnce, Holders, Holding
  <2>3. Goroutines(id) = {}
    BY <1>3 DEF LedgerInv, ExecutingOnce, Goroutines
  <2> QED
    BY <2>1, <2>2, <2>3
<1>4. ASSUME NEW e \in executing, e.id = id
      PROVE  /\ Holders(id) = {} /\ Goroutines(id) = {e}
             /\ id \notin PendingIDs /\ id \notin finished
  <2>1. /\ id \notin PendingIDs /\ id \notin finished
        /\ \A r \in Runs : Holding(r) => loop[r].task.id # id
        /\ \A f \in executing : f.id = id => f = e
    BY <1>4 DEF LedgerInv, ExecutingOnce
  <2>2. Holders(id) = {}
    BY <2>1 DEF Holders, Holding
  <2>3. Goroutines(id) = {e}
    BY <1>4, <2>1 DEF Goroutines
  <2> QED
    BY <2>1, <2>2, <2>3
<1>5. \A x : Cardinality({x}) = 1
  BY FS_Singleton
<1>6. CASE \E r \in Runs : Holding(r) /\ loop[r].task.id = id
  <2>1. PICK r \in Runs : Holding(r) /\ loop[r].task.id = id
    BY <1>6
  <2>2. Cardinality(Holders(id)) = 1 /\ Cardinality(Goroutines(id)) = 0
    BY <1>1, <1>3, <1>5, <2>1
  <2> QED
    BY <1>3, <2>1, <2>2
<1>7. CASE \E e \in executing : e.id = id
  <2>1. PICK e \in executing : e.id = id
    BY <1>7
  <2>2. Cardinality(Holders(id)) = 0 /\ Cardinality(Goroutines(id)) = 1
    BY <1>1, <1>4, <1>5, <2>1
  <2> QED
    BY <1>4, <2>1, <2>2
<1> QED
  BY <1>2, <1>6, <1>7 DEF LedgerInv, Somewhere

LEMMA SpecInv == Spec => [](TypeOK /\ OrderInv /\ CountInv /\ IdleInv)
BY InitAll, NextTypeOK, NextOrderInv, NextCountInv, NextIdleInv, PTL DEF Spec

-----------------------------------------------------------------------------
(* The queue, its counter and its loops keep their types: the counter of   *)
(* running tasks in particular never falls below zero.                     *)
THEOREM TypeCorrect == Spec => []TypeOK
BY SpecInv, PTL

(* At most workers tasks execute, and one more for every Run beyond the    *)
(* first, however the unlocked checks of running interleave.               *)
THEOREM WithinWorkersAlways == Spec => []WithinWorkers
<1>1. TypeOK /\ CountInv => WithinWorkers
  <2> SUFFICES ASSUME TypeOK, CountInv PROVE WithinWorkers
    OBVIOUS
  <2>1. /\ Workers \in Nat /\ Cardinality(Runs) \in Nat /\ running \in Nat
        /\ Cardinality(executing) \in Nat /\ Cardinality(Starters) \in Nat
    BY TaskQueueAssumption, RunsFinite, StartersCount, FS_CardinalityType
       DEF TypeOK, CountInv
  <2> QED
    BY <2>1 DEF CountInv, WithinWorkers
<1> QED
  BY <1>1, SpecInv, PTL

(* Run returns with no task in its hands and none of its goroutines alive. *)
THEOREM ReturnedIsIdleAlways == Spec => []ReturnedIsIdle
<1>1. IdleInv => ReturnedIsIdle
  BY DEF IdleInv, ReturnedIsIdle
<1> QED
  BY <1>1, SpecInv, PTL

(* Tasks are taken in the order they are due, for any number of Runs.      *)
THEOREM TakenInOrderAlways == Spec => TakenInOrder
<1>1. TypeOK /\ OrderInv /\ [Next]_vars => [popped' >= popped]_popped
  BY NextOrderInv, NextTypeOK DEF TypeOK, OrderInv
<1> QED
  BY <1>1, SpecInv, PTL DEF Spec, TakenInOrder

(* No task is lost, and none is executed twice, whichever Runs pop, wait   *)
(* for workers and start tasks at once.                                    *)
THEOREM TaskLedgerAlways == Spec => []TaskLedger
<1>1. Spec => []LedgerInv
  BY InitLedger, NextLedger, TypeCorrect, PTL DEF Spec
<1> QED
  BY <1>1, LedgerCounts, PTL

-----------------------------------------------------------------------------
(* The audit queue, the cron tasks and the alert watcher.                  *)
CONSTANTS
  Entries, Closers, Buffer, MaxBatch, Limit,      \* AuditQueue
  TaskNames, SchedulerRuns, MaxEntries,  \* CronTasks
  Name, Consecutive, MaxTicks            \* AlertWatcher

VARIABLES
  entry, ch, batch, closed, closing, consumer, list,
  tasks, entries, lastId, runningTasks, run,
  turn, state, samples, messages

A == INSTANCE AuditQueue

C == INSTANCE CronTasks WITH Runs <- SchedulerRuns, running <- runningTasks

W == INSTANCE AlertWatcher

ASSUME BackgroundAssumption == A!AuditAssumption /\ W!AlertAssumption

(* When the audit queue is closed nothing it accepted is left, and no      *)
(* singleton task runs beside itself (ClosedMeansSettled, SingletonAlone). *)
BackgroundSound == A!ClosedMeansSettled /\ C!SingletonAlone

(* No alert is repeated before the last is over (MessagesOnEvidence of     *)
(* AlertWatcher).                                                          *)
MessagesOnEvidence == W!MessagesOnEvidence

(* What Append, Tail and Head leave in a sequence.                          *)
LEMMA SetOfSequence ==
  ASSUME NEW S, NEW s \in Seq(S)
  PROVE  /\ \A x \in S : A!ToSet(Append(s, x)) = A!ToSet(s) \cup {x}
         /\ s # <<>> => /\ Tail(s) \in Seq(S) /\ Head(s) \in S
                        /\ A!ToSet(s) = {Head(s)} \cup A!ToSet(Tail(s))
         /\ A!ToSet(<<>>) = {}
<1>1. \A x \in S : A!ToSet(Append(s, x)) = A!ToSet(s) \cup {x}
  <2> TAKE x \in S
  <2>1. DOMAIN Append(s, x) = 1 .. Len(s) + 1 /\ DOMAIN s = 1 .. Len(s)
    OBVIOUS
  <2>2. \A i \in 1 .. Len(s) + 1 : Append(s, x)[i] = IF i = Len(s) + 1 THEN x ELSE s[i]
    OBVIOUS
  <2>3. Len(s) \in Nat
    OBVIOUS
  <2>4. A!ToSet(s) \cup {x} \subseteq A!ToSet(Append(s, x))
    <3>1. \A i \in 1 .. Len(s) : i \in 1 .. Len(s) + 1 /\ i # Len(s) + 1
      BY <2>3
    <3>2. Len(s) + 1 \in 1 .. Len(s) + 1
      BY <2>3
    <3> QED
      BY <2>1, <2>2, <3>1, <3>2 DEF A!ToSet
  <2>5. A!ToSet(Append(s, x)) \subseteq A!ToSet(s) \cup {x}
    <3>1. \A i \in 1 .. Len(s) + 1 : i # Len(s) + 1 => i \in 1 .. Len(s)
      BY <2>3
    <3> QED
      BY <2>1, <2>2, <3>1 DEF A!ToSet
  <2> QED
    BY <2>4, <2>5
<1>2. ASSUME s # <<>>
      PROVE  /\ Tail(s) \in Seq(S) /\ Head(s) \in S
             /\ A!ToSet(s) = {Head(s)} \cup A!ToSet(Tail(s))
  <2>1. /\ Tail(s) \in Seq(S) /\ Head(s) \in S /\ Len(s) \in Nat /\ Len(s) # 0
        /\ DOMAIN s = 1 .. Len(s) /\ DOMAIN Tail(s) = 1 .. Len(s) - 1
        /\ Head(s) = s[1]
        /\ \A i \in 1 .. Len(s) - 1 : Tail(s)[i] = s[i + 1]
    BY <1>2
  <2>2. A!ToSet(s) \subseteq {Head(s)} \cup A!ToSet(Tail(s))
    <3>1. \A i \in 1 .. Len(s) : i = 1 \/ (i - 1 \in 1 .. Len(s) - 1 /\ (i - 1) + 1 = i)
      BY <2>1
    <3>2. \A i \in 1 .. Len(s) : i = 1 \/ (i - 1 \in 1 .. Len(s) - 1 /\ Tail(s)[i - 1] = s[i])
      BY <2>1, <3>1
    <3> SUFFICES ASSUME NEW i \in 1 .. Len(s)
                 PROVE  s[i] \in {Head(s)} \cup A!ToSet(Tail(s))
      BY <2>1 DEF A!ToSet
    <3>3. CASE i = 1
      BY <2>1, <3>3
    <3>4. CASE i - 1 \in 1 .. Len(s) - 1 /\ Tail(s)[i - 1] = s[i]
      BY <2>1, <3>4 DEF A!ToSet
    <3> QED
      BY <3>2, <3>3, <3>4
  <2>3. {Head(s)} \cup A!ToSet(Tail(s)) \subseteq A!ToSet(s)
    <3>1. 1 \in 1 .. Len(s) /\ \A i \in 1 .. Len(s) - 1 : i + 1 \in 1 .. Len(s)
      BY <2>1
    <3> QED
      BY <2>1, <3>1 DEF A!ToSet
  <2> QED
    BY <2>1, <2>2, <2>3
<1>3. A!ToSet(<<>>) = {}
  BY DEF A!ToSet
<1> QED
  BY <1>1, <1>2, <1>3

(* Nothing is queued at first.                                             *)
LEMMA InitAudit == A!Init => A!IInv
<1> SUFFICES ASSUME A!Init PROVE A!IInv
  OBVIOUS
<1>1. \A e \in Entries : entry[e] = "new"
  BY DEF A!Init
<1>2. <<>> \in Seq(Entries)
  OBVIOUS
<1>3. A!TypeOK
  BY <1>2 DEF A!Init, A!TypeOK
<1>4. A!LeftEmpty
  BY DEF A!Init, A!LeftEmpty
<1>5. A!FirstWaits /\ A!RepeatedLater
  BY DEF A!Init, A!FirstWaits, A!RepeatedLater
<1> QED
  BY <1>1, <1>3, <1>4, <1>5 DEF A!IInv, A!QueuedSomewhere

(* A batch given to the sink is queued no more, whether it was written or  *)
(* the sink failed.                                                        *)
LEMMA WriteSettles ==
  ASSUME A!TypeOK, NEW es \in Seq(Entries), A!Write(es)
  PROVE  /\ entry' \in [Entries -> {"new", "checked", "queued", "dropped", "panicked",
                            "written", "failed"}]
         /\ \A e \in Entries : entry'[e] = "queued" =>
              entry[e] = "queued" /\ e \notin A!ToSet(es)
<1>1. CASE es = <<>> /\ UNCHANGED <<entry, list>>
  BY <1>1, SetOfSequence DEF A!TypeOK
<1>2. CASE entry' = A!Becomes(A!ToSet(es), "written")
  BY <1>2 DEF A!TypeOK, A!Becomes
<1>3. CASE entry' = A!Becomes(A!ToSet(es), "failed")
  BY <1>3 DEF A!TypeOK, A!Becomes
<1> QED
  BY <1>1, <1>2, <1>3 DEF A!Write

(* What Enqueue puts into the channel goes to the batch, and from there to *)
(* the sink; Enqueue puts nothing there once it is closed, and one call of *)
(* Close, the first, waits for the consumer.                               *)
LEMMA NextAudit == A!IInv /\ [A!Next]_A!auditVars => A!IInv'
<1> SUFFICES ASSUME A!IInv, [A!Next]_A!auditVars PROVE A!IInv'
  OBVIOUS
<1> USE DEF A!IInv
<1>1. ASSUME NEW e \in Entries, A!EnqueueChecks(e) PROVE A!IInv'
  BY <1>1 DEF A!EnqueueChecks, A!Becomes, A!TypeOK, A!QueuedSomewhere,
     A!LeftEmpty, A!FirstWaits, A!RepeatedLater
<1>2. ASSUME NEW e \in Entries, A!EnqueueSends(e) PROVE A!IInv'
  <2>1. CASE UNCHANGED ch
    BY <1>2, <2>1 DEF A!EnqueueSends, A!Becomes, A!TypeOK, A!QueuedSomewhere,
       A!LeftEmpty, A!FirstWaits, A!RepeatedLater
  <2>2. CASE ~ closed /\ ch' = Append(ch, e) /\ entry' = A!Becomes({e}, "queued")
    <3>1. A!ToSet(Append(ch, e)) = A!ToSet(ch) \cup {e} /\ Append(ch, e) \in Seq(Entries)
      BY SetOfSequence DEF A!TypeOK
    <3> QED
      BY <1>2, <2>2, <3>1 DEF A!EnqueueSends, A!Becomes, A!TypeOK,
         A!QueuedSomewhere, A!LeftEmpty, A!FirstWaits, A!RepeatedLater
  <2> QED
    BY <1>2, <2>1, <2>2 DEF A!EnqueueSends
<1>3. CASE A!Receive
  <2> DEFINE full == Append(batch, Head(ch))
  <2>1. /\ Tail(ch) \in Seq(Entries) /\ Head(ch) \in Entries
        /\ A!ToSet(ch) = {Head(ch)} \cup A!ToSet(Tail(ch))
    BY <1>3, SetOfSequence DEF A!Receive, A!TypeOK
  <2>2. full \in Seq(Entries) /\ A!ToSet(full) = A!ToSet(batch) \cup {Head(ch)}
    BY <2>1, SetOfSequence DEF A!TypeOK
  <2>3. /\ consumer = "running" /\ ch' = Tail(ch)
        /\ UNCHANGED <<closed, closing, consumer>>
    BY <1>3 DEF A!Receive
  <2>4. CASE A!Write(full) /\ batch' = <<>>
    <3>1. /\ entry' \in [Entries -> {"new", "checked", "queued", "dropped", "panicked",
                            "written", "failed"}]
          /\ \A e \in Entries : entry'[e] = "queued" =>
               entry[e] = "queued" /\ e \notin A!ToSet(full)
      BY <2>2, <2>4, WriteSettles
    <3> HIDE DEF full
    <3> QED
      BY <2>1, <2>2, <2>3, <2>4, <3>1 DEF A!TypeOK, A!QueuedSomewhere,
         A!LeftEmpty, A!FirstWaits, A!RepeatedLater
  <2>5. CASE batch' = full /\ UNCHANGED entry
    <3> HIDE DEF full
    <3> QED
      BY <2>1, <2>2, <2>3, <2>5 DEF A!TypeOK, A!QueuedSomewhere, A!LeftEmpty,
         A!FirstWaits, A!RepeatedLater
  <2> QED
    BY <1>3, <2>4, <2>5 DEF A!Receive
<1>4. ASSUME A!Write(batch), batch' = <<>>, UNCHANGED <<ch, closed, closing>>,
             consumer = "running", consumer' \in {"running", "done"},
             consumer' = "done" => closed /\ ch = <<>>
      PROVE  A!IInv'
  <2>1. /\ entry' \in [Entries -> {"new", "checked", "queued", "dropped", "panicked",
                            "written", "failed"}]
        /\ \A e \in Entries : entry'[e] = "queued" =>
             entry[e] = "queued" /\ e \notin A!ToSet(batch)
    BY <1>4, WriteSettles DEF A!TypeOK
  <2> QED
    BY <1>4, <2>1 DEF A!TypeOK, A!QueuedSomewhere, A!LeftEmpty, A!FirstWaits,
       A!RepeatedLater
<1>5. CASE A!FlushIdle
  BY <1>4, <1>5 DEF A!FlushIdle
<1>6. CASE A!Leave
  BY <1>4, <1>6 DEF A!Leave
<1>7. ASSUME NEW c \in Closers, A!Close(c) PROVE A!IInv'
  <2>1. /\ A!TypeOK' /\ A!QueuedSomewhere'
    BY <1>7 DEF A!Close, A!TypeOK, A!QueuedSomewhere
  <2>2. A!LeftEmpty' /\ A!RepeatedLater'
    BY <1>7 DEF A!Close, A!TypeOK, A!LeftEmpty, A!RepeatedLater
  <2>3. A!FirstWaits'
    BY <1>7 DEF A!Close, A!TypeOK, A!FirstWaits
  <2> QED
    BY <2>1, <2>2, <2>3
<1>8. ASSUME NEW c \in Closers, A!CloseReturns(c) PROVE A!IInv'
  <2>1. PICK how \in {"done", "timeout"} :
          /\ how = "done" => consumer = "done"
          /\ closing' = [closing EXCEPT ![c] = how]
    BY <1>8 DEF A!CloseReturns
  <2>2. /\ closing[c] = "waiting"
        /\ UNCHANGED <<entry, ch, batch, closed, consumer, list>>
    BY <1>8 DEF A!CloseReturns
  <2>3. A!TypeOK' /\ A!QueuedSomewhere'
    BY <2>1, <2>2 DEF A!TypeOK, A!QueuedSomewhere
  <2>4. A!LeftEmpty' /\ A!RepeatedLater'
    BY <2>1, <2>2 DEF A!TypeOK, A!LeftEmpty, A!RepeatedLater
  <2>5. A!FirstWaits'
    BY <2>1, <2>2 DEF A!TypeOK, A!FirstWaits
  <2> QED
    BY <2>3, <2>4, <2>5
<1>9. CASE UNCHANGED A!auditVars
  BY <1>9 DEF A!auditVars, A!TypeOK, A!QueuedSomewhere, A!LeftEmpty,
    A!FirstWaits, A!RepeatedLater
<1> QED
  BY <1>1, <1>2, <1>3, <1>5, <1>6, <1>7, <1>8, <1>9 DEF A!Next

(* Nothing is in an empty channel and an empty batch, which is what the    *)
(* consumer leaves; a repeated call of Close comes after the first one,    *)
(* which has seen the consumer leave, waits, or has given up.              *)
LEMMA SettledNow == A!IInv => A!ClosedMeansSettled
<1> SUFFICES ASSUME A!IInv, NEW c \in Closers, closing[c] \in {"done", "repeated"},
                    ~ A!Settled
             PROVE  /\ closing[c] = "repeated"
                    /\ \E d \in Closers \ {c} : closing[d] \in {"waiting", "timeout"}
  BY DEF A!ClosedMeansSettled
<1>1. consumer /= "done"
  BY SetOfSequence DEF A!IInv, A!TypeOK, A!QueuedSomewhere, A!LeftEmpty,
     A!Settled, A!ToSet
<1>2. \A d \in Closers : closing[d] /= "done"
  BY <1>1 DEF A!IInv, A!LeftEmpty
<1>3. closing[c] = "repeated"
  BY <1>2
<1>4. \E d \in Closers : closing[d] \in {"waiting", "timeout"}
  BY <1>2, <1>3 DEF A!IInv, A!FirstWaits, A!RepeatedLater
<1> QED
  BY <1>3, <1>4

(* No task runs at first.                                                  *)
LEMMA InitCron == C!Init => C!IInv
BY DEF C!Init, C!IInv, C!TypeOK, C!ExecutingMarked, C!SingletonAlone, C!Idle

(* singletonGuard enters only where the name is not marked, so that the    *)
(* mark an end takes away was its own.                                     *)
LEMMA NextCron == C!IInv /\ [C!Next]_C!cronVars => C!IInv'
<1> SUFFICES ASSUME C!IInv, [C!Next]_C!cronVars PROVE C!IInv'
  OBVIOUS
<1> USE DEF C!IInv, C!TypeOK, C!ExecutingMarked, C!SingletonAlone, C!Idle, C!Busy
<1>1. ASSUME NEW n \in TaskNames, C!Remove(n) PROVE C!IInv'
  BY <1>1 DEF C!Remove
<1>2. ASSUME NEW n \in TaskNames, NEW s \in BOOLEAN, C!Register(n, s) PROVE C!IInv'
  BY <1>2 DEF C!Register
<1>3. ASSUME NEW g \in SchedulerRuns, NEW e \in entries, C!Start(g, e) PROVE C!IInv'
  BY <1>3 DEF C!Start
<1>4. ASSUME NEW g \in SchedulerRuns, C!Skip(g) PROVE C!IInv'
  BY <1>4 DEF C!Skip
<1>5. ASSUME NEW g \in SchedulerRuns, C!Enter(g) PROVE C!IInv'
  BY <1>5 DEF C!Enter
<1>6. ASSUME NEW g \in SchedulerRuns, C!End(g) PROVE C!IInv'
  BY <1>6 DEF C!End
<1>7. CASE UNCHANGED C!cronVars
  BY <1>7 DEF C!cronVars
<1> QED
  BY <1>1, <1>2, <1>3, <1>4, <1>5, <1>6, <1>7 DEF C!Next

(* However Enqueue, the consumer, Close and a failing sink interleave, an  *)
(* audit queue whose Close returned holds nothing; and however tasks are   *)
(* started, skipped, removed and registered anew, no singleton runs twice  *)
(* at a time.                                                              *)
THEOREM BackgroundSoundAlways == A!Spec /\ C!Spec => []BackgroundSound
<1>1. C!IInv => C!SingletonAlone
  BY DEF C!IInv
<1> QED
  BY <1>1, InitAudit, NextAudit, SettledNow, InitCron, NextCron, PTL
     DEF A!Spec, C!Spec, BackgroundSound

(* The alert watcher: what it counts for a rule is about the last samples. *)
AlertStates == [alertConsecutive : Nat, recoverCount : Nat, alerting : BOOLEAN]

LEMMA InitAlert == W!Init => W!IInv
<1> SUFFICES ASSUME W!Init PROVE W!IInv
  OBVIOUS
<1> USE BackgroundAssumption DEF W!Init, W!AlertAssumption, W!Rules
<1>1. \A r \in W!Rules : /\ samples[r] = <<>> /\ messages[r] = <<>>
                         /\ state[Name[r]] = W!Fresh
  OBVIOUS
<1>2. W!TypeOK
  BY DEF W!TypeOK, W!Fresh
<1>3. W!CountersCount
  BY <1>1 DEF W!CountersCount, W!Last, W!Fresh
<1>4. W!MessagesOnEvidence
  BY <1>1 DEF W!MessagesOnEvidence
<1> QED
  BY <1>2, <1>3, <1>4 DEF W!IInv

(* High and Low, field by field.                                           *)
LEMMA HighCounts ==
  ASSUME NEW s \in AlertStates, NEW r \in W!Rules
  PROVE  /\ W!normalize(r) \in Nat \ {0}
         /\ W!High(s, r).state \in AlertStates
         /\ W!High(s, r).state.alertConsecutive = s.alertConsecutive + 1
         /\ W!High(s, r).state.recoverCount = 0
         /\ W!High(s, r).message \in {"alert", "none"}
         /\ W!High(s, r).message = "none" =>
              W!High(s, r).state.alerting = s.alerting
         /\ W!High(s, r).message = "alert" =>
              /\ W!High(s, r).state.alerting /\ ~ s.alerting
              /\ s.alertConsecutive + 1 >= W!normalize(r)
<1>1. W!normalize(r) \in Nat \ {0}
  BY BackgroundAssumption DEF W!AlertAssumption, W!normalize
<1> DEFINE n == s.alertConsecutive + 1
           up == [s EXCEPT !.recoverCount = 0, !.alertConsecutive = n]
           alerted == [up EXCEPT !.alerting = TRUE]
<1>2. n \in Nat
  BY DEF AlertStates
<1> HIDE DEF n
<1>3. /\ up \in AlertStates /\ up.alertConsecutive = n /\ up.recoverCount = 0
      /\ up.alerting = s.alerting
  BY <1>2 DEF AlertStates
<1> HIDE DEF up
<1>4. /\ alerted \in AlertStates /\ alerted.alertConsecutive = n
      /\ alerted.recoverCount = 0 /\ alerted.alerting
  BY <1>3 DEF AlertStates
<1> HIDE DEF alerted
<1>5. W!High(s, r) = IF ~ s.alerting /\ n >= W!normalize(r)
                     THEN [state |-> alerted, message |-> "alert"]
                     ELSE [state |-> up, message |-> "none"]
  BY DEF W!High, n, up, alerted
<1>6. CASE ~ s.alerting /\ n >= W!normalize(r)
  <2>1. W!High(s, r).state = alerted /\ W!High(s, r).message = "alert"
    BY <1>5, <1>6
  <2> QED
    BY <1>1, <1>4, <1>6, <2>1 DEF n
<1>7. CASE ~ (~ s.alerting /\ n >= W!normalize(r))
  <2>1. W!High(s, r).state = up /\ W!High(s, r).message = "none"
    BY <1>5, <1>7
  <2> QED
    BY <1>1, <1>3, <2>1 DEF n
<1> QED
  BY <1>6, <1>7

LEMMA LowCounts ==
  ASSUME NEW s \in AlertStates, NEW r \in W!Rules
  PROVE  /\ W!Low(s, r).state \in AlertStates
         /\ W!Low(s, r).state.alertConsecutive = 0
         /\ W!Low(s, r).state.recoverCount \in {0, s.recoverCount + 1}
         /\ W!Low(s, r).message \in {"recover", "none"}
         /\ W!Low(s, r).message = "none" =>
              W!Low(s, r).state.alerting = s.alerting
         /\ W!Low(s, r).message = "recover" =>
              /\ ~ W!Low(s, r).state.alerting /\ s.alerting
              /\ s.recoverCount + 1 >= W!normalize(r)
<1>1. W!normalize(r) \in Nat \ {0}
  BY BackgroundAssumption DEF W!AlertAssumption, W!normalize
<1> DEFINE n == s.recoverCount + 1
           down == [s EXCEPT !.alertConsecutive = 0]
           counted == [down EXCEPT !.recoverCount = n]
<1>2. n \in Nat
  BY DEF AlertStates
<1> HIDE DEF n
<1>3. down \in AlertStates /\ down.alertConsecutive = 0 /\ down.alerting = s.alerting
  BY DEF AlertStates
<1> HIDE DEF down
<1>4. /\ counted \in AlertStates /\ counted.alertConsecutive = 0
      /\ counted.recoverCount = n /\ counted.alerting = s.alerting
  BY <1>2, <1>3 DEF AlertStates
<1> HIDE DEF counted
<1>5. /\ W!Fresh \in AlertStates /\ W!Fresh.alertConsecutive = 0
      /\ W!Fresh.recoverCount = 0 /\ ~ W!Fresh.alerting
  BY DEF W!Fresh, AlertStates
<1>6. W!Low(s, r) = IF ~ s.alerting THEN [state |-> W!Fresh, message |-> "none"]
                    ELSE IF n >= W!normalize(r)
                    THEN [state |-> W!Fresh, message |-> "recover"]
                    ELSE [state |-> counted, message |-> "none"]
  BY DEF W!Low, n, down, counted
<1>7. CASE ~ s.alerting
  <2>1. W!Low(s, r).state = W!Fresh /\ W!Low(s, r).message = "none"
    BY <1>6, <1>7
  <2>2. W!Fresh.alerting = s.alerting
    BY <1>7 DEF W!Fresh, AlertStates
  <2> QED
    BY <1>5, <2>1, <2>2
<1>8. CASE s.alerting /\ n >= W!normalize(r)
  <2>1. W!Low(s, r).state = W!Fresh /\ W!Low(s, r).message = "recover"
    BY <1>6, <1>8
  <2> QED
    BY <1>5, <1>8, <2>1 DEF n
<1>9. CASE s.alerting /\ ~ (n >= W!normalize(r))
  <2>1. W!Low(s, r).state = counted /\ W!Low(s, r).message = "none"
    BY <1>6, <1>9
  <2> QED
    BY <1>4, <2>1 DEF n
<1> QED
  BY <1>7, <1>8, <1>9

(* One more sample of the value the last n had, or of another.             *)
LEMMA OneMoreSample ==
  ASSUME NEW values \in Seq({"high", "low"}), NEW v \in {"high", "low"}, NEW n \in Nat,
         W!Last(values, n, v)
  PROVE  W!Last(Append(values, v), n + 1, v)
  BY DEF W!Last

LEMMA NextAlert == W!IInv /\ [W!tick]_W!alertVars => W!IInv'
<1> SUFFICES ASSUME W!IInv, [W!tick]_W!alertVars PROVE W!IInv'
  OBVIOUS
<1>1. CASE UNCHANGED W!alertVars
  <2>1. turn' = turn /\ state' = state /\ samples' = samples /\ messages' = messages
    BY <1>1 DEF W!alertVars
  <2>2. W!TypeOK'
    BY <2>1 DEF W!IInv, W!TypeOK, W!Rules
  <2>3. W!CountersCount'
    BY <2>1 DEF W!IInv, W!CountersCount, W!Alone, W!Rules
  <2>4. W!MessagesOnEvidence'
    BY <2>1 DEF W!IInv, W!MessagesOnEvidence, W!Alone, W!Rules, W!normalize
  <2> QED
    BY <2>2, <2>3, <2>4 DEF W!IInv
<1>2. CASE W!tick
  <2>1. turn \in W!Rules
    BY <1>2 DEF W!tick
  <2>2. PICK value \in {"high", "low"} : W!evaluate(turn, value)
    BY <1>2 DEF W!tick
  <2> DEFINE s == state[Name[turn]]
             result == IF value = "high" THEN W!High(s, turn) ELSE W!Low(s, turn)
             Names == {Name[r] : r \in W!Rules}
  <2>3. /\ turn \in Nat /\ state \in [Names -> AlertStates]
        /\ samples \in [W!Rules -> Seq({"high", "low"})]
        /\ messages \in [W!Rules -> Seq({"alert", "recover"} \X Nat)]
    BY DEF W!IInv, W!TypeOK, AlertStates
  <2>4. Name[turn] \in Names /\ s \in AlertStates
    BY <2>1, <2>3
  <2>5. /\ state' = [state EXCEPT ![Name[turn]] = result.state]
        /\ samples' = [samples EXCEPT ![turn] = Append(samples[turn], value)]
        /\ messages' = IF result.message = "none" THEN messages
                       ELSE [messages EXCEPT ![turn] =
                          Append(messages[turn], <<result.message, Len(samples[turn]) + 1>>)]
    BY <2>2, <2>3 DEF W!evaluate
  <2>6. /\ result.state \in AlertStates
        /\ result.message \in {"none", "alert", "recover"}
    BY <2>1, <2>4, HighCounts, LowCounts
  <2> HIDE DEF result, s, Names
  <2>7. /\ samples' \in [W!Rules -> Seq({"high", "low"})]
        /\ samples'[turn] = Append(samples[turn], value)
        /\ \A q \in W!Rules \ {turn} : samples'[q] = samples[q]
    BY <2>1, <2>3, <2>5
  <2>8. \A q \in W!Rules \ {turn} :
          /\ samples'[q] = samples[q] /\ messages'[q] = messages[q]
          /\ W!Alone(q) => state'[Name[q]] = state[Name[q]]
    <3>1. \A q \in W!Rules \ {turn} : Name[q] \in Names /\ (W!Alone(q) => Name[q] # Name[turn])
      BY <2>1 DEF W!Alone, Names
    <3>2. \A q \in W!Rules \ {turn} : messages'[q] = messages[q]
      BY <2>3, <2>5
    <3> QED
      BY <2>3, <2>5, <2>7, <3>1, <3>2
  <2>9. state' \in [Names -> AlertStates] /\ state'[Name[turn]] = result.state
    BY <2>3, <2>4, <2>5, <2>6
  <2> DEFINE len == Len(samples[turn])
             sent == messages[turn]
  <2>10. /\ messages' \in [W!Rules -> Seq({"alert", "recover"} \X Nat)]
         /\ result.message = "none" => messages'[turn] = sent
         /\ result.message # "none" =>
              messages'[turn] = Append(sent, <<result.message, len + 1>>)
    <3>1. len \in Nat
      BY <2>1, <2>3
    <3>2. CASE result.message = "none"
      BY <2>3, <2>5, <3>2
    <3>3. CASE result.message # "none"
      <4>1. <<result.message, len + 1>> \in {"alert", "recover"} \X Nat
        BY <2>6, <3>1, <3>3
      <4>2. Append(sent, <<result.message, len + 1>>) \in Seq({"alert", "recover"} \X Nat)
        BY <2>1, <2>3, <4>1
      <4> QED
        BY <2>1, <2>3, <2>5, <3>3, <4>2
    <3> QED
      BY <3>2, <3>3
  <2>11. W!TypeOK'
    <3>1. turn' \in Nat
      BY <1>2, <2>3 DEF W!tick
    <3> QED
      BY <2>7, <2>9, <2>10, <3>1 DEF W!TypeOK, AlertStates, Names, W!Rules
  <2>12. ASSUME W!Alone(turn)
         PROVE  LET new == state'[Name[turn]]
                IN /\ W!Last(samples'[turn], new.alertConsecutive, "high")
                   /\ W!Last(samples'[turn], new.recoverCount, "low")
                   /\ new.alerting <=>
                        /\ messages'[turn] # <<>>
                        /\ messages'[turn][Len(messages'[turn])][1] = "alert"
                   /\ result.message = "alert" =>
                        value = "high" /\ ~ s.alerting
                          /\ new.alertConsecutive >= W!normalize(turn)
                   /\ result.message = "recover" =>
                        value = "low" /\ s.alerting
                          /\ s.recoverCount + 1 >= W!normalize(turn)
    <3>1. /\ W!Last(samples[turn], s.alertConsecutive, "high") /\ W!Last(samples[turn], s.recoverCount, "low")
          /\ s.alerting <=> sent # <<>> /\ sent[Len(sent)][1] = "alert"
      BY <2>1, <2>12 DEF W!IInv, W!CountersCount, s
    <3>2. /\ samples[turn] \in Seq({"high", "low"}) /\ sent \in Seq({"alert", "recover"} \X Nat)
          /\ s.alertConsecutive \in Nat /\ s.recoverCount \in Nat /\ len \in Nat
      BY <2>1, <2>3, <2>4 DEF AlertStates
    <3>3. W!Last(samples'[turn], 0, "high") /\ W!Last(samples'[turn], 0, "low")
      BY <2>1, <2>7, <3>2 DEF W!Last
    <3>4. \A m \in {"alert", "recover"} : LET more == Append(sent, <<m, len + 1>>)
                 IN more # <<>> /\ more[Len(more)][1] = m
      <4> TAKE m \in {"alert", "recover"}
      <4>1. <<m, len + 1>> \in {"alert", "recover"} \X Nat
        BY <3>2
      <4> QED
        BY <3>2, <4>1
    <3>5. CASE value = "high"
      <4>1. result = W!High(s, turn)
        BY <3>5 DEF result
      <4>2. W!Last(samples'[turn], s.alertConsecutive + 1, "high")
        BY <2>7, <3>1, <3>2, <3>5, OneMoreSample
      <4>3. CASE result.message = "none"
        BY <2>1, <2>4, <2>9, <2>10, <3>1, <3>3, <4>1, <4>2, <4>3, HighCounts
      <4>4. CASE result.message = "alert"
        BY <2>1, <2>4, <2>9, <2>10, <3>3, <3>4, <3>5, <4>1, <4>2, <4>4,
           HighCounts
      <4> QED
        BY <2>1, <2>4, <4>1, <4>3, <4>4, HighCounts
    <3>6. CASE value = "low"
      <4>1. result = W!Low(s, turn)
        BY <3>6 DEF result
      <4>2. W!Last(samples'[turn], s.recoverCount + 1, "low")
        BY <2>7, <3>1, <3>2, <3>6, OneMoreSample
      <4>3. W!Last(samples'[turn], result.state.recoverCount, "low")
        BY <2>1, <2>4, <3>3, <4>1, <4>2, LowCounts
      <4>4. CASE result.message = "none"
        BY <2>1, <2>4, <2>9, <2>10, <3>1, <3>3, <4>1, <4>3, <4>4, LowCounts
      <4>5. CASE result.message = "recover"
        BY <2>1, <2>4, <2>9, <2>10, <3>3, <3>4, <3>6, <4>1, <4>3, <4>5,
           LowCounts
      <4> QED
        BY <2>1, <2>4, <4>1, <4>4, <4>5, LowCounts
    <3> QED
      BY <3>5, <3>6
  <2>13. W!CountersCount'
    <3> SUFFICES ASSUME NEW q \in W!Rules, W!Alone(q)
                 PROVE  LET s2 == state'[Name[q]]  sent2 == messages'[q]
                        IN /\ W!Last(samples'[q], s2.alertConsecutive, "high")
                           /\ W!Last(samples'[q], s2.recoverCount, "low")
                           /\ s2.alerting <=> sent2 # <<>> /\ sent2[Len(sent2)][1] = "alert"
      BY DEF W!CountersCount, W!Alone, W!Rules
    <3>1. CASE q = turn
      BY <2>12, <3>1
    <3>2. CASE q # turn
      BY <2>8, <3>2 DEF W!IInv, W!CountersCount, W!Last
    <3> QED
      BY <3>1, <3>2
  <2>14. ASSUME W!Alone(turn), NEW i \in 1 .. Len(messages'[turn])
         PROVE  LET m == messages'[turn][i]
                IN /\ m[1] = IF i = 1 \/ messages'[turn][i - 1][1] = "recover"
                             THEN "alert" ELSE "recover"
                   /\ m[2] \in W!normalize(turn) .. Len(samples'[turn])
                   /\ \A k \in (m[2] - W!normalize(turn) + 1) .. m[2] :
                        samples'[turn][k] = IF m[1] = "alert" THEN "high" ELSE "low"
    <3>1. /\ samples[turn] \in Seq({"high", "low"}) /\ sent \in Seq({"alert", "recover"} \X Nat)
          /\ len \in Nat /\ Len(samples'[turn]) = len + 1
          /\ \A k \in 1 .. len : samples'[turn][k] = samples[turn][k]
          /\ samples'[turn][len + 1] = value
      BY <2>1, <2>3, <2>7
    <3>2. W!normalize(turn) \in Nat \ {0}
      BY <2>1, <2>4, HighCounts
    <3>3. /\ \A j \in 1 .. Len(sent) : messages'[turn][j] = sent[j]
          /\ i \in 1 .. Len(sent) \/ (i = Len(sent) + 1 /\ result.message # "none")
      <4>1. CASE result.message = "none"
        BY <2>10, <2>14, <4>1
      <4>2. CASE result.message # "none"
        <5>1. <<result.message, len + 1>> \in {"alert", "recover"} \X Nat
          BY <2>6, <3>1, <4>2
        <5>2. messages'[turn] = Append(sent, <<result.message, len + 1>>)
          BY <2>10, <4>2
        <5>3. /\ Len(messages'[turn]) = Len(sent) + 1 /\ Len(sent) \in Nat
              /\ \A j \in 1 .. Len(sent) : messages'[turn][j] = sent[j]
          BY <3>1, <5>1, <5>2
        <5> QED
          BY <2>14, <4>2, <5>3
      <4> QED
        BY <4>1, <4>2
    <3>4. CASE i \in 1 .. Len(sent)
      <4>1. /\ sent[i][1] = IF i = 1 \/ sent[i - 1][1] = "recover" THEN "alert" ELSE "recover"
            /\ sent[i][2] \in W!normalize(turn) .. len
            /\ \A k \in (sent[i][2] - W!normalize(turn) + 1) .. sent[i][2] :
                  samples[turn][k] = IF sent[i][1] = "alert" THEN "high" ELSE "low"
        BY <2>1, <2>14, <3>4 DEF W!IInv, W!MessagesOnEvidence
      <4>2. i # 1 => messages'[turn][i - 1] = sent[i - 1]
        BY <3>1, <3>3, <3>4
      <4>3. \A n \in Nat \ {0}, l \in Nat : \A x \in n .. l :
              x \in n .. l + 1 /\ \A k \in (x - n + 1) .. x : k \in 1 .. l
        OBVIOUS
      <4>4. messages'[turn][i] = sent[i]
        BY <3>3, <3>4
      <4>5. /\ sent[i][2] \in W!normalize(turn) .. len + 1
            /\ \A k \in (sent[i][2] - W!normalize(turn) + 1) .. sent[i][2] : k \in 1 .. len
        <5> DEFINE n == W!normalize(turn)
                   x == sent[i][2]
        <5>1. n \in Nat \ {0} /\ len \in Nat /\ x \in n .. len
          BY <3>1, <3>2, <4>1
        <5> HIDE DEF n, x, len
        <5>2. x \in n .. len + 1 /\ \A k \in (x - n + 1) .. x : k \in 1 .. len
          BY <4>3, <5>1
        <5> QED
          BY <5>2 DEF n, x
      <4>6. \A k \in (sent[i][2] - W!normalize(turn) + 1) .. sent[i][2] :
              samples'[turn][k] = IF sent[i][1] = "alert" THEN "high" ELSE "low"
        BY <3>1, <4>1, <4>5
      <4> QED
        BY <3>1, <4>1, <4>2, <4>4, <4>5, <4>6
    <3>5. CASE i = Len(sent) + 1 /\ result.message # "none"
      <4>1. messages'[turn][i] = <<result.message, len + 1>>
        BY <2>10, <3>1, <3>5
      <4>2. s.alerting <=> sent # <<>> /\ sent[Len(sent)][1] = "alert"
        BY <2>1, <2>14 DEF W!IInv, W!CountersCount, s
      <4>3. i # 1 => /\ messages'[turn][i - 1] = sent[Len(sent)]
                     /\ sent[Len(sent)][1] \in {"alert", "recover"}
        BY <3>1, <3>3, <3>5
      <4>4. (i = 1) <=> (sent = <<>>)
        BY <3>1, <3>5
      <4>5. W!Last(samples[turn], s.alertConsecutive, "high") /\ W!Last(samples[turn], s.recoverCount, "low")
        BY <2>1, <2>14 DEF W!IInv, W!CountersCount, s
      <4>6. s.alertConsecutive \in Nat /\ s.recoverCount \in Nat
        BY <2>4 DEF AlertStates
      <4>7. CASE result.message = "alert"
        <5>1. ~ s.alerting /\ value = "high" /\ s.alertConsecutive + 1 >= W!normalize(turn)
          BY <2>1, <2>4, <4>7, HighCounts, LowCounts DEF result
        <5>2. \A k \in (len + 1 - W!normalize(turn) + 1) .. len + 1 :
                samples'[turn][k] = "high"
          <6>1. \A n, l, a \in Nat : a <= l /\ a + 1 >= n =>
                  \A k \in (l + 1 - n + 1) .. l + 1 :
                    k = l + 1 \/ (k \in 1 .. l /\ k \in (l - a + 1) .. l)
            OBVIOUS
          <6>2. \A k \in (len + 1 - W!normalize(turn) + 1) .. len + 1 :
                  \/ k = len + 1
                  \/ k \in 1 .. len /\ k \in (len - s.alertConsecutive + 1) .. len
            BY <3>1, <3>2, <4>5, <4>6, <5>1, <6>1 DEF W!Last
          <6> QED
            BY <3>1, <4>5, <5>1, <6>2 DEF W!Last
        <5>3. len + 1 >= W!normalize(turn)
          BY <3>1, <3>2, <4>5, <4>6, <5>1 DEF W!Last
        <5>4. i = 1 \/ messages'[turn][i - 1][1] = "recover"
          BY <4>2, <4>3, <4>4, <5>1
        <5> QED
          BY <3>1, <3>2, <4>1, <4>7, <5>2, <5>3, <5>4
      <4>8. CASE result.message = "recover"
        <5>1. s.alerting /\ value = "low" /\ s.recoverCount + 1 >= W!normalize(turn)
          BY <2>1, <2>2, <2>4, <4>8, HighCounts, LowCounts DEF result
        <5>2. \A k \in (len + 1 - W!normalize(turn) + 1) .. len + 1 :
                samples'[turn][k] = "low"
          <6>1. \A n, l, a \in Nat : a <= l /\ a + 1 >= n =>
                  \A k \in (l + 1 - n + 1) .. l + 1 :
                    k = l + 1 \/ (k \in 1 .. l /\ k \in (l - a + 1) .. l)
            OBVIOUS
          <6>2. \A k \in (len + 1 - W!normalize(turn) + 1) .. len + 1 :
                  \/ k = len + 1
                  \/ k \in 1 .. len /\ k \in (len - s.recoverCount + 1) .. len
            BY <3>1, <3>2, <4>5, <4>6, <5>1, <6>1 DEF W!Last
          <6> QED
            BY <3>1, <4>5, <5>1, <6>2 DEF W!Last
        <5>3. len + 1 >= W!normalize(turn)
          BY <3>1, <3>2, <4>5, <4>6, <5>1 DEF W!Last
        <5>4. i # 1 /\ messages'[turn][i - 1][1] = "alert"
          BY <4>2, <4>3, <4>4, <5>1
        <5> QED
          BY <3>1, <3>2, <4>1, <4>8, <5>2, <5>3, <5>4
      <4> QED
        BY <2>6, <3>5, <4>7, <4>8
    <3> QED
      BY <3>3, <3>4, <3>5
  <2>15. W!MessagesOnEvidence'
    <3> SUFFICES ASSUME NEW q \in W!Rules, W!Alone(q), NEW i \in 1 .. Len(messages'[q])
                 PROVE  LET m == messages'[q][i]
                        IN /\ m[1] = IF i = 1 \/ messages'[q][i - 1][1] = "recover"
                                     THEN "alert" ELSE "recover"
                           /\ m[2] \in W!normalize(q) .. Len(samples'[q])
                           /\ \A k \in (m[2] - W!normalize(q) + 1) .. m[2] :
                                samples'[q][k] = IF m[1] = "alert" THEN "high" ELSE "low"
      BY DEF W!MessagesOnEvidence, W!Alone, W!Rules, W!normalize
    <3>1. CASE q = turn
      BY <2>14, <3>1
    <3>2. CASE q # turn
      BY <2>8, <3>2 DEF W!IInv, W!MessagesOnEvidence
    <3> QED
      BY <3>1, <3>2
  <2> QED
    BY <2>11, <2>13, <2>15 DEF W!IInv
<1> QED
  BY <1>1, <1>2

(* Whatever values the rules see, every alert and every recovery of a rule *)
(* that shares its name with no other rests on as many samples in a row as *)
(* it asks for, and they alternate.                                        *)
THEOREM MessagesOnEvidenceAlways == W!Spec => []MessagesOnEvidence
<1>1. W!IInv => MessagesOnEvidence
  BY DEF W!IInv, MessagesOnEvidence
<1> QED
  BY <1>1, InitAlert, NextAlert, PTL DEF W!Spec
=============================================================================
