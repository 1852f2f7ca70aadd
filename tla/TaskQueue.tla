----------------------------- MODULE TaskQueue ------------------------------
(***************************************************************************)
(* The in-process task queue of framework/taskqueue/taskqueue.go.          *)
(*                                                                         *)
(* Submit appends to pending under the mutex and leaves a token in wake.   *)
(* Each call of Run is a loop that waits for its context, the token or a   *)
(* 200 ms timer, then takes due tasks one at a time (popDue, under the     *)
(* mutex), waits without the mutex for a free worker, and starts the task  *)
(* in a goroutine of its own.                                              *)
(***************************************************************************)
EXTENDS Naturals, FiniteSets, Sequences, SequencesExt

CONSTANTS
  Runs,       \* calls of Run on the queue
  Workers,    \* Queue.workers
  Delays,     \* delays that Submit is called with
  MaxTasks,   \* bound: calls of Submit
  MaxTime     \* bound: clock

ASSUME TaskQueueAssumption ==
  /\ Workers \in Nat \ {0}
  /\ IsFiniteSet(Runs)
  /\ Delays \subseteq Nat
  /\ MaxTasks \in Nat
  /\ MaxTime \in Nat

VARIABLES
  pending,    \* Queue.pending, in the order of submission
  wake,       \* whether the channel wake holds its token
  running,    \* Queue.running
  nextID,     \* Queue.nextID
  now,        \* the clock
  loop,       \* where each Run stands, the time it dispatches for, its task
  cancelled,  \* Run calls whose context is cancelled
  executing,  \* goroutines executing a task, with the Run that waits for them
  finished,   \* history: tasks whose goroutine has ended
  popped      \* history: runAt of the task popDue took last

vars == <<pending, wake, running, nextID, now, loop, cancelled, executing,
          finished, popped>>

Task == [id : Nat, runAt : Nat]

NoTask == [id |-> 0, runAt |-> 0]

TypeOK ==
  /\ pending \in Seq(Task)
  /\ wake \in BOOLEAN
  /\ running \in Nat
  /\ nextID \in Nat
  /\ now \in Nat
  /\ loop \in [Runs -> [pc : {"select", "pop", "slot", "start", "drain", "returned"},
                        asOf : Nat, task : Task]]
  /\ cancelled \subseteq Runs
  /\ executing \subseteq [id : Nat, run : Runs]
  /\ finished \subseteq Nat
  /\ popped \in Nat

Init ==
  /\ pending = <<>>
  /\ wake = FALSE
  /\ running = 0
  /\ nextID = 0
  /\ now = 0
  /\ loop = [r \in Runs |-> [pc |-> "select", asOf |-> 0, task |-> NoTask]]
  /\ cancelled = {}
  /\ executing = {}
  /\ finished = {}
  /\ popped = 0

At(r, pc) == loop[r].pc = pc

GoTo(r, pc) == loop' = [loop EXCEPT ![r].pc = pc]

-----------------------------------------------------------------------------
(* The time a task is due is read inside the critical section that appends *)
(* it; the send on wake is dropped when the token is there already.        *)
Submit(delay) ==
  /\ nextID < MaxTasks
  /\ now + delay <= MaxTime
  /\ nextID' = nextID + 1
  /\ pending' = Append(pending, [id |-> nextID', runAt |-> now + delay])
  /\ wake' = TRUE
  /\ UNCHANGED <<running, now, loop, cancelled, executing, finished, popped>>

Tick ==
  /\ now < MaxTime
  /\ now' = now + 1
  /\ UNCHANGED <<pending, wake, running, nextID, loop, cancelled, executing,
                 finished, popped>>

Cancel(r) ==
  /\ r \notin cancelled
  /\ loop[r].pc # "returned"
  /\ cancelled' = cancelled \cup {r}
  /\ UNCHANGED <<pending, wake, running, nextID, now, loop, executing,
                 finished, popped>>

-----------------------------------------------------------------------------
(* Run: the select.  When several cases are ready any of them is taken;    *)
(* the timer is made anew for each select and fires only when nothing else *)
(* was ready for 200 ms.                                                   *)

StartDispatch(r) == loop' = [loop EXCEPT ![r].pc = "pop", ![r].asOf = now]

Done(r) ==
  /\ At(r, "select")
  /\ r \in cancelled
  /\ GoTo(r, "drain")
  /\ UNCHANGED <<pending, wake, running, nextID, now, cancelled, executing,
                 finished, popped>>

Woken(r) ==
  /\ At(r, "select")
  /\ wake
  /\ wake' = FALSE
  /\ StartDispatch(r)
  /\ UNCHANGED <<pending, running, nextID, now, cancelled, executing,
                 finished, popped>>

Timer(r) ==
  /\ At(r, "select")
  /\ ~wake
  /\ r \notin cancelled
  /\ StartDispatch(r)
  /\ UNCHANGED <<pending, wake, running, nextID, now, cancelled, executing,
                 finished, popped>>

-----------------------------------------------------------------------------
(* dispatchDue.  It goes on until no task is due any more at the time it   *)
(* began, without a look at the context.                                   *)

DueAt(asOf) == {i \in DOMAIN pending : pending[i].runAt <= asOf}

(* Mutant: the first due task is taken, not the one due first.             *)
FirstSubmitted(due) == {i \in due : \A j \in due : i <= j}

(* The scan keeps the first of the tasks with the least runAt.             *)
Earliest(due) ==
  {i \in due : \A j \in due : \/ pending[i].runAt < pending[j].runAt
                              \/ pending[i].runAt = pending[j].runAt /\ i <= j}

popDue(r) ==
  /\ At(r, "pop")
  /\ \/ /\ DueAt(loop[r].asOf) = {}
        /\ GoTo(r, "select")
        /\ UNCHANGED <<pending, popped>>
     \/ \E i \in Earliest(DueAt(loop[r].asOf)) :
          /\ loop' = [loop EXCEPT ![r].pc = "slot", ![r].task = pending[i]]
          /\ pending' = RemoveAt(pending, i)
          /\ popped' = pending[i].runAt
  /\ UNCHANGED <<wake, running, nextID, now, cancelled, executing, finished>>

(* Mutant: one worker too many is let through.                             *)
SlotFreeOffByOne == running <= Workers

SlotFree == running < Workers

(* Mutant: a task that finds all workers busy is dropped.                  *)
FindSlotOrDrop(r) ==
  /\ At(r, "slot")
  /\ IF SlotFree THEN GoTo(r, "start")
     ELSE loop' = [loop EXCEPT ![r].pc = "pop", ![r].task = NoTask]
  /\ UNCHANGED <<pending, wake, running, nextID, now, cancelled, executing,
                 finished, popped>>

(* The load of running, then AddInt32: another Run may come in between.    *)
FindSlot(r) ==
  /\ At(r, "slot")
  /\ SlotFree
  /\ GoTo(r, "start")
  /\ UNCHANGED <<pending, wake, running, nextID, now, cancelled, executing,
                 finished, popped>>

StartTask(r) ==
  /\ At(r, "start")
  /\ running' = running + 1
  /\ executing' = executing \cup {[id |-> loop[r].task.id, run |-> r]}
  /\ loop' = [loop EXCEPT ![r].pc = "pop", ![r].task = NoTask]
  /\ UNCHANGED <<pending, wake, nextID, now, cancelled, finished, popped>>

(* Mutant: a task that panics keeps its worker.                            *)
LeakedByPanic(panicked) == IF panicked THEN running ELSE running - 1

(* Mutant: the recovery gives the worker back, and the deferred call too.  *)
ReleasedTwice(panicked) == IF panicked THEN running - 2 ELSE running - 1

Released(panicked) == running - 1

(* The task returns or panics; executeTask recovers, and the deferred      *)
(* calls give the worker back and then tell the WaitGroup.                 *)
TaskEnds(e, panicked) ==
  /\ executing' = executing \ {e}
  /\ running' = Released(panicked)
  /\ finished' = finished \cup {e.id}
  /\ UNCHANGED <<pending, wake, nextID, now, loop, cancelled, popped>>

(* Mutant: Run returns without waiting.                                    *)
AllDoneUnchecked(r) == TRUE

AllDone(r) == \A e \in executing : e.run # r

(* wg.Wait of a cancelled Run returns once its own tasks have ended.       *)
Return(r) ==
  /\ At(r, "drain")
  /\ AllDone(r)
  /\ GoTo(r, "returned")
  /\ UNCHANGED <<pending, wake, running, nextID, now, cancelled, executing,
                 finished, popped>>

-----------------------------------------------------------------------------
RunStep(r) ==
  \/ Done(r)
  \/ Woken(r)
  \/ Timer(r)
  \/ popDue(r)
  \/ FindSlot(r)
  \/ StartTask(r)
  \/ Return(r)

Next ==
  \/ \E d \in Delays : Submit(d)
  \/ Tick
  \/ \E r \in Runs : RunStep(r) \/ Cancel(r)
  \/ \E e \in executing, panicked \in BOOLEAN : TaskEnds(e, panicked)

Spec == Init /\ [][Next]_vars

(* Loops are scheduled, tasks end and the clock moves on; a select chooses *)
(* at random among ready cases, so a cancelled context is seen at last.    *)
FairSpec ==
  /\ Spec
  /\ WF_vars(Tick)
  /\ \A r \in Runs : WF_vars(RunStep(r)) /\ SF_vars(Done(r))
  /\ WF_vars(\E e \in executing, panicked \in BOOLEAN : TaskEnds(e, panicked))

-----------------------------------------------------------------------------
(* Properties.                                                             *)

PendingIDs == {pending[i].id : i \in DOMAIN pending}

Holders(id) == {r \in Runs : loop[r].pc \in {"slot", "start"} /\ loop[r].task.id = id}

Goroutines(id) == {e \in executing : e.id = id}

(* Every task handed out by Submit is in exactly one place: pending, the   *)
(* hands of one Run, one goroutine, or finished.  No task is lost or run   *)
(* twice by two Runs that pop, wait for workers and start tasks at once.   *)
TaskLedger ==
  \A id \in 1..nextID :
    (IF id \in PendingIDs THEN 1 ELSE 0) + Cardinality(Holders(id))
      + Cardinality(Goroutines(id)) + (IF id \in finished THEN 1 ELSE 0) = 1

(* One Run never has more than workers tasks executing.  The check and the *)
(* increment are two steps, so every further Run may add one.              *)
WithinWorkers == Cardinality(executing) <= Workers + Cardinality(Runs) - 1

(* Tasks are taken in the order they are due, whichever Run takes them:    *)
(* no task is taken after one that was due later.                          *)
TakenInOrder == [][popped' >= popped]_popped

(* Run returns only when the tasks it started have ended, and it holds no  *)
(* task it has taken and not started.                                      *)
ReturnedIsIdle ==
  \A r \in Runs :
    loop[r].pc = "returned" =>
      loop[r].task = NoTask /\ \A e \in executing : e.run # r

(* A cancelled Run returns, also when it was waiting for a worker.         *)
CancelledReturns ==
  \A r \in Runs : (r \in cancelled) ~> (loop[r].pc = "returned")

(* As long as some Run is not cancelled every task is executed.            *)
EventuallyExecuted ==
  \A id \in 1..MaxTasks :
    (nextID >= id) ~> (id \in finished \/ cancelled = Runs)
=============================================================================
