----------------------------- MODULE CronTasks -----------------------------
(***************************************************************************)
(* framework/cron: named tasks registered with a scheduler, singletons     *)
(* among them.  The scheduler is external: it may start any entry it has,  *)
(* each start in a goroutine of its own.                                   *)
(***************************************************************************)
EXTENDS Integers, FiniteSets

CONSTANTS
  TaskNames, Runs, \* names of tasks; goroutines of the scheduler
  MaxEntries

VARIABLES
  tasks,     \* name -> [entry, singleton], for the registered names
  entries,   \* the scheduler's entries: [id, name, singleton]
  lastId,
  running,   \* runningTasks: the names of the singletons under way
  run        \* of each goroutine: "free", or [name, singleton, pc]

cronVars == <<tasks, entries, lastId, running, run>>

Registered == {t.name : t \in tasks}

Init ==
  /\ tasks = {} /\ entries = {} /\ lastId = 0
  /\ running = {}
  /\ run = [g \in Runs |-> [pc |-> "free"]]

(* Register and RegisterSingleton.                                         *)
Register(n, singleton) ==
  /\ n \notin Registered /\ lastId < MaxEntries
  /\ LET e == [id |-> lastId + 1, name |-> n, singleton |-> singleton]
     IN tasks' = tasks \cup {e} /\ entries' = entries \cup {e}
  /\ lastId' = lastId + 1
  /\ UNCHANGED <<running, run>>

(* A run of the task that is under way goes on.                            *)
Remove(n) ==
  /\ n \in Registered
  /\ LET gone == {t \in tasks : t.name = n}
     IN tasks' = tasks \ gone
        /\ entries' = {e \in entries : \A t \in gone : t.id /= e.id}
  /\ UNCHANGED <<lastId, running, run>>

(* The scheduler starts an entry.                                          *)
Start(g, e) ==
  /\ e \in entries /\ run[g].pc = "free"
  /\ run' = [run EXCEPT ![g] = [pc |-> "started", name |-> e.name, singleton |-> e.singleton]]
  /\ UNCHANGED <<tasks, entries, lastId, running>>

(* Mutant: a skipped start also takes the mark away.                       *)
SkipUnmarking(g) ==
  /\ run[g].pc = "started" /\ run[g].singleton /\ run[g].name \in running
  /\ run' = [run EXCEPT ![g] = [pc |-> "free"]]
  /\ running' = running \ {run[g].name}
  /\ UNCHANGED <<tasks, entries, lastId>>

(* singletonGuard: an earlier run has not ended.                           *)
Skip(g) ==
  /\ run[g].pc = "started" /\ run[g].singleton /\ run[g].name \in running
  /\ run' = [run EXCEPT ![g] = [pc |-> "free"]]
  /\ UNCHANGED <<tasks, entries, lastId, running>>

Enter(g) ==
  /\ run[g].pc = "started"
  /\ run[g].singleton => run[g].name \notin running
  /\ run' = [run EXCEPT ![g].pc = "executing"]
  /\ running' = running \cup (IF run[g].singleton THEN {run[g].name} ELSE {})
  /\ UNCHANGED <<tasks, entries, lastId>>

(* executeTask: the function returns, fails or panics; all the same.       *)
End(g) ==
  /\ run[g].pc = "executing"
  /\ run' = [run EXCEPT ![g] = [pc |-> "free"]]
  /\ running' = running \ (IF run[g].singleton THEN {run[g].name} ELSE {})
  /\ UNCHANGED <<tasks, entries, lastId>>

Next ==
  \/ \E n \in TaskNames : Remove(n) \/ \E s \in BOOLEAN : Register(n, s)
  \/ \E g \in Runs : Skip(g) \/ Enter(g) \/ End(g) \/ \E e \in entries : Start(g, e)

Spec == Init /\ [][Next]_cronVars

(* A singleton never runs beside itself, whatever is skipped, removed and  *)
(* registered anew under its name in between.                              *)
SingletonAlone ==
  \A g, h \in Runs :
    /\ run[g].pc = "executing" /\ run[g].singleton
    /\ run[h].pc = "executing" /\ run[h].singleton
    /\ run[g].name = run[h].name
    => g = h
-----------------------------------------------------------------------------
(* What SingletonAlone rests on: the name of a singleton that executes is  *)
(* marked, and only its own end takes the mark away.                       *)
Idle == [pc : {"free"}]

Busy == [pc : {"started", "executing"}, name : TaskNames, singleton : BOOLEAN]

TypeOK ==
  /\ entries \subseteq [id : Nat, name : TaskNames, singleton : BOOLEAN]
  /\ lastId \in Nat
  /\ run \in [Runs -> Idle \cup Busy]

ExecutingMarked ==
  \A g \in Runs :
    run[g].pc = "executing" /\ run[g].singleton => run[g].name \in running

IInv == TypeOK /\ ExecutingMarked /\ SingletonAlone
=============================================================================
