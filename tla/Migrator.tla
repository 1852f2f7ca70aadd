------------------------------ MODULE Migrator ------------------------------
(***************************************************************************)
(* The versioned migrations of framework/database: several processes       *)
(* migrate one database at once, or roll back.  Each reads the names       *)
(* applied, then runs one transaction a migration that changes the schema  *)
(* and the table of names.  The database serialises transactions.          *)
(***************************************************************************)
EXTENDS Integers, Sequences, FiniteSets, SequencesExt

CONSTANTS
  Processes,
  Migrations,      \* their names, in order
  Irreversible,    \* those without Down
  MaxCalls

MigratorAssumption == Migrations \in Seq(ToSet(Migrations))

VARIABLES
  table,    \* schema_migrations
  schema,   \* how often each migration is in effect
  process,  \* [at, applied, next]
  calls

migrateVars == <<table, schema, process, calls>>

Names == ToSet(Migrations)

Init ==
  /\ table = {}
  /\ schema = [m \in Names |-> 0]
  /\ process = [p \in Processes |-> [at |-> "idle", applied |-> {}, next |-> 1]]
  /\ calls = 0

(* The names are read once for the whole call.                             *)
ReadApplied(p, call) ==
  /\ process[p].at = "idle" /\ calls < MaxCalls
  /\ calls' = calls + 1
  /\ process' = [process EXCEPT ![p] =
                   [at |-> IF Migrations = <<>> THEN "idle" ELSE call,
                    applied |-> table,
                    next |-> IF call = "migrate" THEN 1 ELSE Len(Migrations)]]
  /\ UNCHANGED <<table, schema>>

Current(p) == Migrations[process[p].next]

Returns(p) == process' = [process EXCEPT ![p].at = "idle"]

Continues(p) ==
  process' = [process EXCEPT ![p] =
                [process[p] EXCEPT
                   !.next = process[p].next + 1,
                   !.at = IF process[p].next = Len(Migrations) THEN "idle"
                          ELSE process[p].at]]

SkipApplied(p) ==
  /\ process[p].at = "migrate" /\ Current(p) \in process[p].applied
  /\ Continues(p)
  /\ UNCHANGED <<table, schema, calls>>

(* Mutant: the name is written outside the transaction, and a conflict     *)
(* leaves the change of the schema in place.                               *)
applyTwoSteps(p) ==
  /\ process[p].at = "migrate" /\ Current(p) \notin process[p].applied
  /\ schema' = [schema EXCEPT ![Current(p)] = @ + 1]
  /\ table' = table \cup {Current(p)}
  /\ IF Current(p) \in table THEN Returns(p) ELSE Continues(p)
  /\ UNCHANGED calls

(* Up and the name in one transaction: a name that is there by now breaks  *)
(* its primary key, and the whole transaction is undone.                   *)
applyOne(p) ==
  /\ process[p].at = "migrate" /\ Current(p) \notin process[p].applied
  /\ IF Current(p) \in table
     THEN Returns(p) /\ UNCHANGED <<table, schema>>
     ELSE /\ schema' = [schema EXCEPT ![Current(p)] = @ + 1]
          /\ table' = table \cup {Current(p)}
          /\ Continues(p)
  /\ UNCHANGED calls

(* Up or Down fails, or the process dies: the transaction is undone.       *)
Fails(p) ==
  /\ process[p].at /= "idle"
  /\ Returns(p)
  /\ UNCHANGED <<table, schema, calls>>

(* Rollback looks back for the last name applied.                          *)
LookBack(p) ==
  /\ process[p].at = "rollback" /\ Current(p) \notin process[p].applied
  /\ IF process[p].next = 1 THEN Returns(p)
     ELSE process' = [process EXCEPT ![p].next = @ - 1]
  /\ UNCHANGED <<table, schema, calls>>

(* Down runs although another process may have rolled the migration back:  *)
(* a Down that finds nothing to undo fails, and deleting no row does not.  *)
rollbackOne(p) ==
  /\ process[p].at = "rollback" /\ Current(p) \in process[p].applied
  /\ Returns(p)
  /\ IF Current(p) \notin Irreversible /\ schema[Current(p)] > 0
     THEN /\ schema' = [schema EXCEPT ![Current(p)] = @ - 1]
          /\ table' = table \ {Current(p)}
     ELSE UNCHANGED <<table, schema>>
  /\ UNCHANGED calls

Next ==
  \E p \in Processes :
    \/ \E call \in {"migrate", "rollback"} : ReadApplied(p, call)
    \/ SkipApplied(p) \/ applyOne(p) \/ Fails(p) \/ LookBack(p) \/ rollbackOne(p)

Spec == Init /\ [][Next]_migrateVars

(* However many processes migrate and roll back at once, the table names   *)
(* exactly the migrations in effect, each in effect once.                  *)
TableMatchesSchema ==
  \A m \in Names : schema[m] = IF m \in table THEN 1 ELSE 0

TypeOK ==
  /\ table \subseteq Names
  /\ schema \in [Names -> Nat]
  /\ process \in [Processes -> [at : {"idle", "migrate", "rollback"},
                               applied : SUBSET Names, next : Int]]

(* A call at work is at one of the migrations.                             *)
AtMigration ==
  \A p \in Processes :
    process[p].at /= "idle" => process[p].next \in DOMAIN Migrations

IInv == TypeOK /\ AtMigration /\ TableMatchesSchema
=============================================================================
