----------------------------- MODULE Databases -----------------------------
(***************************************************************************)
(* The instances of framework/database: a registry by name, the default    *)
(* instance under the empty name, each with a connection pool.  The mutex  *)
(* of the registry is held while an instance connects and migrates.        *)
(***************************************************************************)
EXTENDS Integers, FiniteSets

CONSTANTS
  Names, Default,   \* names of instances; the empty one
  Drivers,
  Callers,
  MaxPools

DatabaseAssumption == "free" \notin Callers

VARIABLES
  dialectors,   \* drivers with a factory
  instances,    \* of each name: NoInstance or [driver, pool, closed]
  pools,        \* pools that are open
  lastPool,
  caller,       \* of each caller: [at, ...]
  mutex         \* who holds instancesMu; "free"

databaseVars == <<dialectors, instances, pools, lastPool, caller, mutex>>

NoInstance == [pool |-> 0]

Init ==
  /\ dialectors \in SUBSET Drivers
  /\ instances = [n \in Names |-> NoInstance]
  /\ pools = {} /\ lastPool = 0
  /\ caller = [c \in Callers |-> [at |-> "idle"]]
  /\ mutex = "free"

RegisterDialector(d) ==
  /\ dialectors' = dialectors \cup {d}
  /\ UNCHANGED <<instances, pools, lastPool, caller, mutex>>

Goes(c, r) == caller' = [caller EXCEPT ![c] = r]

(* The default instance is returned again, closed as it may be, when its   *)
(* driver is the one asked for; any other registered name is an error.     *)
NewFinds(c, n, d) ==
  /\ caller[c].at = "idle" /\ mutex = "free" /\ instances[n] /= NoInstance
  /\ Goes(c, [at |-> IF n = Default /\ instances[n].driver = d THEN "idle" ELSE "error"])
  /\ UNCHANGED <<dialectors, instances, pools, lastPool, mutex>>

(* Mutant: the mutex is given up while the instance is opened.             *)
NewOpensUnlocked(c, n, d) ==
  /\ caller[c].at = "idle" /\ mutex = "free" /\ instances[n] = NoInstance
  /\ lastPool < MaxPools
  /\ lastPool' = lastPool + 1 /\ pools' = pools \cup {lastPool + 1}
  /\ Goes(c, [at |-> "opening", name |-> n, driver |-> d, pool |-> lastPool + 1])
  /\ UNCHANGED <<dialectors, instances, mutex>>

(* The name is free: the driver must have a factory, and a pool is opened. *)
NewOpens(c, n, d) ==
  /\ caller[c].at = "idle" /\ mutex = "free" /\ instances[n] = NoInstance
  /\ lastPool < MaxPools
  /\ IF d \in dialectors
     THEN /\ mutex' = c
          /\ lastPool' = lastPool + 1 /\ pools' = pools \cup {lastPool + 1}
          /\ Goes(c, [at |-> "opening", name |-> n, driver |-> d, pool |-> lastPool + 1])
     ELSE Goes(c, [at |-> "error"]) /\ UNCHANGED <<mutex, lastPool, pools>>
  /\ UNCHANGED <<dialectors, instances>>

(* The first ping or the migration of the models fails, or the context     *)
(* ends: the pool is closed and nothing is registered.                     *)
OpenFails(c) ==
  /\ caller[c].at = "opening"
  /\ pools' = pools \ {caller[c].pool}
  /\ mutex' = "free"
  /\ Goes(c, [at |-> "error"])
  /\ UNCHANGED <<dialectors, instances, lastPool>>

Registered(c) ==
  /\ caller[c].at = "opening"
  /\ instances' = [instances EXCEPT ![caller[c].name] =
                     [driver |-> caller[c].driver, pool |-> caller[c].pool, closed |-> FALSE]]
  /\ mutex' = "free"
  /\ Goes(c, [at |-> "idle"])
  /\ UNCHANGED <<dialectors, pools, lastPool>>

(* GetDB and GetNamedDB: an instance that is there and not closed.  The    *)
(* handle may be used, in a transaction too, after the pool is closed.     *)
GetDB(c, n) ==
  /\ caller[c].at = "idle" /\ mutex = "free"
  /\ Goes(c, IF instances[n] /= NoInstance /\ ~ instances[n].closed
             THEN [at |-> "using", name |-> n, pool |-> instances[n].pool]
             ELSE [at |-> "error"])
  /\ UNCHANGED <<dialectors, instances, pools, lastPool, mutex>>

(* Commit, rollback or an error of the closed pool; or an error reported.  *)
Done(c) ==
  /\ caller[c].at \in {"using", "error"}
  /\ Goes(c, [at |-> "idle"])
  /\ UNCHANGED <<dialectors, instances, pools, lastPool, mutex>>

(* Close, which stays registered; a pool that cannot be closed stays open  *)
(* and may be closed again.                                                *)
Close(n) ==
  /\ instances[n] /= NoInstance /\ ~ instances[n].closed
  /\ pools' = pools \ {instances[n].pool}
  /\ instances' = [instances EXCEPT ![n].closed = TRUE]
  /\ UNCHANGED <<dialectors, lastPool, caller, mutex>>

Next ==
  \/ \E d \in Drivers : RegisterDialector(d)
  \/ \E n \in Names : Close(n)
  \/ \E c \in Callers :
       \/ OpenFails(c) \/ Registered(c) \/ Done(c)
       \/ \E n \in Names :
            GetDB(c, n) \/ \E d \in Drivers : NewFinds(c, n, d) \/ NewOpens(c, n, d)

Spec == Init /\ [][Next]_databaseVars

(* Every open pool belongs to a registered instance that is not closed, or *)
(* to the caller that is opening one: no failure and no two callers asking *)
(* for a name at once leave a pool behind.                                 *)
NoPoolLeak ==
  \A p \in pools :
    \/ \E n \in Names : instances[n].pool = p /\ ~ instances[n].closed
    \/ \E c \in Callers : caller[c].at = "opening" /\ caller[c].pool = p

TypeOK ==
  /\ instances \in [Names -> {NoInstance} \cup
                       [driver : Drivers, pool : Nat \ {0}, closed : BOOLEAN]]
  /\ lastPool \in Nat /\ pools \subseteq 1 .. lastPool
  /\ DOMAIN caller = Callers

(* Whoever opens an instance holds the mutex, and its name is free.        *)
OpenersHoldMutex ==
  \A c \in Callers : caller[c].at = "opening" =>
    /\ mutex = c
    /\ caller[c].driver \in Drivers /\ caller[c].pool \in 1 .. lastPool
    /\ caller[c].name \in Names /\ instances[caller[c].name] = NoInstance

IInv == TypeOK /\ OpenersHoldMutex /\ NoPoolLeak
=============================================================================
