---------------------------- MODULE IocContainer ----------------------------
(***************************************************************************)
(* The dependency container of framework/gbxioc: beans built on their      *)
(* first use by providers that may ask for other beans, Start, which       *)
(* builds and initialises all of them in the order of their registration,  *)
(* and Shutdown, which destroys them in reverse.  A provider runs outside  *)
(* the lock of its bean; `constructing' is what others see of it.  Each of *)
(* Get, Start and Shutdown looks at `closed' once, when it begins, and     *)
(* works on beans afterwards one section under a bean's lock at a time.    *)
(***************************************************************************)
EXTENDS Naturals, FiniteSets

CONSTANTS
  Beans,        \* types or names, as numbers in the order of registration
  Prototypes,   \* those built anew for every caller
  Needs,        \* Needs[b]: the beans b's provider asks for
  Getters,      \* goroutines that call Get
  Starter,      \* the goroutine of Start
  MaxRuns       \* bound: runs of providers

IocAssumption ==
  /\ Beans \subseteq Nat /\ Prototypes \subseteq Beans
  /\ Needs \in [Beans -> SUBSET Beans] /\ MaxRuns \in Nat
  /\ Starter \notin Getters

VARIABLES
  registered,
  instance,      \* of each bean; 0 when there is none
  constructing,
  closed,
  running,       \* runs of providers under way; their numbers are those of
                 \* the instances they return
  asking,        \* of each goroutine: the bean its Get has looked up
  lastRun,
  todo,          \* beans of Start's copy of the order it has still to see
  initialised,
  order,         \* beans of Shutdown's copy it has still to see
  destroyed,
  made,          \* history: <<bean, instance>> that providers returned
  handed,        \* history: those of them that Get has returned
  beside,        \* history: <<bean, run>> that Start began while another run
                 \* was under way, and any begun like that afterwards
  present        \* history: beans with an instance when Shutdown began

history == <<made, handed, beside, present>>

iocVars == <<registered, instance, constructing, closed, running, asking,
             lastRun, todo, initialised, order, destroyed, history>>

Goroutines == Getters \cup {Starter}

Singletons == Beans \ Prototypes

Init ==
  /\ registered = {}
  /\ instance = [b \in Beans |-> 0]
  /\ constructing = {}
  /\ closed = FALSE
  /\ running = {}
  /\ asking = [g \in Goroutines |-> {}]
  /\ lastRun = 0
  /\ todo = {} /\ initialised = {}
  /\ order = {} /\ destroyed = {}
  /\ made = {} /\ handed = {} /\ beside = {} /\ present = {}

(* A second registration of a type or name is an error, or, through the    *)
(* old Set, ignored.                                                       *)
register(b) ==
  /\ ~ closed /\ b \notin registered /\ \A a \in Beans : a < b => a \in registered
  /\ registered' = registered \cup {b}
  /\ UNCHANGED <<instance, constructing, closed, running, asking, lastRun,
                 todo, initialised, order, destroyed, history>>

(* RegisterInstance: the bean comes with its instance.                     *)
registerInstance(b) ==
  /\ ~ closed /\ b \in Singletons \ registered /\ Needs[b] = {}
  /\ \A a \in Beans : a < b => a \in registered
  /\ lastRun < MaxRuns
  /\ registered' = registered \cup {b}
  /\ instance' = [instance EXCEPT ![b] = lastRun + 1]
  /\ made' = made \cup {<<b, lastRun + 1>>}
  /\ lastRun' = lastRun + 1
  /\ UNCHANGED <<constructing, closed, running, asking, todo, initialised,
                 order, destroyed, handed, beside, present>>

(* The providers goroutine g runs, one within the other, and the innermost.*)
Mine(g) == {r \in running : r.by = g}

Top(g) == {r \in Mine(g) : \A s \in Mine(g) : s.run <= r.run}

(* The beans goroutine g may ask for now: one its innermost provider still *)
(* needs, or, a Getter between calls, any.                                 *)
Wanted(g) ==
  IF Mine(g) # {} THEN UNION {r.left : r \in Top(g)}
  ELSE IF g \in Getters THEN Beans ELSE {}

Asked(r, g, b) == IF r \in Top(g) THEN [r EXCEPT !.left = @ \ {b}] ELSE r

(* get, first section: the definition is looked up, or the container found *)
(* closed.                                                                 *)
lookup(g, b) ==
  /\ asking[g] = {} /\ b \in Wanted(g)
  /\ running' = {Asked(r, g, b) : r \in running}
  /\ asking' = IF closed \/ b \notin registered THEN asking
               ELSE [asking EXCEPT ![g] = {b}]
  /\ UNCHANGED <<registered, instance, constructing, closed, lastRun, todo,
                 initialised, order, destroyed, history>>

(* Goroutine g runs b's provider; doubled says whether it counts as beside *)
(* another.                                                                *)
Provide(g, b, doubled) ==
  /\ lastRun < MaxRuns
  /\ lastRun' = lastRun + 1
  /\ constructing' = constructing \cup {b}
  /\ running' = running \cup
       {[run |-> lastRun + 1, bean |-> b, by |-> g, left |-> Needs[b]]}
  /\ beside' = IF doubled THEN beside \cup {<<b, lastRun + 1>>} ELSE beside

UnderWay(b) == \E r \in running : r.bean = b

Doubled(b) == \E n \in beside : n[1] = b

(* Mutant: the flag is not looked at.                                      *)
RefusedNever(b) == FALSE

(* Under construction, by whichever goroutine: a circular dependency.      *)
Refused(b) == b \in constructing

(* get, second section.                                                    *)
get(g, b) ==
  /\ b \in asking[g]
  /\ asking' = [asking EXCEPT ![g] = {}]
  /\ \/ /\ Refused(b)
        /\ UNCHANGED <<constructing, running, lastRun, handed, beside>>
     \/ /\ ~ Refused(b) /\ b \in Singletons /\ instance[b] # 0
        /\ handed' = handed \cup {<<b, instance[b]>>}
        /\ UNCHANGED <<constructing, running, lastRun, beside>>
     \/ /\ ~ Refused(b) /\ (b \in Singletons => instance[b] = 0)
        /\ Provide(g, b, UnderWay(b) /\ Doubled(b))
        /\ UNCHANGED handed
  /\ UNCHANGED <<registered, instance, closed, todo, initialised, order,
                 destroyed, made, present>>

(* What Start itself builds is handed to no caller.                        *)
ForStart(r) == r.by = Starter /\ Mine(Starter) = {r}

(* The innermost provider returns an instance, kept when the bean is a     *)
(* singleton, or nil, which is an error and ends Start.                    *)
provided(r, ok) ==
  /\ r \in Top(r.by) /\ r.left = {} /\ asking[r.by] = {}
  /\ running' = running \ {r}
  /\ constructing' = constructing \ {r.bean}
  /\ IF ok
     THEN /\ made' = made \cup {<<r.bean, r.run>>}
          /\ instance' = [instance EXCEPT ![r.bean] =
                            IF r.bean \in Singletons THEN r.run ELSE @]
          /\ handed' = IF ForStart(r) THEN handed ELSE handed \cup {<<r.bean, r.run>>}
          /\ UNCHANGED todo
     ELSE /\ todo' = IF ForStart(r) THEN {} ELSE todo
          /\ UNCHANGED <<made, instance, handed>>
  /\ UNCHANGED <<registered, closed, asking, lastRun, initialised, order,
                 destroyed, beside, present>>

(* A provider panics, and whoever serves the caller recovers: the flags of *)
(* all the providers it runs stay up, and Get refuses their beans.         *)
ProviderPanics(g) ==
  /\ g \in Getters /\ Mine(g) # {}
  /\ running' = running \ Mine(g)
  /\ asking' = [asking EXCEPT ![g] = {}]
  /\ UNCHANGED <<registered, instance, constructing, closed, lastRun, todo,
                 initialised, order, destroyed, history>>

(* Start of a container that is not closed copies the order.               *)
Start ==
  /\ ~ closed /\ todo = {} /\ Mine(Starter) = {}
  /\ todo' = registered \cap Singletons
  /\ UNCHANGED <<registered, instance, constructing, closed, running, asking,
                 lastRun, initialised, order, destroyed, history>>

AtBean(b) == b \in todo /\ Mine(Starter) = {} /\ \A a \in todo : b <= a

(* Start builds a singleton without a look at `constructing'.              *)
getForLifecycle(b) ==
  /\ AtBean(b) /\ instance[b] = 0
  /\ Provide(Starter, b, UnderWay(b))
  /\ UNCHANGED <<registered, instance, closed, asking, todo, initialised,
                 order, destroyed, made, handed, present>>

(* OnInit, once for each bean; after a failure Start may be called again.  *)
OnInit(b, ok) ==
  /\ AtBean(b) /\ instance[b] # 0
  /\ IF ok \/ b \in initialised
     THEN initialised' = initialised \cup {b} /\ todo' = todo \ {b}
     ELSE todo' = {} /\ UNCHANGED initialised
  /\ UNCHANGED <<registered, instance, constructing, closed, running, asking,
                 lastRun, order, destroyed, history>>

Shutdown ==
  /\ ~ closed
  /\ closed' = TRUE
  /\ order' = registered
  /\ present' = {b \in registered : instance[b] # 0}
  /\ UNCHANGED <<registered, instance, constructing, running, asking, lastRun,
                 todo, initialised, destroyed, made, handed, beside>>

(* Mutant: beans are destroyed in the order of their registration.         *)
NextToDestroyForward(b) == \A a \in order : b <= a

NextToDestroy(b) == \A a \in order : a <= b

(* OnDestroy, whose error is kept for later; beans without instance are    *)
(* passed over.                                                            *)
OnDestroy(b) ==
  /\ b \in order /\ NextToDestroy(b)
  /\ order' = order \ {b}
  /\ destroyed' = IF instance[b] # 0 THEN destroyed \cup {b} ELSE destroyed
  /\ UNCHANGED <<registered, instance, constructing, closed, running, asking,
                 lastRun, todo, initialised, history>>

Next ==
  \/ \E b \in Beans :
       \/ register(b) \/ registerInstance(b) \/ getForLifecycle(b) \/ OnDestroy(b)
       \/ \E g \in Goroutines : lookup(g, b) \/ get(g, b)
       \/ \E ok \in BOOLEAN : OnInit(b, ok)
  \/ \E r \in running, ok \in BOOLEAN : provided(r, ok)
  \/ \E g \in Goroutines : ProviderPanics(g)
  \/ Start \/ Shutdown

Spec == Init /\ [][Next]_iocVars

(* Every caller of a singleton is handed the same instance, however many   *)
(* goroutines ask at once and providers ask for one another, panic or      *)
(* return nil.  The only others are those of runs that Start begins beside *)
(* another run of the same provider (or Get, when that one has returned    *)
(* nil), which makes a singleton two; container.go:14 promises one.        *)
OneInstance ==
  \A h, k \in handed :
    /\ h[1] = k[1] /\ h[1] \in Singletons
    /\ {h, k} \cap beside = {}
    => h[2] = k[2]

(* A bean that has an instance when the container closes is destroyed      *)
(* before all that were registered earlier, those its provider asked for   *)
(* among them, and Shutdown passes over none, whatever providers and Start *)
(* build meanwhile.                                                        *)
DestroyedInReverse ==
  /\ \A b \in destroyed, a \in present : a > b => a \in destroyed
  /\ closed /\ order = {} => present \subseteq destroyed

-----------------------------------------------------------------------------
(* What the two rest on.  Of the runs of a provider that do not count as   *)
(* beside another, one at most is under way, with its bean's flag up until *)
(* Start doubles it, and none once one has returned a singleton.           *)
TypeOK ==
  /\ registered \subseteq Beans /\ instance \in [Beans -> Nat]
  /\ running \subseteq [run : Nat, bean : Beans, by : Goroutines, left : SUBSET Beans]
  /\ asking \in [Goroutines -> SUBSET Beans]
  /\ lastRun \in Nat /\ beside \subseteq Beans \X Nat
  /\ made \subseteq Beans \X Nat /\ handed \subseteq made
  /\ closed \in BOOLEAN

Numbered ==
  /\ \A r \in running : 0 < r.run /\ r.run <= lastRun
  /\ \A m \in made : 0 < m[2] /\ m[2] <= lastRun
  /\ \A m \in beside : m[2] <= lastRun
  /\ \A r, s \in running : r.run = s.run => r = s

AllRegistered ==
  /\ \A r \in running : r.bean \in registered
  /\ \A m \in made : m[1] \in registered
  /\ \A g \in Goroutines : asking[g] \subseteq registered
  /\ todo \subseteq registered \cap Singletons

InstancesKept ==
  /\ \A m \in made : m[1] \in Singletons => instance[m[1]] # 0
  /\ \A b \in Singletons : instance[b] # 0 => <<b, instance[b]>> \in made

Alone(r) == <<r.bean, r.run>> \notin beside

OneRun ==
  /\ \A r, s \in running :
       r.bean = s.bean /\ Alone(r) /\ Alone(s) => r = s
  /\ \A r \in running : Doubled(r.bean) \/ r.bean \in constructing
  /\ \A r \in running, m \in made :
       ~ (r.bean = m[1] /\ m[1] \in Singletons /\ Alone(r) /\ m \notin beside)
  /\ \A m, k \in made :
       m[1] = k[1] /\ m[1] \in Singletons /\ {m, k} \cap beside = {} => m = k

Destroying ==
  /\ ~ closed => order = {} /\ destroyed = {} /\ present = {}
  /\ order \cup destroyed \cup present \subseteq registered
  /\ present \subseteq order \cup destroyed
  /\ \A b \in present : instance[b] # 0
  /\ \A b \in destroyed, a \in order : a < b

IInv ==
  TypeOK /\ Numbered /\ AllRegistered /\ InstancesKept /\ OneRun /\ Destroying
=============================================================================
