------------------------------ MODULE Counters ----------------------------
(***************************************************************************)
(* The online counters of framework/counter: a Registry of one key, and    *)
(* visitors that come in (Inc) and leave (Dec).                            *)
(*                                                                         *)
(* Registry.counter looks the Counter up with the read lock and creates it *)
(* with the write lock; Inc and Dec then lock the Counter.  Remove may run *)
(* between the two.                                                        *)
(***************************************************************************)
EXTENDS Naturals, FiniteSets

CONSTANTS
  Visitors,     \* goroutines, each of which comes in and leaves
  MaxCounters,  \* bound: Counters ever made
  MaxVisits,    \* bound: visits of one visitor
  Removes       \* Remove may be called

CountersAssumption == IsFiniteSet(Visitors) /\ MaxCounters \in Nat

VARIABLES
  registered,  \* the Counter of the key in the registry; 0 is none
  made,        \* Counters made so far
  counter,     \* per Counter: value and peak
  visitor,     \* per visitor: pc, the Counter it looked up, where it is
  highest,     \* history: the highest value since ResetPeak, per Counter
  removed      \* history: Remove has been called

vars == <<registered, made, counter, visitor, highest, removed>>

Init ==
  /\ registered = 0
  /\ made = 0
  /\ counter = [c \in 1 .. MaxCounters |-> [value |-> 0, peak |-> 0]]
  /\ visitor = [v \in Visitors |->
                  [pc |-> "out", got |-> 0, visits |-> 0]]
  /\ highest = [c \in 1 .. MaxCounters |-> 0]
  /\ removed = FALSE

Calling == {"coming", "leaving"}

(* Inc or Dec begins: the look-up with the read lock.                      *)
Lookup(v, from, to) ==
  /\ visitor[v].pc = from
  /\ to = "coming" => visitor[v].visits < MaxVisits
  /\ visitor' = [visitor EXCEPT ![v] =
                   [pc |-> to, got |-> registered,
                    visits |-> IF to = "coming" THEN @.visits + 1 ELSE @.visits]]
  /\ UNCHANGED <<registered, made, counter, highest, removed>>

(* Mutant: the registry is not looked at again with the write lock.        *)
FoundNow == 0

Found == registered

(* The look-up found nothing: look again with the write lock, or make one. *)
Create(v) ==
  /\ visitor[v].pc \in Calling
  /\ visitor[v].got = 0
  /\ IF Found # 0
     THEN /\ visitor' = [visitor EXCEPT ![v].got = Found]
          /\ UNCHANGED <<registered, made>>
     ELSE /\ made < MaxCounters
          /\ made' = made + 1
          /\ registered' = made + 1
          /\ visitor' = [visitor EXCEPT ![v].got = made + 1]
  /\ UNCHANGED <<counter, highest, removed>>

Higher(a, b) == IF a > b THEN a ELSE b

Inc(v) ==
  LET c == visitor[v].got
      value == counter[c].value + 1
  IN
  /\ visitor[v].pc = "coming"
  /\ c # 0
  /\ counter' = [counter EXCEPT ![c] =
                   [value |-> value, peak |-> Higher(value, @.peak)]]
  /\ highest' = [highest EXCEPT ![c] = Higher(value, @)]
  /\ visitor' = [visitor EXCEPT ![v].pc = "in"]
  /\ UNCHANGED <<registered, made, removed>>

(* The value of a Counter that was made after its visitors came stays 0.   *)
Dec(v) ==
  LET c == visitor[v].got IN
  /\ visitor[v].pc = "leaving"
  /\ c # 0
  /\ counter' = [counter EXCEPT ![c].value = IF @ > 0 THEN @ - 1 ELSE 0]
  /\ visitor' = [visitor EXCEPT ![v].pc = "out"]
  /\ UNCHANGED <<registered, made, highest, removed>>

(* Mutant: a new period begins at zero whoever is in.                      *)
PeakOfNobody(c) == 0

PeakNow(c) == counter[c].value

ResetPeak ==
  /\ registered # 0
  /\ counter' = [counter EXCEPT ![registered].peak = PeakNow(registered)]
  /\ highest' = [highest EXCEPT ![registered] = counter[registered].value]
  /\ UNCHANGED <<registered, made, visitor, removed>>

Remove ==
  /\ Removes
  /\ registered' = 0
  /\ removed' = TRUE
  /\ UNCHANGED <<made, counter, visitor, highest>>

Next ==
  \/ ResetPeak
  \/ Remove
  \/ \E v \in Visitors :
       \/ Lookup(v, "out", "coming") \/ Lookup(v, "in", "leaving")
       \/ Create(v) \/ Inc(v) \/ Dec(v)

Spec == Init /\ [][Next]_vars

-----------------------------------------------------------------------------
(* Until Remove is called, the Counter of the key counts the visitors that *)
(* are in, however their look-ups and its creation interleave; and always  *)
(* its peak is the highest value since ResetPeak.  After a Remove visitors *)
(* may be counted on a Counter that nobody reads any more.                 *)
CountsThoseIn ==
  /\ ~removed =>
       (IF registered = 0 THEN 0 ELSE counter[registered].value)
         = Cardinality({v \in Visitors : visitor[v].pc \in {"in", "leaving"}})
  /\ \A c \in 1 .. made : counter[c].peak = highest[c]
=============================================================================
