---------------------------- MODULE AlertWatcher ----------------------------
(***************************************************************************)
(* The threshold watcher of framework/alert: at every tick it samples the  *)
(* metrics and evaluates its rules one after the other, each by a value    *)
(* that is at least its threshold ("high") or not ("low").  State is kept  *)
(* by the name of a rule, which rules may share.  A tick whose sample      *)
(* fails evaluates nothing.                                                *)
(***************************************************************************)
EXTENDS Integers, Sequences

CONSTANTS
  Name,         \* of each rule, in the order they are evaluated
  Consecutive,  \* of each rule; normalize makes it at least 1
  MaxTicks

Rules == 1 .. Len(Name)

AlertAssumption == Len(Name) \in Nat /\ Consecutive \in [Rules -> Int]

VARIABLES
  turn,       \* the rule that is evaluated next
  state,      \* by name: alertConsecutive, recoverCount, alerting
  samples,    \* of each rule so far
  messages    \* of each rule: <<kind, number of samples>>

alertVars == <<turn, state, samples, messages>>

Fresh == [alertConsecutive |-> 0, recoverCount |-> 0, alerting |-> FALSE]

Init ==
  /\ turn = 1
  /\ state = [n \in {Name[r] : r \in Rules} |-> Fresh]
  /\ samples = [r \in Rules |-> <<>>]
  /\ messages = [r \in Rules |-> <<>>]

normalize(r) == IF Consecutive[r] <= 0 THEN 1 ELSE Consecutive[r]

(* Mutant: low samples need not follow each other.                         *)
HighKeepingRecovery(s, r) ==
  LET n == s.alertConsecutive + 1
      up == [s EXCEPT !.alertConsecutive = n]
  IN IF ~ s.alerting /\ n >= normalize(r)
     THEN [state |-> [up EXCEPT !.alerting = TRUE], message |-> "alert"]
     ELSE [state |-> up, message |-> "none"]

High(s, r) ==
  LET n == s.alertConsecutive + 1
      up == [s EXCEPT !.recoverCount = 0, !.alertConsecutive = n]
  IN IF ~ s.alerting /\ n >= normalize(r)
     THEN [state |-> [up EXCEPT !.alerting = TRUE], message |-> "alert"]
     ELSE [state |-> up, message |-> "none"]

Low(s, r) ==
  LET n == s.recoverCount + 1
      down == [s EXCEPT !.alertConsecutive = 0]
  IN IF ~ s.alerting THEN [state |-> Fresh, message |-> "none"]
     ELSE IF n >= normalize(r)
     THEN [state |-> Fresh, message |-> "recover"]
     ELSE [state |-> [down EXCEPT !.recoverCount = n], message |-> "none"]

evaluate(r, value) ==
  LET s == state[Name[r]]
      result == IF value = "high" THEN High(s, r) ELSE Low(s, r)
  IN /\ state' = [state EXCEPT ![Name[r]] = result.state]
     /\ samples' = [samples EXCEPT ![r] = Append(@, value)]
     /\ messages' = IF result.message = "none" THEN messages
                    ELSE [messages EXCEPT ![r] =
                            Append(@, <<result.message, Len(samples[r]) + 1>>)]

(* One rule after the other, each with the state its name has by then.     *)
tick ==
  /\ turn \in Rules /\ Len(samples[turn]) < MaxTicks
  /\ \E value \in {"high", "low"} : evaluate(turn, value)
  /\ turn' = IF turn = Len(Name) THEN 1 ELSE turn + 1

Spec == Init /\ [][tick]_alertVars

(* No other rule has its name, and so its state.                           *)
Alone(r) == \A q \in Rules : Name[q] = Name[r] => q = r

(* Every alert and every recovery of a rule follows as many samples of its *)
(* kind in a row as the rule asks for, and they alternate: no message is   *)
(* repeated while the state it announced lasts.  Rules of one name mix     *)
(* their samples.                                                          *)
MessagesOnEvidence ==
  \A r \in Rules : Alone(r) => \A i \in 1 .. Len(messages[r]) :
    LET m == messages[r][i]
    IN /\ m[1] = IF i = 1 \/ messages[r][i - 1][1] = "recover"
                 THEN "alert" ELSE "recover"
       /\ m[2] \in normalize(r) .. Len(samples[r])
       /\ \A k \in (m[2] - normalize(r) + 1) .. m[2] :
            samples[r][k] = IF m[1] = "alert" THEN "high" ELSE "low"

-----------------------------------------------------------------------------
(* What MessagesOnEvidence rests on: the two counters of a rule count the  *)
(* last samples, and it alerts after an alert.                             *)
TypeOK ==
  /\ turn \in Nat
  /\ state \in [{Name[r] : r \in Rules} ->
                  [alertConsecutive : Nat, recoverCount : Nat, alerting : BOOLEAN]]
  /\ samples \in [Rules -> Seq({"high", "low"})]
  /\ messages \in [Rules -> Seq({"alert", "recover"} \X Nat)]

Last(values, n, value) ==
  /\ n <= Len(values)
  /\ \A k \in (Len(values) - n + 1) .. Len(values) : values[k] = value

CountersCount ==
  \A r \in Rules : Alone(r) =>
    LET s == state[Name[r]]  sent == messages[r]
    IN /\ Last(samples[r], s.alertConsecutive, "high")
       /\ Last(samples[r], s.recoverCount, "low")
       /\ s.alerting <=> sent # <<>> /\ sent[Len(sent)][1] = "alert"

IInv == TypeOK /\ CountersCount /\ MessagesOnEvidence
=============================================================================
