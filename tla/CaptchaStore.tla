---------------------------- MODULE CaptchaStore ----------------------------
(***************************************************************************)
(* framework/captcha: answers kept by identifier until they are asked for  *)
(* once or expire.  An answer is "right" or "wrong" once normalised.       *)
(***************************************************************************)
EXTENDS Integers

CONSTANTS Ids, CaptchaTtl, MaxClock

CaptchaAssumption == CaptchaTtl \in Nat

VARIABLES
  tick,
  items,    \* expiry of each identifier's answer; 0 when it has none
  issued,   \* when it was generated; 0 before
  asked     \* the answers Verify was called with, in order

captchaVars == <<tick, items, issued, asked>>

Init ==
  /\ tick = 1
  /\ items = [i \in Ids |-> 0]
  /\ issued = [i \in Ids |-> 0]
  /\ asked = [i \in Ids |-> "never"]

(* The driver's identifiers are not used twice.                            *)
Generate(i) ==
  /\ issued[i] = 0
  /\ issued' = [issued EXCEPT ![i] = tick]
  /\ items' = [items EXCEPT ![i] = tick + CaptchaTtl]
  /\ UNCHANGED <<tick, asked>>

(* Mutant: only a right answer uses the captcha up.                        *)
VerifyKeeping(i, answer) ==
  /\ issued[i] > 0
  /\ LET ok == items[i] > 0 /\ tick <= items[i] /\ answer = "right"
     IN /\ asked' = [asked EXCEPT ![i] =
                       IF ok THEN (IF @ = "never" THEN "accepted" ELSE "late")
                       ELSE (IF @ = "never" THEN "refused" ELSE @)]
        /\ items' = [items EXCEPT ![i] = IF ok THEN 0 ELSE @]
  /\ UNCHANGED <<tick, issued>>

(* Get deletes the answer before it looks at its expiry, and Verify        *)
(* compares afterwards.                                                    *)
Verify(i, answer) ==
  /\ issued[i] > 0
  /\ LET ok == items[i] > 0 /\ tick <= items[i] /\ answer = "right"
     IN asked' = [asked EXCEPT ![i] =
                    IF ok THEN (IF @ = "never" THEN "accepted" ELSE "late")
                    ELSE (IF @ = "never" THEN "refused" ELSE @)]
  /\ items' = [items EXCEPT ![i] = 0]
  /\ UNCHANGED <<tick, issued>>

(* Exists deletes an expired answer.                                       *)
Exists(i) ==
  /\ items[i] > 0 /\ tick > items[i]
  /\ items' = [items EXCEPT ![i] = 0]
  /\ UNCHANGED <<tick, issued, asked>>

Tick == tick < MaxClock /\ tick' = tick + 1 /\ UNCHANGED <<items, issued, asked>>

Next ==
  \/ Tick
  \/ \E i \in Ids :
       Generate(i) \/ Exists(i) \/ \E a \in {"right", "wrong"} : Verify(i, a)

Spec == Init /\ [][Next]_captchaVars

(* One answer for each captcha: after a first Verify, right or wrong, none *)
(* is accepted any more.                                                   *)
OneAnswer == \A i \in Ids : asked[i] /= "late"

TypeOK ==
  /\ tick \in Nat \ {0}
  /\ items \in [Ids -> Nat] /\ issued \in [Ids -> Nat]
  /\ asked \in [Ids -> {"never", "accepted", "refused", "late"}]

(* A captcha that was asked for is gone, and is not made again.            *)
AskedIsGone ==
  \A i \in Ids : asked[i] /= "never" => items[i] = 0 /\ issued[i] > 0

IInv == TypeOK /\ AskedIsGone /\ OneAnswer
=============================================================================
