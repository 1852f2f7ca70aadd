----------------------------- MODULE RateBucket -----------------------------
(***************************************************************************)
(* The token bucket of framework/ratelimit: a script that refills and      *)
(* draws atomically, by the time that its caller has read from a clock of  *)
(* its own, and a key that Redis lets expire, by its clock, when it has    *)
(* not been used for twice the time a bucket takes to fill.                *)
(* Time is in units in which one token is refilled per BucketRate units.   *)
(***************************************************************************)
EXTENDS Integers, Sequences

CONSTANTS
  Units, Burst, Draws,
  Readings,           \* what callers read from their clocks
  MaxMilli,           \* bound: Redis's clock
  MaxElapsed          \* bound: the time the calls have accounted for

RateBucketAssumption ==
  /\ Units \in Nat \ {0} /\ Burst \in Nat \ {0} /\ Draws \subseteq Nat \ {0}
  /\ Readings \subseteq Nat

VARIABLES
  milli,      \* Redis's clock
  bucket,     \* NoBucket or [tokens, ts, expires]; tokens count in units
  elapsed,    \* history: the time from call to call, added up
  admitted    \* history: `elapsed' when tokens were drawn, one entry a token

bucketVars == <<milli, bucket, elapsed, admitted>>

(* n tokens, and a full bucket of them.                                    *)
InUnits(n) == n * Units

Full == InUnits(Burst)

NoBucket == [tokens |-> -1, ts |-> 0, expires |-> 0]

Init == milli = 1 /\ bucket = NoBucket /\ elapsed = 0 /\ admitted = <<>>

Least(a, b) == IF a < b THEN a ELSE b

Greatest(a, b) == IF a > b THEN a ELSE b

(* Mutant: an idle bucket is forgotten before it could have filled.        *)
ShortBucketLife == 1

(* A bucket fills in as many units of time.                                *)
BucketLife == 2 * Full

Gone == bucket = NoBucket \/ bucket.expires <= milli

(* What a call at this time refills; the time of the call before may be    *)
(* the later one.                                                          *)
Delta(time) == Greatest(0, time - bucket.ts)

(* The bucket the script finds, refilled.                                  *)
Tokens(time) ==
  IF Gone THEN Full ELSE Least(Full, bucket.tokens + Delta(time))

(* The time since the call before, by the callers' clocks, and by Redis's  *)
(* as well if that has let the key expire.                                 *)
SinceLast(time) ==
  IF bucket = NoBucket THEN 0
  ELSE IF Gone
       THEN Greatest(Delta(time), milli - (bucket.expires - BucketLife))
       ELSE Delta(time)

AllowN(n, time) ==
  LET allowed == Tokens(time) >= InUnits(n)
  IN /\ elapsed' = elapsed + SinceLast(time)
     /\ elapsed' <= MaxElapsed
     /\ bucket' = [tokens |-> IF allowed THEN Tokens(time) - InUnits(n)
                              ELSE Tokens(time),
                   ts |-> time, expires |-> milli + BucketLife]
     /\ admitted' = IF allowed THEN admitted \o [i \in 1 .. n |-> elapsed']
                    ELSE admitted
     /\ UNCHANGED milli

Reset ==
  /\ bucket' = NoBucket
  /\ elapsed' = 0 /\ admitted' = <<>>
  /\ UNCHANGED milli

Tick ==
  /\ milli < MaxMilli /\ milli' = milli + 1
  /\ UNCHANGED <<bucket, elapsed, admitted>>

Next == Tick \/ Reset \/ \E n \in Draws, time \in Readings : AllowN(n, time)

Spec == Init /\ [][Next]_bucketVars

(* Over any span of calls no more than a full bucket and what is refilled  *)
(* in the time from one call to the next is drawn, also when the key has   *)
(* expired in between.  The times are those of the callers: where they     *)
(* come in order the span is as long as they say, but each one that falls  *)
(* back is a stretch of time that the calls after it pass a second time.   *)
RateHeld ==
  \A i, j \in 1 .. Len(admitted) :
    i <= j =>
      InUnits(j - i + 1) <= Full + (admitted[j] - admitted[i])
=============================================================================
