----------------------------- MODULE AuditQueue -----------------------------
(***************************************************************************)
(* The operation log of framework/audit: a bounded channel filled without  *)
(* waiting, one consumer that writes batches to a sink, and the sink that  *)
(* keeps a limited list in Redis, its newest entry at the head.            *)
(***************************************************************************)
EXTENDS Integers, Sequences, FiniteSets, SequencesExt

CONSTANTS
  Entries,      \* entries to log, numbers in the order of their times
  Closers,      \* calls of Close
  Buffer,       \* capacity of the channel
  MaxBatch,
  Limit         \* entries the Redis list keeps; 0 for all

AuditAssumption ==
  Buffer \in Nat \ {0} /\ MaxBatch \in Nat \ {0} /\ Limit \in Nat

VARIABLES
  entry,      \* where each entry is: "new", "checked" (closed was FALSE),
              \* "queued", "dropped", "panicked", "written", "failed"
  ch, batch,  \* of the consumer
  closed,     \* flag and channel, set together
  closing,    \* each call of Close: "no", "waiting", returned with nil
              \* ("done", "repeated") or with its context's error ("timeout")
  consumer,   \* "running", "done"
  list        \* the Redis list, head first

auditVars == <<entry, ch, batch, closed, closing, consumer, list>>

Init ==
  /\ entry = [e \in Entries |-> "new"]
  /\ ch = <<>> /\ batch = <<>> /\ list = <<>>
  /\ closed = FALSE /\ closing = [c \in Closers |-> "no"] /\ consumer = "running"

Becomes(es, where) == [e \in Entries |-> IF e \in es THEN where ELSE entry[e]]

(* Entries are made in the order of their numbers.                         *)
EnqueueChecks(e) ==
  /\ entry[e] = "new" /\ \A d \in Entries : d < e => entry[d] /= "new"
  /\ entry' = Becomes({e}, IF closed THEN "dropped" ELSE "checked")
  /\ UNCHANGED <<ch, batch, closed, closing, consumer, list>>

(* The lock has been given up: a send on a channel closed meanwhile        *)
(* panics, full or not.                                                    *)
EnqueueSends(e) ==
  /\ entry[e] = "checked"
  /\ IF closed THEN entry' = Becomes({e}, "panicked") /\ ch' = ch
     ELSE IF Len(ch) < Buffer
     THEN entry' = Becomes({e}, "queued") /\ ch' = Append(ch, e)
     ELSE entry' = Becomes({e}, "dropped") /\ ch' = ch
  /\ UNCHANGED <<batch, closed, closing, consumer, list>>

(* The list after an entry is pushed for each of the last n of the batch,  *)
(* the last of them first, so that the oldest entry ends at the head.      *)
Pushed(es, n) == SubSeq(es, Len(es) - n + 1, Len(es)) \o list

Trimmed(l) == IF Limit > 0 THEN SubSeq(l, 1, IF Len(l) < Limit THEN Len(l) ELSE Limit)
              ELSE l

(* The sink writes the batch, or fails after any number of entries: the    *)
(* whole batch counts as failed, and the list is not trimmed.              *)
Write(es) ==
  \/ es = <<>> /\ UNCHANGED <<entry, list>>
  \/ /\ es /= <<>>
     /\ list' = Trimmed(Pushed(es, Len(es)))
     /\ entry' = Becomes(ToSet(es), "written")
  \/ /\ es /= <<>>
     /\ \E n \in 0 .. Len(es) : list' = Pushed(es, n)
     /\ entry' = Becomes(ToSet(es), "failed")

Receive ==
  /\ consumer = "running" /\ ch /= <<>>
  /\ ch' = Tail(ch)
  /\ LET full == Append(batch, Head(ch))
     IN IF Len(full) >= MaxBatch THEN Write(full) /\ batch' = <<>>
        ELSE batch' = full /\ UNCHANGED <<entry, list>>
  /\ UNCHANGED <<closed, closing, consumer>>

FlushIdle ==
  /\ consumer = "running" /\ ch = <<>> /\ ~ closed
  /\ batch /= <<>>
  /\ Write(batch) /\ batch' = <<>>
  /\ UNCHANGED <<ch, closed, closing, consumer>>

(* Mutant: the consumer leaves without a last flush.                       *)
LeaveUnflushed ==
  /\ consumer = "running" /\ ch = <<>> /\ closed
  /\ consumer' = "done"
  /\ UNCHANGED <<entry, ch, batch, closed, closing, list>>

(* The channel is closed and drained.                                      *)
Leave ==
  /\ consumer = "running" /\ ch = <<>> /\ closed
  /\ Write(batch) /\ batch' = <<>>
  /\ consumer' = "done"
  /\ UNCHANGED <<ch, closed, closing>>

(* The first call closes the channel and waits; any later one returns nil  *)
(* at once, whatever is still queued.                                      *)
Close(c) ==
  /\ closing[c] = "no"
  /\ closed' = TRUE
  /\ closing' = [closing EXCEPT ![c] = IF closed THEN "repeated" ELSE "waiting"]
  /\ UNCHANGED <<entry, ch, batch, consumer, list>>

CloseReturns(c) ==
  /\ closing[c] = "waiting"
  /\ \E how \in {"done", "timeout"} :
       /\ how = "done" => consumer = "done"
       /\ closing' = [closing EXCEPT ![c] = how]
  /\ UNCHANGED <<entry, ch, batch, closed, consumer, list>>

Next ==
  \/ \E e \in Entries : EnqueueChecks(e) \/ EnqueueSends(e)
  \/ \E c \in Closers : Close(c) \/ CloseReturns(c)
  \/ Receive \/ FlushIdle \/ Leave

Spec == Init /\ [][Next]_auditVars

Settled == \A e \in Entries : entry[e] /= "queued"

(* When a call of Close returns nil, every entry accepted into the channel *)
(* has been given to the sink, except where another call came first and    *)
(* still waits or has given up waiting: the repeated call does not wait    *)
(* for the consumer.                                                       *)
ClosedMeansSettled ==
  \A c \in Closers :
    \/ closing[c] \notin {"done", "repeated"}
    \/ Settled
    \/ closing[c] = "repeated"
         /\ \E d \in Closers \ {c} : closing[d] \in {"waiting", "timeout"}
-----------------------------------------------------------------------------
(* What ClosedMeansSettled rests on: an entry is queued only while it is   *)
(* in the channel or in the batch, and the consumer leaves both empty, by  *)
(* which time the channel is closed and takes no more.                     *)
TypeOK ==
  /\ entry \in [Entries -> {"new", "checked", "queued", "dropped", "panicked",
                            "written", "failed"}]
  /\ ch \in Seq(Entries)
  /\ batch \in Seq(Entries)
  /\ closed \in BOOLEAN
  /\ closing \in [Closers -> {"no", "waiting", "done", "repeated", "timeout"}]
  /\ consumer \in {"running", "done"}

QueuedSomewhere ==
  \A e \in Entries : entry[e] = "queued" => e \in ToSet(ch) \cup ToSet(batch)

LeftEmpty ==
  /\ consumer = "done" => closed /\ ch = <<>> /\ batch = <<>>
  /\ \A c \in Closers : closing[c] = "done" => consumer = "done"

(* What is closed was closed by one call, which waited.                    *)
FirstWaits ==
  closed => \E c \in Closers : closing[c] \in {"waiting", "done", "timeout"}

RepeatedLater == \A c \in Closers : closing[c] = "repeated" => closed

IInv == TypeOK /\ QueuedSomewhere /\ LeftEmpty /\ FirstWaits /\ RepeatedLater
=============================================================================
