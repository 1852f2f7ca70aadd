----------------------------- MODULE KafkaQueue ---------------------------
(***************************************************************************)
(* Producer and Consumer of kafka/kafka.go on one partition.               *)
(*                                                                         *)
(* The members of a consumer group run Consume: fetch, call the handler,   *)
(* commit.  The reader of a member remembers in memory how far it has      *)
(* fetched; the group remembers what was committed.  A handler that fails  *)
(* ends Consume, and the caller may close the consumer or call Consume     *)
(* again on the reader as it stands.                                       *)
(***************************************************************************)
EXTENDS Naturals, FiniteSets

CONSTANTS
  Members,    \* consumers of one group
  MaxOffset,  \* bound: messages produced
  MaxFaults   \* bound: handler errors, failed commits, crashes, rebalances

VARIABLES
  produced,   \* messages in the partition: offsets 1 .. produced
  committed,  \* the group's offset: all up to it are committed
  owner,      \* the member the partition is assigned to
  member,     \* per member: pc, the last offset its reader fetched, and the
              \* offset of the message Consume has in hand
  faults,     \* faults so far
  handled,    \* history: offsets whose handler returned nil
  passedOver  \* history: offsets whose handler failed and on whose reader
              \* Consume was called again

vars == <<produced, committed, owner, member, faults, handled, passedOver>>

NewMember(offset) == [pc |-> "fetching", fetched |-> offset, message |-> 0]

Init ==
  /\ produced = 0
  /\ committed = 0
  /\ owner \in Members
  /\ member = [m \in Members |-> NewMember(0)]
  /\ faults = 0
  /\ handled = {}
  /\ passedOver = {}

Fault == faults < MaxFaults /\ faults' = faults + 1

Goto(m, pc) == member' = [member EXCEPT ![m].pc = pc]

(* Send: RequireAll, so a message it reports sent is in the partition.     *)
Send ==
  /\ produced < MaxOffset
  /\ produced' = produced + 1
  /\ UNCHANGED <<committed, owner, member, faults, handled, passedOver>>

(* FetchMessage: the reader's next offset, whether or not the one before   *)
(* was committed.                                                          *)
Fetch(m) ==
  LET next == member[m].fetched + 1
  IN /\ member[m].pc = "fetching"
     /\ owner = m
     /\ next <= produced
     /\ member' = [member EXCEPT ![m] =
                     [pc |-> "handling", fetched |-> next, message |-> next]]
     /\ UNCHANGED <<produced, committed, owner, faults, handled, passedOver>>

(* Mutant: the offset is committed whether or not the handler succeeded.   *)
AfterFailureCommit == "committing"

AfterFailure == "returned"

(* A handler that fails ends Consume with its error.                       *)
Handle(m) ==
  /\ member[m].pc = "handling"
  /\ \/ /\ Goto(m, "committing")
        /\ handled' = handled \cup {member[m].message}
        /\ UNCHANGED faults
     \/ /\ Fault
        /\ Goto(m, AfterFailure)
        /\ UNCHANGED handled
  /\ UNCHANGED <<produced, committed, owner, passedOver>>

(* CommitMessages of the message in hand; of a member that has lost the    *)
(* partition it fails.                                                     *)
Commit(m) ==
  /\ member[m].pc = "committing"
  /\ \/ /\ owner = m
        /\ committed' = member[m].message
        /\ Goto(m, "fetching")
        /\ UNCHANGED faults
     \/ /\ owner # m
        /\ Goto(m, "returned")
        /\ UNCHANGED <<committed, faults>>
     \/ /\ Fault
        /\ Goto(m, "returned")
        /\ UNCHANGED committed
  /\ UNCHANGED <<produced, owner, handled, passedOver>>

(* Close and NewConsumer, or a crash and a restart: the reader begins at   *)
(* the group's offset.                                                     *)
Restart(m) ==
  /\ \/ member[m].pc = "returned" /\ UNCHANGED faults
     \/ Fault
  /\ member' = [member EXCEPT ![m] = NewMember(committed)]
  /\ UNCHANGED <<produced, committed, owner, handled, passedOver>>

(* Consume is called again on the open reader, which goes on behind the    *)
(* message that failed, unless the partition was assigned anew meanwhile.  *)
ConsumeAgain(m) ==
  /\ member[m].pc = "returned"
  /\ Goto(m, "fetching")
  /\ passedOver' = IF member[m].fetched = member[m].message
                   THEN passedOver \cup ({member[m].message} \ handled)
                   ELSE passedOver
  /\ UNCHANGED <<produced, committed, owner, faults, handled>>

(* The partition goes to another member, whose reader begins at the        *)
(* group's offset, whatever its Consume is doing; the one it is taken from *)
(* may still be handling.                                                  *)
Rebalance(m) ==
  /\ owner # m
  /\ Fault
  /\ owner' = m
  /\ member' = [member EXCEPT ![m].fetched = committed]
  /\ UNCHANGED <<produced, committed, handled, passedOver>>

Next ==
  \/ Send
  \/ \E m \in Members :
       \/ Fetch(m) \/ Handle(m) \/ Commit(m)
       \/ Restart(m) \/ ConsumeAgain(m) \/ Rebalance(m)

Spec == Init /\ [][Next]_vars

-----------------------------------------------------------------------------
(* Every offset up to the one the group has committed was handled, across  *)
(* failed commits, crashes and rebalances with messages in hand, but for   *)
(* those that failed before their caller went on with Consume on the same  *)
(* reader.  kafka.go:138 calls it at least once, and :111 says that a      *)
(* message whose handler fails is not committed: the next one commits it.  *)
AtLeastOnce == 1 .. committed \subseteq handled \cup passedOver
-----------------------------------------------------------------------------
(* What AtLeastOnce rests on: whoever has a message in hand, and owns the  *)
(* partition or not, nothing before it is open, and nothing up to where a  *)
(* reader stands but for the message it fetched last.                      *)
TypeOK ==
  /\ produced \in Nat
  /\ committed \in Nat
  /\ owner \in Members
  /\ member \in [Members -> [pc : {"fetching", "handling", "committing", "returned"},
                             fetched : Nat, message : Nat]]

NothingOpen(offset) == 1 .. offset \subseteq handled \cup passedOver

ReadersInOrder ==
  \A m \in Members :
    /\ member[m].pc = "fetching" => NothingOpen(member[m].fetched)
    /\ member[m].pc # "fetching" =>
         /\ member[m].message > 0 /\ NothingOpen(member[m].message - 1)
         /\ \/ member[m].fetched = member[m].message
            \/ NothingOpen(member[m].fetched)
    /\ member[m].pc = "committing" => member[m].message \in handled

IInv == TypeOK /\ ReadersInOrder /\ AtLeastOnce
=============================================================================
