------------------------------ MODULE MCTaskQueue ---------------------------
(***************************************************************************)
(* Instances for TLC of what runs in the background: the task queue, the   *)
(* audit queue, the alert watcher, the cron tasks or a WebSocket hub with  *)
(* one client, as `part' says.                                             *)
(***************************************************************************)
EXTENDS TaskQueueProofs

VARIABLES
  part,
  clients, rooms, reader, writer, conn, queue, sendClosed, hubRun, broadcast,
  hubClosing, hubCancelled, sender, inbox, down, origin, copies, published,
  ever, late, panics

auditVars == <<entry, ch, batch, closed, closing, consumer, list>>

alertVars == <<turn, state, samples, messages>>

cronVars == <<tasks, entries, lastId, runningTasks, run>>

hubVars ==
  <<clients, rooms, reader, writer, conn, queue, sendClosed, hubRun, broadcast,
    hubClosing, hubCancelled, sender, inbox, down, origin, copies, published,
    ever, late, panics>>

(* One rule alone, and two of one name, of which the first is not given a  *)
(* number of samples.                                                      *)
MCName == <<"cpu", "disk", "disk">>
MCConsecutive == <<2, 0, 2>>

H == INSTANCE WsHub WITH
       Nodes <- {"n1"}, Clients <- {"c1"}, Home <- [c \in {"c1"} |-> "n1"],
       Rooms <- {"r1"}, Messages <- {"m1"}, Bridged <- FALSE,
       Speakers <- {"n1"}, Stoppable <- {"n1"}, Fleeting <- {"c1"},
       WriteQueueSize <- 1, MaxPublishes <- 1,
       run <- hubRun, closing <- hubClosing, cancelled <- hubCancelled

MCInit ==
  /\ part \in {"taskqueue", "audit", "alert", "cron", "hub"}
  /\ Init /\ A!Init /\ W!Init /\ C!Init /\ H!Init

MCNext ==
  /\ IF part = "taskqueue" THEN TRUE ELSE UNCHANGED vars
  /\ IF part = "audit" THEN TRUE ELSE UNCHANGED auditVars
  /\ IF part = "alert" THEN TRUE ELSE UNCHANGED alertVars
  /\ IF part = "cron" THEN TRUE ELSE UNCHANGED cronVars
  /\ IF part = "hub" THEN TRUE ELSE UNCHANGED hubVars
  /\ \/ part = "taskqueue" /\ Next
     \/ part = "audit" /\ A!Next
     \/ part = "alert" /\ W!tick
     \/ part = "cron" /\ C!Next
     \/ part = "hub" /\ H!Next
  /\ UNCHANGED part

(* The fairness of the task queue and of the hub, each on its part.        *)
MCSpec ==
  /\ MCInit
  /\ [][MCNext]_<<part, vars, auditVars, alertVars, cronVars, hubVars>>
  /\ WF_vars(part = "taskqueue" /\ Tick)
  /\ \A r \in Runs : /\ WF_vars(part = "taskqueue" /\ RunStep(r))
                     /\ SF_vars(part = "taskqueue" /\ Done(r))
  /\ WF_vars(/\ part = "taskqueue"
             /\ \E e \in executing, panicked \in BOOLEAN : TaskEnds(e, panicked))
  /\ WF_hubVars(part = "hub" /\ "n1" \notin down /\ H!Run("n1"))
  /\ WF_hubVars(part = "hub" /\ "n1" \notin down /\ H!Close("n1"))
  /\ WF_hubVars(part = "hub" /\ "n1" \notin down /\ H!ReadFails("c1"))
  /\ WF_hubVars(part = "hub" /\ "n1" \notin down /\ H!writePump("c1"))

(* A broken connection of the hub is cleaned up, and its Close ends        *)
(* (DisconnectSeen, CloseEnds of WsHub).                                   *)
HubSettles == H!DisconnectSeen /\ H!CloseEnds
=============================================================================
