-------------------------------- MODULE Live ------------------------------
(***************************************************************************)
(* The live module: the callbacks a media server (SRS) asks before it      *)
(* admits somebody, and the client that lists, kicks and records streams.  *)
(*                                                                         *)
(* KickStream is two calls of the server's API: the list of streams, then  *)
(* the deletion of the publisher it found; streams end and begin between.  *)
(***************************************************************************)
EXTENDS Naturals, FiniteSets

CONSTANTS
  Streams,     \* stream names
  MaxClients,  \* bound: publisher ids the server gives
  MaxKicks     \* bound: calls of KickStream

VARIABLES
  signed,     \* the application itself put CallbackSignature, with a secret,
              \* before the routes; Provide does not
  publisher,  \* the server: per stream, the client that publishes it; 0 none
  lastCid,    \* client ids given so far
  asked,      \* callbacks the server is waiting on
  answered,   \* history: the server's callbacks and what was made of them
  misled,     \* history: the hooks whose handler was run for a callback that
              \* bore no valid signature
  kick,       \* the call of KickStream
  kicks,      \* calls made
  kicked,     \* history: ids deleted, by the name they were kicked for
  recording   \* streams recorded by StartRecord

vars == <<signed, publisher, lastCid, asked, answered, misled, kick, kicks, kicked,
          recording>>

noKick == [pc |-> "none", name |-> "none", cid |-> 0, result |-> "none", answer |-> "none"]

Init ==
  /\ signed \in BOOLEAN
  /\ publisher = [s \in Streams |-> 0]
  /\ lastCid = 0
  /\ asked = {}
  /\ answered = {}
  /\ misled = {}
  /\ kick = noKick
  /\ kicks = 0
  /\ kicked = {}
  /\ recording = {}

(* Someone publishes a stream that is free: the server posts on_connect.   *)
Ask(s) ==
  /\ lastCid < MaxClients
  /\ publisher[s] = 0
  /\ ~ \E a \in asked : a.stream = s
  /\ lastCid' = lastCid + 1
  /\ asked' = asked \cup {[stream |-> s, cid |-> lastCid + 1, hook |-> "connect"]}
  /\ UNCHANGED <<signed, publisher, answered, misled, kick, kicks, kicked, recording>>

(* A callback as it arrives: the body may not parse, the signature may be  *)
(* missing or wrong, and the handler, if it is run, agrees or does not.    *)
(* One that is not injected agrees.                                        *)
Callbacks(a) ==
  [cid : {a.cid}, hook : {a.hook}, parses : BOOLEAN, signature : BOOLEAN, agrees : BOOLEAN]

(* CallbackSignature.Verify, where the application has put it.             *)
Verify(signature) == signed => signature

(* Mutant: a body that does not parse is let through, as for on_connect.   *)
OnPublishLenient(r) == r.parses => r.agrees

(* on_publish and on_play: is the answer respondOK?                        *)
OnPublish(r) == r.parses /\ r.agrees

(* on_connect, where a body that does not parse is let through.            *)
OnConnect(r) == r.parses => r.agrees

OK(r) ==
  Verify(r.signature) /\ (IF r.hook = "connect" THEN OnConnect(r) ELSE OnPublish(r))

(* The handler runs, of a callback that passes and that parses.            *)
Heard(hook, parses, signature) ==
  misled' = IF Verify(signature) /\ parses /\ ~ signature THEN misled \cup {hook} ELSE misled

(* The answer: the server goes on with on_publish and then admits the      *)
(* client, when it is code 0 each time.                                    *)
Answered(a) ==
  /\ a \in asked
  /\ \E r \in Callbacks(a) :
       /\ (~ r.parses \/ ~ Verify(r.signature)) => r.agrees
       /\ answered' = answered \cup {r}
       /\ Heard(r.hook, r.parses, r.signature)
       /\ \/ /\ OK(r) /\ a.hook = "connect"
             /\ asked' = (asked \ {a}) \cup {[a EXCEPT !.hook = "publish"]}
             /\ UNCHANGED publisher
          \/ /\ OK(r) /\ a.hook = "publish"
             /\ asked' = asked \ {a}
             /\ publisher' = [publisher EXCEPT ![a.stream] = a.cid]
          \/ /\ ~ OK(r)
             /\ asked' = asked \ {a}
             /\ UNCHANGED publisher
  /\ UNCHANGED <<signed, lastCid, kick, kicks, kicked, recording>>

(* The publisher leaves; on_unpublish only notifies.                       *)
Unpublish(s) ==
  /\ publisher[s] /= 0
  /\ publisher' = [publisher EXCEPT ![s] = 0]
  /\ \E parses, signature \in BOOLEAN : Heard("unpublish", parses, signature)
  /\ UNCHANGED <<signed, lastCid, asked, answered, kick, kicks, kicked, recording>>

(* Anyone may post a callback, without the secret.                         *)
Forge(hook) ==
  /\ Heard(hook, TRUE, FALSE)
  /\ UNCHANGED <<signed, publisher, lastCid, asked, answered, kick, kicks, kicked,
                 recording>>

-----------------------------------------------------------------------------
(* Mutant: the first stream of the list is taken, whatever its name.       *)
FoundFirst(name) == {publisher[s] : s \in Streams} \ {0}

(* The publish_cid of the stream in the list, if it is there.              *)
Found(name) == {publisher[name]} \ {0}

(* KickStream, first half: ListStreams, which may fail.                    *)
KickStream(name) ==
  /\ kick.pc = "none"
  /\ kicks < MaxKicks
  /\ kicks' = kicks + 1
  /\ \/ \E cid \in Found(name) :
          kick' = [noKick EXCEPT !.pc = "deleting", !.name = name, !.cid = cid]
     \/ \E result \in {"missing", "error"} :
          /\ result = "missing" => Found(name) = {}
          /\ kick' = [noKick EXCEPT !.pc = "done", !.name = name, !.result = result]
  /\ UNCHANGED <<signed, publisher, lastCid, asked, answered, misled, kicked, recording>>

Owner(cid) == {s \in Streams : publisher[s] = cid}

(* What becomes of the answer.  No answer, a status from 300 on and a code *)
(* other than 0 are errors; a body that cannot be read or is no JSON is    *)
(* none, whatever the server has done.                                     *)
deleteJSON(answer) == IF answer = "error" THEN "error" ELSE "ok"

(* KickClient: the server deletes the client and says so with code 0, or   *)
(* does not know it any more, or will not.                                 *)
KickClient ==
  /\ kick.pc = "deleting"
  /\ \E answer \in {"code0", "unread", "error"} :
       /\ \/ /\ Owner(kick.cid) /= {}
             /\ publisher' = [s \in Streams |->
                                IF publisher[s] = kick.cid THEN 0 ELSE publisher[s]]
             /\ kicked' = kicked \cup {[name |-> kick.name, from |-> Owner(kick.cid)]}
          \/ answer /= "code0" /\ UNCHANGED <<publisher, kicked>>
       /\ kick' = [kick EXCEPT !.pc = "done", !.result = deleteJSON(answer),
                               !.answer = answer]
  /\ UNCHANGED <<signed, lastCid, asked, answered, misled, kicks, recording>>

Return ==
  /\ kick.pc = "done"
  /\ kick' = noKick
  /\ UNCHANGED <<signed, publisher, lastCid, asked, answered, misled, kicks, kicked,
                 recording>>

(* StartRecord and StopRecord: an answer that does not parse, or has a     *)
(* code, is an error, whatever the server has done.                        *)
Record(s, on) ==
  /\ recording' = IF on THEN recording \cup {s} ELSE recording \ {s}
  /\ UNCHANGED <<signed, publisher, lastCid, asked, answered, misled, kick, kicks, kicked>>

Next ==
  \/ KickClient
  \/ Return
  \/ \E s \in Streams :
       \/ Ask(s) \/ Unpublish(s) \/ KickStream(s)
       \/ \E on \in BOOLEAN : Record(s, on)
  \/ \E a \in asked : Answered(a)
  \/ \E hook \in {"connect", "publish", "unpublish"} : Forge(hook)

Spec == Init /\ [][Next]_vars

-----------------------------------------------------------------------------
(* Only a client publishes of whose callbacks none was refused, the one    *)
(* about publishing was understood and, where signatures are asked for,    *)
(* each bore one; and only there no handler runs for a forged callback.    *)
(* A kick only ever ends a publisher of the stream it names, though streams*)
(* end and begin again between the list and the deletion; one that reports *)
(* success has ended the one it found, or had an answer it could not read. *)
ApprovedAndNamed ==
  /\ \A s \in Streams : publisher[s] /= 0 =>
       /\ \E r \in answered : r.cid = publisher[s] /\ r.hook = "publish" /\ r.parses
       /\ \A r \in answered : r.cid = publisher[s] =>
            /\ r.agrees /\ Verify(r.signature)
            /\ r.hook = "publish" => r.parses
  /\ signed => misled = {}
  /\ \A k \in kicked : k.from = {k.name}
  /\ kick.result = "ok" => Owner(kick.cid) = {} \/ kick.answer = "unread"

-----------------------------------------------------------------------------
Asking == [stream : Streams, cid : Nat, hook : {"connect", "publish"}]

Answers == [cid : Nat, hook : {"connect", "publish"}, parses : BOOLEAN,
            signature : BOOLEAN, agrees : BOOLEAN]

Kicks == [pc : {"none", "deleting", "done"}, name : Streams \cup {"none"}, cid : Nat,
          result : {"none", "ok", "error", "missing"},
          answer : {"none", "code0", "unread", "error"}]

TypeOK ==
  /\ signed \in BOOLEAN
  /\ publisher \in [Streams -> Nat] /\ lastCid \in Nat
  /\ asked \subseteq Asking /\ answered \subseteq Answers /\ kick \in Kicks

(* Every id in use was given by the server.                                *)
IdsGiven ==
  /\ \A s \in Streams : publisher[s] <= lastCid
  /\ \A a \in asked : 0 < a.cid /\ a.cid <= lastCid
  /\ \A r \in answered : r.cid <= lastCid

(* An id belongs to one callback under way or to one stream.               *)
IdsApart ==
  /\ \A s, t \in Streams : publisher[s] = publisher[t] /\ publisher[s] /= 0 => s = t
  /\ \A a, b \in asked : a.cid = b.cid => a = b
  /\ \A a \in asked, s \in Streams : a.cid /= publisher[s]

(* A client the server still asks about has been let through so far.       *)
PassedSoFar ==
  \A a \in asked, r \in answered : r.cid = a.cid =>
    /\ a.hook = "publish" /\ r.hook = "connect"
    /\ r.agrees /\ Verify(r.signature)

(* The id KickStream found publishes its stream or nothing any more.       *)
FoundThere ==
  /\ kick.pc = "deleting" =>
       /\ kick.name \in Streams /\ kick.result /= "ok" /\ 0 < kick.cid /\ kick.cid <= lastCid
       /\ Owner(kick.cid) \subseteq {kick.name}
       /\ \A a \in asked : a.cid /= kick.cid
  /\ kick.result = "ok" =>
       0 < kick.cid /\ kick.cid <= lastCid /\ \A a \in asked : a.cid /= kick.cid

IInv == TypeOK /\ IdsGiven /\ IdsApart /\ PassedSoFar /\ FoundThere /\ ApprovedAndNamed
=============================================================================
