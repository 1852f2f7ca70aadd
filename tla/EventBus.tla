------------------------------ MODULE EventBus ------------------------------
(***************************************************************************)
(* The event bus of framework/event: subscriptions by name and for every   *)
(* event, handlers told apart by the place of their code only, synchronous *)
(* and asynchronous publishing, retries, and the bridge that publishes     *)
(* here what any instance, this one included, sends to a Redis channel.    *)
(***************************************************************************)
EXTENDS Integers, Sequences, FiniteSets, SequencesExt

CONSTANTS
  Subs,         \* subscriptions that may be made, numbered in this order
  Topic,        \* of each: an event, or All
  Site,         \* place in the code of each one's handler
  Retries,      \* of each; 0 for a plain Subscribe
  Events, All,
  Pubs          \* publications: Publish calls and messages of the bridge

EventBusAssumption ==
  /\ All \notin Events /\ Topic \in [Subs -> Events \cup {All}]
  /\ Subs \subseteq Nat /\ IsFiniteSet(Subs)

VARIABLES
  async,      \* the bus publishes asynchronously, as New was told
  handlers,   \* by topic, in the order of subscription
  subscribed, \* subscriptions made and not yet cancelled by their owner
  everSubscribed,
  again,      \* those whose cancellation was called again
  pub,        \* of each publication: "new", "bridged" (in the Redis channel),
              \* "running", "ok" or "failed", with its entries left to run
  ran         \* runs of handlers: [pub, sub, result], in order

busVars == <<async, handlers, subscribed, everSubscribed, again, pub, ran>>

Init ==
  /\ async \in BOOLEAN
  /\ handlers = [t \in Events \cup {All} |-> <<>>]
  /\ subscribed = {} /\ everSubscribed = {} /\ again = {}
  /\ pub = [p \in Pubs |-> [at |-> "new"]]
  /\ ran = <<>>

Subscribe(s) ==
  /\ \A t \in everSubscribed : t < s
  /\ handlers' = [handlers EXCEPT ![Topic[s]] = Append(@, s)]
  /\ subscribed' = subscribed \cup {s}
  /\ everSubscribed' = everSubscribed \cup {s}
  /\ UNCHANGED <<again, pub, ran, async>>

(* Mutant: any handler of the topic is taken for the caller's.             *)
SameTopic(s, t) == Topic[s] = Topic[t]

(* sameHandler: the place in the code tells handlers apart.                *)
Same(s, t) == Site[s] = Site[t]

(* The first entry that looks like the caller's handler goes; the function *)
(* may be called again.                                                    *)
Unsubscribe(s) ==
  /\ s \in everSubscribed
  /\ LET old == handlers[Topic[s]]
         like == {i \in 1 .. Len(old) : Same(old[i], s)}
     IN handlers' = IF like = {} THEN handlers
                    ELSE [handlers EXCEPT ![Topic[s]] =
                            RemoveAt(old, CHOOSE i \in like : \A j \in like : i <= j)]
  /\ subscribed' = subscribed \ {s}
  /\ again' = IF s \in subscribed THEN again ELSE again \cup {s}
  /\ UNCHANGED <<everSubscribed, pub, ran, async>>

(* The bridge sends the event to the channel.                              *)
BridgePublish(p) ==
  /\ pub[p].at = "new"
  /\ pub' = [pub EXCEPT ![p] = [at |-> "bridged"]]
  /\ UNCHANGED <<handlers, subscribed, everSubscribed, again, ran, async>>

(* Mutant: those who subscribe to every event are forgotten.               *)
entriesOfEvent(e) == handlers[e]

entriesFor(e) == handlers[All] \o handlers[e]

LooksLike(s) == {t \in Subs : Topic[t] = Topic[s] /\ Site[t] = Site[s]}

Cancelled == everSubscribed \ subscribed

(* Those that stay whatever is cancelled next to them: nothing that looks  *)
(* like them has been.                                                     *)
Kept == {s \in subscribed : LooksLike(s) \cap Cancelled = {}}

(* Publish looks the entries up once; later subscriptions and cancellations*)
(* make no difference to it.                                               *)
Publish(p, e) ==
  /\ pub[p].at \in {"new", "bridged"}
  /\ pub' = [pub EXCEPT ![p] =
               [at |-> IF async THEN "ok" ELSE "running",
                left |-> entriesFor(e), tries |-> [s \in Subs |-> 0],
                due |-> {s \in Kept : Topic[s] \in {All, e}}]]
  /\ UNCHANGED <<handlers, subscribed, everSubscribed, again, ran, async>>

(* A message lost in Redis, or that cannot be decoded.                     *)
BridgeLoses(p) ==
  /\ pub[p].at = "bridged"
  /\ pub' = [pub EXCEPT ![p] = [at |-> "lost"]]
  /\ UNCHANGED <<handlers, subscribed, everSubscribed, again, ran, async>>

Logged(p, s, ok) == ran' = Append(ran, [pub |-> p, sub |-> s, ok |-> ok])

(* The handler returned an error and is called again after a while; it is  *)
(* not when its retries are used up, the context ends or it panics.        *)
Retry(p, s) ==
  /\ pub[p].tries[s] < Retries[s]
  /\ pub' = [pub EXCEPT ![p].tries[s] = @ + 1]

(* The next handler returns nil, or an error that ends the publication.    *)
RunHandler(p) ==
  /\ pub[p].at = "running" /\ pub[p].left /= <<>>
  /\ LET s == Head(pub[p].left)
     IN \/ Logged(p, s, TRUE) /\ pub' = [pub EXCEPT ![p].left = Tail(@)]
        \/ Logged(p, s, FALSE) /\ (Retry(p, s) \/ pub' = [pub EXCEPT ![p].at = "failed"])
  /\ UNCHANGED <<handlers, subscribed, everSubscribed, again, async>>

PublishEnds(p) ==
  /\ pub[p].at = "running" /\ pub[p].left = <<>>
  /\ pub' = [pub EXCEPT ![p].at = "ok"]
  /\ UNCHANGED <<handlers, subscribed, everSubscribed, again, ran, async>>

(* Asynchronously each entry runs on a goroutine of its own, retries and   *)
(* all, and errors go to the log.                                          *)
RunAsync(p) ==
  /\ async /\ pub[p].at = "ok"
  /\ \E i \in 1 .. Len(pub[p].left) :
       LET s == pub[p].left[i]
       IN \/ Logged(p, s, FALSE) /\ Retry(p, s)
          \/ /\ Logged(p, s, TRUE) \/ Logged(p, s, FALSE)
             /\ pub' = [pub EXCEPT ![p].left = RemoveAt(@, i)]
  /\ UNCHANGED <<handlers, subscribed, everSubscribed, again, async>>

Next ==
  \/ \E s \in Subs : Subscribe(s) \/ Unsubscribe(s)
  \/ \E p \in Pubs :
       \/ BridgePublish(p) \/ BridgeLoses(p) \/ RunHandler(p) \/ PublishEnds(p)
       \/ RunAsync(p)
       \/ \E e \in Events : Publish(p, e)

Spec == Init /\ [][Next]_busVars

Entered(s) == ToSet(handlers[Topic[s]]) \cap LooksLike(s)

Wanted(s) == subscribed \cap LooksLike(s)

(* A cancellation takes away one handler that looks like its own, if there *)
(* is one.  So of those that look alike (all that SubscribeRetry wraps do) *)
(* as many are left as are subscribed; only a cancellation called again    *)
(* takes one too many, and none stays too long.  Where nothing that looks  *)
(* like it has been cancelled, a handler is there itself.                  *)
OthersStaySubscribed ==
  \A s \in Subs :
    /\ Cardinality(Entered(s)) <= Cardinality(Wanted(s))
    /\ LooksLike(s) \cap again = {} => Cardinality(Entered(s)) = Cardinality(Wanted(s))
    /\ s \in Kept => s \in Entered(s)

Succeeded(p, s, log) ==
  {i \in 1 .. Len(log) : log[i].pub = p /\ log[i].sub = s /\ log[i].ok}

(* A synchronous Publish that returns nil has run to success every handler *)
(* Kept when it was called, and those of one topic in the order of their   *)
(* subscription; no handler succeeds twice, retried on the Publish or on   *)
(* its own goroutine.                                                      *)
PublishReachesAll ==
  \A p \in Pubs :
    /\ pub[p].at = "ok" /\ ~ async => \A s \in pub[p].due : Succeeded(p, s, ran) /= {}
    /\ \A s \in Subs : \A i, j \in Succeeded(p, s, ran) : i = j
    /\ \A i, j \in 1 .. Len(ran) :
         /\ ~ async /\ ran[i].pub = p /\ ran[j].pub = p
         /\ Topic[ran[i].sub] = Topic[ran[j].sub] /\ ran[i].sub < ran[j].sub
         => i < j

-----------------------------------------------------------------------------
TypeOK ==
  /\ async \in BOOLEAN
  /\ handlers \in [Events \cup {All} -> Seq(Subs)]
  /\ subscribed \subseteq everSubscribed /\ everSubscribed \subseteq Subs
  /\ again \subseteq Cancelled
  /\ DOMAIN pub = Pubs /\ \A p \in Pubs : "at" \in DOMAIN pub[p]
  /\ ran \in Seq([pub : Pubs, sub : Subs, ok : BOOLEAN])

(* A handler is entered under its own topic, in the order of subscription. *)
OwnTopics ==
  \A t \in Events \cup {All} :
    /\ \A i \in 1 .. Len(handlers[t]) :
         handlers[t][i] \in everSubscribed /\ Topic[handlers[t][i]] = t
    /\ \A i, j \in 1 .. Len(handlers[t]) : i < j => handlers[t][i] < handlers[t][j]

(* What is left to run has not succeeded, nothing twice.                   *)
RunOnce(p, left, log) ==
  /\ left \in Seq(Subs)
  /\ \A i, j \in 1 .. Len(left) : left[i] = left[j] => i = j
  /\ \A i \in 1 .. Len(left) : Succeeded(p, left[i], log) = {}

(* Of each topic those subscribed later come later.                        *)
InTurn(p, left, log) ==
  /\ \A i, j \in 1 .. Len(left) :
       i < j /\ Topic[left[i]] = Topic[left[j]] => left[i] < left[j]
  /\ \A i \in 1 .. Len(log), j \in 1 .. Len(left) :
       log[i].pub = p /\ Topic[log[i].sub] = Topic[left[j]] => log[i].sub <= left[j]

(* Every subscription due is left to run or has succeeded.                 *)
DueReached(p, left, due, log) ==
  \A s \in due : (\E i \in 1 .. Len(left) : left[i] = s) \/ Succeeded(p, s, log) /= {}

PublicationRuns(p) ==
  /\ pub[p].at = "running" => ~ async
  /\ pub[p].at \in {"new", "bridged"} => \A i \in 1 .. Len(ran) : ran[i].pub /= p
  /\ pub[p].at \in {"running", "ok"} =>
       /\ {"left", "tries", "due"} \subseteq DOMAIN pub[p]
       /\ RunOnce(p, pub[p].left, ran)
       /\ ~ async => InTurn(p, pub[p].left, ran) /\ DueReached(p, pub[p].left, pub[p].due, ran)
  /\ pub[p].at = "ok" /\ ~ async => pub[p].left = <<>>

PublicationsRun == \A p \in Pubs : PublicationRuns(p)

IInv ==
  /\ TypeOK /\ OwnTopics /\ OthersStaySubscribed
  /\ PublicationsRun /\ PublishReachesAll
=============================================================================
