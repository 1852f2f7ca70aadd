-------------------------------- MODULE I18n ------------------------------
(***************************************************************************)
(* The language resources of component/i18n: a Bundle, LoadDir, and        *)
(* WatchDir, which reloads a directory while it is being edited.           *)
(*                                                                         *)
(* A file is a language with the message of one key, or a text that does   *)
(* not parse.  An editor may change a file at any moment: while the first  *)
(* load goes on, between it and WatchDir's first fingerprint, between a    *)
(* fingerprint and its load; LoadDir reads the files in their order.       *)
(***************************************************************************)
EXTENDS Naturals, Sequences, FiniteSets

CONSTANTS
  Langs,     \* the files of the directory, in the order of ReadDir
  fallback,  \* Bundle.fallback
  MaxEdits   \* bound: changes of a file

VARIABLES
  dir,       \* per language, the message in its file; 0 where it is broken
  edits,     \* changes so far, also the modification time
  messages,  \* Bundle.messages of the key; absent languages are not in it
  watch,     \* WatchDir: pc, the last fingerprint, the next file, changes told
  failed,    \* history: the last load that ended has failed
  missed     \* history: what T answers was behind the files when WatchDir
             \* first looked, and nothing has been loaded since

vars == <<dir, edits, messages, watch, failed, missed>>

Files == DOMAIN Langs

Init ==
  /\ dir = [f \in Files |-> 1]
  /\ edits = 1
  /\ messages = [l \in {} |-> 0]
  /\ watch = [pc |-> "first", last |-> 0, next |-> 1, told |-> 0]
  /\ failed = FALSE /\ missed = FALSE

(* A file is saved, with a new message or broken; contents are never the   *)
(* same twice, so a fingerprint is the number of the change.               *)
Edit(f, broken) ==
  /\ edits < MaxEdits
  /\ edits' = edits + 1
  /\ dir' = [dir EXCEPT ![f] = IF broken THEN 0 ELSE edits + 1]
  /\ UNCHANGED <<messages, watch, failed, missed>>

(* Register: messages of a language are added to those it has.             *)
Register(lang, message) ==
  messages' = [l \in DOMAIN messages \cup {lang} |->
                 IF l = lang THEN message ELSE messages[l]]

(* LoadDir, one file: a file that does not parse ends it with an error,    *)
(* and the files before it stay registered.                                *)
LoadFile(f) ==
  /\ dir[f] # 0
  /\ Register(Langs[f], dir[f])

(* T: the language's own message, then the fallback's, then the key (0).   *)
T(lang) ==
  IF lang \in DOMAIN messages
  THEN messages[lang]
  ELSE IF fallback \in DOMAIN messages THEN messages[fallback] ELSE 0

Shown == \A f \in Files : dir[f] # 0 => T(Langs[f]) = dir[f]

-----------------------------------------------------------------------------
(* LoadDir, file by file: one that does not parse, or cannot be read just  *)
(* now, ends it; then the caller goes on to `done'.                        *)
LoadDir(at, done) ==
  /\ watch.pc = at
  /\ \/ /\ watch.next \in Files
        /\ LoadFile(watch.next)
        /\ watch' = [watch EXCEPT !.next = @ + 1]
        /\ UNCHANGED <<failed, missed>>
     \/ /\ watch.next \in Files
        /\ watch' = [watch EXCEPT !.pc = done.pc]
        /\ failed' = TRUE
        /\ UNCHANGED <<messages, missed>>
     \/ /\ watch.next \notin Files
        /\ watch' = done
        /\ failed' = FALSE /\ missed' = FALSE
        /\ UNCHANGED messages
  /\ UNCHANGED <<dir, edits>>

(* The program's own LoadDir, before it starts WatchDir.                   *)
FirstLoad == LoadDir("first", [watch EXCEPT !.pc = "starting"])

dirFingerprint == edits

(* WatchDir begins: the fingerprint is that of the files as they are now,  *)
(* whatever was loaded.  It returns when the directory cannot be read.     *)
Start ==
  /\ watch.pc = "starting"
  /\ \/ /\ watch' = [watch EXCEPT !.pc = "waiting", !.last = dirFingerprint]
        /\ missed' = ~ Shown
     \/ /\ watch' = [watch EXCEPT !.pc = "ended"]
        /\ UNCHANGED missed
  /\ UNCHANGED <<dir, edits, messages, failed>>

(* A tick that finds another fingerprint: it is remembered, and the load   *)
(* begins.                                                                 *)
Tick ==
  /\ watch.pc = "waiting"
  /\ dirFingerprint # watch.last
  /\ watch' = [watch EXCEPT !.pc = "loading", !.last = dirFingerprint,
                            !.next = 1]
  /\ UNCHANGED <<dir, edits, messages, failed, missed>>

(* Mutant: the fingerprint is taken when the load is over.                 *)
KeptAfterLoad == dirFingerprint

Kept == watch.last

(* The load of a tick and the call of onChange; the fingerprint stays as   *)
(* seen, whether or not the load succeeds.                                 *)
Load ==
  LoadDir("loading", [watch EXCEPT !.pc = "waiting", !.last = Kept,
                        !.told = IF @ < MaxEdits THEN @ + 1 ELSE @])

(* The context is cancelled while WatchDir waits.                          *)
Cancel ==
  /\ watch.pc = "waiting"
  /\ watch' = [watch EXCEPT !.pc = "ended"]
  /\ UNCHANGED <<dir, edits, messages, failed, missed>>

Next ==
  \/ \E f \in Files, broken \in BOOLEAN : Edit(f, broken)
  \/ FirstLoad \/ Start \/ Tick \/ Load \/ Cancel

Spec == Init /\ [][Next]_vars

Fairness == WF_vars(Tick) /\ WF_vars(Load)

FairSpec == Spec /\ Fairness

-----------------------------------------------------------------------------
Watching == watch.pc \in {"waiting", "loading"}

(* While WatchDir watches and the directory is edited no more, what T      *)
(* answers becomes and stays what the files say, whichever edits came      *)
(* between a fingerprint and its load: each is another fingerprint.  Two   *)
(* things are never made good without another edit: a load that failed,    *)
(* and an edit that fell between the first load of a file and WatchDir's   *)
(* first fingerprint.                                                      *)
WatchCatchesUp ==
  <>[](Watching => edits = watch.last /\ (Shown \/ failed \/ missed))

=============================================================================
