------------------------------ MODULE VFolder ------------------------------
(***************************************************************************)
(* libemail-engine/mail-vfolder.c: search folders.  At the daemon's start  *)
(* each rule gets a search folder, set up by a message of the ordered pool *)
(* from the folders the cache has at that time; from then on the signals   *)
(* of the folder cache have messages add folders and remove them, while a  *)
(* folder that is deleted or renamed changes the rules.  By the time a     *)
(* message runs the store has moved on.                                    *)
(*                                                                         *)
(* A folder object is the same after a rename, so what holds it holds it   *)
(* under its new name; an object whose folder is deleted counts for        *)
(* nothing.  Folders below a source ("include subfolders") are left out.   *)
(***************************************************************************)
EXTENDS Naturals, Sequences, FiniteSets, SequencesExt, TLC

CONSTANTS
  Stores, Names,
  Rules,
  RuleFiles,    \* what vfolders.xml may hold: sets of rules
  With,         \* With[r]: "specific", "local", "remote" or "both"
  Sources,      \* Sources[r]: the folders rule r names when it is loaded
  Remote,       \* the stores whose provider is remote
  Renames,      \* the renames a store may make: pairs of an old and a new name
  MaxRenamed,   \* stores rename nothing any more once so many names were involved
  MaxSignals,   \* bounds on signals and messages that wait
  MaxMessages,
  None

Folders == Stores \X Names

Messages == [kind : {"setup", "add", "remove"}, rules : SUBSET Rules,
             folders : SUBSET Folders, opened : SUBSET Folders, cancelled : BOOLEAN]

ASSUME VFolderAssumption ==
  /\ IsFiniteSet(Names) /\ IsFiniteSet(Rules)
  /\ None \notin Folders \cup Messages
  /\ MaxSignals \in Nat /\ MaxMessages \in Nat /\ MaxRenamed \in Nat
  /\ With \in [Rules -> {"specific", "local", "remote", "both"}]
  /\ Sources \in [Rules -> SUBSET Folders] /\ RuleFiles \subseteq SUBSET Rules
  /\ Remote \subseteq Stores /\ Renames \subseteq Names \X Names

VARIABLES
  known, heard, signals,  \* those of FolderSignals
  exists,    \* the folders the stores can open
  uris,      \* the cache's lists of local and of remote folder uris
  loaded,    \* vfolder_load_storage has run
  rules,     \* the rules of the context
  hashed,    \* the rules whose search folder is in vfolder_hash
  sources,   \* sources[r]
  members,   \* members[r]: the folders search folder r searches
  messages,  \* struct _setup_msg and _adduri_msg that wait for the worker
  running,   \* the one it executes
  history    \* only for the properties: what became of a folder's name

\* What the folder cache promises of its table and its signals.
INSTANCE FolderSignals WITH
  renamed <- [s \in Stores |-> {n \in Names : <<<<s, n>>, "renamed">> \in history}]

cacheVars == <<known, heard, signals>>
ruleVars == <<rules, hashed, sources>>
workVars == <<messages, running>>
vars == <<cacheVars, exists, uris, loaded, ruleVars, members, workVars, history>>

Known == {f \in Folders : f[2] \in known[f[1]]}

Init ==
  /\ history = {} /\ SignalsInit /\ exists = {} /\ uris = {}
  /\ loaded = FALSE /\ rules = {} /\ hashed = {} /\ sources = Sources
  /\ members = [r \in Rules |-> {}]
  /\ messages = <<>> /\ running = None

But(excuses) == {h[1] : h \in {h \in history : h[2] \in excuses}}
Remember(what, fs) == history' = history \cup (fs \X {what})

\* What holds folder objects, once a name has changed or gone.
Rekey(new) ==
  /\ members' = [r \in Rules |-> {new[f] : f \in members[r]} \ {None}]
  /\ running' = IF running = None THEN None
                ELSE [running EXCEPT !.opened = {new[f] : f \in @} \ {None}]

\* The table changes, and tells.
Tells(batch) == Len(signals) + Len(batch) <= MaxSignals /\ Record(batch)
Changes(batch) == known' = AfterAll(known, batch) /\ Tells(batch)

\* A folder is created, or comes back with its store.
Appears(s, n) ==
  /\ UNCHANGED <<uris, loaded, ruleVars, members, workVars, history>>
  /\ Changes(<<Signal("available", s, n, n)>>)
  /\ exists' = exists \cup {<<s, n>>}

Deleted(s, n) ==
  /\ n \in known[s]
  /\ Remember("deleted", {<<s, n>>})
  /\ Changes(<<Signal("deleted", s, n, n)>>)
  /\ exists' = exists \ {<<s, n>>}
  /\ Rekey([f \in Folders |-> IF f = <<s, n>> THEN None ELSE f])
  /\ UNCHANGED <<uris, loaded, ruleVars, messages>>

\* A folder is renamed, whatever the table has of the two names by then.  It is
\* told to be renamed, or to be available if the table did not have the old one;
\* if it cannot be opened any more, nothing is told.
Renamed(s, old, n) ==
  /\ Cardinality(But({"renamed"})) < MaxRenamed
  /\ <<s, old>> \in exists
  /\ Remember("renamed", {<<s, old>>, <<s, n>>})
  /\ \/ /\ exists' = (exists \ {<<s, old>>}) \cup {<<s, n>>}
        /\ known' = [known EXCEPT ![s] = (@ \ {old}) \cup {n}]
        /\ \E kind \in {"renamed"} \cup (IF old \in known[s] THEN {} ELSE {"available"}) :
             Tells(<<Signal(kind, s, n, old)>>)
     \/ /\ exists' = exists \ {<<s, old>>, <<s, n>>}
        /\ known' = [known EXCEPT ![s] = @ \ {old, n}]
        /\ Tells(<<>>)
  /\ Rekey([f \in Folders |-> IF f = <<s, old>> THEN <<s, n>> ELSE f])
  /\ UNCHANGED <<uris, loaded, ruleVars, messages>>

\* The store leaves the cache.
Withdrawn(s) ==
  /\ known[s] # {}
  /\ UNCHANGED <<exists, uris, loaded, ruleVars, members, workVars, history>>
  /\ \E names \in SetToSeqs(known[s]) :
       Changes([i \in DOMAIN names |-> Signal("unavailable", s, names[i], names[i])])

OfKind(r, f) ==
  \/ With[r] = "local" /\ f[1] \notin Remote
  \/ With[r] = "remote" /\ f[1] \in Remote
  \/ With[r] = "both"

\* Mutant: a rule of a kind looks at its kind only when it is loaded.
MatchesBySource(r, f) == f \in sources[r]

\* mail_vfolder_add_folder: the rules that search a folder.
Matches(r, f) == OfKind(r, f) \/ f \in sources[r]

\* A message for search folders: what it is to open, and what it has opened.
Message(kind, rs, fs) ==
  [kind |-> kind, rules |-> rs, folders |-> fs, opened |-> {}, cancelled |-> FALSE]

\* rule_changed: the folders a rule searches, as far as the cache has them.
\* Local and remote folders are the ones the signals have told the cache of.
Available(r) ==
  Known \cap (IF With[r] = "specific" THEN sources[r] ELSE {f \in uris : OfKind(r, f)})

\* vfolder_load_storage: context_rule_added and rule_changed for every rule,
\* unless its search folder cannot be opened; then the signals are connected.
Load ==
  /\ ~loaded /\ loaded' = TRUE
  /\ rules' \in RuleFiles
  /\ \E ok \in SUBSET rules' :
       /\ hashed' = ok
       /\ \E order \in SetToSeqs(ok) :
            messages' = [i \in DOMAIN order |->
                           Message("setup", {order[i]}, Available(order[i]))]
  /\ UNCHANGED <<cacheVars, exists, uris, sources, members, running, history>>

\* Mutant: unavailable folders are left to their stores.
HearAvailable(u) ==
  LET f == <<u.store, u.name>>
      rs == {r \in rules \cap hashed : Matches(r, f)}
  IN messages' = IF rs = {} \/ u.kind # "available" THEN messages
                 ELSE Append(messages, Message("add", rs, {f}))

\* Mutant: a rule whose search folder could not be opened is searched too.
HearForUnhashed(u) ==
  LET f == <<u.store, u.name>>
      rs == {r \in rules : Matches(r, f)}
  IN messages' = IF rs = {} \/ u.kind \notin {"available", "unavailable"} THEN messages
                 ELSE Append(messages,
                        Message(IF u.kind = "available" THEN "add" ELSE "remove", rs, {f}))

\* folder_available_cb and folder_unavailable_cb.
HearAddRemove(u) ==
  LET f == <<u.store, u.name>>
      rs == {r \in rules \cap hashed : Matches(r, f)}
  IN messages' = IF rs = {} \/ u.kind \notin {"available", "unavailable"} THEN messages
                 ELSE Append(messages,
                        Message(IF u.kind = "available" THEN "add" ELSE "remove", rs, {f}))

\* em_vfolder_rule_remove_source.
RemoveSource(r, f) == sources[r] \ {f}

\* mail_vfolder_delete_folder and mail_vfolder_rename_folder; rule_changed is
\* disconnected meanwhile.
HearDeletedRenamed(u) ==
  LET f == <<u.store, u.name>>
      old == <<u.store, u.old>>
      swap(r) == CASE u.kind = "deleted" -> RemoveSource(r, f)
                   [] u.kind = "renamed" /\ old \in sources[r] -> RemoveSource(r, old) \cup {f}
                   [] OTHER -> sources[r]
  IN sources' = [r \in Rules |-> IF r \in rules \cap hashed THEN swap(r) ELSE sources[r]]

\* The handlers of the cache's own, which come first: folder-renamed has none.
Recorded(u) ==
  LET f == <<u.store, u.name>>
  IN uris' = CASE u.kind = "available" -> uris \cup {f}
               [] u.kind \in {"unavailable", "deleted"} -> uris \ {f}
               [] u.kind = "renamed" -> uris

\* A signal of the folder cache.
Hear ==
  /\ UNCHANGED <<exists, loaded, rules, hashed, members, running, history>>
  /\ Len(messages) < MaxMessages
  /\ Tell
  /\ Recorded(Head(signals))
  /\ IF loaded
     THEN HearAddRemove(Head(signals)) /\ HearDeletedRenamed(Head(signals))
     ELSE UNCHANGED <<messages, sources>>

\* store_folder_deleted_cb: a client deletes a search folder, and its rule with
\* it; the entry of vfolder_hash stays.
RuleGoes(r) ==
  /\ r \in rules \cap hashed
  /\ rules' = rules \ {r}
  /\ UNCHANGED <<cacheVars, exists, uris, loaded, hashed, sources, members, workVars, history>>

\* Mutant: a message whose folder has disappeared waits for it to come back.
BeginAgain ==
  /\ running = None /\ messages # <<>>
  /\ LET m == Head(messages)
     IN IF m.kind = "add" /\ ~(m.folders \subseteq Known)
        THEN UNCHANGED workVars
        ELSE running' = m /\ messages' = Tail(messages)
  /\ UNCHANGED <<cacheVars, exists, uris, loaded, ruleVars, members, history>>

\* The worker takes the next message; vfolder_adduri_exec gives up on a folder
\* that has left the cache since.
Begin ==
  /\ running = None /\ messages # <<>>
  /\ messages' = Tail(messages)
  /\ LET m == Head(messages)
     IN running' = IF m.kind = "add" /\ ~(m.folders \subseteq Known) THEN None ELSE m
  /\ UNCHANGED <<cacheVars, exists, uris, loaded, ruleVars, members, history>>

\* e_mail_session_uri_to_folder_sync for one folder of the message: it needs a
\* folder of that name, and may fail all the same.
Open(f) ==
  /\ running # None /\ f \in running.folders
  /\ ~(running.kind = "setup" /\ running.cancelled)
  /\ \/ /\ f \in exists /\ ~running.cancelled
        /\ running' = [running EXCEPT !.folders = @ \ {f}, !.opened = @ \cup {f}]
        /\ UNCHANGED history
     \/ /\ running' = [running EXCEPT !.folders = @ \ {f}]
        /\ Remember("failed", {f} \cap exists)
  /\ UNCHANGED <<cacheVars, exists, uris, loaded, ruleVars, members, messages>>

\* camel_vee_folder_set_folders, _add_folder or _remove_folder, and the end.
Finish ==
  /\ running # None
  /\ \/ running.folders = {}
     \/ running.kind = "setup" /\ running.cancelled
  /\ members' = [r \in Rules |->
       IF r \notin running.rules THEN members[r]
       ELSE CASE running.kind = "setup" -> IF running.cancelled THEN members[r] ELSE running.opened
              [] running.kind = "add" -> members[r] \cup running.opened
              [] running.kind = "remove" -> members[r] \ running.opened]
  /\ running' = None
  /\ UNCHANGED <<cacheVars, exists, uris, loaded, ruleVars, messages, history>>

\* cancelOperations of the session: mail_cancel_all cancels what waits and runs.
CancelAll ==
  LET hit == {i \in DOMAIN messages : ~messages[i].cancelled}
      cut == running # None /\ ~running.cancelled
  IN /\ hit # {} \/ cut
     /\ messages' = [i \in DOMAIN messages |-> [messages[i] EXCEPT !.cancelled = TRUE]]
     /\ running' = IF cut THEN [running EXCEPT !.cancelled = TRUE] ELSE running
     /\ Remember("failed", (UNION {messages[i].folders : i \in hit})
                           \cup (IF cut THEN running.folders \cup running.opened ELSE {}))
     /\ UNCHANGED <<cacheVars, exists, uris, loaded, ruleVars, members>>

StoreStep ==
  \E s \in Stores :
    \/ \E n \in Names : Appears(s, n) \/ Deleted(s, n)
    \/ \E names \in Renames : Renamed(s, names[1], names[2])
    \/ Withdrawn(s)

Work == Begin \/ Finish \/ \E f \in Folders : Open(f)

Next ==
  \/ StoreStep
  \/ Load \/ Hear \/ \E r \in Rules : RuleGoes(r)
  \/ Work \/ CancelAll

Spec == Init /\ [][Next]_vars

\* The main loop runs the daemon's start and the cache's idle callback, and the
\* worker of the ordered pool its messages.
FairSpec == Spec /\ WF_vars(Load) /\ WF_vars(Hear) /\ WF_vars(Work)
-----------------------------------------------------------------------------
Excuses == {"deleted", "renamed", "failed"}

\* No message is for a search folder that could not be opened: the code adds
\* folders to it without looking.
TypeOK ==
  /\ exists \subseteq Folders /\ uris \subseteq Folders /\ loaded \in BOOLEAN
  /\ rules \subseteq Rules /\ hashed \subseteq Rules
  /\ sources \in [Rules -> SUBSET Folders] /\ members \in [Rules -> SUBSET Folders]
  /\ messages \in Seq(Messages) /\ running \in {None} \cup Messages
  /\ \A i \in DOMAIN messages : messages[i].rules \subseteq hashed
  /\ running # None => running.rules \subseteq hashed
  /\ history \subseteq Folders \X Excuses

Settled == loaded /\ signals = <<>> /\ messages = <<>> /\ running = None

\* A rule of a kind may still name folders it is no longer meant to search.
\* Signals add them to its search folder, its setup does not.
Asked(r) == {f \in Known : IF With[r] = "specific" THEN f \in sources[r] ELSE OfKind(r, f)}
Wanted(r) == {f \in Known : OfKind(r, f) \/ f \in sources[r]}

\* When all is quiet a search folder searches every folder there is that its
\* rule asks for, unless opening the folder has failed or a rename was involved.
SearchesAllItShould ==
  Settled => \A r \in rules \cap hashed :
               Asked(r) \ But({"failed", "renamed"}) \subseteq members[r]

\* And none its rule does not ask for, be it of a store that has gone.  A name
\* that was deleted and is in use again is excepted too.
SearchesNothingElse ==
  Settled => \A r \in rules \cap hashed :
               members[r] \ But({"failed", "renamed", "deleted"}) \subseteq Wanted(r)

\* The same with renames: "the adduri call above does the work async".
FollowsRenames ==
  Settled => \A r \in rules \cap hashed : Asked(r) \ But({"failed"}) \subseteq members[r]

\* Once the stores leave them in peace, search folders settle for good: every
\* signal is heard, and every message run or cancelled.
EventuallySettled == <>[][~StoreStep]_vars => <>[]Settled
=============================================================================
