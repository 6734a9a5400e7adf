---------------------------- MODULE FolderCache ----------------------------
(***************************************************************************)
(* libemail-engine/mail-folder-cache.c: the table of stores and of their   *)
(* folders.  Store signals, which come from any thread, change the table   *)
(* under its mutex and queue updates; an idle callback of the main loop    *)
(* takes them one at a time and emits folder-available, -unavailable,      *)
(* -deleted and -renamed with the mutex released.  A StoreInfo also holds  *)
(* the requests for the folder list of its store that are outstanding.     *)
(* The stores are ordinary ones: the cache's handlers disregard search     *)
(* folders and the virtual Junk and Trash.                                 *)
(***************************************************************************)
EXTENDS Naturals, Sequences, FiniteSets, SequencesExt

CONSTANTS
  Stores,
  Names,      \* folder names
  Renames,    \* renames as sequences of <<old name, new name>>, top folder first
  Requests,   \* requests for a folder list (struct _update_data)
  Lists,      \* the folder lists that a store may return
  MaxUpdates, \* bound on the queued updates
  None

FolderInfos == [name : Names, state : {"select", "noselect"}]

\* The folder and those below it go to as many other places.
IsRenaming(pairs) ==
  /\ pairs \in Seq(Names \X Names)
  /\ \A i \in DOMAIN pairs : pairs[i][1] # pairs[i][2]
  /\ \A i, j \in DOMAIN pairs : i # j => pairs[i][2] # pairs[j][2]

Live == [store : Stores, phase : {"online", "list"}, cancellable : BOOLEAN,
         cancelled : BOOLEAN]

Kinds == {"available", "unavailable", "deleted", "renamed"}
Update(kind, s, name, old) == [kind |-> kind, store |-> s, name |-> name, old |-> old]

\* An update that tells of counts only: nobody here looks at its name.
Count(s) == Update("count", s, None, None)
Updates ==
  [kind : Kinds, store : Stores, name : Names, old : Names] \cup {Count(s) : s \in Stores}

ASSUME FolderCacheAssumption ==
  /\ None \notin Live \cup Updates /\ MaxUpdates \in Nat
  /\ IsFiniteSet(Names) /\ Lists \subseteq Seq(FolderInfos)
  /\ \A pairs \in Renames : IsRenaming(pairs)

VARIABLES
  noted,     \* keys of the stores table
  folders,   \* folders[s][n]: "none", or whether its entry is selectable
  waiting,   \* waiting[s]: folderinfo_updates of the StoreInfo
  request,   \* request[r]: the request, or None before and after its life
  updates,   \* queued updates
  updateId,  \* update_id > 0
  sources,   \* idle sources attached for flush_updates_idle_cb
  flushing,  \* the callback is in its loop
  emitting,  \* the update it has taken, or None
  view,      \* view[s]: the folders the listeners of the signals know
  uris,      \* uris[s]: local_folder_uris and remote_folder_uris
  spoilt,    \* spoilt[s]: names whose entry a rename has put under a freed key
  muted,     \* muted[s]: names a rename may have taken away without a signal
  renamed    \* renamed[s]: names that took part in a rename

table == <<noted, folders, waiting, request>>
queue == <<updates, updateId, sources>>
flush == <<flushing, emitting, view, uris>>
renames == <<spoilt, muted, renamed>>
vars == <<table, queue, flush, renames>>

States == {"none", "select", "noselect"}

NoFolders == [n \in Names |-> "none"]

Init ==
  /\ noted = {} /\ folders = [s \in Stores |-> NoFolders]
  /\ waiting = [s \in Stores |-> {}]
  /\ request = [r \in Requests |-> None]
  /\ updates = <<>> /\ updateId = FALSE /\ sources = 0
  /\ flushing = FALSE /\ emitting = None
  /\ view = [s \in Stores |-> {}] /\ uris = [s \in Stores |-> {}]
  /\ spoilt = [s \in Stores |-> {}] /\ muted = spoilt /\ renamed = spoilt

\* Mutant: flush_updates does not look whether the callback is on its way.
PushAgain(ups) ==
  /\ Len(updates) + Len(ups) <= MaxUpdates
  /\ updates' = updates \o ups
  /\ updateId' = (updateId \/ ups # <<>>)
  /\ sources' = IF ups = <<>> THEN sources ELSE sources + 1

\* Updates are queued and flush_updates asks for the idle callback, unless it
\* has been asked for and has not come to its end.
Push(ups) ==
  /\ Len(updates) + Len(ups) <= MaxUpdates
  /\ updates' = updates \o ups
  /\ updateId' = (updateId \/ ups # <<>>)
  /\ sources' = IF updateId \/ ups = <<>> THEN sources ELSE sources + 1

\* Changes of one store's entries, with the updates they queue.
Entries(s) == [f |-> folders[s], ups |-> <<>>]

SetEntries(s, e) ==
  /\ folders' = [folders EXCEPT ![s] = e.f]
  /\ Push(e.ups)

\* A new entry is announced if it is selectable.
Enter(e, s, fi) ==
  [f |-> [e.f EXCEPT ![fi.name] = fi.state],
   ups |-> Append(e.ups, IF fi.state = "select"
                         THEN Update("available", s, fi.name, fi.name) ELSE Count(s))]

\* Mutant: a folder that is there is taken for a new one.
SetupAnew(e, s, fi, open) == Enter(e, s, fi)

\* setup_folder: of an entry that is there only the counts are looked at, through
\* update_1folder, if its CamelFolder is open.
Setup(e, s, fi, open) ==
  IF e.f[fi.name] = "none"
  THEN Enter(e, s, fi)
  ELSE [e EXCEPT !.ups = IF fi.name \in open
                         THEN Append(@, Count(s)) ELSE @]

\* unset_folder_info: only a selectable entry is announced to be gone.
Unset(e, s, n, kind) ==
  [f |-> [e.f EXCEPT ![n] = "none"],
   ups |-> IF e.f[n] = "select" THEN Append(e.ups, Update(kind, s, n, n)) ELSE e.ups]

\* create_folders: the folders of a list, one after the other.
EnterAll(s, infos, open) ==
  LET entered[i \in 0..Len(infos)] ==
        IF i = 0 THEN Entries(s) ELSE Setup(entered[i - 1], s, infos[i], open)
  IN  entered[Len(infos)]

\* unset_folder_info_hash, for the folders of the table in some order.
LeaveAll(s, names) ==
  LET left[i \in 0..Len(names)] ==
        IF i = 0 THEN Entries(s) ELSE Unset(left[i - 1], s, names[i], "unavailable")
  IN  left[Len(names)]

\* The folder is told to be renamed if there was an entry, available if not.
Renaming(e, s, fi) ==
  IF fi.state # "select" THEN Count(s)
  ELSE Update(IF e.f[fi.old] = "none" THEN "available" ELSE "renamed", s, fi.name, fi.old)

\* Mutant: the entry stays under its old name.
RenameCopying(e, s, fi) ==
  [f |-> [e.f EXCEPT ![fi.name] = fi.state],
   ups |-> Append(e.ups, Renaming(e, s, fi))]

\* rename_folders: the entry moves; an unknown folder is a new one.
Rename(e, s, fi) ==
  [f |-> [e.f EXCEPT ![fi.old] = "none", ![fi.name] = fi.state],
   ups |-> Append(e.ups, Renaming(e, s, fi))]

\* A folder and those below it; kept[i]: what the i-th of them is.
MoveAll(s, pairs, kept) ==
  LET info(i) == [old |-> pairs[i][1], name |-> pairs[i][2], state |-> kept[i]]
      moved[i \in 0..Len(pairs)] ==
        IF i = 0 THEN Entries(s) ELSE Rename(moved[i - 1], s, info(i))
  IN  moved[Len(pairs)]

\* mail_folder_cache_note_store and the request for the folder list it makes;
\* a store that is offline is put online first.
NoteStore(s, r) ==
  /\ request[r] = None
  /\ \E phase \in {"online", "list"}, cancellable \in BOOLEAN :
       request' = [request EXCEPT ![r] =
         [store |-> s, phase |-> phase, cancellable |-> cancellable, cancelled |-> FALSE]]
  /\ noted' = noted \cup {s}
  /\ waiting' = [waiting EXCEPT ![s] = @ \cup {r}]
  /\ UNCHANGED <<folders, queue, flush, renames>>

\* Whoever passed the cancellable may use it.
Cancel(r) ==
  /\ request[r] # None /\ request[r].cancellable /\ ~request[r].cancelled
  /\ request' = [request EXCEPT ![r].cancelled = TRUE]
  /\ UNCHANGED <<noted, folders, waiting, queue, flush, renames>>

\* Mutant: a request that is given up stays in the store's list.
WentOnlineInList(r) ==
  /\ request[r] # None /\ request[r].phase = "online"
  /\ IF request[r].store \in noted /\ ~request[r].cancelled
     THEN request' = [request EXCEPT ![r].phase = "list"]
     ELSE request' = [request EXCEPT ![r] = None]
  /\ UNCHANGED <<noted, folders, waiting, queue, flush, renames>>

\* store_go_online_cb asks for the list, or frees the request if the store has
\* gone from the table or the request is cancelled.
WentOnline(r) ==
  /\ request[r] # None /\ request[r].phase = "online"
  /\ IF request[r].store \in noted /\ ~request[r].cancelled
     THEN request' = [request EXCEPT ![r].phase = "list"] /\ UNCHANGED waiting
     ELSE /\ request' = [request EXCEPT ![r] = None]
          /\ waiting' = [waiting EXCEPT ![request[r].store] = @ \ {r}]
  /\ UNCHANGED <<noted, folders, queue, flush, renames>>

\* update_folders enters the list if the store is still in the table, be it by
\* a StoreInfo made since.  The list may be empty: an error.
Listed(r, infos) ==
  /\ request[r] # None /\ request[r].phase = "list"
  /\ LET s == request[r].store
         lists == s \in noted /\ ~request[r].cancelled
     IN /\ waiting' = [waiting EXCEPT ![s] = IF s \in noted THEN @ \ {r} ELSE @]
        /\ \E open \in SUBSET {fi.name : fi \in Range(infos)} :
             SetEntries(s, IF lists THEN EnterAll(s, infos, open) ELSE Entries(s))
  /\ request' = [request EXCEPT ![r] = None]
  /\ UNCHANGED <<noted, flush, renames>>

\* store_folder_subscribed_cb and store_folder_created_cb.
FolderAppears(s, fi) ==
  /\ s \in noted
  /\ \E open \in SUBSET {fi.name} : SetEntries(s, Setup(Entries(s), s, fi, open))
  /\ UNCHANGED <<noted, waiting, request, flush, renames>>

\* store_folder_unsubscribed_cb and store_folder_deleted_cb.
FolderGoes(s, n) ==
  /\ s \in noted /\ folders[s][n] # "none"
  /\ SetEntries(s, Unset(Entries(s), s, n, "deleted"))
  /\ UNCHANGED <<noted, waiting, request, flush, renames>>

\* The new names that have an entry when their turn comes.
Occupied(s, pairs) ==
  {pairs[i][2] : i \in {i \in DOMAIN pairs :
     /\ folders[s][pairs[i][2]] # "none"
     /\ \A j \in 1..(i - 1) : pairs[j][1] # pairs[i][2]}}

\* store_folder_renamed_cb: the folder and those below it, in order; kept[i] is
\* what the store now says of the i-th.  The table keeps the key of an entry
\* that the new one replaces, which is freed with the old entry's full_name.
FolderRenamed(s, pairs) ==
  /\ s \in noted
  /\ \E kept \in [DOMAIN pairs -> {"select", "noselect"}] :
       /\ SetEntries(s, MoveAll(s, pairs, kept))
       /\ muted' = [muted EXCEPT ![s] = @ \cup
            UNION {{pairs[i][1], pairs[i][2]} : i \in {i \in DOMAIN pairs : kept[i] = "noselect"}}]
  /\ spoilt' = [spoilt EXCEPT ![s] = @ \cup Occupied(s, pairs)]
  /\ renamed' = [renamed EXCEPT ![s] = @ \cup UNION {{p[1], p[2]} : p \in Range(pairs)}]
  /\ UNCHANGED <<noted, waiting, request, flush>>

\* What a look-up by such a name finds depends on what the freed key now holds.
LookUpSpoilt(s, n) ==
  /\ s \in noted /\ n \in spoilt[s]
  /\ \E state \in States : folders' = [folders EXCEPT ![s][n] = state]
  /\ UNCHANGED <<noted, waiting, request, queue, flush, renames>>

\* mail_folder_cache_note_folder, or folder_changed_cb of a folder noted before.
NoteFolder(s, n) ==
  /\ s \in noted /\ folders[s][n] # "none"
  /\ Push(<<Count(s)>>)
  /\ UNCHANGED <<noted, folders, waiting, request, flush, renames>>

\* mail_folder_cache_service_removed, with store_info_free: the folders become
\* unavailable and the outstanding requests are cancelled.
ServiceRemoved(s) ==
  /\ s \in noted
  /\ noted' = noted \ {s}
  /\ \E names \in SetToSeqs({n \in Names : folders[s][n] # "none"}) :
       SetEntries(s, LeaveAll(s, names))
  /\ waiting' = [waiting EXCEPT ![s] = {}]
  /\ request' = [r \in Requests |->
       IF r \in waiting[s] /\ request[r].cancellable
       THEN [request[r] EXCEPT !.cancelled = TRUE] ELSE request[r]]
  /\ spoilt' = [spoilt EXCEPT ![s] = {}] /\ muted' = [muted EXCEPT ![s] = @ \cup spoilt[s]]
  /\ UNCHANGED <<flush, renamed>>

\* flush_updates_idle_cb is dispatched.
Flush ==
  /\ sources > 0 /\ ~flushing
  /\ sources' = sources - 1 /\ flushing' = TRUE
  /\ UNCHANGED <<table, updates, updateId, emitting, view, uris, renames>>

\* It takes the first update, under the mutex.
Take ==
  /\ flushing /\ emitting = None /\ updates # <<>>
  /\ emitting' = Head(updates) /\ updates' = Tail(updates)
  /\ UNCHANGED <<table, updateId, sources, flushing, view, uris, renames>>

\* What a listener makes of the signal for an update.
Heard(v, u) ==
  [v EXCEPT ![u.store] =
     CASE u.kind = "available" -> @ \cup {u.name}
       [] u.kind \in {"unavailable", "deleted"} -> @ \ {u.name}
       [] u.kind = "renamed" -> (@ \ {u.old}) \cup {u.name}
       [] u.kind = "count" -> @]

\* Mutant: the uri of a folder that is deleted stays.
RecordedDeletion(v, u) ==
  [v EXCEPT ![u.store] =
     CASE u.kind = "available" -> @ \cup {u.name}
       [] u.kind = "unavailable" -> @ \ {u.name}
       [] u.kind \in {"renamed", "deleted", "count"} -> @]

\* What the cache's own handlers make of it: folder-renamed has none.
Recorded(v, u) ==
  [v EXCEPT ![u.store] =
     CASE u.kind = "available" -> @ \cup {u.name}
       [] u.kind \in {"unavailable", "deleted"} -> @ \ {u.name}
       [] u.kind \in {"renamed", "count"} -> @]

\* The signals of the update, without the mutex.
Emit ==
  /\ flushing /\ emitting # None
  /\ view' = Heard(view, emitting)
  /\ uris' = Recorded(uris, emitting)
  /\ emitting' = None
  /\ UNCHANGED <<table, queue, flushing, renames>>

\* Mutant: the id is given up with the mutex released in between.
FlushEndEarly ==
  /\ flushing /\ emitting = None
  /\ updateId' = FALSE /\ flushing' = FALSE
  /\ UNCHANGED <<table, updates, sources, emitting, view, uris, renames>>

\* The queue is empty: the callback gives up its id and ends, under the mutex.
FlushEnd ==
  /\ flushing /\ emitting = None /\ updates = <<>>
  /\ updateId' = FALSE /\ flushing' = FALSE
  /\ UNCHANGED <<table, updates, sources, emitting, view, uris, renames>>

Next ==
  \/ \E s \in Stores :
       \/ \E r \in Requests : NoteStore(s, r)
       \/ \E fi \in FolderInfos : FolderAppears(s, fi)
       \/ \E n \in Names : FolderGoes(s, n) \/ NoteFolder(s, n) \/ LookUpSpoilt(s, n)
       \/ \E pairs \in Renames : FolderRenamed(s, pairs)
       \/ ServiceRemoved(s)
  \/ \E r \in Requests :
       WentOnline(r) \/ Cancel(r) \/ \E infos \in Lists : Listed(r, infos)
  \/ Flush \/ Take \/ Emit \/ FlushEnd

Spec == Init /\ [][Next]_vars
-----------------------------------------------------------------------------
TypeOK ==
  /\ noted \subseteq Stores
  /\ folders \in [Stores -> [Names -> States]]
  /\ waiting \in [Stores -> SUBSET Requests]
  /\ request \in [Requests -> {None} \cup Live]
  /\ updates \in Seq(Updates) /\ updateId \in BOOLEAN /\ sources \in 0..1
  /\ flushing \in BOOLEAN /\ emitting \in {None} \cup Updates
  /\ view \in [Stores -> SUBSET Names] /\ uris \in [Stores -> SUBSET Names]
  /\ spoilt \in [Stores -> SUBSET Names] /\ muted \in [Stores -> SUBSET Names]
  /\ renamed \in [Stores -> SUBSET Names]

\* No update stays behind: while there are some, the idle callback is attached
\* or in its loop, and never more than once.
UpdatesAreFlushed ==
  /\ updates # <<>> \/ emitting # None => updateId
  /\ updateId <=> (sources = 1 \/ flushing)
  /\ ~(sources = 1 /\ flushing)

\* What the listeners, and the cache's own lists, make of several.
HeardAll(v, us) ==
  LET after[i \in 0..Len(us)] == IF i = 0 THEN v ELSE Heard(after[i - 1], us[i])
  IN  after[Len(us)]

RecordedAll(v, us) ==
  LET after[i \in 0..Len(us)] == IF i = 0 THEN v ELSE Recorded(after[i - 1], us[i])
  IN  after[Len(us)]

\* The updates that change which folders there are.
Changes(us) ==
  LET changes[i \in 0..Len(us)] ==
        IF i = 0 THEN <<>>
        ELSE IF us[i].kind = "count" THEN changes[i - 1] ELSE Append(changes[i - 1], us[i])
  IN  changes[Len(us)]

Pending == (IF emitting = None THEN <<>> ELSE <<emitting>>) \o updates
Selectable(s) == {n \in Names : folders[s][n] = "select"}

\* When the pending signals have been emitted, their listeners know every
\* selectable folder of the table, in whatever order the stores' signals came,
\* and no other but names that a rename took away without a signal: the folder
\* was not selectable any more.  Names under a freed key are excepted.
ListenersConverge ==
  \A s \in Stores :
    LET told == HeardAll(view, Pending)[s] \ spoilt[s]
    IN  Selectable(s) \ spoilt[s] \subseteq told /\ told \subseteq Selectable(s) \cup muted[s]

\* So do the lists of folder uris, for names that no rename has touched.
UrisConverge ==
  \A s \in Stores :
    RecordedAll(uris, Pending)[s] \ renamed[s] = Selectable(s) \ renamed[s]

\* The folder cache implements FolderSignals: what it emits is a log of its
\* table.  No folder that has kept its name becomes available twice or disappears
\* without having been available, whatever is renamed around it, and every change
\* is told in its order.
Promise == INSTANCE FolderSignals WITH
  known <- [s \in Stores |-> Selectable(s)], heard <- view,
  signals <- Changes(Pending)
SignalsAreALog == Promise!SignalsSpec

\* A StoreInfo lists live requests of its own store: store_info_free cancels
\* every one of them.
WaitingAreAlive ==
  \A s \in Stores : \A r \in waiting[s] :
    s \in noted /\ request[r] # None /\ request[r].store = s
=============================================================================
