------------------------------- MODULE Fetch -------------------------------
(***************************************************************************)
(* libemail-engine/mail-ops.c: fetch_mail_exec for a store whose messages  *)
(* are fetched into a local folder, with the lock of the account and the   *)
(* destination of src/utils.c.  A fetch runs in a worker of the unordered  *)
(* pool: it takes the lock, connects, lists the uids, has the filter       *)
(* driver download and file those the uid cache does not know, saves the   *)
(* cache, deletes what it listed from the server unless the account keeps  *)
(* it there, releases the lock and disconnects.  Any call may fail, a      *)
(* fetch may be cancelled and the process may die.                         *)
(***************************************************************************)
EXTENDS Naturals

CONSTANTS
  Messages,
  Fetches,    \* calls of mail_fetch_mail for one account
  MaxMishaps, \* bound on crashes and on uid caches not read or not written
  None

ASSUME FetchAssumption == MaxMishaps \in Nat /\ None \notin Messages \cup Fetches

VARIABLES
  arrived,   \* messages that have been on the server
  server,    \* ... and still are
  cached,    \* messages in the cache of the provider
  inbox,     \* inbox[m]: copies filed in the local folder
  known,     \* the uid cache, as saved
  lock,      \* the fetch that has the lock of the account
  connected, \* the service
  pc,        \* the step a fetch is at
  plain,     \* it works without a uid cache
  listed,    \* folder_uids
  fresh,     \* cache_uids: those the uid cache did not know
  todo,      \* those left to the filter driver
  cur,       \* the message downloaded and not yet filed
  mem,       \* the uid cache as it is in memory
  failed,    \* success is FALSE
  err,       \* local_error is set
  cancelled, \* the cancellable of the message
  orphans,   \* messages a failed pass has entered as known and nobody has filed
  mishaps

store == <<arrived, server, cached, inbox, known>>
account == <<lock, connected>>
work == <<plain, listed, fresh, todo, cur, mem, failed, err>>
vars == <<store, account, pc, work, cancelled, orphans, mishaps>>

Steps == {"idle", "queued", "inbox", "old", "cache", "dest", "uids", "filter", "file",
          "save", "expunge", "unlock", "disconnect", "done", "ended"}

Init ==
  /\ arrived = {} /\ server = {} /\ cached = {} /\ known = {}
  /\ inbox = [m \in Messages |-> 0]
  /\ lock = None /\ connected = FALSE
  /\ pc = [f \in Fetches |-> "idle"] /\ plain = [f \in Fetches |-> FALSE]
  /\ listed = [f \in Fetches |-> {}] /\ fresh = listed /\ todo = listed /\ mem = listed
  /\ cur = [f \in Fetches |-> None]
  /\ failed = plain /\ err = plain /\ cancelled = plain
  /\ orphans = {} /\ mishaps = 0

Goto(f, step) == pc' = [pc EXCEPT ![f] = step]
Mishap == mishaps < MaxMishaps /\ mishaps' = mishaps + 1

\* A message comes to the mailbox.
Arrive(m) ==
  /\ m \notin arrived
  /\ arrived' = arrived \cup {m} /\ server' = server \cup {m}
  /\ UNCHANGED <<cached, inbox, known, account, pc, work, cancelled, orphans, mishaps>>

\* A client's getMessage or syncMessage on the inbox of the account: the service
\* is connected if need be and the cache of the provider has the message.
Read(m) ==
  /\ m \in server /\ connected' = TRUE /\ cached' = cached \cup {m}
  /\ UNCHANGED <<arrived, server, inbox, known, lock, pc, work, cancelled, orphans, mishaps>>

\* mail_fetch_mail pushes the message.
Push(f) ==
  /\ pc[f] = "idle" /\ Goto(f, "queued")
  /\ UNCHANGED <<store, account, work, cancelled, orphans, mishaps>>

\* mail_cancel_all.
Cancel(f) ==
  /\ pc[f] \notin {"idle", "done", "ended"} /\ ~cancelled[f]
  /\ cancelled' = [cancelled EXCEPT ![f] = TRUE]
  /\ UNCHANGED <<store, account, pc, work, orphans, mishaps>>

\* Mutant: the lock is not waited for.
LockHeld(f) ==
  /\ pc[f] = "queued" /\ lock' = f /\ Goto(f, "inbox")
  /\ UNCHANGED <<store, connected, work, cancelled, orphans, mishaps>>

\* The lock of the account is waited for.
Lock(f) ==
  /\ pc[f] = "queued" /\ lock = None /\ lock' = f /\ Goto(f, "inbox")
  /\ UNCHANGED <<store, connected, work, cancelled, orphans, mishaps>>

\* The service connects and its inbox lists what is there, or there is no folder.
OpenInbox(f) ==
  /\ pc[f] = "inbox"
  /\ \/ /\ connected' = TRUE /\ listed' = [listed EXCEPT ![f] = server] /\ Goto(f, "old")
     \/ /\ connected' \in {connected, TRUE} /\ Goto(f, "unlock") /\ UNCHANGED listed
  /\ UNCHANGED <<store, lock, plain, fresh, todo, cur, mem, failed, err, cancelled, orphans, mishaps>>

\* With a count, more messages are asked for first; a failure changes nothing.
FetchOld(f) ==
  /\ pc[f] = "old" /\ Goto(f, "cache")
  /\ \/ UNCHANGED listed
     \/ connected /\ listed' = [listed EXCEPT ![f] = server]
  /\ UNCHANGED <<store, account, plain, fresh, todo, cur, mem, failed, err, cancelled, orphans, mishaps>>

\* The uid cache is read; if it cannot be, all that is listed is filtered.
OpenCache(f) ==
  /\ pc[f] = "cache"
  /\ \/ /\ mem' = [mem EXCEPT ![f] = known] /\ Goto(f, "dest")
        /\ UNCHANGED <<plain, todo, mishaps>>
     \/ /\ Mishap /\ plain' = [plain EXCEPT ![f] = TRUE]
        /\ todo' = [todo EXCEPT ![f] = listed[f]] /\ Goto(f, "filter")
        /\ UNCHANGED mem
  /\ UNCHANGED <<store, account, listed, fresh, cur, failed, err, cancelled, orphans>>

\* mail_provider_fetch_inbox_folder gives the destination, or none, or one and
\* an error (the account could not be written), which ends the fetch as well.
FindDestination(f) ==
  /\ pc[f] = "dest"
  /\ \/ Goto(f, "uids") /\ UNCHANGED err
     \/ Goto(f, "unlock") /\ err' \in {err, [err EXCEPT ![f] = TRUE]}
  /\ UNCHANGED <<store, account, plain, listed, fresh, todo, cur, mem, failed, cancelled, orphans, mishaps>>

\* The uids the cache does not know are those to fetch; a cancelled fetch ends.
TakeUids(f) ==
  /\ pc[f] = "uids"
  /\ \/ cancelled[f] /\ Goto(f, "unlock") /\ UNCHANGED <<fresh, todo>>
     \/ /\ ~cancelled[f] /\ Goto(f, "filter")
        /\ fresh' = [fresh EXCEPT ![f] = listed[f] \ mem[f]]
        /\ todo' = [todo EXCEPT ![f] = listed[f] \ mem[f]]
  /\ UNCHANGED <<store, account, plain, listed, cur, mem, failed, err, cancelled, orphans, mishaps>>

\* The driver gives up: what is left is not looked at.
GiveUp(f) ==
  /\ todo' = [todo EXCEPT ![f] = {}]
  /\ failed' = [failed EXCEPT ![f] = TRUE] /\ err' = [err EXCEPT ![f] = TRUE]
  /\ Goto(f, "filter")

\* The driver reads the next message, from the cache of the provider or from
\* the server.
Download(f, m) ==
  /\ pc[f] = "filter" /\ m \in todo[f]
  /\ \/ /\ m \in cached \/ connected
        /\ cached' = cached \cup {m} /\ cur' = [cur EXCEPT ![f] = m]
        /\ todo' = [todo EXCEPT ![f] = @ \ {m}] /\ Goto(f, "file")
        /\ UNCHANGED <<failed, err>>
     \/ GiveUp(f) /\ UNCHANGED <<cached, cur>>
  /\ UNCHANGED <<arrived, server, inbox, known, account, plain, listed, fresh, mem,
                 cancelled, orphans, mishaps>>

\* The rules and the destination take it, and its uid enters the cache, which
\* is written after every so many messages; or the folder cannot take it.
File(f) ==
  /\ pc[f] = "file" /\ cur' = [cur EXCEPT ![f] = None]
  /\ \/ /\ inbox' = [inbox EXCEPT ![cur[f]] = @ + 1] /\ Goto(f, "filter")
        /\ IF plain[f] THEN UNCHANGED <<mem, known>>
           ELSE /\ mem' = [mem EXCEPT ![f] = @ \cup {cur[f]}]
                /\ known' \in {known, mem'[f] \cap listed[f]}
        /\ UNCHANGED <<todo, failed, err>>
     \/ GiveUp(f) /\ UNCHANGED <<inbox, mem, known>>
  /\ UNCHANGED <<arrived, server, cached, account, plain, listed, fresh, cancelled, orphans, mishaps>>

\* The driver is done; to flush it may fail.
Filtered(f) ==
  /\ pc[f] = "filter" /\ todo[f] = {}
  /\ err' \in {err, [err EXCEPT ![f] = TRUE]}
  /\ Goto(f, IF plain[f] THEN "unlock" ELSE "save")
  /\ UNCHANGED <<store, account, plain, listed, fresh, todo, cur, mem, failed, cancelled,
                 orphans, mishaps>>

\* After a failure the messages that are in the cache of the provider, whoever
\* got them there, are entered as known, filed or not; the uid cache is saved,
\* without the uids that are gone.
SaveUids(f) ==
  LET reentered == IF failed[f] THEN fresh[f] \cap cached ELSE {} IN
  /\ pc[f] = "save" /\ Goto(f, "expunge")
  /\ mem' = [mem EXCEPT ![f] = @ \cup reentered]
  /\ orphans' = orphans \cup {m \in reentered : inbox[m] = 0}
  /\ \/ known' = mem'[f] \cap listed[f] /\ UNCHANGED mishaps
     \/ Mishap /\ UNCHANGED known
  /\ UNCHANGED <<arrived, server, cached, inbox, account, plain, listed, fresh, todo, cur,
                 failed, err, cancelled>>

\* Mutant: what was listed is deleted after an error as well.
ExpungeAnyway(f) ==
  /\ pc[f] = "expunge" /\ Goto(f, "unlock")
  /\ \/ UNCHANGED server
     \/ connected /\ \E gone \in SUBSET listed[f] : server' = server \ gone
  /\ UNCHANGED <<arrived, cached, inbox, known, account, work, cancelled, orphans, mishaps>>

\* Without an error, and unless the account keeps its mail on the server, all
\* that was listed is deleted and expunged, as far as the server does it.
Expunge(f) ==
  /\ pc[f] = "expunge" /\ Goto(f, "unlock")
  /\ \/ UNCHANGED server
     \/ /\ ~err[f] /\ connected
        /\ \E gone \in SUBSET listed[f] : server' = server \ gone
  /\ UNCHANGED <<arrived, cached, inbox, known, account, work, cancelled, orphans, mishaps>>

\* Mutant: a fetch that found nothing keeps the lock.
UnlockListed(f) ==
  /\ pc[f] = "unlock" /\ Goto(f, "disconnect")
  /\ lock' = IF listed[f] = {} THEN lock ELSE None
  /\ UNCHANGED <<store, connected, work, cancelled, orphans, mishaps>>

Unlock(f) ==
  /\ pc[f] = "unlock" /\ lock' = None /\ Goto(f, "disconnect")
  /\ UNCHANGED <<store, connected, work, cancelled, orphans, mishaps>>

\* The service is disconnected, whoever uses it; the cancellable is reset.
Disconnect(f) ==
  /\ pc[f] = "disconnect" /\ Goto(f, "done") /\ connected' = FALSE
  /\ cancelled' = [cancelled EXCEPT ![f] = FALSE]
  /\ UNCHANGED <<store, lock, work, orphans, mishaps>>

\* fetch_mail_done, in the main loop.
Done(f) ==
  /\ pc[f] = "done" /\ Goto(f, "ended")
  /\ UNCHANGED <<store, account, work, cancelled, orphans, mishaps>>

\* The process dies: the server, the folders and the caches on disk are left.
Crash ==
  /\ Mishap
  /\ pc' = [f \in Fetches |-> IF pc[f] = "ended" THEN "ended" ELSE "idle"]
  /\ lock' = None /\ connected' = FALSE
  /\ plain' = [f \in Fetches |-> FALSE] /\ failed' = plain' /\ err' = plain' /\ cancelled' = plain'
  /\ listed' = [f \in Fetches |-> {}] /\ fresh' = listed' /\ todo' = listed' /\ mem' = listed'
  /\ cur' = [f \in Fetches |-> None]
  /\ UNCHANGED <<store, orphans>>

Run(f) ==
  \/ Lock(f) \/ OpenInbox(f) \/ FetchOld(f) \/ OpenCache(f) \/ FindDestination(f) \/ TakeUids(f)
  \/ (\E m \in Messages : Download(f, m)) \/ File(f) \/ Filtered(f) \/ SaveUids(f) \/ Expunge(f)
  \/ Unlock(f) \/ Disconnect(f) \/ Done(f)

Next ==
  \/ \E m \in Messages : Arrive(m) \/ Read(m)
  \/ \E f \in Fetches : Push(f) \/ Cancel(f) \/ Run(f)
  \/ Crash

\* The pool runs what was pushed; the calls return.
Fairness == \A f \in Fetches : WF_vars(Run(f))
Spec == Init /\ [][Next]_vars /\ Fairness
-----------------------------------------------------------------------------
TypeOK ==
  /\ arrived \subseteq Messages /\ server \subseteq arrived /\ cached \subseteq arrived
  /\ inbox \in [Messages -> Nat] /\ known \subseteq cached
  /\ lock \in Fetches \cup {None} /\ connected \in BOOLEAN
  /\ pc \in [Fetches -> Steps] /\ plain \in [Fetches -> BOOLEAN]
  /\ listed \in [Fetches -> SUBSET arrived] /\ fresh \in [Fetches -> SUBSET arrived]
  /\ todo \in [Fetches -> SUBSET arrived] /\ mem \in [Fetches -> SUBSET arrived]
  /\ cur \in [Fetches -> Messages \cup {None}]
  /\ failed \in [Fetches -> BOOLEAN] /\ err \in [Fetches -> BOOLEAN]
  /\ cancelled \in [Fetches -> BOOLEAN]
  /\ orphans \subseteq cached /\ mishaps \in 0..MaxMishaps
  /\ \A f \in Fetches : cur[f] = None <=> pc[f] # "file"

\* However fetches of the account overlap, fail, are cancelled or cut short, a
\* message is filed once, and once more at most for each crash and each uid
\* cache that could not be read or written.
NoDuplicates == \A m \in Messages : inbox[m] <= 1 + mishaps

\* However fetches and clients that read the inbox interleave, what a fetch
\* deletes from the server has been filed, but for the messages that an earlier
\* or this fetch entered as known after a filter pass that failed before them.
OnlyOrphansAreLost == \A m \in arrived \ server : inbox[m] >= 1 \/ m \in orphans

\* "re-enter known UIDs": what the uid cache knows, and later fetches pass over
\* and delete from the server, has been filed.
KnownIsFiled == \A m \in known : inbox[m] >= 1

\* A fetch that was pushed comes to its end, or the process dies.
EveryFetchEnds == \A f \in Fetches : pc[f] = "queued" ~> pc[f] \in {"ended", "idle"}
=============================================================================
