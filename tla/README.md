# A model of e-mail-factory

e-mail-factory is a daemon that does a desktop's mail for its clients: it keeps
accounts, fetches, stores, filters and sends mail, and offers this over D-Bus.
It is Evolution's mail engine without a user interface, on top of the Camel
library (external to the repository, as are GLib and the secret service).

This directory holds TLA+ modules translated from the C sources, TLC
configurations that check them on small instances, and proofs, checked by
TLAPS, of theorems about them for every value of the constants.
`PROJECT.json` maps each definition to the lines it stands for, and lists the
hazards of the code with the properties that would notice them.

## 1. The system

### 1.1 Threads

One main thread runs the GLib main loop: D-Bus methods, timers, idle callbacks
and `done` callbacks. Blocking work runs in worker threads of GThreadPools: the
*unordered* pool (ten threads), and two *ordered* ones of a single thread, fast
and slow. Some Camel calls are asynchronous, with their own threads, and report
in the main loop. Shared state is guarded by a few locks
(`mail_msg_lock`, `idle_source_id`, `stores_mutex` of the folder cache,
`provider_hash_lock` and a lock for each account), and much of it by the
convention that only the main loop touches it.

### 1.2 Components

| part | sources | state | operations | what makes it correct |
|---|---|---|---|---|
| message engine | `libemail-engine/mail-mt.c` | pools, two queues to the main loop, active table, reference counts, idle id | new, push, exec, done, free, cancel, `mail_call_main` | no wakeup is lost; nothing is used after it was freed; ordered pools complete in order; each message runs once, completes once and ends |
| passwords | `e-util/e-passwords.c` | request queue, idle id, dialog, cache, keyring | ask, get, add, remember, forget | every caller is answered; requests nest safely; a forget forgets |
| send and receive | `src/mail-send-recv.c` | `send_data`, the table of operations in progress | send_receive, mail_receive_service, mail_send, timers, done, cancel | one operation for an account; callbacks find their info; every operation ends in the main loop; what was asked for is done |
| Outbox | `libemail-engine/mail-ops.c`, send-queue part | the Outbox in memory and on disk, copies, errors | one pass, message by message | sent once; nothing lost; failures reported |
| fetch | `libemail-engine/mail-ops.c`, fetch part, `src/utils.c` | server, provider cache, uid cache, destination, lock of the account | connect, list, filter, save, expunge, disconnect | filed once; nothing is deleted unfiled; every fetch ends |
| folder cache | `libemail-engine/mail-folder-cache.c` | stores table, update queue, idle id, outstanding list requests | note store and folder, appear, vanish, rename, flush | signals converge to the table; no update stays behind; requests outlive their store safely |
| D-Bus layer | `src/e-mail-data-*.c`, `src/utils.c` | tables from object paths to stores, folders and operations | some ninety methods | every call is answered once; a path is that of the folder asked for; a transfer arrives |
| virtual folders | `libemail-engine/mail-vfolder.c`, `em-vfolder-*` | rules, folders of each rule | add, remove, rename, rebuild | a search folder holds what its rule says, in whatever order the folders come |
| mail session | `libemail-engine/e-mail-session*.c` | services, local folders, pending alerts | alert, password, flush of the Outbox | an alert is shown and answered |
| filter rules | `e-util/e-rule-context.c`, `e-filter-*.c` | ordered rules and parts | load, save, revert, rank, rename | what was saved is what is loaded |
| the rest | see `PROJECT.json`, `components` | | | |

### 1.3 How they interact

    clients --D-Bus--> data session / store / folder / operation
        |                  |  mail_operate_on_object, asynchronous Camel calls
        |                  v
        |        message engine <------------- mail-vfolder (ordered pool)
        |                  ^                        ^ signals
        v                  |                        |
    send and receive ------+--> fetch               |
        |   |              +--> Outbox pass         |
        |   +--> mail_folder_cache_note_store --> folder cache
        +<-- receive_done / receive_status / done callbacks
    any thread --e_passwords_*--> passwords (main loop, dialog, keyring)

- A D-Bus method, a timer or a signal of the source registry enters *send and
  receive*, which pushes a fetch or an Outbox pass to the *message engine* or
  asks the *folder cache* for the folders of a store; `receive_done` brings it
  back to the main loop.
- `mail_cancel_all` (`cancelOperations`) cancels every message in the active
  table, so there is a cancelling action in SendRecv, Outbox, Fetch, FolderCache
  and VFolder.
- Store threads call the folder cache; its idle callback emits signals, which
  mail-vfolder and the D-Bus objects hear. mail-vfolder puts messages into the
  slow ordered pool.
- A call of a client is answered by its handler, by an asynchronous Camel call
  or by a message of the unordered pool; an append to the Outbox calls
  `mail_send`, `cancelOperations` calls `mail_cancel_all`.
- While a pass runs, clients append to the Outbox, delete from it and expunge it.

### 1.4 What is hard

Queues drained in one thread and filled in others, with one shared idle id
(message engine, passwords, folder cache: three variants of one protocol);
callbacks that follow pointers the main loop may free; requests made while the
same operation is on; work interrupted between an effect outside (a message
handed over, a message filed, a deletion on the server) and the record of it;
errors that have to find their way through several `GError` variables; nested
main loops; signals and messages that tell of a state that has moved on (search
folders); objects looked up by a path long after it was handed out. The hazards
are listed with their lines in `PROJECT.json`.

## 2. Modules and the code

Conventions: an action is a critical section or a stretch of code that no other
thread can see inside; the calls into Camel are points where the outcome is
chosen freely among those the interface has. Variables and actions carry the
names of the source where these are short. A definition under the comment
"Mutant:" is a plausible bug; it is no part of the specification, and replacing
the action below it must violate a property.

**MsgLife** is the promise of the message engine: a message waits, runs (in a
thread of its pool, or alone in the main loop), has run, is complete, is gone.

**MailMsg** is `mail-mt.c`: reference counts (`refs`, `mem`), the active table,
the pools, `main_loop_queue` and `msg_reply_queue`, the shared idle source
(`idleId`, `sources`), `mail_call_main` with its `EFlag`, `mail_msg_cancel` as
two steps with the lock released in between (`Lookup`, `Fire`, `Drop`), and
`mail_cancel_all`. `LifeSpec` says that it implements `MsgLife` under the
mapping `LifePhase`. The activity callbacks do nothing in this daemon, and the
list of cancel hooks has no user; both are left out.

**Passwords** is `e-passwords.c`: an `EPassMsg` for each caller, the queue, the
idle source, at most one dialog. A call from the main thread iterates the loop
while it waits, so `stack` holds calls nested in each other.

**SendRecv** is `mail-send-recv.c` with the parts of `mail_send_queue`,
`mail_folder_cache_note_store` and `fetch_mail_exec` that decide when an
operation ends. `heap` holds the `struct _send_info`s, `active` the table; two
slots for a key are enough to see the table lose track of one. `asked` is a
history variable: messages that were in the Outbox at a send request and have
not been tried since. A request that finds a send which cannot be queued again
(`RunsAgain`: its info has no session, or it was cancelled) does not count; see
3.1. The timers of `mail_autoreceive_init` are represented by `AutoTimeout`,
which may always fire; their upkeep when accounts change is not modelled.

**Outbox** is a pass of `send_queue_exec` with every early return of
`mail_send_message`. `queue` is the Outbox in memory and `disk` as saved; a
crash returns to `disk`. `sent`, `handed`, `discarded`, `dealt`, `unserved` are
history. That passes do not overlap is theorem `NoMessageIsSentTwice` about SendRecv. A
transport that reports a failure is assumed not to have delivered the message.

**Fetch** is `fetch_mail_exec` for an account whose mail is fetched into a local
folder, with the lock and the destination of `utils.c`. `known` is the uid-cache
file, `mem[f]` the `CamelUIDCache` a fetch has in memory, `cached` the provider's
own cache of messages, `inbox[m]` the number of copies filed. Messages come into
the provider's cache by the filter driver (`Download`) and by clients that read
the inbox of the account over D-Bus (`Read`: `getMessage`, `syncMessage`).
`orphans` is history: messages a failed pass has entered as known because they
were in that cache, and that nobody has filed.
What is assumed of Camel: the filter driver sets an error when it fails; it
enters a uid after the message was filed and writes the cache now and then; a
connection lists what is on the server; an expunge may do only part of its work.
The fetch from a local mbox file, and the case that there is no local inbox, are
left out.

**FolderSignals** is the promise of the folder cache to those who connect to
its signals: they are a log of the changes of its table, each fits what was told
before, none is left out, and they come in order, though late. Of a name that
takes part in a rename (`renamed`) it promises the order only.

**FolderCache** is `mail-folder-cache.c`: the table of stores with an entry for
each folder, the update queue and its idle callback, and the list requests
(`request`) that a `StoreInfo` has outstanding (`waiting`). `view` and `uris`
are what listeners of the signals, and the two uri lists of the class handlers,
make of the signals. `SignalsAreALog` says that it implements FolderSignals,
with the updates other than message counts as the signals. A removed store's
folders leave in any order, as the hash table that holds them has none. A rename
takes the entries of a folder and of those below it to new names, whatever the
table has under these, and with the flags the store now reports:
- a new name that has an entry already gets a second one whose key is the string
  of the first, which is freed (`mail-folder-cache.c:167-183`, `:657-727`). Such a
  name is `spoilt`, and what a look-up of it finds is left open (`LookUpSpoilt`);
- an entry that is not selectable any more leaves without a signal: its names
  are `muted`;
- an old name without an entry has its new name told to be available.

A rename has distinct new names (`IsRenaming`), which is what a store tells.
What dangles besides the key, the weak pointer of an entry that was written over,
is not modelled. The folder lists that a store may return are the constant
`Lists`. The new-mail count of `folder_changed_cb`, the pings and the
`NoteDoneFunc` (part of SendRecv) are left out.

**VFolder** is `mail-vfolder.c`, composed with the folder cache through its
promise: it INSTANCEs FolderSignals, so that a store's change is a `Record`, and
the handlers that hear of it are part of `Tell`. `Load` is the start, when each
rule gets a search folder set up from what the cache knows then; `Hear` are the
handlers of the four signals; `RuleGoes` a client that deletes a search folder;
`Begin`, `Open` and `Finish` the setup and adduri messages in the thread of the
ordered pool. `members[r]` is what the search folder of a rule searches, and
`history` remembers which folders were deleted, renamed or failed to open. A
message that runs carries the folders it has `opened` beside those it is yet to
open, so that a rename or a deletion reaches them. `Asked` and `Wanted` differ
for a rule of a kind that still names sources: signals add these to its search
folder (`mail-vfolder.c:463-486`), its setup does not (`:857-892`). So what is
searched must be in `Wanted`, and what is in `Asked` must be searched. What a
rule's expression matches, the folders below a source, freeze counts and the
renaming of a search folder are left out. `Renamed` has every outcome a rename
has in the folder cache; what a look-up of a spoilt name finds is left to
FolderCache, since the properties except renamed names.

**DataServer** is the D-Bus service: `e-mail-data-session.c`, `-store.c`,
`-folder.c` and `-operation.c` with `mail_operate_on_object`. A store object is
a number, an exported folder (a path) another; `datastores` finds the newest
object of a service, `datafolders` holds the paths that are entries of a store
object, under the full name they were registered with (`keyOf`). The folders of
Camel have a `name`, are `there` or not, and `was` remembers the names they had.
`createFolder`, `deleteFolder` and `renameFolder` change these, and no table is
told. Each method is an action named for it, which answers at once, or begins
an asynchronous Camel call, or puts a message into the pool. `WorkFails`, `Work`,
`OpenWork`, `CreateWork`, `DeleteWork`, `RenameWork`, `LookUp`, `TransferWork`
and the `Search` actions are the threads, `Done`, `FolderOpened` and `UriOpened`
the done functions in the main loop. A search registers its folder in a thread,
under the lock of the store object (`held`), first in `folders` and then in
`datafolders`; `getFolder` reads both without the lock and may come in between.
`refs` counts the references of the operations clients create; `FreeMessage`
drops one as `mail_msg_free` does. A use of a NULL pointer ends everything
(`crashed`): it is met by `getFolder` in the middle of a registration, by
`fetchMessages` of an unknown account (`mail_get_keep_on_server`,
`utils.c:334-341`) and by a search of all accounts whose last source cannot be
opened (`e-mail-data-session.c:914`). A folder that cannot be opened has
`handle_mail_get_folder` unlock what it has not locked
(`e-mail-data-store.c:272`): `Done` takes the lock from whoever holds it.

Left out are: what Camel returns; `cancel` of an operation, which shows as a
call that fails; the calls that only read or set a property of the session, and
those that enter SendRecv or Passwords, as does the `mail_send` after an append
to the Outbox; and these, which end in undefined behaviour by a straight line of
code and no order of steps:
- a sorted search whose expression is wrong (`e-mail-data-folder.c:1484-1534`)
  uses the result that does not exist;
- `get_folder_done` and `sf_operate` free a string that has become the key of a
  table;
- `transfer_done` drops a reference of a destination it has only borrowed;
- freeze and thaw are connected crosswise (`e-mail-data-folder.c:2214`).

## 3. The runs

| run | instance | distinct states | shows |
|---|---|---|---|
| `msg_ordered` | an ordered pool of one thread, three messages of which one is a call, a cancelling thread | 391,412 | `TypeOK`, `NoLostWakeup`, `CancellableAlive`, `MessageAlive`, `OrderedCompletion`, and that MailMsg implements MsgLife (`LifeSpec`) |
| `msg_live` | two unordered workers, a main-loop message, a call | 71,625 | `EveryMessageEnds`: each message ends and each call returns |
| `pass_calls` | a thread and two nested main-thread calls, two keys | 594,668 | `TypeOK`, `WaiterHasPlace`, `QueueIsServed`, `EveryCallReturns` |
| `sr_pass` | a fetched, an updated and an unusable account, two messages, all entry points, cancellation, stores that leave | 22,448 | `TypeOK`, `InfoIsInTable`, `PassIsUnsent`, `EveryRequestIsServed` |
| `fc_signals` | a store, two folders, a rename, onto a name in use too, two requests (symmetric) | 496,883 | `TypeOK`, `UpdatesAreFlushed`, `ListenersConverge`, `UrisConverge`, `WaitingAreAlive`, and that FolderCache implements FolderSignals (`SignalsAreALog`) |
| `vf_pass` | a store with two folders, a rename, a rule for local folders or one that names a folder | 1,487,011 | `TypeOK`, `SearchesAllItShould`, `SearchesNothingElse`, `EventuallySettled` |
| `ds_pass` | an account with a folder and one created later, the local store with the Outbox, two search folders, two names, an operation, three calls | 408,074 | `TypeOK`, `AnsweredOnce`, `ParentStoreIsKnown`, `RightFolder`, `WorkIsAnswered` |
| `ds_transfer` | the same | | violation of `TransfersArrive` |
| `ob_pass` | two messages, three passes, two crashes | 338,035 | `SentOnce`, `NothingIsLost` |
| `ob_warnings` | the same | | violation of `WarningsArePresented` |
| `fetch_pass` | two messages, two overlapping fetches, reading clients, a mishap | 924,640 | `NoDuplicates`, `OnlyOrphansAreLost`, `EveryFetchEnds` |
| `fetch_known` | the same | | violation of `KnownIsFiled` |

### 3.1 What the violations show

- `fetch_known`: after a failed filter pass, every new uid the provider has in
  its cache is entered as known, filed or not; it may be there because a fetch
  downloaded it and could not file it, or because a client has read it. Such a
  message is never filed, and with *keep on server* off a later pass deletes it.
- `ds_transfer`: a path that a client was given can stop to be found: a second
  `getFolder` or `getInbox` exports the folder anew, `getService` replaces its
  store. A transfer to it is answered as a success, and nothing is transferred.
- `ob_warnings`: the block that files the copy of a sent message declares a
  second `local_error` (`mail-ops.c:731`). When the local Sent folder fails, the
  message is marked deleted, has no copy, and nobody is told, against the comment
  at `:921`. The property excepts cancelled passes and messages without a
  transport (the last row below).

More promises the code does not keep, which no run lists. Those with a name are
stated in the modules, and TLC refutes each of them when it is added to the
configuration named; in the runs that pass, the modules do all that is told here:

| promise | configuration | what happens |
|---|---|---|
| a forget forgets: `ForgetForgets` | `Passwords_calls.cfg` with `Threads = {t1, t2}`, `MainCalls = {m1}`, `Keys = {k1}`, `MaxCalls = 2` | `pass_response` (`e-passwords.c:402`) answers what waits for the key of the dialog; a pending *forget* (`:683`) is answered and not carried out, and the password stays cached |
| "Send Receive is already in progress" is true when it is said: `InProgress` | `SendRecv_pass.cfg` | an account that cannot be received (`mail-send-recv.c:1230`), a transport that is not loaded, or a round with nothing to do leave `send_data` behind with an empty table, and `:929` refuses every round from then on, until a request for some account or for a send cleans up |
| every operation ends: `AccountIsReleased` | `SendRecv_pass.cfg` | `store_go_online_cb` drops an update that was given up while its store went online without calling its done function (`mail-folder-cache.c:1007`); the account stays in the table and is not fetched again |
| every send asked for is done (`EveryRequestIsServed` with `asked' = outbox` in the first alternative of `MailSend`) | `SendRecv_pass.cfg` | a send that was part of a round has an info without a session (`mail-send-recv.c:540`), and run again it sends nothing, against the comment at `:637`; a cancelled send runs again with the cancellable that was cancelled (`:655`) |
| search folders follow renames: `FollowsRenames` | `VFolder_pass.cfg` | a rename leaves the message that adds the folder with the old uri (`mail-vfolder.c:714`), and the folder is not searched |
| a rename of a folder is told | (`muted` of FolderCache) | if it is not selectable any more nothing is emitted (`mail-folder-cache.c:657-705`), and listeners keep its old name |
| the tables follow the folders: `EntriesFollowNames` | `DataServer_pass.cfg` | `renameFolder` and `deleteFolder` leave the entries by name (`e-mail-data-store.c:327-356`, `:1424`): `getFolder` of a name that was given to another folder answers the old folder's object |
| an operation lives while a call uses it: `OperationAlive` | `DataServer_pass.cfg` | `mail_operate_on_object` gives the operation of the client away without a reference (`utils.c:140`): after one call it is gone, while `test-email-client.c:1528` goes on using it |
| every call is answered: `EveryCallIsAnswered` | `DataServer_pass.cfg` | `mail_fetch_mail` returns at its check for a service that is no store (`mail-ops.c:516`), and `fetchMessages` has no answer; the crashes listed under DataServer leave all calls without one |
| every message a pass leaves in the Outbox is reported | (`unserved` of Outbox) | a message whose transport cannot be found leaves `mail_send_message` without an error (Camel refuses the missing service at `mail-ops.c:658`) and counts as no failure |

### 3.2 Bounds, and why they are enough

- *MailMsg*: the order of two messages of a pool and a third that calls the main
  thread are what the queues and flags can tell apart; one canceller reaches
  every point between lookup and drop. Numbers of messages bound `sources`.
- *Passwords*: `MaxCalls` bounds the calls of a thread; a waiting request, a
  dialog for the same key and one for another key are possible together.
- *SendRecv*: two messages tell "asked before the pass began" from "after".
- *Outbox*: three passes and two crashes let a message be sent, lost from the
  record, sent again and completed.
- *Fetch*: `MaxMishaps = 1` lets one crash, or one uid cache that is not read
  or written, fall between any two steps; two fetches overlap, and a message may
  come before or after the listing of either. Deadlock is not checked: when all
  fetches have ended and all mail has come, nothing is left to do.
- *FolderCache*: `MaxUpdates` bounds the queue; an action that would exceed it
  waits. Two updates and the one being emitted show every order of two changes.
  The constraint `Fewer` drops states with two outstanding requests after a
  rename: what two requests do to each other does not depend on names.
- *VFolder*: two signals and one message may wait, beside the message that runs:
  a folder can go and come back, or be renamed, between any two of the steps
  that carry it to a search folder. `MaxRenamed` has stores rename once: renamed
  names are excepted from the properties, and the rename shows what it does to
  the others. `RuleFiles` has a rule of either kind, since rules do not share
  state.
- *DataServer*: three calls are what it takes to get a folder, to make its path
  stale or its name another's, and to use it; a search can be in the middle of
  its registration while another call looks. The calls also bound the objects.
  One operation is enough for several calls to share it. Deadlock is not checked:
  clients stop.

### 3.3 Fairness

Weak fairness, and only of what the environment owes: a thread of a pool that
has work runs, the main loop dispatches a source that is attached, a Camel call
returns (its time-outs are Camel's), the user deals with a dialog. No fairness
is asked of clients, of arriving mail, of crashes or of cancellation. In Fetch
a queued message waits for the lock of the account under weak fairness: each
fetch runs once, so a waiting one is passed by a bounded number of others.
In VFolder the start, the emission of signals and the worker of the ordered pool
are fair, stores are not: `EventuallySettled` says that once the stores leave
the search folders in peace these settle for good. In DataServer the threads and
the done functions of each call are fair; clients are not. `WorkIsAnswered` then
says that what Camel or the pool was given is answered, whatever happens to
folders, tables and locks, unless the daemon has crashed.

## 4. The proofs

All theorems hold for every value of the constants that the modules' `ASSUME`s
allow: any number of messages, threads, accounts, folders and fetches.

| module | theorem | property |
|---|---|---|
| `MailMsg_proofs` | `TypeCorrect`, `WakeupNeverLost`, `CancellableNeverDangles`, `NoUseAfterFree`, `DoneInOrder`, `EngineImplementsLife` | `TypeOK`, `NoLostWakeup`, `CancellableAlive`, `MessageAlive`, `OrderedCompletion`, the refinement `LifeSpec` |
| `Passwords_proofs` | `TypeCorrect`, `WaitersHavePlaces`, `QueueAlwaysServed` | `TypeOK`, `WaiterHasPlace`, `QueueIsServed` |
| `SendRecv_proofs` | `TypeCorrect`, `CallbacksFindTheirInfo`, `NoMessageIsSentTwice` | `TypeOK`, `InfoIsInTable`, `PassIsUnsent` |
| `FolderCache_proofs` | `TypeCorrect`, `NoUpdateStaysBehind`, `ListedRequestsLive`, `SignalsConverge`, `UriListsConverge`, `CacheImplementsSignals` | `TypeOK`, `UpdatesAreFlushed`, `WaitingAreAlive`, `ListenersConverge`, `UrisConverge`, the refinement `SignalsAreALog` |
| `VFolder_proofs` | `TypeCorrect`, `AllIsSearched`, `NothingElseIsSearched` | `TypeOK`, `SearchesAllItShould`, `SearchesNothingElse` |
| `DataServer_proofs` | `TypeCorrect`, `OneAnswer`, `StoresAreKnown`, `PathsAreRight` | `TypeOK`, `AnsweredOnce`, `ParentStoreIsKnown`, `RightFolder` |
| `Outbox_proofs` | `TypeCorrect`, `NoResend`, `UnsentStays` | types, `SentOnce`, `NothingIsLost` |
| `Fetch_proofs` | `TypeCorrect`, `FiledOnce`, `NothingElseIsLost` | types, `NoDuplicates`, `OnlyOrphansAreLost` |

- *MailMsg.* The wakeup rests on the order of two lines: a pusher queues before
  it tests the idle id, and the callback clears the id before it reads the
  queues. The cancellable rests on who owns a reference: the message while it is
  in the table, then the cancelling thread. `WorkerOk` and its companions say
  which message a thread has in hand at each program counter.
- *MailMsg, memory.* A message is in one place only: with the thread that made
  it, in one queue, or with the thread that runs or completes it (`Placed`). The
  place owns a reference, a `mail_call_main` that has not returned (`Called`)
  owns another, and there are no more (`Own`). So whoever takes the last one is
  alone with the message, and the table has been left before it is freed. That
  no message is twice in a queue (`NoTwice`) is preserved by the sorted insertion
  of the pools, for which `InsertElements` follows the index of each element.
- *MailMsg, life and order.* `LifeInv` says, for each message, that one whose
  `exec` has returned is on its way to `done` or beyond it, and that one which
  is yet to run is where its kind waits. With it every step of the engine is a
  step of MsgLife or none. `OrderInv` compares two messages pushed one after
  the other to an ordered pool: in the queue, with the one thread, in the reply
  queue and in the main loop's hands, the earlier is ahead (`InOrder`). A pool's
  queue is sorted by priority, and insertion respects what is equal
  (`SortedInsert`, `BeforeInsert`).
- *Passwords.* `PlaceInv` counts: a caller whose flag is not set is in the queue
  once or has the dialog, and not both, whatever `pass_response` filters out of
  the middle of the queue (`Without`, a recursive function in place of a loop,
  about which the lemmas say which messages it keeps and in which order).
  `QueueIsServed` is inductive once `sources` is a number. The
  reason is that only the end of `ep_idle_dispatch` gives up its turn, and that
  it does so with the queue empty or with a dialog up.
- *SendRecv.* The two properties are inductive together with the types: a pass
  is alone with the Outbox because the table holds the only info of a key.
- *FolderCache.* `UpdatesAreFlushed` rests on `flush_updates` and the callback
  changing `update_id` under one mutex, whatever is queued; `WaitingAreAlive`
  on every end of a request taking it from the list of its store. For the
  signals, `ListInv` says that the updates that wait are a *path* from what the
  listeners know to the table: each of them can happen to the folders left by
  those before it, and the last leaves the table. `Path` states this of any fold
  with a guard, and has lemmas for one more step at the end, one less at the
  front, two paths in a row, and for a fold being the end of its path
  (`HeardAllAlong`, `AfterAllAlong`, `ChangesAlong`). `Right` is the same of the
  entries of one store while a handler walks them, and each of the handlers'
  loops keeps it (`EnterAllRight`, `LeaveAllRight`, `MoveAllRight`). Since the
  path fits the folders at each step, the signals are the log of the promise.
  Each of the three readers of the updates (the promise, the listeners and the
  uri lists) has names it does not answer for: those a rename has involved, the
  spoilt and the muted ones, the renamed ones. `Agree` and `Close` compare tables
  but for these, and they only grow while a handler walks its entries, so that a
  name left free once is left free by the updates that are still queued.
- *VFolder.* Both properties speak of a settled state only, so the invariant
  (`SearchInv`) has to say where things are heading before it is reached. It
  does so for each search folder and folder, in two stages. `Announced`: the
  last signal about the folder that waits, or else the list of uris, tells
  whether it is in the table. `Leads`: once no signal about it waits (`Bound`),
  the last waiting message that concerns the pair, or else the message the
  worker executes, or else what is searched now, tells so too. Then nothing can
  go and come back unnoticed: each step moves the last word on from one place to
  the next. It needs to know that a setup message precedes all others of its
  search folder (`SetupsOK`), that nothing is under way for a folder its rule
  does not match (`MatchesOK`) or whose name was never used (`NamesOK`), and
  that a cancelled message carries only folders that are excepted
  (`MessagesOK`).
- *DataServer.* Tables only grow (`StoresGrow`, `FoldersGrow`), and a name a
  folder had is never taken from `was` (`NamesGrow`), so what holds of a call
  (`Own`: the folder it has come to and the store object it will register it on,
  the path of its answer and the names of the folder behind it, the number of its
  answers) is not disturbed by another; each action is looked at for its own call
  only. `FoldersOK` says of an entry that its folder is one of its store and has
  had the name of the entry. That it has the name still is `EntriesFollowNames`,
  which is false.
- *Outbox.* `Places` says where a message can be in memory and on disk, `InHand`
  what is known of the current message at each step, `OnRecord` that a message
  handed over is marked or about to be. Neither property is inductive without
  them.
- *Fetch.* `Mutex`: from the listing to the release the holder of the lock is
  alone with the uid cache. `Listed`: what is known and still on the server is
  in the listing, so that saving the cache without the uids that are gone drops
  nothing that could be fetched again. `Standing` and `Looked`: what a fetch
  knows, has left and has in hand is disjoint and covers the listing unless the
  pass failed, so that a deletion without an error deletes what was filed.
  `Quota`: a copy of a message on the server is vouched for by a uid cache or
  was paid for by a mishap; a fetch that works without a uid cache has paid for
  each of its copies when it could not read it.

Each inductive invariant was first checked by TLC on the instances above.

The loops and folds of the models are recursive functions. What they compute is
proved by induction over their length; since the prover does not instantiate
the library's induction rules, the induction is the first-order
`NatSetInduction`: the lengths for which the statement holds are a set, and
the least one outside of it is a contradiction (`LeastNat`, from the
well-foundedness of inclusion among finite sets).

Checked by TLC only: the liveness properties and everything about fairness
(the prover has neither `ENABLED` nor fairness), that is `EveryMessageEnds`,
`EveryCallReturns`, `EveryRequestIsServed`, `EventuallySettled`,
`WorkIsAnswered` and `EveryFetchEnds`. Each invariant and each refinement of the
runs that pass is a theorem.

## 5. Not modelled

`PROJECT.json` lists every part with its reason. The ones a reader may miss:

- *Generated D-Bus bindings* (`src/libegdbus`), half of the lines of the
  repository: gdbus-codegen writes them from the xml files.
- *Alerts* (`e-mail-session.c:160-241`, `1366-1400`). An alert with a choice of
  buttons makes its caller wait. That of a worker is queued, and looked at when
  the response to another alert comes; it is then queued once more, and nobody
  ever shows it. That of the main thread waits for a response its own loop would
  have to deliver. Any property worth stating is violated by the first such
  alert, in a straight line.
- *Filter rules and their elements*: sequential code that an editor of rules
  drives in Evolution. The daemon reads the rules once, and VFolder changes them.
- *Folder and store utilities, mail tools*: they compute the contents of
  messages and files; what the modelled parts see of them is an outcome.
- *Timers of `mail_autoreceive_init`*: `AutoTimeout` of SendRecv may always fire,
  which includes whatever the timers do; their upkeep when accounts change is
  not modelled.
- *The branch of the fetch for a local mbox file*, and the case that there is no
  local inbox.

Errors of a fetch that finds no destination (`mail-ops.c:347`) go to nobody: the
fetch ends as one that found nothing, which Fetch has as an outcome.
The disconnection at the end of a fetch comes after the release of the lock
(`mail-ops.c:460`) and may hit the next fetch of the account; Fetch has the step,
and its properties show that this costs an attempt and no message.
