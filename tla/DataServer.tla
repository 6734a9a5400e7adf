------------------------------ MODULE DataServer ------------------------------
(***************************************************************************)
(* The D-Bus service of the daemon (src/src/e-mail-data-session.c,         *)
(* e-mail-data-store.c, e-mail-data-folder.c, e-mail-data-operation.c and  *)
(* mail_operate_on_object of utils.c): the objects that clients are        *)
(* handed paths of, and the calls they make on them.                       *)
(*                                                                         *)
(* A store object is the number of an EMailDataStore, a path the number    *)
(* of an exported folder object; both are only ever added.  datastores     *)
(* keeps the newest object of each Camel service, datafolders the newest   *)
(* path that each store object registered under a name; folders of Camel   *)
(* are created, renamed and deleted, the tables are not told.  A call      *)
(* arrives in the main loop.  Its handler answers it at once, gives it to  *)
(* Camel (the asynchronous functions) or to the unordered pool of the      *)
(* message engine (mail_operate_on_object); its outcome returns to the     *)
(* main loop, where the done function answers it.                          *)
(***************************************************************************)
EXTENDS Integers, FiniteSets

CONSTANTS
    Services,       \* the Camel services, as pointers
    SharedStores,   \* the local and the search folder store among them
    Folders,        \* the Camel folders
    Home,           \* the service a folder belongs to
    Names,          \* the full names of folders
    Given,          \* the name a folder has at first
    Late,           \* the folders that are created later
    SearchFolders,  \* the folders that searches make, no service lists them
    Nothing,        \* no folder, no name, no service
    Ops, NoOp,      \* the mail operations clients create, and an empty path
    MaxCalls        \* bounds the calls, and with them the objects

ASSUME ServerAssumption ==
    /\ IsFiniteSet(Services)
    /\ SharedStores \subseteq Services
    /\ Home \in [Folders -> Services]
    /\ Given \in [Folders -> Names]
    /\ SearchFolders \subseteq Folders /\ Late \subseteq Folders
    /\ Nothing \notin Folders \cup Names \cup Services
    /\ NoOp \notin Ops
    /\ MaxCalls \in Nat

Calls == 1..MaxCalls

VARIABLES
    name,           \* the full name of each Camel folder
    there,          \* the folders their services list
    was,            \* the names each folder has had
    objects,        \* the number of store objects made
    owner,          \* the service of each store object
    datastores,     \* the store object of each service, 0 for none
    paths,          \* the number of folder objects exported
    folderOf,       \* the folder behind each path
    registrar,      \* the store object that registered each path
    keyOf,          \* the name it was registered under
    datafolders,    \* the paths that are the entry of their store object
    held,           \* the store objects whose folders_lock is taken
    made, refs,     \* the operations created, and the references to each
    unfreed,        \* the calls whose message mail_msg_free has yet to free
    call,           \* the calls
    answers,        \* how often each was answered
    crashed         \* the daemon has used a NULL pointer

camel  == <<name, there, was>>
stores == <<objects, owner, datastores>>
folders == <<paths, folderOf, registrar, keyOf, datafolders>>
tables == <<stores, folders>>
ops    == <<made, refs, unfreed>>
vars   == <<camel, tables, held, ops, call, answers, crashed>>

Kinds  == {"none", "async", "open", "uri", "create", "delete", "rename",
           "pooled", "transfer", "search", "sources", "unanswered"}

\* The kinds that Camel's asynchronous functions serve; these keep a
\* reference to the operation while they run.
AsyncKinds == {"async", "open", "uri", "create", "delete", "rename"}

CallRecord ==
    [st     : {"unsent", "running", "looking", "stored", "inserting", "finished",
               "answered"},
     kind   : Kinds,
     name   : Names \cup {Nothing},     \* the name it looks its folder up under,
     at     : Services \cup {Nothing},  \* in which service,
     via    : Nat,                      \* and in the tables of which store object
     folder : Folders \cup {Nothing},   \* the folder it was given or opened
     dest   : Nat,                      \* the path of a transfer's destination
     op     : Ops \cup {NoOp},
     found  : SUBSET BOOLEAN,           \* what its search for that may come to
     result : {"none", "ok", "failed"},
     path   : Nat,                      \* the folder path it was answered with
     into   : Folders \cup {Nothing}]   \* where its messages went

Unsent == [st |-> "unsent", kind |-> "none", name |-> Nothing, at |-> Nothing,
           via |-> 0, folder |-> Nothing, dest |-> 0, op |-> NoOp, found |-> {},
           result |-> "none", path |-> 0, into |-> Nothing]

Init ==
    /\ name = Given
    /\ there = Folders \ (Late \cup SearchFolders)
    /\ was = [f \in Folders |-> IF f \in there THEN {Given[f]} ELSE {}]
    /\ objects = 0
    /\ owner = [o \in 1..0 |-> Nothing]
    /\ datastores = [s \in Services |-> 0]
    /\ paths = 0
    /\ folderOf = [p \in 1..0 |-> Nothing]
    /\ registrar = [p \in 1..0 |-> 0]
    /\ keyOf = [p \in 1..0 |-> Nothing]
    /\ datafolders = {}
    /\ held = {}
    /\ made = {}
    /\ refs = [k \in Ops |-> 0]
    /\ unfreed = {}
    /\ call = [c \in Calls |-> Unsent]
    /\ answers = [c \in Calls |-> 0]
    /\ crashed = FALSE

------------------------------------------------------------------------------
(* Calls: how they begin and how they are answered.                        *)

\* Calls are numbered in the order they arrive.
Arrives(c) ==
    /\ call[c].st = "unsent"
    /\ \A b \in Calls : b < c => call[b].st # "unsent"

\* The operation of GET_OPS_FROM_PATH: none for an empty path, or one that
\* was created.  Nothing keeps clients from giving one to several calls.
MayUse(k) == k # NoOp => k \in made

\* A search for a destination that runs, without a lock, while the tables
\* change may miss what it looks for.
Disturbed ==
    [c \in Calls |-> IF call[c].st = "looking" /\ tables' # tables
                      THEN [call[c] EXCEPT !.found = @ \cup {FALSE}] ELSE call[c]]

\* g_dbus_method_invocation_return_* or egdbus_*_complete_*.
Answer(c) == answers' = [answers EXCEPT ![c] = @ + 1]

\* A handler hands a call on, as the record r of how far it is.
Asked(kind, k) == [Unsent EXCEPT !.st = "running", !.kind = kind, !.op = k]

Begin(c, r) ==
    /\ MayUse(r.op)
    /\ call' = [call EXCEPT ![c] = r]
    /\ refs' = IF r.op # NoOp /\ r.kind \in AsyncKinds
               THEN [refs EXCEPT ![r.op] = @ + 1] ELSE refs
    /\ UNCHANGED <<camel, tables, held, made, unfreed, answers, crashed>>

Dropped(k) == IF refs[k] > 0 THEN [refs EXCEPT ![k] = @ - 1] ELSE refs

\* A call with an operation is over: Camel drops the reference it took, the
\* message of a pooled call waits for mail_msg_free.
Release(c) ==
    LET k == call[c].op IN
    /\ refs' = IF k # NoOp /\ call[c].kind \in AsyncKinds THEN Dropped(k) ELSE refs
    /\ unfreed' = IF k # NoOp /\ call[c].kind \notin AsyncKinds
                  THEN unfreed \cup {c} ELSE unfreed
    /\ UNCHANGED made

\* A handler answers before it returns.
Told == [Unsent EXCEPT !.st = "answered", !.result = "ok"]

AnswerNow(c, r) ==
    /\ call' = [Disturbed EXCEPT ![c] = r]
    /\ Answer(c)
    /\ UNCHANGED <<camel, held, ops, crashed>>

\* The handler uses a NULL pointer.
Crash(c) ==
    /\ crashed' = TRUE
    /\ UNCHANGED <<camel, tables, held, ops, call, answers>>

------------------------------------------------------------------------------
(* The tables.                                                             *)

\* The function g over 1..n - 1 with the value x for n.
Longer(g, n, x) == [i \in 1..n |-> IF i = n THEN x ELSE g[i]]

\* e_mail_data_store_new, registered as the object of s.
NewStore(s) ==
    /\ objects' = objects + 1
    /\ owner' = Longer(owner, objects + 1, s)
    /\ datastores' = [datastores EXCEPT ![s] = objects + 1]

\* Mutant: the number of the object is read before it is made.
StoreBefore(s) == IF datastores[s] = 0 THEN objects ELSE datastores[s]

\* The object of s, made when there is none.
StoreOf(s) == IF datastores[s] = 0 THEN objects + 1 ELSE datastores[s]

FindStore(s) ==
    IF datastores[s] = 0 THEN NewStore(s)
                         ELSE UNCHANGED stores

\* The entry of name n in the datafolders of store object o, 0 for none.
Registered(o, n) == {p \in datafolders : registrar[p] = o /\ keyOf[p] = n}

Entry(o, n) ==
    IF Registered(o, n) = {} THEN 0 ELSE CHOOSE p \in Registered(o, n) : TRUE

\* A folder object is exported under a path of its own and becomes the one
\* store object o has under the name n.
NewFolder(o, f, n) ==
    /\ paths' = paths + 1
    /\ folderOf' = Longer(folderOf, paths + 1, f)
    /\ registrar' = Longer(registrar, paths + 1, o)
    /\ keyOf' = Longer(keyOf, paths + 1, n)
    /\ datafolders' = (datafolders \ Registered(o, n)) \cup {paths + 1}

\* Mutant: the path is read before the object is registered.
PathBefore(o, n) == IF Entry(o, n) = 0 THEN paths ELSE Entry(o, n)

\* e_mail_data_store_get_folder_path: whatever is under the folder's name.
PathIn(o, n) == IF Entry(o, n) = 0 THEN paths + 1 ELSE Entry(o, n)

FindFolder(o, f) ==
    IF Entry(o, name[f]) = 0 THEN NewFolder(o, f, name[f]) ELSE UNCHANGED folders

\* A search that registers a folder on o has put its name into the table
\* folders but not yet into datafolders.
Inserting(o) == {c \in Calls : call[c].st = "inserting" /\ call[c].via = o}

\* e_mail_session_get_folder_from_path: only the newest object of a service
\* and its entries are looked at.
Resolvable(p) ==
    p \in datafolders /\ datastores[Home[folderOf[p]]] = registrar[p]

------------------------------------------------------------------------------
(* Calls on the session.                                                   *)

\* process_service replaces the object of a service by a new one, whether
\* or not there is one.
ProcessService(c, s) ==
    /\ NewStore(s)
    /\ UNCHANGED folders
    /\ AnswerNow(c, Told)

GetService(c, s)      == ProcessService(c, s)
GetServiceByUrl(c, s) == ProcessService(c, s)
AddService(c, s)      == ProcessService(c, s)

\* listServices does so for every service of the session, in any order.
ListServices(c) ==
    /\ \E order \in [1..Cardinality(Services) -> Services] :
          /\ \A s \in Services : \E i \in DOMAIN order : order[i] = s
          /\ owner' = [o \in 1..objects + Cardinality(Services) |->
                IF o <= objects THEN owner[o] ELSE order[o - objects]]
          /\ datastores' = [s \in Services |->
                objects + (CHOOSE i \in DOMAIN order : order[i] = s)]
    /\ objects' = objects + Cardinality(Services)
    /\ UNCHANGED folders
    /\ AnswerNow(c, Told)

\* Mutant: the object leaves the table with its service.
RemoveServiceWhole(c) ==
    /\ \E s \in Services : datastores' = [datastores EXCEPT ![s] = 0]
    /\ UNCHANGED <<objects, owner, folders>>
    /\ AnswerNow(c, Told)

\* removeService takes the service out of the session and of the table of
\* services by uid; datastores keeps its object.
RemoveService(c) == UNCHANGED tables /\ AnswerNow(c, Told)

GetSharedStore(c, s) ==
    /\ s \in SharedStores
    /\ FindStore(s)
    /\ UNCHANGED folders
    /\ AnswerNow(c, Told)

\* The session keeps the local folders, their names may change.
GetLocalFolder(c, f) ==
    LET s == Home[f]
        o == StoreOf(s)
    IN /\ s \in SharedStores /\ f \notin Late \cup SearchFolders
       /\ o \notin held
       /\ FindStore(s)
       /\ FindFolder(o, f)
       /\ AnswerNow(c, [Told EXCEPT !.name = name[f], !.at = s, !.folder = f,
                                    !.path = PathIn(o, name[f])])

GetFolderFromUri(c, s, n, k) ==
    Begin(c, [Asked("uri", k) EXCEPT !.name = n, !.at = s])

\* Every search makes a search folder of its own.
Unmade == {f \in SearchFolders : was[f] = {} /\ \A b \in Calls : call[b].folder # f}

SearchCall(c, kind, k) ==
    /\ Unmade # {}
    /\ Begin(c, [Asked(kind, k) EXCEPT !.folder = CHOOSE f \in Unmade : TRUE])

AccountSearch(c, k)    == SearchCall(c, "search", k)
AllAccountSearch(c, k) == SearchCall(c, "sources", k)

\* fetchMessages of an account: a message of mail_fetch_mail, which takes a
\* reference to its operation.  For a service that is not a store
\* mail_fetch_mail returns, and there is no answer; for an unknown service
\* the class of NULL settings is read before that.
FetchAccountMessages(c, k) ==
    \/ Begin(c, Asked("async", k))
    \/ Begin(c, Asked("unanswered", k))
    \/ Crash(c)

\* createMailOperation; the reference is the one of the EMailDataOperation.
CreateMailOperation(c, k) ==
    /\ k \in Ops \ made
    /\ made' = made \cup {k}
    /\ refs' = [refs EXCEPT ![k] = 1]
    /\ call' = [call EXCEPT ![c] = Told]
    /\ Answer(c)
    /\ UNCHANGED <<camel, tables, held, unfreed, crashed>>

------------------------------------------------------------------------------
(* Calls on a store object.                                                *)

\* A name that both tables know is answered with what they know.  A name is
\* opened that the table folders does not know, or seems not to know while a
\* search is inserting, since the lock is not taken here; a name found in
\* folders but not in datafolders gives a NULL folder object.
GetFolder(c, o, n, k) ==
    \/ /\ Entry(o, n) # 0
       /\ UNCHANGED tables
       /\ AnswerNow(c, [Told EXCEPT !.name = n, !.at = owner[o], !.path = Entry(o, n)])
    \/ /\ Entry(o, n) = 0 \/ Inserting(o) # {}
       /\ Begin(c, [Asked("open", k) EXCEPT !.name = n, !.at = owner[o], !.via = o])
    \/ /\ \E b \in Inserting(o) : Entry(o, n) # 0 \/ call[b].name = n
       /\ Crash(c)

\* getInbox, getTrash and getJunk never look.
GetSpecialFolder(c, o, n, k) ==
    Begin(c, [Asked("open", k) EXCEPT !.name = n, !.at = owner[o], !.via = o])

\* Calls that change the folders of the store; its tables stay as they are.
CreateFolder(c, o, k) == Begin(c, [Asked("create", k) EXCEPT !.at = owner[o]])
DeleteFolder(c, o, k) == Begin(c, [Asked("delete", k) EXCEPT !.at = owner[o]])
RenameFolder(c, o, k) == Begin(c, [Asked("rename", k) EXCEPT !.at = owner[o]])

------------------------------------------------------------------------------
(* Calls on a folder object, and the calls that a store or a folder object *)
(* gives to Camel or to the pool without touching the tables.              *)

Plain(c, k)  == Begin(c, Asked("async", k))
Pooled(c, k) == Begin(c, Asked("pooled", k))

GetFolderInfo(c, k)     == objects > 0 /\ Plain(c, k)
SyncStore(c, k)         == objects > 0 /\ Plain(c, k)
Noop(c, k)              == objects > 0 /\ Plain(c, k)
ChangeSubscription(c, k) == objects > 0 /\ Plain(c, k)
GetAuthTypes(c, k)      == objects > 0 /\ Plain(c, k)
SearchBySql(c, k)       == objects > 0 /\ Pooled(c, k)

Sync(c, k)              == paths > 0 /\ Plain(c, k)
SyncMessage(c, k)       == paths > 0 /\ Plain(c, k)
Expunge(c, k)           == paths > 0 /\ Plain(c, k)
FetchMessages(c, k)     == paths > 0 /\ Plain(c, k)
GetQuotaInfo(c, k)      == paths > 0 /\ Plain(c, k)
GetPermanentFlags(c, k) == paths > 0 /\ Pooled(c, k)
HasCapability(c, k)     == paths > 0 /\ Pooled(c, k)
MessageFlags(c, k)      == paths > 0 /\ Pooled(c, k)
MessageUserFlag(c, k)   == paths > 0 /\ Pooled(c, k)
MessageUserTag(c, k)    == paths > 0 /\ Pooled(c, k)
GetMessage(c, k)        == paths > 0 /\ Pooled(c, k)
GetMessageInfo(c)       == paths > 0 /\ Pooled(c, NoOp)
SearchByExpression(c, k)     == paths > 0 /\ Pooled(c, k)
SearchSortByExpression(c, k) == paths > 0 /\ Pooled(c, k)
SearchByUids(c, k)      == paths > 0 /\ Pooled(c, k)
PrepareSummary(c, k)    == paths > 0 /\ Pooled(c, k)
FreezeOrThaw(c, k)      == paths > 0 /\ Pooled(c, k)

\* refreshInfo answers when it has asked Camel, not when Camel has done it.
RefreshInfo(c) == paths > 0 /\ UNCHANGED tables /\ AnswerNow(c, Told)

\* Counters, names, flags, urls and the like are answered at once too.
FolderProperty(c) == paths > 0 /\ UNCHANGED tables /\ AnswerNow(c, Told)
GetUids(c)        == paths > 0 /\ UNCHANGED tables /\ AnswerNow(c, Told)
GetParentStore(c) == paths > 0 /\ UNCHANGED tables /\ AnswerNow(c, Told)
StoreProperty(c)  == objects > 0 /\ UNCHANGED tables /\ AnswerNow(c, Told)

\* For the Outbox its done function also calls mail_send, an entry of the
\* module SendRecv.
AppendMessage(c, k)     == paths > 0 /\ Plain(c, k)

TransferMessagesTo(c, d, k) == Begin(c, [Asked("transfer", k) EXCEPT !.dest = d])

------------------------------------------------------------------------------
(* The threads.                                                            *)

\* Camel, or do_op in a thread of the pool, comes to an end.
Finish(c, f, result) ==
    /\ call' = [call EXCEPT ![c].st = "finished", ![c].folder = f, ![c].result = result]
    /\ UNCHANGED <<tables, held, ops, answers, crashed>>

\* It may fail, whatever was asked.
WorkFails(c) ==
    /\ call[c].st = "running"
    /\ call[c].kind \in AsyncKinds \cup {"pooled"}
    /\ Finish(c, Nothing, "failed")
    /\ UNCHANGED camel

Work(c) ==
    /\ call[c].st = "running" /\ call[c].kind \in {"async", "pooled"}
    /\ Finish(c, Nothing, "ok")
    /\ UNCHANGED camel

\* A folder is opened that has the name by now.
Holders(s, n) == {f \in there : Home[f] = s /\ name[f] = n}

OpenWork(c) ==
    /\ call[c].st = "running" /\ call[c].kind \in {"open", "uri"}
    /\ \E f \in Holders(call[c].at, call[c].name) : Finish(c, f, "ok")
    /\ UNCHANGED camel

CreateWork(c) ==
    /\ call[c].st = "running" /\ call[c].kind = "create"
    /\ \E f \in Late, n \in Names :
          /\ Home[f] = call[c].at /\ was[f] = {} /\ Holders(call[c].at, n) = {}
          /\ name' = [name EXCEPT ![f] = n]
          /\ there' = there \cup {f}
          /\ was' = [was EXCEPT ![f] = {n}]
    /\ Finish(c, Nothing, "ok")

\* An open folder keeps its name when it is deleted, and follows a rename.
DeleteWork(c) ==
    /\ call[c].st = "running" /\ call[c].kind = "delete"
    /\ \E f \in there : Home[f] = call[c].at /\ there' = there \ {f}
    /\ UNCHANGED <<name, was>>
    /\ Finish(c, Nothing, "ok")

RenameWork(c) ==
    /\ call[c].st = "running" /\ call[c].kind = "rename"
    /\ \E f \in there, n \in Names :
          /\ Home[f] = call[c].at /\ Holders(call[c].at, n) = {}
          /\ name' = [name EXCEPT ![f] = n]
          /\ was' = [was EXCEPT ![f] = @ \cup {n}]
    /\ UNCHANGED there
    /\ Finish(c, Nothing, "ok")

\* transfer_operate begins to look for its destination, with no lock.
LookUp(c) ==
    /\ call[c].st = "running" /\ call[c].kind = "transfer"
    /\ call' = [call EXCEPT ![c].st = "looking", ![c].found = {Resolvable(call[c].dest)}]
    /\ UNCHANGED <<camel, tables, held, ops, answers, crashed>>

\* It ends with the folder or with NULL; when a table changed meanwhile,
\* with either.  A transfer to NULL returns at Camel's check of its
\* arguments, without an error.
TransferWork(c) ==
    /\ call[c].st = "looking"
    /\ \E found \in call[c].found, r \in {"ok", "failed"} :
          /\ ~found => r = "ok"
          /\ call' = [call EXCEPT ![c].st = "finished", ![c].result = r,
                ![c].found = {},
                ![c].into = IF found /\ r = "ok" THEN folderOf[call[c].dest]
                                                 ELSE Nothing]
    /\ UNCHANGED <<camel, tables, held, ops, answers, crashed>>

\* sf_operate makes the search folder.  A search of all accounts overwrites
\* its variable with the sources it opens, so what it hands out is the last of
\* them, its search folder only when there is none.  It finds the store's
\* object,
SearchStore(c) ==
    /\ call[c].st = "running" /\ call[c].kind \in {"search", "sources"}
    /\ was' = [was EXCEPT ![call[c].folder] = @ \cup {name[call[c].folder]}]
    /\ UNCHANGED <<name, there, folders, held, ops, answers, crashed>>
    /\ \E f \in {call[c].folder} \cup (IF call[c].kind = "sources" THEN there ELSE {}) :
          /\ FindStore(Home[f])
          /\ call' = [Disturbed EXCEPT ![c].st = "stored", ![c].folder = f,
                         ![c].at = Home[f], ![c].via = StoreOf(Home[f])]

\* or comes to a NULL folder, when the last source cannot be opened.
SearchCrash(c) ==
    /\ call[c].st = "running" /\ call[c].kind = "sources"
    /\ crashed' = TRUE
    /\ UNCHANGED <<camel, tables, held, ops, call, answers>>

\* Under the lock it finds the entry of the folder's name, and answers in the
\* thread,
SearchFinds(c) ==
    LET o == call[c].via
        n == name[call[c].folder]
    IN /\ call[c].st = "stored" /\ o \notin held
       /\ Entry(o, n) # 0
       /\ call' = [call EXCEPT ![c].st = "answered", ![c].result = "ok",
                               ![c].name = n, ![c].path = Entry(o, n)]
       /\ Answer(c)
       /\ Release(c)
       /\ UNCHANGED <<camel, tables, held, crashed>>

\* or it puts the folder into the table folders
SearchInserts(c) ==
    LET o == call[c].via
        n == name[call[c].folder]
    IN /\ call[c].st = "stored" /\ o \notin held
       /\ Entry(o, n) = 0
       /\ call' = [call EXCEPT ![c].st = "inserting", ![c].name = n]
       /\ held' = held \cup {o}
       /\ UNCHANGED <<camel, tables, ops, answers, crashed>>

\* and its object into datafolders, and answers.
SearchRegisters(c) ==
    /\ call[c].st = "inserting"
    /\ NewFolder(call[c].via, call[c].folder, call[c].name)
    /\ UNCHANGED <<camel, stores, crashed>>
    /\ held' = held \ {call[c].via}
    /\ call' = [Disturbed EXCEPT ![c].st = "answered", ![c].result = "ok",
                                 ![c].path = paths + 1]
    /\ Answer(c)
    /\ Release(c)

------------------------------------------------------------------------------
(* The done functions, in the main loop.                                   *)

\* Mutant: sf_done answers like the other done functions.
DoneAnswersSearches(c) ==
    /\ \/ call[c].st = "finished"
       \/ call[c].kind = "search" /\ call[c].st = "answered" /\ answers[c] = 1
    /\ call[c].kind \in {"open", "uri"} => call[c].result = "failed"
    /\ call' = [call EXCEPT ![c].st = "answered"]
    /\ held' = IF call[c].kind = "open" THEN held \ {call[c].via} ELSE held
    /\ Answer(c)
    /\ Release(c)
    /\ UNCHANGED <<camel, tables, crashed>>

\* The answer of all calls but the ones below.  A folder that could not be
\* opened gives up the locks of the store object, which it has not taken.
Done(c) ==
    /\ call[c].st = "finished"
    /\ call[c].kind \in {"open", "uri"} => call[c].result = "failed"
    /\ call' = [call EXCEPT ![c].st = "answered"]
    /\ held' = IF call[c].kind = "open" THEN held \ {call[c].via} ELSE held
    /\ Answer(c)
    /\ Release(c)
    /\ UNCHANGED <<camel, tables, crashed>>

\* handle_mail_get_folder registers a new object, even if another call has
\* registered one since this one looked.
FolderOpened(c) ==
    LET f == call[c].folder
        o == call[c].via
    IN /\ call[c].st = "finished" /\ call[c].kind = "open" /\ call[c].result = "ok"
       /\ o \notin held
       /\ NewFolder(o, f, name[f])
       /\ UNCHANGED <<camel, stores, held, crashed>>
       /\ call' = [Disturbed EXCEPT ![c].st = "answered", ![c].name = name[f],
                                    ![c].path = paths + 1]
       /\ Answer(c)
       /\ Release(c)

\* Mutant: a folder whose store has no object is passed over.
UriOpenedKnown(c) ==
    LET f == call[c].folder
        o == datastores[Home[f]]
    IN /\ call[c].st = "finished" /\ call[c].kind = "uri" /\ call[c].result = "ok"
       /\ o # 0 /\ o \notin held
       /\ UNCHANGED <<camel, stores, held, crashed>>
       /\ FindFolder(o, f)
       /\ call' = [Disturbed EXCEPT ![c].st = "answered", ![c].name = name[f],
                                    ![c].path = PathIn(o, name[f])]
       /\ Answer(c)
       /\ Release(c)

\* get_folder_done.
UriOpened(c) ==
    LET f == call[c].folder
        o == StoreOf(Home[f])
    IN /\ call[c].st = "finished" /\ call[c].kind = "uri" /\ call[c].result = "ok"
       /\ o \notin held
       /\ FindStore(Home[f])
       /\ FindFolder(o, f)
       /\ call' = [Disturbed EXCEPT ![c].st = "answered", ![c].name = name[f],
                                    ![c].path = PathIn(o, name[f])]
       /\ Answer(c)
       /\ Release(c)
       /\ UNCHANGED <<camel, held, crashed>>

\* mail_msg_free, an idle callback, drops the reference of the message to its
\* operation; mail_operate_on_object has taken none.
FreeMessage(c) ==
    /\ c \in unfreed
    /\ unfreed' = unfreed \ {c}
    /\ refs' = Dropped(call[c].op)
    /\ UNCHANGED <<camel, tables, held, made, call, answers, crashed>>

------------------------------------------------------------------------------
SessionCall(c) ==
    \/ \E s \in Services : GetService(c, s) \/ GetServiceByUrl(c, s) \/ AddService(c, s)
    \/ ListServices(c)
    \/ RemoveService(c)
    \/ \E s \in SharedStores : GetSharedStore(c, s)
    \/ \E f \in Folders : GetLocalFolder(c, f)
    \/ \E k \in Ops \cup {NoOp} :
          \/ \E s \in Services, n \in Names : GetFolderFromUri(c, s, n, k)
          \/ AccountSearch(c, k) \/ AllAccountSearch(c, k) \/ FetchAccountMessages(c, k)
    \/ \E k \in Ops : CreateMailOperation(c, k)

StoreCall(c) ==
    \/ StoreProperty(c)
    \/ \E k \in Ops \cup {NoOp} :
          \/ \E o \in 1..objects :
                \/ \E n \in Names : GetFolder(c, o, n, k) \/ GetSpecialFolder(c, o, n, k)
                \/ CreateFolder(c, o, k) \/ DeleteFolder(c, o, k) \/ RenameFolder(c, o, k)
          \/ GetFolderInfo(c, k) \/ SyncStore(c, k) \/ Noop(c, k)
          \/ ChangeSubscription(c, k) \/ GetAuthTypes(c, k) \/ SearchBySql(c, k)

FolderCall(c) ==
    \/ RefreshInfo(c) \/ FolderProperty(c) \/ GetUids(c) \/ GetParentStore(c)
    \/ GetMessageInfo(c)
    \/ \E k \in Ops \cup {NoOp} :
          \/ Sync(c, k) \/ SyncMessage(c, k) \/ Expunge(c, k) \/ FetchMessages(c, k)
          \/ GetQuotaInfo(c, k) \/ GetPermanentFlags(c, k) \/ HasCapability(c, k)
          \/ MessageFlags(c, k) \/ MessageUserFlag(c, k) \/ MessageUserTag(c, k)
          \/ GetMessage(c, k) \/ SearchByExpression(c, k)
          \/ SearchSortByExpression(c, k) \/ SearchByUids(c, k)
          \/ PrepareSummary(c, k) \/ FreezeOrThaw(c, k)
          \/ AppendMessage(c, k)
          \/ \E d \in 1..paths : TransferMessagesTo(c, d, k)

Threads(c) ==
    \/ WorkFails(c) \/ Work(c) \/ OpenWork(c)
    \/ CreateWork(c) \/ DeleteWork(c) \/ RenameWork(c)
    \/ LookUp(c) \/ TransferWork(c)
    \/ SearchStore(c) \/ SearchFinds(c) \/ SearchInserts(c) \/ SearchRegisters(c)

MainLoop(c) == Done(c) \/ FolderOpened(c) \/ UriOpened(c)

\* A daemon that has crashed does nothing.
Proceeds(c) == ~crashed /\ (Threads(c) \/ MainLoop(c))

Next == \E c \in Calls :
    \/ Proceeds(c)
    \/ ~crashed /\ Arrives(c) /\ (SessionCall(c) \/ StoreCall(c) \/ FolderCall(c))
    \/ ~crashed /\ (SearchCrash(c) \/ FreeMessage(c))

Spec     == Init /\ [][Next]_vars
\* Threads of Camel and of the pool run, and the main loop comes to what they
\* hand back.
Fairness == \A c \in Calls : WF_vars(Proceeds(c))
FairSpec == Spec /\ Fairness

------------------------------------------------------------------------------
(* Properties.                                                             *)

TypeOK ==
    /\ name \in [Folders -> Names]
    /\ there \subseteq Folders
    /\ was \in [Folders -> SUBSET Names]
    /\ objects \in Nat /\ paths \in Nat
    /\ owner \in [1..objects -> Services]
    /\ datastores \in [Services -> 0..objects]
    /\ folderOf \in [1..paths -> Folders]
    /\ registrar \in [1..paths -> 1..objects]
    /\ keyOf \in [1..paths -> Names]
    /\ datafolders \subseteq 1..paths
    /\ held \subseteq 1..objects
    /\ made \subseteq Ops
    /\ refs \in [Ops -> Nat]
    /\ unfreed \subseteq Calls
    /\ call \in [Calls -> CallRecord]
    /\ answers \in [Calls -> Nat]
    /\ crashed \in BOOLEAN

\* A call is answered once, whoever answers it: its handler, the thread of a
\* search or a done function.  A second answer would be lost with a warning,
\* a missing one leaves the client waiting until D-Bus gives up.
AnsweredOnce ==
    \A c \in Calls : answers[c] = IF call[c].st = "answered" THEN 1 ELSE 0

\* The g_assert of e_mail_data_session_get_path_from_store: whatever clients
\* did with services, the store of every folder they hold has an object.
ParentStoreIsKnown == \A p \in 1..paths : datastores[Home[folderOf[p]]] # 0

\* What the tables by name keep of their promise while folders are renamed,
\* deleted and created and objects are registered by the main loop and by
\* threads: the path a client is answered with is exported, for a folder of
\* the service it asked, and that folder has had the name it is looked up
\* under.  It need not have it any more.
RightFolder ==
    \A c \in Calls : call[c].path # 0 =>
        /\ call[c].path <= paths
        /\ LET f == folderOf[call[c].path]
           IN Home[f] = call[c].at /\ call[c].name \in was[f]

\* The stricter promise, which the code does not keep: the entries are under
\* the names their folders have.
EntriesFollowNames ==
    \A p \in datafolders : keyOf[p] = name[folderOf[p]]

\* Not kept either: the operation of a call that is being worked on has not
\* been freed.
Outstanding ==
    {c \in Calls : call[c].st \in {"running", "looking", "stored", "inserting", "finished"}}

OperationAlive ==
    \A c \in Outstanding : call[c].op # NoOp => refs[call[c].op] > 0

\* A client that is told of a successful transfer finds its messages in the
\* folder whose path it gave.
TransfersArrive ==
    \A c \in Calls :
        call[c].kind = "transfer" /\ call[c].st = "answered" /\ call[c].result = "ok"
            => call[c].into = folderOf[call[c].dest]

\* A call that Camel or the pool has been given is answered, through locks,
\* searches and folders that come and go, unless the daemon crashes.
WorkIsAnswered ==
    \A c \in Calls :
        call[c].st # "unsent" /\ call[c].kind # "unanswered"
            ~> call[c].st = "answered" \/ crashed

\* Every call is answered: not kept, for fetchMessages and for a crash.
EveryCallIsAnswered ==
    \A c \in Calls : call[c].st # "unsent" ~> call[c].st = "answered"
==============================================================================
