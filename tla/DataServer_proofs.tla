-------------------------- MODULE DataServer_proofs --------------------------
(***************************************************************************)
(* For any services, folders, names, operations and number of calls: a     *)
(* call is answered once, a path that was handed out is the one of a       *)
(* folder that has had the name it was looked up under, in the service     *)
(* that was asked, and its store has an object.  Tables only grow, and so  *)
(* do the names a folder has had: what holds of one call is not disturbed  *)
(* by the step of another, and each action needs a look at its own call    *)
(* and at the tables.                                                      *)
(***************************************************************************)
EXTENDS DataServer, FiniteSetTheorems, TLAPS

\* A folder that there has been has had the name it has.
NamesOK ==
    /\ name \in [Folders -> Names]
    /\ there \subseteq Folders
    /\ was \in [Folders -> SUBSET Names]
    /\ \A f \in Folders : was[f] # {} => name[f] \in was[f]
    /\ \A f \in there : was[f] # {}
    /\ \A f \in Folders \ (Late \cup SearchFolders) : was[f] # {}

\* Every store object is the one of a service that has an entry, and the entry
\* of a service is an object of its own.
StoresOK ==
    /\ objects \in Nat
    /\ owner \in [1..objects -> Services]
    /\ datastores \in [Services -> 0..objects]
    /\ \A o \in 1..objects : datastores[owner[o]] # 0
    /\ \A s \in Services : datastores[s] # 0 => owner[datastores[s]] = s

\* A folder is registered on an object of its service, under a name it has
\* had.
FoldersOK ==
    /\ paths \in Nat
    /\ folderOf \in [1..paths -> Folders]
    /\ registrar \in [1..paths -> 1..objects]
    /\ keyOf \in [1..paths -> Names]
    /\ datafolders \subseteq 1..paths
    /\ \A p \in 1..paths : owner[registrar[p]] = Home[folderOf[p]]
    /\ \A p \in 1..paths : keyOf[p] \in was[folderOf[p]]
    /\ ParentStoreIsKnown

RestOK ==
    /\ held \subseteq 1..objects
    /\ made \subseteq Ops
    /\ refs \in [Ops -> Nat]
    /\ unfreed \subseteq Calls
    /\ call \in [Calls -> CallRecord]
    /\ answers \in [Calls -> Nat]
    /\ crashed \in BOOLEAN

\* What a call knows of the store object it will register a folder on.
Placed(c) ==
    /\ call[c].at \in Services
    /\ call[c].via \in 1..objects
    /\ owner[call[c].via] = call[c].at

\* The folder it has come to is one of the service it asked.
Known(c) ==
    /\ call[c].folder \in Folders
    /\ Home[call[c].folder] = call[c].at
    /\ was[call[c].folder] # {}

\* What holds of one call: it knows its folder and its store if it will make
\* an object, its answer is a path of the right folder, and it was given once.
Own(c) ==
    /\ call[c].kind = "open" => Placed(c)
    /\ call[c].kind = "uri" => call[c].at \in Services
    /\ call[c].kind \in {"open", "uri"} /\ call[c].result = "ok" => Known(c)
    /\ call[c].kind \in {"search", "sources"} => call[c].folder \in Folders
    /\ call[c].st \in {"stored", "inserting"} =>
          call[c].kind \in {"search", "sources"} /\ Placed(c) /\ Known(c)
    /\ call[c].st = "inserting" => call[c].name \in was[call[c].folder]
    /\ call[c].kind = "transfer" => call[c].dest \in 1..paths
    /\ call[c].st = "looking" => call[c].kind = "transfer"
    /\ call[c].path # 0 => /\ call[c].st = "answered"
                           /\ call[c].path \in 1..paths
                           /\ Home[folderOf[call[c].path]] = call[c].at
                           /\ call[c].name \in was[folderOf[call[c].path]]
    /\ answers[c] = IF call[c].st = "answered" THEN 1 ELSE 0

Inv == NamesOK /\ StoresOK /\ FoldersOK /\ RestOK /\ \A c \in Calls : Own(c)

\* Steps of the folders and of the tables.
NamesGrow == \A f \in Folders : was[f] \subseteq was'[f]

StoresGrow ==
    /\ objects <= objects'
    /\ \A o \in 1..objects : owner'[o] = owner[o]
    /\ \A s \in Services : datastores[s] # 0 => datastores'[s] # 0

FoldersGrow ==
    /\ paths <= paths'
    /\ \A p \in 1..paths : folderOf'[p] = folderOf[p]

Grown == /\ NamesOK' /\ StoresOK' /\ FoldersOK'
         /\ NamesGrow /\ StoresGrow /\ FoldersGrow

\* Two records of a call that differ at most in what its search may find and
\* in where its messages went.
Same(q, r) ==
    /\ q.st = r.st /\ q.kind = r.kind /\ q.name = r.name /\ q.at = r.at
    /\ q.via = r.via /\ q.folder = r.folder /\ q.dest = r.dest /\ q.op = r.op
    /\ q.result = r.result /\ q.path = r.path

\* A step of another call leaves c as it is, but for what its search may find.
Kept(c) == Same(call'[c], call[c]) /\ answers'[c] = answers[c]

------------------------------------------------------------------------------
(* The folders of Camel and the tables.                                    *)

LEMMA NamesStay ==
    ASSUME NamesOK, UNCHANGED camel
    PROVE  NamesOK' /\ NamesGrow
  BY DEF NamesOK, NamesGrow, camel

\* A new object of a service.
LEMMA NewStoreGrows ==
    ASSUME StoresOK, NEW s \in Services, NewStore(s)
    PROVE  /\ StoresOK' /\ StoresGrow
           /\ datastores'[s] = objects' /\ objects' = objects + 1
<1>1. /\ owner' \in [1..objects + 1 -> Services]
      /\ \A i \in 1..objects : owner'[i] = owner[i]
      /\ owner'[objects + 1] = s
  <2>1. objects \in Nat /\ owner \in [1..objects -> Services]
    BY DEF StoresOK
  <2>2. owner' = Longer(owner, objects + 1, s)
    BY DEF NewStore
  <2>. QED  BY <2>1, <2>2 DEF Longer
<1>2. objects' = objects + 1 /\ objects \in Nat
  BY DEF StoresOK, NewStore
<1>3. datastores' \in [Services -> 0..objects']
  BY <1>2 DEF StoresOK, NewStore
<1>4. \A t \in Services : datastores[t] # 0 => datastores'[t] # 0
  BY <1>2 DEF StoresOK, NewStore
<1>5. datastores'[s] = objects'
  BY <1>2 DEF StoresOK, NewStore
<1>6. ASSUME NEW o \in 1..objects' PROVE datastores'[owner'[o]] # 0
  <2>1. CASE o \in 1..objects
    BY <2>1, <1>1, <1>4 DEF StoresOK
  <2>2. CASE o = objects + 1
    BY <2>2, <1>1, <1>2, <1>5
  <2>. QED  BY <2>1, <2>2, <1>2
<1>7. ASSUME NEW t \in Services, datastores'[t] # 0 PROVE owner'[datastores'[t]] = t
  <2>1. CASE t = s
    BY <2>1, <1>1, <1>2, <1>5
  <2>2. CASE t # s
    <3>1. datastores'[t] = datastores[t]
      BY <2>2 DEF StoresOK, NewStore
    <3>2. datastores[t] \in 1..objects /\ owner[datastores[t]] = t
      BY <3>1, <1>7, <1>2 DEF StoresOK
    <3>. QED  BY <3>1, <3>2, <1>1
  <2>. QED  BY <2>1, <2>2
<1>. QED  BY <1>1, <1>2, <1>3, <1>4, <1>5, <1>6, <1>7 DEF StoresOK, StoresGrow

\* The object of a service is found or made.
LEMMA FindStoreGrows ==
    ASSUME StoresOK, NEW s \in Services, FindStore(s)
    PROVE  /\ StoresOK' /\ StoresGrow
           /\ StoreOf(s) \in 1..objects' /\ owner'[StoreOf(s)] = s
<1>1. CASE datastores[s] = 0
  <2>1. /\ StoresOK' /\ StoresGrow
        /\ datastores'[s] = objects' /\ objects' = objects + 1
    BY <1>1, NewStoreGrows DEF FindStore
  <2>2. StoreOf(s) = datastores'[s] /\ objects \in Nat
    BY <1>1, <2>1 DEF StoreOf, StoresOK
  <2>3. datastores'[s] # 0 /\ datastores'[s] \in 1..objects'
    BY <2>1, <2>2
  <2>4. owner'[datastores'[s]] = s
    BY <2>1, <2>3 DEF StoresOK
  <2>. QED  BY <2>1, <2>2, <2>3, <2>4
<1>2. CASE datastores[s] # 0
  BY <1>2 DEF FindStore, StoreOf, StoresOK, StoresGrow, stores
<1>. QED  BY <1>1, <1>2

\* listServices makes an object of each service.
LEMMA ListServicesGrows ==
    ASSUME StoresOK, NEW c \in Calls, ListServices(c)
    PROVE  StoresOK' /\ StoresGrow
<1>. DEFINE n == Cardinality(Services)
<1>1. n \in Nat
  BY FS_CardinalityType, ServerAssumption
<1>2. PICK order \in [1..n -> Services] :
          /\ \A s \in Services : \E i \in DOMAIN order : order[i] = s
          /\ owner' = [o \in 1..objects + n |->
                IF o <= objects THEN owner[o] ELSE order[o - objects]]
          /\ datastores' = [s \in Services |->
                objects + (CHOOSE i \in DOMAIN order : order[i] = s)]
  BY DEF ListServices
<1>3. objects' = objects + n /\ objects \in Nat
  BY DEF ListServices, StoresOK
<1>4. ASSUME NEW s \in Services
      PROVE  /\ datastores'[s] \in objects + 1..objects'
             /\ datastores'[s] - objects \in 1..n
             /\ order[datastores'[s] - objects] = s
  <2>. DEFINE i == CHOOSE i \in DOMAIN order : order[i] = s
  <2>1. i \in 1..n /\ order[i] = s
    <3>1. \E j \in DOMAIN order : order[j] = s
      BY <1>2
    <3>2. i \in DOMAIN order /\ order[i] = s
      BY <3>1
    <3>. QED  BY <3>2, <1>2
  <2>2. datastores'[s] = objects + i
    BY <1>2
  <2>. HIDE DEF n, i
  <2>3. datastores'[s] - objects = i
    BY <2>1, <2>2, <1>1, <1>3
  <2>. QED  BY <2>1, <2>2, <2>3, <1>1, <1>3
<1>5. datastores' \in [Services -> 0..objects'] /\ \A s \in Services : datastores'[s] # 0
  <2>1. datastores' = [s \in Services |-> datastores'[s]]
    BY <1>2
  <2>2. \A s \in Services : datastores'[s] \in 0..objects' /\ datastores'[s] # 0
    BY <1>4, <1>3
  <2>. QED  BY <2>1, <2>2
<1>6. owner' \in [1..objects' -> Services] /\ \A o \in 1..objects : owner'[o] = owner[o]
  <2>. HIDE DEF n
  <2>1. ASSUME NEW o \in 1..objects + n
        PROVE  (IF o <= objects THEN owner[o] ELSE order[o - objects]) \in Services
    <3>1. CASE o <= objects
      BY <3>1, <1>1, <1>3 DEF StoresOK
    <3>2. CASE ~(o <= objects)
      <4>1. o - objects \in 1..n
        BY <3>2, <1>1, <1>3
      <4>. QED  BY <4>1, <3>2, <1>2
    <3>. QED  BY <3>1, <3>2
  <2>2. owner' \in [1..objects + n -> Services]
    BY <2>1, <1>2
  <2>3. \A o \in 1..objects : o \in 1..objects + n /\ o <= objects
    BY <1>1, <1>3
  <2>. QED  BY <2>2, <2>3, <1>2, <1>3
<1>7. ASSUME NEW o \in 1..objects' PROVE datastores'[owner'[o]] # 0
  BY <1>5, <1>6
<1>8. objects' \in Nat /\ objects <= objects'
  <2>. HIDE DEF n
  <2>. QED  BY <1>1, <1>3
<1>9. ASSUME NEW s \in Services PROVE owner'[datastores'[s]] = s
  <2>. HIDE DEF n
  <2>1. datastores'[s] \in 1..objects + n /\ ~(datastores'[s] <= objects)
    BY <1>4, <1>1, <1>3
  <2>2. owner'[datastores'[s]] = order[datastores'[s] - objects]
    BY <2>1, <1>2
  <2>. QED  BY <2>2, <1>4
<1>. QED  BY <1>5, <1>6, <1>7, <1>8, <1>9 DEF StoresOK, StoresGrow

LEMMA StoresStay ==
    ASSUME StoresOK, UNCHANGED stores
    PROVE  StoresOK' /\ StoresGrow
  BY DEF StoresOK, StoresGrow, stores

\* A new folder object, of a store object that there is by then.
LEMMA NewFolderGrows ==
    ASSUME StoresOK, FoldersOK, NamesOK', NamesGrow, StoresOK', StoresGrow,
           NEW f \in Folders, NEW o \in 1..objects', owner'[o] = Home[f],
           NEW n \in Names, n \in was'[f], NewFolder(o, f, n)
    PROVE  /\ FoldersOK' /\ FoldersGrow
           /\ paths + 1 \in 1..paths' /\ folderOf'[paths + 1] = f
<1>1. paths' = paths + 1 /\ paths \in Nat
  BY DEF FoldersOK, NewFolder
<1>2. /\ folderOf' \in [1..paths + 1 -> Folders]
      /\ \A p \in 1..paths : folderOf'[p] = folderOf[p]
      /\ folderOf'[paths + 1] = f
  <2>1. paths \in Nat /\ folderOf \in [1..paths -> Folders]
    BY DEF FoldersOK
  <2>2. folderOf' = Longer(folderOf, paths + 1, f)
    BY DEF NewFolder
  <2>. QED  BY <2>1, <2>2 DEF Longer
<1>3. /\ registrar' \in [1..paths + 1 -> 1..objects']
      /\ \A p \in 1..paths : registrar'[p] = registrar[p]
      /\ registrar'[paths + 1] = o
  <2>1. registrar \in [1..paths -> 1..objects']
    BY DEF FoldersOK, StoresOK, StoresGrow
  <2>2. registrar' = Longer(registrar, paths + 1, o)
    BY DEF NewFolder
  <2>. QED  BY <2>1, <2>2, <1>1 DEF Longer
<1>4. /\ keyOf' \in [1..paths + 1 -> Names]
      /\ \A p \in 1..paths : keyOf'[p] = keyOf[p]
      /\ keyOf'[paths + 1] = n
  <2>1. paths \in Nat /\ keyOf \in [1..paths -> Names]
    BY DEF FoldersOK
  <2>2. keyOf' = Longer(keyOf, paths + 1, n)
    BY DEF NewFolder
  <2>. QED  BY <2>1, <2>2 DEF Longer
<1>5. datafolders' \subseteq 1..paths'
  <2>1. datafolders \subseteq 1..paths
    BY DEF FoldersOK
  <2>2. datafolders' \subseteq datafolders \cup {paths + 1}
    BY DEF NewFolder
  <2>3. 1..paths \subseteq 1..paths + 1 /\ paths + 1 \in 1..paths + 1
    BY <1>1
  <2>. QED  BY <2>1, <2>2, <2>3, <1>1
<1>6. ASSUME NEW p \in 1..paths'
      PROVE  /\ owner'[registrar'[p]] = Home[folderOf'[p]]
             /\ keyOf'[p] \in was'[folderOf'[p]]
  <2>1. CASE p \in 1..paths
    <3>1. /\ registrar[p] \in 1..objects /\ owner[registrar[p]] = Home[folderOf[p]]
          /\ keyOf[p] \in was[folderOf[p]] /\ folderOf[p] \in Folders
      BY <2>1 DEF FoldersOK
    <3>2. owner'[registrar[p]] = owner[registrar[p]]
      BY <3>1 DEF StoresGrow
    <3>. QED  BY <2>1, <3>1, <3>2, <1>2, <1>3, <1>4 DEF NamesGrow
  <2>2. CASE p = paths + 1
    BY <2>2, <1>2, <1>3, <1>4
  <2>. QED  BY <2>1, <2>2, <1>1
<1>7. ASSUME NEW p \in 1..paths' PROVE datastores'[Home[folderOf'[p]]] # 0
  <2>1. registrar'[p] \in 1..objects'
    BY <1>1, <1>3
  <2>. QED  BY <2>1, <1>6 DEF StoresOK
<1>. QED
  BY <1>1, <1>2, <1>3, <1>4, <1>5, <1>6, <1>7 DEF FoldersOK, FoldersGrow, ParentStoreIsKnown

LEMMA FoldersStay ==
    ASSUME StoresOK, FoldersOK, NamesOK', NamesGrow, StoresOK', StoresGrow,
           UNCHANGED folders
    PROVE  FoldersOK' /\ FoldersGrow
<1>1. UNCHANGED <<paths, folderOf, registrar, keyOf, datafolders>>
  BY DEF folders
<1>2. registrar' \in [1..paths' -> 1..objects']
  BY <1>1 DEF FoldersOK, StoresOK, StoresGrow
<1>3. ASSUME NEW p \in 1..paths'
      PROVE  /\ owner'[registrar'[p]] = Home[folderOf'[p]]
             /\ keyOf'[p] \in was'[folderOf'[p]]
  <2>1. /\ registrar[p] \in 1..objects /\ owner[registrar[p]] = Home[folderOf[p]]
        /\ keyOf[p] \in was[folderOf[p]] /\ folderOf[p] \in Folders
    BY <1>1 DEF FoldersOK
  <2>2. owner'[registrar[p]] = owner[registrar[p]]
    BY <2>1 DEF StoresGrow
  <2>. QED  BY <2>1, <2>2, <1>1 DEF NamesGrow
<1>4. \A p \in 1..paths' : datastores'[Home[folderOf'[p]]] # 0
  <2>. SUFFICES ASSUME NEW p \in 1..paths' PROVE datastores'[Home[folderOf'[p]]] # 0
    OBVIOUS
  <2>1. registrar'[p] \in 1..objects'
    BY <1>2
  <2>. QED  BY <2>1, <1>3 DEF StoresOK
<1>. QED  BY <1>1, <1>2, <1>3, <1>4 DEF FoldersOK, FoldersGrow, ParentStoreIsKnown

\* A step of Camel's folders alone, and of nothing at all.
LEMMA TablesStay ==
    ASSUME StoresOK, FoldersOK, NamesOK', NamesGrow, UNCHANGED tables
    PROVE  Grown
<1>1. UNCHANGED stores /\ UNCHANGED folders
  BY DEF tables
<1>2. StoresOK' /\ StoresGrow
  BY <1>1, StoresStay
<1>. QED  BY <1>1, <1>2, FoldersStay DEF Grown

LEMMA AllStays ==
    ASSUME NamesOK, StoresOK, FoldersOK, UNCHANGED <<camel, tables>>
    PROVE  Grown
  BY NamesStay, TablesStay

\* The entry of a name is a path of a folder that has had the name, of the
\* service of the store object.
LEMMA EntryIsRight ==
    ASSUME FoldersOK, NEW n, NEW o, Entry(o, n) # 0
    PROVE  /\ Entry(o, n) \in 1..paths
           /\ Home[folderOf[Entry(o, n)]] = owner[o]
           /\ n \in was[folderOf[Entry(o, n)]]
<1>1. Registered(o, n) # {}
  BY DEF Entry
<1>2. Entry(o, n) \in Registered(o, n)
  BY <1>1 DEF Entry
<1>. QED  BY <1>2 DEF Registered, FoldersOK

\* A folder's path is found or made, and its store with it.
LEMMA FindFolderGrows ==
    ASSUME NamesOK, StoresOK, FoldersOK, UNCHANGED camel,
           NEW f \in Folders, was[f] # {},
           FindStore(Home[f]), FindFolder(StoreOf(Home[f]), f)
    PROVE  /\ Grown
           /\ PathIn(StoreOf(Home[f]), name[f]) \in 1..paths'
           /\ Home[folderOf'[PathIn(StoreOf(Home[f]), name[f])]] = Home[f]
           /\ name[f] \in was'[folderOf'[PathIn(StoreOf(Home[f]), name[f])]]
<1>. DEFINE o == StoreOf(Home[f])
<1>1. Home[f] \in Services
  BY ServerAssumption
<1>2. StoresOK' /\ StoresGrow /\ o \in 1..objects' /\ owner'[o] = Home[f]
  BY <1>1, FindStoreGrows
<1>3. /\ NamesOK' /\ NamesGrow /\ was' = was
      /\ name[f] \in Names /\ name[f] \in was'[f]
  BY NamesStay DEF NamesOK, camel
<1>. HIDE DEF o
<1>4. CASE Entry(o, name[f]) = 0
  <2>1. NewFolder(o, f, name[f])
    BY <1>4 DEF FindFolder, o
  <2>2. /\ FoldersOK' /\ FoldersGrow
        /\ paths + 1 \in 1..paths' /\ folderOf'[paths + 1] = f
    BY <2>1, <1>2, <1>3, NewFolderGrows
  <2>3. PathIn(o, name[f]) = paths + 1
    BY <1>4 DEF PathIn
  <2>. QED  BY <2>2, <2>3, <1>2, <1>3 DEF Grown, o
<1>5. CASE Entry(o, name[f]) # 0
  <2>. DEFINE p == Entry(o, name[f])
  <2>1. UNCHANGED folders
    BY <1>5 DEF FindFolder, o
  <2>2. FoldersOK' /\ FoldersGrow
    BY <2>1, <1>2, <1>3, FoldersStay
  <2>3. p \in 1..paths /\ Home[folderOf[p]] = owner[o] /\ name[f] \in was[folderOf[p]]
    BY <1>5, EntryIsRight
  <2>4. owner[o] = Home[f]
    <3>1. registrar[p] \in 1..objects /\ registrar[p] = o
      <4>1. p \in Registered(o, name[f])
        BY <1>5 DEF Entry
      <4>. QED  BY <4>1, <2>3 DEF Registered, FoldersOK
    <3>. QED  BY <3>1, <1>2 DEF StoresGrow
  <2>5. PathIn(o, name[f]) = p /\ paths' = paths /\ folderOf' = folderOf
    BY <1>5, <2>1 DEF PathIn, folders
  <2>. HIDE DEF p
  <2>. QED  BY <2>2, <2>3, <2>4, <2>5, <1>2, <1>3 DEF Grown, o
<1>. QED  BY <1>4, <1>5

------------------------------------------------------------------------------
(* One call among the others.                                              *)

\* What holds of a call holds when the tables have grown and another call
\* has moved.
LEMMA KeptStays ==
    ASSUME Inv, Grown, NEW b \in Calls, Kept(b)
    PROVE  Own(b)'
<1>. DEFINE q == call[b]
            r == call'[b]
<1>1. Own(b) /\ Same(r, q) /\ answers'[b] = answers[b]
  BY DEF Inv, Kept
<1>2. Placed(b) => Placed(b)'
  <2>1. ASSUME Placed(b) PROVE owner'[q.via] = owner[q.via] /\ q.via \in 1..objects'
    BY <2>1 DEF Placed, Grown, StoresGrow, StoresOK, Inv
  <2>. QED  BY <2>1, <1>1 DEF Placed, Same
<1>3. Known(b) => Known(b)'
  BY <1>1 DEF Known, Same, Grown, NamesGrow
<1>4. r.path # 0 => /\ r.path \in 1..paths'
                    /\ Home[folderOf'[r.path]] = r.at
                    /\ r.name \in was'[folderOf'[r.path]]
  <2>. SUFFICES ASSUME q.path # 0
                PROVE  /\ q.path \in 1..paths'
                       /\ Home[folderOf'[q.path]] = q.at
                       /\ q.name \in was'[folderOf'[q.path]]
    BY <1>1 DEF Same
  <2>1. /\ q.path \in 1..paths /\ Home[folderOf[q.path]] = q.at
        /\ q.name \in was[folderOf[q.path]]
    BY <1>1 DEF Own
  <2>2. folderOf'[q.path] = folderOf[q.path] /\ folderOf[q.path] \in Folders
    BY <2>1 DEF Grown, FoldersGrow, Inv, FoldersOK
  <2>3. q.path \in 1..paths'
    BY <2>1 DEF Grown, FoldersGrow, Inv, FoldersOK
  <2>. QED  BY <2>1, <2>2, <2>3 DEF Grown, NamesGrow
<1>5. r.kind = "transfer" => r.dest \in 1..paths'
  BY <1>1 DEF Own, Same, Grown, FoldersGrow, Inv, FoldersOK
<1>6. ASSUME r.st = "inserting" PROVE r.name \in was'[r.folder]
  <2>1. q.st = "inserting" /\ q.name \in was[q.folder] /\ q.folder \in Folders
    BY <1>1, <1>6 DEF Own, Same, Known
  <2>. QED  BY <2>1, <1>1 DEF Same, Grown, NamesGrow
<1>. QED  BY <1>1, <1>2, <1>3, <1>4, <1>5, <1>6 DEF Own, Same

\* The calls as the tables' change leaves them.
LEMMA DisturbedCalls ==
    ASSUME call \in [Calls -> CallRecord]
    PROVE  /\ Disturbed \in [Calls -> CallRecord]
           /\ \A b \in Calls : Same(Disturbed[b], call[b])
<1>1. ASSUME NEW b \in Calls
      PROVE  Disturbed[b] \in CallRecord /\ Same(Disturbed[b], call[b])
  <2>1. call[b] \in CallRecord
    OBVIOUS
  <2>2. Disturbed[b] = IF call[b].st = "looking" /\ tables' # tables
                       THEN [call[b] EXCEPT !.found = @ \cup {FALSE}] ELSE call[b]
    BY DEF Disturbed
  <2>3. /\ [call[b] EXCEPT !.found = @ \cup {FALSE}] \in CallRecord
        /\ Same([call[b] EXCEPT !.found = @ \cup {FALSE}], call[b])
    BY <2>1 DEF CallRecord, Same
  <2>4. Same(call[b], call[b])
    BY DEF Same
  <2>5. CASE call[b].st = "looking" /\ tables' # tables
    BY <2>5, <2>2, <2>3
  <2>6. CASE ~(call[b].st = "looking" /\ tables' # tables)
    BY <2>6, <2>1, <2>2, <2>4
  <2>. QED  BY <2>5, <2>6
<1>2. Disturbed = [b \in Calls |-> Disturbed[b]]
  BY DEF Disturbed
<1>. QED  BY <1>1, <1>2

\* One call becomes the record r, the others are kept.
Becomes(c, r) ==
    /\ r \in CallRecord
    /\ \/ call' = [call EXCEPT ![c] = r]
       \/ call' = [Disturbed EXCEPT ![c] = r]

LEMMA BecomesKeeps ==
    ASSUME call \in [Calls -> CallRecord], NEW c \in Calls, NEW r, Becomes(c, r)
    PROVE  /\ call' \in [Calls -> CallRecord] /\ call'[c] = r
           /\ \A b \in Calls \ {c} : Same(call'[b], call[b])
<1>1. CASE call' = [call EXCEPT ![c] = r]
  BY <1>1 DEF Becomes, Same
<1>2. CASE call' = [Disturbed EXCEPT ![c] = r]
  BY <1>2, DisturbedCalls DEF Becomes
<1>. QED  BY <1>1, <1>2 DEF Becomes

\* The step of a call is sound if it is so for the call itself.
LEMMA OneCallMoves ==
    ASSUME Inv, Grown, NEW c \in Calls, NEW r, Becomes(c, r),
           \/ answers' = answers
           \/ Answer(c),
           held' \subseteq 1..objects', made' \subseteq Ops, refs' \in [Ops -> Nat],
           unfreed' \subseteq Calls, crashed' \in BOOLEAN,
           Own(c)'
    PROVE  Inv'
<1>1. /\ call' \in [Calls -> CallRecord]
      /\ \A b \in Calls \ {c} : Same(call'[b], call[b])
  BY BecomesKeeps DEF Inv, RestOK
<1>2. /\ answers' \in [Calls -> Nat]
      /\ \A b \in Calls \ {c} : answers'[b] = answers[b]
  BY DEF Inv, RestOK, Answer
<1>3. ASSUME NEW b \in Calls PROVE Own(b)'
  <2>1. CASE b = c
    BY <2>1
  <2>2. CASE b # c
    <3>1. Kept(b)
      BY <2>2, <1>1, <1>2 DEF Kept
    <3>. QED  BY <3>1, KeptStays
  <2>. QED  BY <2>1, <2>2
<1>. QED  BY <1>1, <1>2, <1>3 DEF Inv, RestOK, Grown

\* The references to an operation are counted in the naturals.
LEMMA DroppedTypes ==
    ASSUME refs \in [Ops -> Nat], NEW k
    PROVE  Dropped(k) \in [Ops -> Nat]
<1>1. CASE k \in Ops
  <2>1. refs[k] > 0 => refs[k] - 1 \in Nat
    BY <1>1
  <2>. QED  BY <2>1 DEF Dropped
<1>2. CASE k \notin Ops
  BY <1>2 DEF Dropped
<1>. QED  BY <1>1, <1>2

LEMMA ReleaseTypes ==
    ASSUME RestOK, NEW c \in Calls, Release(c)
    PROVE  refs' \in [Ops -> Nat] /\ unfreed' \subseteq Calls /\ made' \subseteq Ops
<1>1. Dropped(call[c].op) \in [Ops -> Nat]
  BY DroppedTypes DEF RestOK
<1>2. \/ refs' = Dropped(call[c].op)
      \/ refs' = refs
  BY DEF Release
<1>3. unfreed' \subseteq Calls /\ made' = made
  BY DEF Release, RestOK
<1>. QED  BY <1>1, <1>2, <1>3 DEF RestOK

\* The locks taken are those of store objects, as more of these are made.
LEMMA HeldStays ==
    ASSUME Inv, Grown, held' \subseteq held
    PROVE  held' \subseteq 1..objects'
  BY DEF Inv, StoresOK, RestOK, Grown, StoresGrow

------------------------------------------------------------------------------
(* The handlers.                                                           *)

\* A handler hands its call on, or answers it at once.
Opens(c, r) ==
    /\ Begin(c, r)
    /\ r \in CallRecord
    /\ r.st = "running" /\ r.path = 0 /\ r.result = "none" /\ call[c].st = "unsent"
    /\ r.kind = "open" => /\ r.at \in Services /\ r.via \in 1..objects
                          /\ owner[r.via] = r.at
    /\ r.kind = "uri" => r.at \in Services
    /\ r.kind \in {"search", "sources"} => r.folder \in Folders
    /\ r.kind = "transfer" => r.dest \in 1..paths

Replies(c, r) ==
    /\ AnswerNow(c, r)
    /\ r \in CallRecord
    /\ r.st = "answered" /\ r.kind = "none" /\ call[c].st = "unsent"
    /\ Grown
    /\ r.path # 0 => /\ r.path \in 1..paths'
                     /\ Home[folderOf'[r.path]] = r.at
                     /\ r.name \in was'[folderOf'[r.path]]

LEMMA OpensSound ==
    ASSUME Inv, NEW c \in Calls, NEW r, Opens(c, r)
    PROVE  Inv'
<1>1. /\ call' = [call EXCEPT ![c] = r] /\ Becomes(c, r)
      /\ UNCHANGED <<camel, tables, held, made, unfreed, answers, crashed>>
  BY DEF Opens, Begin, Becomes
<1>2. Grown
  BY <1>1, AllStays DEF Inv
<1>3. call'[c] = r
  BY <1>1 DEF Inv, RestOK
<1>4. refs' \in [Ops -> Nat]
  <2>1. refs' = IF r.op # NoOp /\ r.kind \in AsyncKinds
                THEN [refs EXCEPT ![r.op] = @ + 1] ELSE refs
    BY DEF Opens, Begin
  <2>2. r.op # NoOp => r.op \in Ops
    BY DEF Opens, CallRecord
  <2>. QED  BY <2>1, <2>2 DEF Inv, RestOK
<1>5. Own(c)'
  <2>1. /\ r.kind = "open" => r.via \in 1..objects' /\ owner'[r.via] = r.at
        /\ r.kind = "transfer" => r.dest \in 1..paths'
    BY <1>1 DEF Opens, tables, stores, folders
  <2>2. answers'[c] = 0
    BY <1>1 DEF Opens, Inv, Own
  <2>. QED  BY <2>1, <2>2, <1>3 DEF Own, Opens, Placed
<1>6. held' \subseteq 1..objects'
  BY <1>1, <1>2, HeldStays
<1>. QED  BY <1>1, <1>2, <1>4, <1>5, <1>6, OneCallMoves DEF Inv, RestOK

LEMMA RepliesSound ==
    ASSUME Inv, NEW c \in Calls, NEW r, Replies(c, r)
    PROVE  Inv'
<1>1. /\ Becomes(c, r) /\ Answer(c) /\ Grown
      /\ UNCHANGED <<camel, held, ops, crashed>>
  BY DEF Replies, AnswerNow, Becomes
<1>2. call'[c] = r
  BY <1>1, BecomesKeeps DEF Inv, RestOK
<1>3. answers'[c] = 1
  BY <1>1 DEF Replies, Answer, Inv, Own, RestOK
<1>4. Own(c)'
  BY <1>2, <1>3 DEF Own, Replies
<1>5. held' \subseteq 1..objects'
  BY <1>1, HeldStays
<1>. QED  BY <1>1, <1>4, <1>5, OneCallMoves DEF Inv, RestOK, ops

LEMMA CreateSound ==
    ASSUME Inv, NEW c \in Calls, call[c].st = "unsent",
           NEW k \in Ops, CreateMailOperation(c, k)
    PROVE  Inv'
<1>1. /\ call' = [call EXCEPT ![c] = Told] /\ Answer(c)
      /\ made' = made \cup {k} /\ refs' = [refs EXCEPT ![k] = 1]
      /\ UNCHANGED <<camel, tables, held, unfreed, crashed>>
  BY DEF CreateMailOperation
<1>2. Told.st = "answered" /\ Told.kind = "none" /\ Told.path = 0 /\ Told \in CallRecord
  BY DEF Told, Unsent, CallRecord, Kinds
<1>3. Becomes(c, Told) /\ call'[c] = Told
  BY <1>1, <1>2 DEF Becomes, Inv, RestOK
<1>4. Grown
  BY <1>1, AllStays DEF Inv
<1>5. answers'[c] = 1
  BY <1>1 DEF Answer, Inv, Own, RestOK
<1>6. Own(c)'
  BY <1>2, <1>3, <1>5 DEF Own
<1>7. held' \subseteq 1..objects'
  BY <1>1, <1>4, HeldStays
<1>. QED  BY <1>1, <1>3, <1>4, <1>6, <1>7, OneCallMoves DEF Inv, RestOK

\* Nothing happens but a crash.
LEMMA CrashSound ==
    ASSUME Inv, crashed' = TRUE,
           UNCHANGED <<camel, tables, held, ops, call, answers>>
    PROVE  Inv'
<1>1. UNCHANGED <<name, there, was, objects, owner, datastores, paths, folderOf,
                  registrar, keyOf, datafolders, held, made, refs, unfreed, call,
                  answers>>
  BY DEF camel, tables, stores, folders, ops
<1>2. NamesOK' /\ StoresOK'
  BY <1>1 DEF Inv, NamesOK, StoresOK
<1>3. FoldersOK'
  BY <1>1 DEF Inv, FoldersOK, ParentStoreIsKnown
<1>4. RestOK'
  BY <1>1 DEF Inv, RestOK
<1>5. ASSUME NEW c \in Calls PROVE Own(c)'
  BY <1>1 DEF Inv, Own, Placed, Known
<1>. QED  BY <1>2, <1>3, <1>4, <1>5 DEF Inv

\* The handlers of the session.
LEMMA SessionShapes ==
    ASSUME Inv, NEW c \in Calls, Arrives(c), SessionCall(c)
    PROVE  \/ \E r : Opens(c, r) \/ Replies(c, r)
           \/ \E k \in Ops : CreateMailOperation(c, k)
           \/ Crash(c)
<1>. USE DEF Inv
<1>a. call[c].st = "unsent"
  BY DEF Arrives
<1>b. Told.st = "answered" /\ Told.kind = "none" /\ Told.path = 0 /\ Told \in CallRecord
  BY DEF Told, Unsent, CallRecord, Kinds
<1>1. ASSUME NEW s \in Services, ProcessService(c, s)
      PROVE  Replies(c, Told)
  <2>1. /\ NewStore(s) /\ UNCHANGED folders /\ AnswerNow(c, Told) /\ UNCHANGED camel
    BY <1>1 DEF ProcessService, AnswerNow
  <2>2. Grown
    BY <2>1, NamesStay, NewStoreGrows, FoldersStay DEF Grown
  <2>. QED  BY <2>1, <2>2, <1>a, <1>b DEF Replies
<1>2. ASSUME ListServices(c)
      PROVE  Replies(c, Told)
  <2>1. AnswerNow(c, Told) /\ UNCHANGED folders /\ UNCHANGED camel
    BY <1>2 DEF ListServices, AnswerNow
  <2>2. Grown
    BY <1>2, <2>1, NamesStay, ListServicesGrows, FoldersStay DEF Grown
  <2>. QED  BY <2>1, <2>2, <1>a, <1>b DEF Replies
<1>3. ASSUME RemoveService(c)
      PROVE  Replies(c, Told)
  <2>1. AnswerNow(c, Told) /\ UNCHANGED <<camel, tables>>
    BY <1>3 DEF RemoveService, AnswerNow
  <2>. QED  BY <2>1, AllStays, <1>a, <1>b DEF Replies
<1>4. ASSUME NEW s \in SharedStores, GetSharedStore(c, s)
      PROVE  Replies(c, Told)
  <2>1. /\ s \in Services /\ FindStore(s) /\ UNCHANGED folders
        /\ AnswerNow(c, Told) /\ UNCHANGED camel
    BY <1>4, ServerAssumption DEF GetSharedStore, AnswerNow
  <2>2. Grown
    BY <2>1, NamesStay, FindStoreGrows, FoldersStay DEF Grown
  <2>. QED  BY <2>1, <2>2, <1>a, <1>b DEF Replies
<1>5. ASSUME NEW f \in Folders, GetLocalFolder(c, f)
      PROVE  \E r : Replies(c, r)
  <2>. DEFINE p == PathIn(StoreOf(Home[f]), name[f])
              r == [Told EXCEPT !.name = name[f], !.at = Home[f], !.folder = f, !.path = p]
  <2>1. /\ FindStore(Home[f]) /\ FindFolder(StoreOf(Home[f]), f)
        /\ AnswerNow(c, r) /\ UNCHANGED camel /\ f \notin Late \cup SearchFolders
    BY <1>5 DEF GetLocalFolder, AnswerNow
  <2>2. was[f] # {} /\ name[f] \in Names /\ Home[f] \in Services
    BY <2>1, ServerAssumption DEF NamesOK
  <2>3. /\ Grown /\ p \in 1..paths' /\ Home[folderOf'[p]] = Home[f]
        /\ name[f] \in was'[folderOf'[p]]
    BY <2>1, <2>2, FindFolderGrows
  <2>. HIDE DEF p
  <2>4. p \in Nat
    BY <2>3 DEF Grown, FoldersOK
  <2>5. /\ r \in CallRecord /\ r.st = "answered" /\ r.kind = "none" /\ r.path = p
        /\ r.at = Home[f] /\ r.name = name[f]
    BY <2>2, <2>4, <1>b DEF CallRecord
  <2>. HIDE DEF r
  <2>6. Replies(c, r)
    BY <2>1, <2>3, <2>5, <1>a DEF Replies
  <2>. QED  BY <2>6
<1>6. ASSUME NEW s \in Services, NEW n \in Names, NEW k \in Ops \cup {NoOp},
             GetFolderFromUri(c, s, n, k)
      PROVE  \E r : Opens(c, r)
  <2>1. Opens(c, [Asked("uri", k) EXCEPT !.name = n, !.at = s])
    BY <1>6, <1>a DEF GetFolderFromUri, Opens, Asked, Unsent, CallRecord, Kinds
  <2>. QED  BY <2>1
<1>7. ASSUME NEW k \in Ops \cup {NoOp}, AccountSearch(c, k) \/ AllAccountSearch(c, k)
      PROVE  \E r : Opens(c, r)
  <2>1. PICK kind \in {"search", "sources"} : SearchCall(c, kind, k)
    BY <1>7 DEF AccountSearch, AllAccountSearch
  <2>. DEFINE f == CHOOSE f \in Unmade : TRUE
  <2>2. f \in Folders
    <3>1. f \in Unmade
      BY <2>1 DEF SearchCall
    <3>. QED  BY <3>1, ServerAssumption DEF Unmade
  <2>3. Begin(c, [Asked(kind, k) EXCEPT !.folder = f])
    BY <2>1 DEF SearchCall
  <2>. HIDE DEF f
  <2>4. Opens(c, [Asked(kind, k) EXCEPT !.folder = f])
    BY <2>2, <2>3, <1>a DEF Opens, Asked, Unsent, CallRecord, Kinds
  <2>. QED  BY <2>4
<1>8. ASSUME NEW k \in Ops \cup {NoOp}, FetchAccountMessages(c, k)
      PROVE  (\E r : Opens(c, r)) \/ Crash(c)
  <2>1. CASE Begin(c, Asked("async", k))
    <3>1. Opens(c, Asked("async", k))
      BY <2>1, <1>a DEF Opens, Asked, Unsent, CallRecord, Kinds
    <3>. QED  BY <3>1
  <2>2. CASE Begin(c, Asked("unanswered", k))
    <3>1. Opens(c, Asked("unanswered", k))
      BY <2>2, <1>a DEF Opens, Asked, Unsent, CallRecord, Kinds
    <3>. QED  BY <3>1
  <2>. QED  BY <1>8, <2>1, <2>2 DEF FetchAccountMessages
<1>. QED
  BY <1>1, <1>2, <1>3, <1>4, <1>5, <1>6, <1>7, <1>8
  DEF SessionCall, GetService, GetServiceByUrl, AddService

\* The handlers of a store object and of a folder object.
LEMMA ObjectShapes ==
    ASSUME Inv, NEW c \in Calls, Arrives(c), StoreCall(c) \/ FolderCall(c)
    PROVE  (\E r : Opens(c, r) \/ Replies(c, r)) \/ Crash(c)
<1>. USE DEF Inv
<1>a. call[c].st = "unsent"
  BY DEF Arrives
<1>b. Told.st = "answered" /\ Told.kind = "none" /\ Told.path = 0 /\ Told \in CallRecord
  BY DEF Told, Unsent, CallRecord, Kinds
<1>1. ASSUME UNCHANGED tables, AnswerNow(c, Told)
      PROVE  \E r : Replies(c, r)
  <2>1. UNCHANGED <<camel, tables>>
    BY <1>1 DEF AnswerNow
  <2>2. Replies(c, Told)
    BY <1>1, <2>1, AllStays, <1>a, <1>b DEF Replies
  <2>. QED  BY <2>2
<1>2. ASSUME NEW k \in Ops \cup {NoOp}, Plain(c, k) \/ Pooled(c, k)
      PROVE  \E r : Opens(c, r)
  <2>1. Opens(c, Asked("async", k)) \/ Opens(c, Asked("pooled", k))
    BY <1>2, <1>a DEF Plain, Pooled, Opens, Asked, Unsent, CallRecord, Kinds
  <2>. QED  BY <2>1
<1>3. ASSUME NEW o \in 1..objects, NEW k \in Ops \cup {NoOp},
             NEW kind \in {"create", "delete", "rename"},
             Begin(c, [Asked(kind, k) EXCEPT !.at = owner[o]])
      PROVE  \E r : Opens(c, r)
  <2>1. owner[o] \in Services
    BY DEF StoresOK
  <2>2. Opens(c, [Asked(kind, k) EXCEPT !.at = owner[o]])
    BY <1>3, <2>1, <1>a DEF Opens, Asked, Unsent, CallRecord, Kinds
  <2>. QED  BY <2>2
<1>4. ASSUME NEW o \in 1..objects, NEW n \in Names, NEW k \in Ops \cup {NoOp},
             GetFolder(c, o, n, k) \/ GetSpecialFolder(c, o, n, k)
      PROVE  (\E r : Opens(c, r) \/ Replies(c, r)) \/ Crash(c)
  <2>. DEFINE p == Entry(o, n)
  <2>a. owner[o] \in Services /\ o \in Nat
    BY DEF StoresOK
  <2>1. CASE Begin(c, [Asked("open", k) EXCEPT !.name = n, !.at = owner[o], !.via = o])
    <3>1. Opens(c, [Asked("open", k) EXCEPT !.name = n, !.at = owner[o], !.via = o])
      BY <2>1, <2>a, <1>a DEF Opens, Asked, Unsent, CallRecord, Kinds
    <3>. QED  BY <3>1
  <2>2. CASE /\ p # 0 /\ UNCHANGED tables
             /\ AnswerNow(c, [Told EXCEPT !.name = n, !.at = owner[o], !.path = p])
    <3>. DEFINE r == [Told EXCEPT !.name = n, !.at = owner[o], !.path = p]
    <3>1. /\ p \in 1..paths /\ Home[folderOf[p]] = owner[o]
          /\ n \in was[folderOf[p]]
      BY <2>2, EntryIsRight
    <3>2. UNCHANGED <<camel, tables>> /\ AnswerNow(c, r)
      BY <2>2 DEF AnswerNow
    <3>3. Grown /\ paths' = paths /\ folderOf' = folderOf /\ was' = was
      BY <3>2, AllStays DEF tables, folders, camel
    <3>. HIDE DEF p
    <3>4. p \in Nat
      BY <3>1 DEF FoldersOK
    <3>5. /\ r \in CallRecord /\ r.st = "answered" /\ r.kind = "none" /\ r.path = p
          /\ r.at = owner[o] /\ r.name = n
      BY <3>4, <2>a, <1>b DEF CallRecord
    <3>. HIDE DEF r
    <3>6. Replies(c, r)
      BY <3>1, <3>2, <3>3, <3>5, <1>a DEF Replies
    <3>. QED  BY <3>6
  <2>. QED  BY <1>4, <2>1, <2>2 DEF GetFolder, GetSpecialFolder
<1>5. ASSUME NEW d \in 1..paths, NEW k \in Ops \cup {NoOp}, TransferMessagesTo(c, d, k)
      PROVE  \E r : Opens(c, r)
  <2>1. d \in Nat
    BY DEF FoldersOK
  <2>2. Opens(c, [Asked("transfer", k) EXCEPT !.dest = d])
    BY <1>5, <2>1, <1>a DEF TransferMessagesTo, Opens, Asked, Unsent, CallRecord, Kinds
  <2>. QED  BY <2>2
<1>6. CASE StoreCall(c)
  BY <1>6, <1>1, <1>2, <1>3, <1>4
  DEF StoreCall, StoreProperty, GetFolderInfo, CreateFolder, DeleteFolder,
      RenameFolder, SyncStore, Noop, ChangeSubscription, GetAuthTypes, SearchBySql
<1>7. CASE FolderCall(c)
  BY <1>7, <1>1, <1>2, <1>5
  DEF FolderCall, RefreshInfo, FolderProperty, GetUids, GetParentStore,
      GetMessageInfo, Sync, SyncMessage, Expunge, FetchMessages, GetQuotaInfo,
      GetPermanentFlags, HasCapability, MessageFlags, MessageUserFlag,
      MessageUserTag, GetMessage, SearchByExpression, SearchSortByExpression,
      SearchByUids, PrepareSummary, FreezeOrThaw, AppendMessage
<1>. QED  BY <1>6, <1>7

------------------------------------------------------------------------------
(* The threads and the done functions.                                     *)

\* Work that ends, with a folder of the right service if it was to open one.
LEMMA FinishSound ==
    ASSUME Inv, NEW c \in Calls, call[c].st = "running",
           NEW f \in Folders \cup {Nothing}, NEW result \in {"ok", "failed"},
           Finish(c, f, result), NamesOK', NamesGrow,
           call[c].kind \notin {"search", "sources", "transfer"},
           call[c].kind \in {"open", "uri"} /\ result = "ok" =>
              f \in Folders /\ Home[f] = call[c].at /\ was[f] # {}
    PROVE  Inv'
<1>. DEFINE r == [call[c] EXCEPT !.st = "finished", !.folder = f, !.result = result]
<1>1. call[c] \in CallRecord /\ call \in [Calls -> CallRecord]
  BY DEF Inv, RestOK
<1>2. call' = [call EXCEPT ![c] = r]
  BY <1>1 DEF Finish, CallRecord
<1>3. /\ r \in CallRecord /\ r.st = "finished" /\ r.folder = f /\ r.result = result
      /\ r.kind = call[c].kind /\ r.name = call[c].name /\ r.at = call[c].at
      /\ r.via = call[c].via /\ r.path = call[c].path
  BY <1>1 DEF CallRecord
<1>. HIDE DEF r
<1>4. Becomes(c, r) /\ call'[c] = r /\ UNCHANGED <<tables, held, ops, answers, crashed>>
  BY <1>1, <1>2, <1>3 DEF Becomes, Finish
<1>5. Grown
  BY <1>4, TablesStay DEF Inv
<1>6. Own(c)'
  <2>1. Own(c) /\ answers'[c] = answers[c] /\ objects' = objects /\ owner' = owner
    BY <1>4 DEF Inv, tables, stores
  <2>2. r.kind = "open" => r.at \in Services /\ r.via \in 1..objects' /\ owner'[r.via] = r.at
    BY <1>3, <2>1 DEF Own, Placed
  <2>3. r.kind \in {"open", "uri"} /\ r.result = "ok" =>
           /\ r.folder \in Folders /\ Home[r.folder] = r.at /\ was'[r.folder] # {}
    BY <1>3 DEF NamesGrow
  <2>4. r.path = 0 /\ answers'[c] = 0
    BY <1>3, <2>1 DEF Own
  <2>. QED  BY <2>1, <2>2, <2>3, <2>4, <1>3, <1>4 DEF Own, Placed, Known
<1>7. held' \subseteq 1..objects'
  BY <1>4, <1>5, HeldStays
<1>. QED  BY <1>4, <1>5, <1>6, <1>7, OneCallMoves DEF Inv, RestOK, ops

LEMMA CamelSound ==
    ASSUME Inv, NEW c \in Calls,
           \/ WorkFails(c) \/ Work(c) \/ OpenWork(c)
           \/ CreateWork(c) \/ DeleteWork(c) \/ RenameWork(c)
    PROVE  Inv'
<1>. USE DEF Inv
<1>1. CASE WorkFails(c) \/ Work(c)
  <2>1. NamesOK' /\ NamesGrow
    BY <1>1, NamesStay DEF WorkFails, Work
  <2>2. /\ call[c].st = "running" /\ call[c].kind \notin {"search", "sources", "transfer"}
        /\ \/ Finish(c, Nothing, "failed")
           \/ Finish(c, Nothing, "ok") /\ call[c].kind \notin {"open", "uri"}
    BY <1>1 DEF WorkFails, Work, AsyncKinds
  <2>3. CASE Finish(c, Nothing, "failed")
    BY <2>1, <2>2, <2>3, FinishSound
  <2>4. CASE Finish(c, Nothing, "ok") /\ call[c].kind \notin {"open", "uri"}
    BY <2>1, <2>2, <2>4, FinishSound
  <2>. QED  BY <2>2, <2>3, <2>4
<1>2. CASE OpenWork(c)
  <2>1. NamesOK' /\ NamesGrow
    BY <1>2, NamesStay DEF OpenWork
  <2>2. PICK f \in Holders(call[c].at, call[c].name) : Finish(c, f, "ok")
    BY <1>2 DEF OpenWork
  <2>3. f \in Folders /\ Home[f] = call[c].at /\ was[f] # {}
    BY DEF Holders, NamesOK
  <2>. QED  BY <1>2, <2>1, <2>2, <2>3, FinishSound DEF OpenWork
<1>3. CASE CreateWork(c) \/ DeleteWork(c) \/ RenameWork(c)
  <2>1. NamesOK' /\ NamesGrow
    <3>1. CASE CreateWork(c)
      <4>1. PICK f \in Late, n \in Names :
               /\ was[f] = {}
               /\ name' = [name EXCEPT ![f] = n]
               /\ there' = there \cup {f}
               /\ was' = [was EXCEPT ![f] = {n}]
        BY <3>1 DEF CreateWork
      <4>2. f \in Folders /\ n \in Names
        BY <4>1, ServerAssumption
      <4>. QED  BY <4>1, <4>2 DEF NamesOK, NamesGrow
    <3>2. CASE DeleteWork(c)
      BY <3>2 DEF DeleteWork, NamesOK, NamesGrow
    <3>3. CASE RenameWork(c)
      <4>1. PICK f \in there, n \in Names :
               /\ name' = [name EXCEPT ![f] = n]
               /\ was' = [was EXCEPT ![f] = @ \cup {n}]
        BY <3>3 DEF RenameWork
      <4>2. there' = there /\ f \in Folders /\ n \in Names
        BY <3>3, <4>1 DEF RenameWork, NamesOK
      <4>. QED  BY <4>1, <4>2 DEF NamesOK, NamesGrow
    <3>. QED  BY <1>3, <3>1, <3>2, <3>3
  <2>2. /\ call[c].st = "running" /\ call[c].kind \in {"create", "delete", "rename"}
        /\ Finish(c, Nothing, "ok")
    BY <1>3 DEF CreateWork, DeleteWork, RenameWork
  <2>. QED  BY <2>1, <2>2, FinishSound
<1>. QED  BY <1>1, <1>2, <1>3

\* A transfer looks for its destination.
LEMMA TransferSound ==
    ASSUME Inv, NEW c \in Calls, LookUp(c) \/ TransferWork(c)
    PROVE  Inv'
<1>1. call[c] \in CallRecord /\ call \in [Calls -> CallRecord] /\ Own(c)
  BY DEF Inv, RestOK
<1>2. /\ call[c].st # "answered" /\ call[c].kind = "transfer"
      /\ UNCHANGED <<camel, tables, held, ops, answers, crashed>>
  BY <1>1 DEF LookUp, TransferWork, Own
<1>3. PICK r \in CallRecord :
         /\ call' = [call EXCEPT ![c] = r]
         /\ r.st \in {"looking", "finished"} /\ r.kind = "transfer"
         /\ r.path = call[c].path /\ r.dest = call[c].dest
  <2>1. CASE LookUp(c)
    <3>. DEFINE found == {Resolvable(call[c].dest)}
                r == [call[c] EXCEPT !.st = "looking", !.found = found]
    <3>1. found \in SUBSET BOOLEAN
      BY DEF Resolvable
    <3>2. call' = [call EXCEPT ![c].st = "looking", ![c].found = found]
      BY <2>1 DEF LookUp
    <3>. HIDE DEF found
    <3>3. /\ r \in CallRecord /\ r.st = "looking" /\ r.kind = call[c].kind
          /\ r.path = call[c].path /\ r.dest = call[c].dest
      BY <3>1, <1>1 DEF CallRecord
    <3>4. call' = [call EXCEPT ![c] = r]
      BY <3>2, <1>1 DEF CallRecord
    <3>. HIDE DEF r
    <3>. QED  BY <3>3, <3>4, <1>2
  <2>2. CASE TransferWork(c)
    <3>1. PICK found \in call[c].found, result \in {"ok", "failed"} :
             call' = [call EXCEPT ![c].st = "finished", ![c].result = result,
                ![c].found = {},
                ![c].into = IF found /\ result = "ok" THEN folderOf[call[c].dest]
                                                      ELSE Nothing]
      BY <2>2 DEF TransferWork
    <3>2. folderOf[call[c].dest] \in Folders
      BY <1>1, <1>2 DEF Inv, Own, FoldersOK
    <3>. DEFINE into == IF found /\ result = "ok" THEN folderOf[call[c].dest] ELSE Nothing
                r == [call[c] EXCEPT !.st = "finished", !.result = result,
                                     !.found = {}, !.into = into]
    <3>3. into \in Folders \cup {Nothing}
      BY <3>2
    <3>4. call' = [call EXCEPT ![c].st = "finished", ![c].result = result,
                               ![c].found = {}, ![c].into = into]
      BY <3>1
    <3>. HIDE DEF into
    <3>5. /\ r \in CallRecord /\ r.st = "finished" /\ r.kind = call[c].kind
          /\ r.path = call[c].path /\ r.dest = call[c].dest
      BY <3>3, <1>1 DEF CallRecord
    <3>6. call' = [call EXCEPT ![c] = r]
      BY <3>4, <1>1 DEF CallRecord
    <3>. HIDE DEF r
    <3>. QED  BY <3>5, <3>6, <1>2
  <2>. QED  BY <2>1, <2>2
<1>4. Becomes(c, r) /\ call'[c] = r
  BY <1>1, <1>3 DEF Becomes
<1>5. Grown /\ held' \subseteq 1..objects'
  BY <1>2, AllStays, HeldStays DEF Inv
<1>6. Own(c)'
  BY <1>1, <1>2, <1>3, <1>4 DEF Own, tables, folders
<1>. QED  BY <1>2, <1>4, <1>5, <1>6, OneCallMoves DEF Inv, RestOK, ops

\* The steps of a search.
LEMMA SearchSound ==
    ASSUME Inv, NEW c \in Calls,
           SearchStore(c) \/ SearchFinds(c) \/ SearchInserts(c) \/ SearchRegisters(c)
    PROVE  Inv'
<1>1. call[c] \in CallRecord /\ call \in [Calls -> CallRecord] /\ Own(c)
      /\ NamesOK /\ StoresOK /\ FoldersOK /\ RestOK
  BY DEF Inv, RestOK
<1>2. CASE SearchStore(c)
  <2>1. PICK f \in {call[c].folder} \cup (IF call[c].kind = "sources" THEN there ELSE {}) :
           /\ FindStore(Home[f])
           /\ call' = [Disturbed EXCEPT ![c].st = "stored", ![c].folder = f,
                          ![c].at = Home[f], ![c].via = StoreOf(Home[f])]
    BY <1>2 DEF SearchStore
  <2>. DEFINE g == call[c].folder
  <2>2. /\ call[c].st = "running" /\ call[c].kind \in {"search", "sources"}
        /\ was' = [was EXCEPT ![g] = @ \cup {name[g]}]
        /\ UNCHANGED <<name, there, folders, held, ops, answers, crashed>>
    BY <1>2 DEF SearchStore
  <2>3. g \in Folders /\ f \in Folders /\ Home[f] \in Services
    <3>1. g \in Folders /\ f \in Folders
      BY <2>1, <2>2, <1>1 DEF Own, NamesOK
    <3>. QED  BY <3>1, ServerAssumption
  <2>. HIDE DEF g
  <2>4. NamesOK' /\ NamesGrow /\ was'[g] # {}
    BY <2>2, <2>3, <1>1 DEF NamesOK, NamesGrow
  <2>5. was'[f] # {}
    BY <2>1, <2>4, <1>1, <2>3 DEF NamesOK, NamesGrow, g
  <2>6. StoresOK' /\ StoresGrow /\ StoreOf(Home[f]) \in 1..objects'
        /\ owner'[StoreOf(Home[f])] = Home[f]
    BY <2>1, <2>3, <1>1, FindStoreGrows
  <2>7. Grown
    BY <2>2, <2>4, <2>6, <1>1, FoldersStay DEF Grown
  <2>. DEFINE o == StoreOf(Home[f])
              d == Disturbed[c]
              r == [d EXCEPT !.st = "stored", !.folder = f, !.at = Home[f], !.via = o]
  <2>8. o \in Nat
    BY <2>6 DEF StoresOK
  <2>9. /\ Disturbed \in [Calls -> CallRecord]
        /\ d \in CallRecord /\ d.kind = call[c].kind /\ d.path = call[c].path
    BY <1>1, DisturbedCalls DEF Same
  <2>10. call' = [Disturbed EXCEPT ![c].st = "stored", ![c].folder = f,
                          ![c].at = Home[f], ![c].via = o]
    BY <2>1
  <2>. HIDE DEF o, d
  <2>11. call' = [Disturbed EXCEPT ![c] = r]
    BY <2>9, <2>10 DEF d, CallRecord
  <2>12. /\ r \in CallRecord /\ r.st = "stored" /\ r.folder = f /\ r.at = Home[f]
         /\ r.via = o /\ r.kind = d.kind /\ r.path = d.path
    BY <2>3, <2>8, <2>9 DEF CallRecord
  <2>. HIDE DEF r
  <2>13. Becomes(c, r) /\ call'[c] = r
    BY <2>9, <2>11, <2>12 DEF Becomes
  <2>14. Own(c)'
    <3>1. answers'[c] = 0 /\ call[c].path = 0
      BY <2>2, <1>1 DEF Own
    <3>2. Placed(c)' /\ Known(c)'
      BY <2>3, <2>5, <2>6, <2>12, <2>13 DEF Placed, Known, o
    <3>. QED  BY <3>1, <3>2, <2>2, <2>3, <2>9, <2>12, <2>13 DEF Own
  <2>15. held' \subseteq 1..objects'
    BY <2>2, <2>7, HeldStays
  <2>. QED  BY <2>2, <2>7, <2>13, <2>14, <2>15, OneCallMoves DEF Inv, RestOK, ops
<1>3. CASE SearchFinds(c)
  <2>. DEFINE o == call[c].via
              n == name[call[c].folder]
              p == Entry(o, n)
              r == [call[c] EXCEPT !.st = "answered", !.result = "ok", !.name = n,
                                   !.path = p]
  <2>1. /\ call[c].st = "stored" /\ p # 0 /\ Answer(c) /\ Release(c)
        /\ UNCHANGED <<camel, tables, held, crashed>>
        /\ call' = [call EXCEPT ![c].st = "answered", ![c].result = "ok",
                                ![c].name = n, ![c].path = p]
    BY <1>3 DEF SearchFinds
  <2>2. Placed(c) /\ Known(c) /\ call[c].kind \in {"search", "sources"} /\ answers[c] = 0
    BY <2>1, <1>1 DEF Own
  <2>3. /\ p \in 1..paths /\ Home[folderOf[p]] = owner[o] /\ n \in was[folderOf[p]]
    BY <2>1, <1>1, EntryIsRight
  <2>4. n \in Names
    BY <2>2, <1>1 DEF Known, NamesOK
  <2>. HIDE DEF n, p
  <2>5. p \in Nat
    BY <2>3, <1>1 DEF FoldersOK
  <2>6. call' = [call EXCEPT ![c] = r]
    BY <2>1, <1>1 DEF CallRecord
  <2>7. /\ r \in CallRecord /\ r.st = "answered" /\ r.kind = call[c].kind
        /\ r.at = call[c].at /\ r.folder = call[c].folder /\ r.name = n /\ r.path = p
    BY <2>4, <2>5, <1>1 DEF CallRecord
  <2>. HIDE DEF r
  <2>8. Becomes(c, r) /\ call'[c] = r
    BY <2>6, <2>7, <1>1 DEF Becomes
  <2>9. Grown /\ held' \subseteq 1..objects'
    BY <2>1, <1>1, AllStays, HeldStays
  <2>10. answers'[c] = 1
    BY <2>1, <2>2, <1>1 DEF Answer, RestOK
  <2>11. UNCHANGED <<paths, folderOf, was, owner, objects>>
    BY <2>1 DEF tables, folders, stores, camel
  <2>12. Own(c)'
    BY <2>2, <2>3, <2>7, <2>8, <2>10, <2>11 DEF Own, Placed, Known
  <2>. QED
    BY <2>1, <2>8, <2>9, <2>12, <1>1, ReleaseTypes, OneCallMoves DEF RestOK
<1>4. CASE SearchInserts(c)
  <2>. DEFINE n == name[call[c].folder]
              r == [call[c] EXCEPT !.st = "inserting", !.name = n]
  <2>1. /\ call[c].st = "stored" /\ held' = held \cup {call[c].via}
        /\ UNCHANGED <<camel, tables, ops, answers, crashed>>
        /\ call' = [call EXCEPT ![c].st = "inserting", ![c].name = n]
    BY <1>4 DEF SearchInserts
  <2>2. /\ Placed(c) /\ Known(c) /\ call[c].kind \in {"search", "sources"}
        /\ answers[c] = 0 /\ call[c].path = 0
    BY <2>1, <1>1 DEF Own
  <2>3. n \in Names /\ n \in was[call[c].folder]
    BY <2>2, <1>1 DEF Known, NamesOK
  <2>. HIDE DEF n
  <2>4. call' = [call EXCEPT ![c] = r]
    BY <2>1, <1>1 DEF CallRecord
  <2>5. /\ r \in CallRecord /\ r.st = "inserting" /\ r.kind = call[c].kind
        /\ r.at = call[c].at /\ r.folder = call[c].folder /\ r.via = call[c].via
        /\ r.name = n /\ r.path = 0
    BY <2>2, <2>3, <1>1 DEF CallRecord
  <2>. HIDE DEF r
  <2>6. Becomes(c, r) /\ call'[c] = r
    BY <2>4, <2>5, <1>1 DEF Becomes
  <2>7. Grown
    BY <2>1, <1>1, AllStays
  <2>8. UNCHANGED <<paths, folderOf, was, owner, objects>>
    BY <2>1 DEF tables, folders, stores, camel
  <2>9. held' \subseteq 1..objects'
    BY <2>1, <2>2, <2>8, <1>1 DEF Placed, RestOK
  <2>10. Own(c)'
    BY <2>1, <2>2, <2>3, <2>5, <2>6, <2>8 DEF Own, Placed, Known
  <2>. QED
    BY <2>1, <2>6, <2>7, <2>9, <2>10, <1>1, OneCallMoves DEF RestOK, ops
<1>5. CASE SearchRegisters(c)
  <2>. DEFINE d == Disturbed[c]
              r == [d EXCEPT !.st = "answered", !.result = "ok", !.path = paths + 1]
  <2>1. /\ call[c].st = "inserting" /\ held' = held \ {call[c].via}
        /\ NewFolder(call[c].via, call[c].folder, call[c].name)
        /\ Answer(c) /\ Release(c) /\ UNCHANGED <<camel, stores, crashed>>
        /\ call' = [Disturbed EXCEPT ![c].st = "answered", ![c].result = "ok",
                                     ![c].path = paths + 1]
    BY <1>5 DEF SearchRegisters
  <2>2. /\ Placed(c) /\ Known(c) /\ call[c].kind \in {"search", "sources"}
        /\ answers[c] = 0 /\ call[c].name \in was[call[c].folder]
    BY <2>1, <1>1 DEF Own
  <2>3. /\ NamesOK' /\ NamesGrow /\ StoresOK' /\ StoresGrow
        /\ was' = was /\ owner' = owner /\ objects' = objects
    BY <2>1, <1>1, NamesStay, StoresStay DEF camel, stores
  <2>4. call[c].name \in Names
    BY <2>2, <1>1 DEF Known, NamesOK
  <2>5. /\ FoldersOK' /\ FoldersGrow
        /\ paths + 1 \in 1..paths' /\ folderOf'[paths + 1] = call[c].folder
    <3>1. call[c].folder \in Folders /\ call[c].via \in 1..objects'
          /\ owner'[call[c].via] = Home[call[c].folder]
          /\ call[c].name \in was'[call[c].folder]
      BY <2>2, <2>3 DEF Placed, Known
    <3>. QED  BY <3>1, <2>1, <2>3, <2>4, <1>1, NewFolderGrows
  <2>6. Grown /\ held' \subseteq 1..objects'
    <3>1. Grown
      BY <2>3, <2>5 DEF Grown
    <3>. QED  BY <3>1, <2>1, HeldStays
  <2>7. /\ Disturbed \in [Calls -> CallRecord] /\ d \in CallRecord /\ Same(d, call[c])
        /\ paths \in Nat
    BY <1>1, DisturbedCalls DEF FoldersOK
  <2>8. call' = [Disturbed EXCEPT ![c] = r]
    BY <2>1, <2>7 DEF CallRecord
  <2>. HIDE DEF d
  <2>9. /\ r \in CallRecord /\ r.st = "answered" /\ r.kind = d.kind /\ r.at = d.at
        /\ r.folder = d.folder /\ r.name = d.name /\ r.path = paths + 1
    <3>. HIDE DEF r
    <3>1. r = [[[d EXCEPT !.st = "answered"] EXCEPT !.result = "ok"] EXCEPT !.path = paths + 1]
      BY DEF r
    <3>. DEFINE e == [[d EXCEPT !.st = "answered"] EXCEPT !.result = "ok"]
    <3>2. /\ e \in CallRecord /\ e.st = "answered" /\ e.kind = d.kind /\ e.at = d.at
          /\ e.folder = d.folder /\ e.name = d.name
      BY <2>7 DEF CallRecord
    <3>. HIDE DEF e
    <3>3. r = [e EXCEPT !.path = paths + 1]
      BY <3>1 DEF e
    <3>. QED  BY <2>7, <3>2, <3>3 DEF CallRecord
  <2>. HIDE DEF r
  <2>10. Becomes(c, r) /\ call'[c] = r
    BY <2>7, <2>8, <2>9 DEF Becomes
  <2>11. answers'[c] = 1
    BY <2>1, <2>2, <1>1 DEF Answer, RestOK
  <2>12. Own(c)'
    BY <2>2, <2>3, <2>5, <2>7, <2>9, <2>10, <2>11 DEF Own, Placed, Known, Same
  <2>. QED
    BY <2>1, <2>6, <2>10, <2>12, <1>1, ReleaseTypes, OneCallMoves DEF RestOK
<1>. QED  BY <1>2, <1>3, <1>4, <1>5

\* An answer that leaves the tables as they are.
LEMMA DoneSound ==
    ASSUME Inv, NEW c \in Calls, Done(c)
    PROVE  Inv'
<1>. DEFINE r == [call[c] EXCEPT !.st = "answered"]
<1>1. call[c] \in CallRecord /\ call \in [Calls -> CallRecord] /\ Own(c) /\ RestOK
  BY DEF Inv, RestOK
<1>2. /\ call[c].st = "finished" /\ call' = [call EXCEPT ![c].st = "answered"]
      /\ held' \subseteq held
      /\ Answer(c) /\ Release(c) /\ UNCHANGED <<camel, tables, crashed>>
  BY DEF Done
<1>3. call' = [call EXCEPT ![c] = r]
  BY <1>1, <1>2 DEF CallRecord
<1>4. /\ r \in CallRecord /\ r.st = "answered" /\ r.kind = call[c].kind
      /\ r.name = call[c].name /\ r.at = call[c].at /\ r.via = call[c].via
      /\ r.folder = call[c].folder /\ r.dest = call[c].dest
      /\ r.result = call[c].result /\ r.path = call[c].path
  BY <1>1 DEF CallRecord
<1>. HIDE DEF r
<1>5. Becomes(c, r) /\ call'[c] = r
  BY <1>1, <1>3, <1>4 DEF Becomes
<1>6. Grown
  BY <1>2, AllStays DEF Inv
<1>7. held' \subseteq 1..objects'
  BY <1>2, <1>6, HeldStays
<1>8. UNCHANGED <<paths, folderOf, was, owner, objects>>
  BY <1>2 DEF tables, folders, stores, camel
<1>9. answers'[c] = 1 /\ call[c].path = 0
  BY <1>1, <1>2 DEF Answer, Own, RestOK
<1>10. Own(c)'
  BY <1>1, <1>2, <1>4, <1>5, <1>8, <1>9 DEF Own, Placed, Known
<1>. QED  BY <1>1, <1>2, <1>5, <1>6, <1>7, <1>10, ReleaseTypes, OneCallMoves DEF RestOK

\* An answer with the path of the folder that was opened, or of the entry
\* under its name.
LEMMA OpenedSound ==
    ASSUME Inv, NEW c \in Calls, FolderOpened(c) \/ UriOpened(c)
    PROVE  Inv'
<1>. DEFINE f == call[c].folder
            d == Disturbed[c]
<1>1. /\ call[c] \in CallRecord /\ call \in [Calls -> CallRecord] /\ Own(c)
      /\ NamesOK /\ StoresOK /\ FoldersOK /\ RestOK
  BY DEF Inv, RestOK
<1>2. /\ call[c].st = "finished" /\ call[c].kind \in {"open", "uri"}
      /\ call[c].result = "ok"
      /\ Answer(c) /\ Release(c) /\ UNCHANGED <<camel, held, crashed>>
  BY DEF FolderOpened, UriOpened
<1>3. f \in Folders /\ Home[f] = call[c].at /\ was[f] # {} /\ name[f] \in Names
      /\ name[f] \in was[f]
  <2>1. Known(c)
    BY <1>1, <1>2 DEF Own
  <2>. QED  BY <2>1, <1>1 DEF Known, NamesOK
<1>4. was' = was /\ NamesOK' /\ NamesGrow
  BY <1>1, <1>2, NamesStay DEF camel
<1>5. PICK p : /\ Grown /\ p \in 1..paths' /\ Home[folderOf'[p]] = call[c].at
               /\ name[f] \in was'[folderOf'[p]]
               /\ call' = [Disturbed EXCEPT ![c].st = "answered", ![c].name = name[f],
                                            ![c].path = p]
  <2>1. CASE FolderOpened(c)
    <3>1. /\ NewFolder(call[c].via, f, name[f]) /\ UNCHANGED stores
          /\ call' = [Disturbed EXCEPT ![c].st = "answered", ![c].name = name[f],
                                       ![c].path = paths + 1]
          /\ call[c].kind = "open"
      BY <2>1 DEF FolderOpened
    <3>2. StoresOK' /\ StoresGrow /\ owner' = owner /\ objects' = objects
      BY <3>1, <1>1, StoresStay DEF stores
    <3>3. call[c].via \in 1..objects' /\ owner'[call[c].via] = Home[f]
      BY <3>1, <3>2, <1>1, <1>3 DEF Own, Placed
    <3>4. /\ FoldersOK' /\ FoldersGrow
          /\ paths + 1 \in 1..paths' /\ folderOf'[paths + 1] = f
      BY <3>1, <3>2, <3>3, <1>1, <1>3, <1>4, NewFolderGrows
    <3>5. Grown
      BY <3>2, <3>4, <1>4 DEF Grown
    <3>. QED  BY <3>1, <3>4, <3>5, <1>3, <1>4
  <2>2. CASE UriOpened(c)
    <3>. DEFINE p == PathIn(StoreOf(Home[f]), name[f])
    <3>1. /\ FindStore(Home[f]) /\ FindFolder(StoreOf(Home[f]), f)
          /\ call' = [Disturbed EXCEPT ![c].st = "answered", ![c].name = name[f],
                                       ![c].path = p]
      BY <2>2 DEF UriOpened
    <3>2. /\ Grown /\ p \in 1..paths' /\ Home[folderOf'[p]] = Home[f]
          /\ name[f] \in was'[folderOf'[p]]
      BY <3>1, <1>1, <1>2, <1>3, FindFolderGrows
    <3>. QED  BY <3>1, <3>2, <1>3
  <2>. QED  BY <2>1, <2>2
<1>. DEFINE r == [d EXCEPT !.st = "answered", !.name = name[f], !.path = p]
<1>6. /\ Disturbed \in [Calls -> CallRecord] /\ d \in CallRecord /\ Same(d, call[c])
      /\ p \in Nat
  BY <1>1, <1>5, DisturbedCalls DEF Grown, FoldersOK
<1>7. call' = [Disturbed EXCEPT ![c] = r]
  BY <1>5, <1>6 DEF CallRecord
<1>. HIDE DEF d, f
<1>8. /\ r \in CallRecord /\ r.st = "answered" /\ r.kind = d.kind /\ r.at = d.at
      /\ r.via = d.via /\ r.folder = d.folder /\ r.dest = d.dest /\ r.result = d.result
      /\ r.name = name[f] /\ r.path = p
  BY <1>3, <1>6 DEF CallRecord
<1>. HIDE DEF r
<1>9. Becomes(c, r) /\ call'[c] = r
  BY <1>6, <1>7, <1>8 DEF Becomes
<1>10. held' \subseteq 1..objects'
  BY <1>2, <1>5, HeldStays
<1>11. answers'[c] = 1
  BY <1>1, <1>2 DEF Answer, Own, RestOK
<1>12. Own(c)'
  <2>1. Placed(c) => Placed(c)'
    <3>1. ASSUME Placed(c)
          PROVE  call[c].via \in 1..objects' /\ owner'[call[c].via] = owner[call[c].via]
      BY <3>1, <1>1, <1>5 DEF Placed, Grown, StoresGrow, StoresOK
    <3>. QED  BY <3>1, <1>6, <1>8, <1>9 DEF Placed, Same
  <2>2. Known(c)'
    BY <1>3, <1>4, <1>6, <1>8, <1>9 DEF Known, Same, f
  <2>. QED  BY <2>1, <2>2, <1>1, <1>2, <1>5, <1>6, <1>8, <1>9, <1>11 DEF Own, Same
<1>. QED
  BY <1>1, <1>2, <1>5, <1>9, <1>10, <1>12, ReleaseTypes, OneCallMoves DEF RestOK

LEMMA FreeSound ==
    ASSUME Inv, NEW c \in Calls, FreeMessage(c)
    PROVE  Inv'
<1>1. /\ UNCHANGED <<camel, tables, held, made, call, answers, crashed>>
      /\ unfreed' \subseteq Calls /\ refs' = Dropped(call[c].op)
  BY DEF FreeMessage, Inv, RestOK
<1>2. refs' \in [Ops -> Nat]
  BY <1>1, DroppedTypes DEF Inv, RestOK
<1>3. Grown /\ held' \subseteq 1..objects'
  BY <1>1, AllStays, HeldStays DEF Inv
<1>4. ASSUME NEW b \in Calls PROVE Own(b)'
  <2>1. UNCHANGED <<paths, folderOf, was, owner, objects, call, answers>>
    BY <1>1 DEF tables, folders, stores, camel
  <2>. QED  BY <2>1 DEF Inv, Own, Placed, Known
<1>. QED  BY <1>1, <1>2, <1>3, <1>4 DEF Inv, RestOK, Grown

------------------------------------------------------------------------------
LEMMA InitSound == Init => Inv
<1>. SUFFICES ASSUME Init PROVE Inv
  OBVIOUS
<1>1. NamesOK
  BY ServerAssumption DEF Init, NamesOK
<1>2. StoresOK /\ FoldersOK
  BY DEF Init, StoresOK, FoldersOK, ParentStoreIsKnown
<1>3. Unsent \in CallRecord
  BY DEF Unsent, CallRecord, Kinds
<1>4. RestOK
  BY <1>3 DEF Init, RestOK
<1>5. \A c \in Calls : Own(c)
  BY DEF Init, Own, Unsent
<1>. QED  BY <1>1, <1>2, <1>4, <1>5 DEF Inv

LEMMA StepSound == Inv /\ [Next]_vars => Inv'
<1>. SUFFICES ASSUME Inv, [Next]_vars PROVE Inv'
  OBVIOUS
<1>1. CASE UNCHANGED vars
  <2>1. UNCHANGED <<camel, tables, held, ops, call, answers, crashed>>
    BY <1>1 DEF vars
  <2>2. Grown /\ held' \subseteq 1..objects'
    BY <2>1, AllStays, HeldStays DEF Inv
  <2>3. ASSUME NEW b \in Calls PROVE Own(b)'
    <3>1. UNCHANGED <<paths, folderOf, was, owner, objects, call, answers>>
      BY <2>1 DEF tables, folders, stores, camel
    <3>. QED  BY <3>1 DEF Inv, Own, Placed, Known
  <2>. QED  BY <2>1, <2>2, <2>3 DEF Inv, RestOK, Grown, ops
<1>2. ASSUME NEW c \in Calls, Arrives(c), SessionCall(c) \/ StoreCall(c) \/ FolderCall(c)
      PROVE  Inv'
  <2>1. \/ \E r : Opens(c, r) \/ Replies(c, r)
        \/ \E k \in Ops : CreateMailOperation(c, k)
        \/ Crash(c)
    BY <1>2, SessionShapes, ObjectShapes
  <2>2. call[c].st = "unsent"
    BY <1>2 DEF Arrives
  <2>3. ASSUME Crash(c) PROVE Inv'
    BY <2>3, CrashSound DEF Crash
  <2>. QED  BY <2>1, <2>2, <2>3, OpensSound, RepliesSound, CreateSound
<1>3. ASSUME NEW c \in Calls, Threads(c) \/ MainLoop(c)
      PROVE  Inv'
  BY <1>3, CamelSound, TransferSound, SearchSound, DoneSound, OpenedSound
  DEF Threads, MainLoop
<1>4. ASSUME NEW c \in Calls, SearchCrash(c)
      PROVE  Inv'
  BY <1>4, CrashSound DEF SearchCrash
<1>. QED  BY <1>1, <1>2, <1>3, <1>4, FreeSound DEF Next, Proceeds

LEMMA AlwaysSound == Spec => []Inv
  BY InitSound, StepSound, PTL DEF Spec

(* For any services, folders and calls: the tables, references and calls   *)
(* keep their types.                                                       *)
THEOREM TypeCorrect == Spec => []TypeOK
<1>1. Inv => TypeOK
  BY DEF Inv, NamesOK, StoresOK, FoldersOK, RestOK, TypeOK
<1>. QED  BY <1>1, AlwaysSound, PTL

(* Whoever answers a call, the handler, the thread of a search or a done   *)
(* function, it is answered once, and only when it is over.                *)
THEOREM OneAnswer == Spec => []AnsweredOnce
<1>1. Inv => AnsweredOnce
  BY DEF Inv, Own, AnsweredOnce
<1>. QED  BY <1>1, AlwaysSound, PTL

(* The assertion of e_mail_data_session_get_path_from_store holds for      *)
(* whatever clients do with services and folders.                          *)
THEOREM StoresAreKnown == Spec => []ParentStoreIsKnown
<1>1. Inv => ParentStoreIsKnown
  BY DEF Inv, FoldersOK
<1>. QED  BY <1>1, AlwaysSound, PTL

(* However folders are created, renamed and deleted while the tables keep  *)
(* the names they were registered under: the path that answers a call is   *)
(* exported, for a folder of the service that was asked which has had the  *)
(* name it was looked up under.                                            *)
THEOREM PathsAreRight == Spec => []RightFolder
<1>1. Inv => RightFolder
  <2>. SUFFICES ASSUME Inv, NEW c \in Calls, call[c].path # 0
                PROVE  /\ call[c].path <= paths
                       /\ LET f == folderOf[call[c].path]
                          IN Home[f] = call[c].at /\ call[c].name \in was[f]
    BY DEF RightFolder
  <2>1. Own(c) /\ paths \in Nat
    BY DEF Inv, FoldersOK
  <2>. QED  BY <2>1 DEF Own
<1>. QED  BY <1>1, AlwaysSound, PTL
==============================================================================
