---------------------------- MODULE Fetch_proofs ----------------------------
(***************************************************************************)
(* For any messages, any number of overlapping fetches and any number of   *)
(* mishaps: a message is filed once and once more at most for each mishap, *)
(* and what is deleted from the server was filed, but for what a failed    *)
(* pass entered as known, whoever put it in the provider's cache.          *)
(* Both rest on the lock (Mutex): the holder is alone with the uid cache,  *)
(* so that what it knows, has listed and has filed (Listed, Standing,      *)
(* Looked) fit together, and a copy is accounted for by a uid cache or by  *)
(* a mishap (Quota).                                                       *)
(***************************************************************************)
EXTENDS Fetch, TLAPS

Holding == {"inbox", "old", "cache", "dest", "uids", "filter", "file", "save", "expunge", "unlock"}
Before == {"idle", "queued", "inbox", "old", "cache"}
Passing == {"dest", "uids", "filter", "file", "save"}
Filing == {"filter", "file"}
Listing == {"old", "cache", "expunge"} \cup Passing

\* A fetch that holds the lock of the account is alone between its listing and
\* its release of the lock.
Mutex == \A f \in Fetches : pc[f] \in Holding <=> lock = f

\* What is filed, or was entered as known without it: nothing else is in a uid cache.
Filed(m) == inbox[m] >= 1 \/ m \in orphans
Settled ==
  /\ \A m \in Messages : inbox[m] >= 1 => m \in arrived
  /\ \A m \in known : Filed(m)
  /\ \A f \in Fetches : \A m \in mem[f] : m \in cached /\ Filed(m)

\* What is known and still on the server is in the listing, which nobody shortens.
Listed ==
  \A f \in Fetches : pc[f] \in Listing =>
    /\ listed[f] \subseteq server
    /\ (known \cup mem[f]) \cap server \subseteq listed[f]

\* Where a fetch stands.
Standing ==
  \A f \in Fetches :
    /\ pc[f] \in Before => mem[f] = {} /\ fresh[f] = {} /\ todo[f] = {} /\ ~plain[f] /\ ~failed[f] /\ ~err[f]
    /\ fresh[f] \subseteq listed[f] /\ todo[f] \subseteq listed[f]
    /\ failed[f] => err[f]
    /\ plain[f] => mem[f] = {} /\ pc[f] \notin {"dest", "uids", "save", "expunge"}
    /\ pc[f] \in {"dest", "uids"} => mem[f] = known
    /\ pc[f] = "file" => cur[f] \in (listed[f] \cap cached) \ todo[f]
    /\ ~plain[f] /\ pc[f] \in Passing => known \subseteq mem[f]

\* The driver has looked at all that is listed once it is done without an error.
Looked ==
  \A f \in Fetches : ~plain[f] =>
    /\ pc[f] \in Filing => todo[f] \cap mem[f] = {} /\ cur[f] \notin mem[f]
    /\ pc[f] \in Filing /\ ~failed[f] => listed[f] \subseteq mem[f] \cup todo[f] \cup {cur[f]}
    /\ pc[f] \in {"save", "expunge"} /\ ~err[f] => listed[f] \subseteq mem[f]

\* A uid cache vouches for a message, saved or in memory; copies beyond the one
\* it stands for have each cost a mishap.
Accounted(m) == m \in known \/ \E f \in Fetches : pc[f] \in Passing /\ m \in mem[f]
Quota ==
  /\ \A m \in server : Accounted(m) \/ inbox[m] <= mishaps
  /\ \A f \in Fetches : plain[f] /\ pc[f] \in Filing =>
       \A m \in todo[f] \cup ({cur[f]} \ {None}) :
         inbox[m] <= mishaps /\ (m \in known \/ inbox[m] + 1 <= mishaps)

\* The invariant that is inductive: one lemma per action, one step per part of it.
Inv == TypeOK /\ Mutex /\ Settled /\ Listed /\ Standing /\ Looked /\ Quota
       /\ NoDuplicates /\ OnlyOrphansAreLost

LEMMA ArriveInv ==
  ASSUME Inv, NEW m \in Messages, Arrive(m)
  PROVE  Inv'
<1>1. TypeOK'
  BY FetchAssumption DEF Inv, TypeOK, Steps, Settled, Filed, Listed, Listing, Passing,
    Standing, Before, Arrive, account, work
<1>2. Mutex'
  BY FetchAssumption DEF Inv, TypeOK, Mutex, Holding, Arrive, account, work
<1>3. Settled'
  BY FetchAssumption DEF Inv, TypeOK, Settled, Filed, Mutex, Holding, Standing, Before,
    Passing, Arrive, account, work
<1>4. Listed'
  BY FetchAssumption DEF Inv, TypeOK, Listed, Listing, Passing, Mutex, Holding, Standing, Before,
    Arrive, account, work
<1>5. Standing'
  BY FetchAssumption DEF Inv, TypeOK, Standing, Before, Passing, Mutex, Holding, Listed, Listing,
    Arrive, account, work
<1>6. Looked'
  BY FetchAssumption DEF Inv, TypeOK, Looked, Filing, Mutex, Holding, Standing, Before, Passing,
    Arrive, account, work
<1>7. Quota'
  BY FetchAssumption DEF Inv, TypeOK, Quota, Accounted, Passing, Filing, Mutex, Holding, Listed,
    Listing, Standing, Before, Looked, Settled, Filed, NoDuplicates, Arrive, account, work
<1>8. NoDuplicates'
  BY FetchAssumption DEF Inv, TypeOK, NoDuplicates, Quota, Accounted, Passing, Filing, Mutex,
    Holding, Listed, Listing, Standing, Before, Looked, Arrive, account, work
<1>9. OnlyOrphansAreLost'
  BY FetchAssumption DEF Inv, TypeOK, OnlyOrphansAreLost, Settled, Filed, Looked, Filing,
    Standing, Before, Passing, Mutex, Holding, Arrive, account, work
<1> QED
  BY <1>1, <1>2, <1>3, <1>4, <1>5, <1>6, <1>7, <1>8, <1>9 DEF Inv

LEMMA ReadInv ==
  ASSUME Inv, NEW m \in Messages, Read(m)
  PROVE  Inv'
<1>1. TypeOK'
  BY FetchAssumption DEF Inv, TypeOK, Steps, Settled, Filed, Listed, Listing, Passing,
    Standing, Before, Read, account, work
<1>2. Mutex'
  BY FetchAssumption DEF Inv, TypeOK, Mutex, Holding, Read, account, work
<1>3. Settled'
  BY FetchAssumption DEF Inv, TypeOK, Settled, Filed, Mutex, Holding, Standing, Before,
    Passing, Read, account, work
<1>4. Listed'
  BY FetchAssumption DEF Inv, TypeOK, Listed, Listing, Passing, Mutex, Holding, Standing, Before,
    Read, account, work
<1>5. Standing'
  BY FetchAssumption DEF Inv, TypeOK, Standing, Before, Passing, Mutex, Holding, Listed, Listing,
    Read, account, work
<1>6. Looked'
  BY FetchAssumption DEF Inv, TypeOK, Looked, Filing, Mutex, Holding, Standing, Before, Passing,
    Read, account, work
<1>7. Quota'
  BY FetchAssumption DEF Inv, TypeOK, Quota, Accounted, Passing, Filing, Mutex, Holding, Listed,
    Listing, Standing, Before, Looked, Settled, Filed, NoDuplicates, Read, account, work
<1>8. NoDuplicates'
  BY FetchAssumption DEF Inv, TypeOK, NoDuplicates, Quota, Accounted, Passing, Filing, Mutex,
    Holding, Listed, Listing, Standing, Before, Looked, Read, account, work
<1>9. OnlyOrphansAreLost'
  BY FetchAssumption DEF Inv, TypeOK, OnlyOrphansAreLost, Settled, Filed, Looked, Filing,
    Standing, Before, Passing, Mutex, Holding, Read, account, work
<1> QED
  BY <1>1, <1>2, <1>3, <1>4, <1>5, <1>6, <1>7, <1>8, <1>9 DEF Inv

LEMMA PushInv ==
  ASSUME Inv, NEW f \in Fetches, Push(f)
  PROVE  Inv'
<1>1. TypeOK'
  BY FetchAssumption DEF Inv, TypeOK, Steps, Settled, Filed, Listed, Listing, Passing,
    Standing, Before, Push, Goto, store, account, work
<1>2. Mutex'
  BY FetchAssumption DEF Inv, TypeOK, Mutex, Holding, Push, Goto, store, account, work
<1>3. Settled'
  BY FetchAssumption DEF Inv, TypeOK, Settled, Filed, Mutex, Holding, Standing, Before,
    Passing, Push, Goto, store, account, work
<1>4. Listed'
  BY FetchAssumption DEF Inv, TypeOK, Listed, Listing, Passing, Mutex, Holding, Standing, Before,
    Push, Goto, store, account, work
<1>5. Standing'
  BY FetchAssumption DEF Inv, TypeOK, Standing, Before, Passing, Mutex, Holding, Listed, Listing,
    Push, Goto, store, account, work
<1>6. Looked'
  BY FetchAssumption DEF Inv, TypeOK, Looked, Filing, Mutex, Holding, Standing, Before, Passing,
    Push, Goto, store, account, work
<1>7. Quota'
  BY FetchAssumption DEF Inv, TypeOK, Quota, Accounted, Passing, Filing, Mutex, Holding, Listed,
    Listing, Standing, Before, Looked, Settled, Filed, NoDuplicates, Push, Goto, store,
    account, work
<1>8. NoDuplicates'
  BY FetchAssumption DEF Inv, TypeOK, NoDuplicates, Quota, Accounted, Passing, Filing, Mutex,
    Holding, Listed, Listing, Standing, Before, Looked, Push, Goto, store, account, work
<1>9. OnlyOrphansAreLost'
  BY FetchAssumption DEF Inv, TypeOK, OnlyOrphansAreLost, Settled, Filed, Looked, Filing,
    Standing, Before, Passing, Mutex, Holding, Push, Goto, store, account, work
<1> QED
  BY <1>1, <1>2, <1>3, <1>4, <1>5, <1>6, <1>7, <1>8, <1>9 DEF Inv

LEMMA CancelInv ==
  ASSUME Inv, NEW f \in Fetches, Cancel(f)
  PROVE  Inv'
<1>1. TypeOK'
  BY FetchAssumption DEF Inv, TypeOK, Steps, Settled, Filed, Listed, Listing, Passing,
    Standing, Before, Cancel, store, account, work
<1>2. Mutex'
  BY FetchAssumption DEF Inv, TypeOK, Mutex, Holding, Cancel, store, account, work
<1>3. Settled'
  BY FetchAssumption DEF Inv, TypeOK, Settled, Filed, Mutex, Holding, Standing, Before,
    Passing, Cancel, store, account, work
<1>4. Listed'
  BY FetchAssumption DEF Inv, TypeOK, Listed, Listing, Passing, Mutex, Holding, Standing, Before,
    Cancel, store, account, work
<1>5. Standing'
  BY FetchAssumption DEF Inv, TypeOK, Standing, Before, Passing, Mutex, Holding, Listed, Listing,
    Cancel, store, account, work
<1>6. Looked'
  BY FetchAssumption DEF Inv, TypeOK, Looked, Filing, Mutex, Holding, Standing, Before, Passing,
    Cancel, store, account, work
<1>7. Quota'
  BY FetchAssumption DEF Inv, TypeOK, Quota, Accounted, Passing, Filing, Mutex, Holding, Listed,
    Listing, Standing, Before, Looked, Settled, Filed, NoDuplicates, Cancel, store, account,
    work
<1>8. NoDuplicates'
  BY FetchAssumption DEF Inv, TypeOK, NoDuplicates, Quota, Accounted, Passing, Filing, Mutex,
    Holding, Listed, Listing, Standing, Before, Looked, Cancel, store, account, work
<1>9. OnlyOrphansAreLost'
  BY FetchAssumption DEF Inv, TypeOK, OnlyOrphansAreLost, Settled, Filed, Looked, Filing,
    Standing, Before, Passing, Mutex, Holding, Cancel, store, account, work
<1> QED
  BY <1>1, <1>2, <1>3, <1>4, <1>5, <1>6, <1>7, <1>8, <1>9 DEF Inv

LEMMA LockInv ==
  ASSUME Inv, NEW f \in Fetches, Lock(f)
  PROVE  Inv'
<1>1. TypeOK'
  BY FetchAssumption DEF Inv, TypeOK, Steps, Settled, Filed, Listed, Listing, Passing,
    Standing, Before, Lock, Goto, store, work
<1>2. Mutex'
  BY FetchAssumption DEF Inv, TypeOK, Mutex, Holding, Lock, Goto, store, work
<1>3. Settled'
  BY FetchAssumption DEF Inv, TypeOK, Settled, Filed, Mutex, Holding, Standing, Before,
    Passing, Lock, Goto, store, work
<1>4. Listed'
  BY FetchAssumption DEF Inv, TypeOK, Listed, Listing, Passing, Mutex, Holding, Standing, Before,
    Lock, Goto, store, work
<1>5. Standing'
  BY FetchAssumption DEF Inv, TypeOK, Standing, Before, Passing, Mutex, Holding, Listed, Listing,
    Lock, Goto, store, work
<1>6. Looked'
  BY FetchAssumption DEF Inv, TypeOK, Looked, Filing, Mutex, Holding, Standing, Before, Passing,
    Lock, Goto, store, work
<1>7. Quota'
  BY FetchAssumption DEF Inv, TypeOK, Quota, Accounted, Passing, Filing, Mutex, Holding, Listed,
    Listing, Standing, Before, Looked, Settled, Filed, NoDuplicates, Lock, Goto, store, work
<1>8. NoDuplicates'
  BY FetchAssumption DEF Inv, TypeOK, NoDuplicates, Quota, Accounted, Passing, Filing, Mutex,
    Holding, Listed, Listing, Standing, Before, Looked, Lock, Goto, store, work
<1>9. OnlyOrphansAreLost'
  BY FetchAssumption DEF Inv, TypeOK, OnlyOrphansAreLost, Settled, Filed, Looked, Filing,
    Standing, Before, Passing, Mutex, Holding, Lock, Goto, store, work
<1> QED
  BY <1>1, <1>2, <1>3, <1>4, <1>5, <1>6, <1>7, <1>8, <1>9 DEF Inv

LEMMA OpenInboxInv ==
  ASSUME Inv, NEW f \in Fetches, OpenInbox(f)
  PROVE  Inv'
<1>0. /\ pc[f] = "inbox"
       /\ \/ listed' = [listed EXCEPT ![f] = server] /\ pc' = [pc EXCEPT ![f] = "old"]
          \/ listed' = listed /\ pc' = [pc EXCEPT ![f] = "unlock"]
       /\ UNCHANGED <<store, lock, plain, fresh, todo, cur, mem, failed, err, cancelled, orphans, mishaps>>
  BY DEF OpenInbox, Goto
<1>1. TypeOK'
  <2>1. (arrived \subseteq Messages /\ server \subseteq arrived /\ cached \subseteq arrived)'
    BY FetchAssumption DEF Inv, TypeOK, Steps, OpenInbox, Goto, store
  <2>2. (inbox \in [Messages -> Nat] /\ known \subseteq cached)'
    BY FetchAssumption DEF Inv, TypeOK, Steps, Settled, Filed, Standing, Before, Passing,
      OpenInbox, Goto, store
  <2>3. (lock \in Fetches \cup {None})'
    BY FetchAssumption DEF Inv, TypeOK, Steps, OpenInbox, Goto, store
  <2>4. (connected \in BOOLEAN)'
    BY FetchAssumption DEF Inv, TypeOK, Steps, OpenInbox, Goto, store
  <2>5. (pc \in [Fetches -> Steps])'
    BY FetchAssumption DEF Inv, TypeOK, Steps, OpenInbox, Goto, store
  <2>6. (plain \in [Fetches -> BOOLEAN])'
    BY FetchAssumption DEF Inv, TypeOK, Steps, OpenInbox, Goto, store
  <2>7. (listed \in [Fetches -> SUBSET arrived] /\ fresh \in [Fetches -> SUBSET arrived])'
    BY FetchAssumption DEF Inv, TypeOK, Steps, OpenInbox, Goto, store
  <2>8. (todo \in [Fetches -> SUBSET arrived] /\ mem \in [Fetches -> SUBSET arrived])'
    BY FetchAssumption DEF Inv, TypeOK, Steps, Settled, Filed, Standing, Before, Passing,
      OpenInbox, Goto, store
  <2>9. (cur \in [Fetches -> Messages \cup {None}])'
    BY FetchAssumption DEF Inv, TypeOK, Steps, OpenInbox, Goto, store
  <2>10. (failed \in [Fetches -> BOOLEAN] /\ err \in [Fetches -> BOOLEAN] /\ cancelled \in [Fetches -> BOOLEAN])'
    BY FetchAssumption DEF Inv, TypeOK, Steps, OpenInbox, Goto, store
  <2>11. (orphans \subseteq cached /\ mishaps \in 0..MaxMishaps)'
    BY FetchAssumption DEF Inv, TypeOK, Steps, Settled, Filed, Standing, Before, Passing,
      OpenInbox, Goto, store
  <2>12. (\A g \in Fetches : cur[g] = None <=> pc[g] # "file")'
    BY FetchAssumption DEF Inv, TypeOK, Steps, OpenInbox, Goto, store
  <2> QED
    BY <2>1, <2>2, <2>3, <2>4, <2>5, <2>6, <2>7, <2>8, <2>9, <2>10, <2>11, <2>12 DEF TypeOK
<1>2. Mutex'
  BY <1>0, FetchAssumption DEF Inv, TypeOK, Mutex, Holding, store
<1>3. Settled'
  BY <1>0, FetchAssumption DEF Inv, TypeOK, Settled, Filed, Mutex, Holding, Standing,
    Before, Passing, store
<1>4. Listed'
  BY <1>0, FetchAssumption DEF Inv, TypeOK, Listed, Listing, Passing, Mutex, Holding, Standing,
    Before, store
<1>5. Standing'
  BY <1>0, FetchAssumption DEF Inv, TypeOK, Standing, Before, Passing, Mutex, Holding, Listed,
    Listing, store
<1>6. Looked'
  BY <1>0, FetchAssumption DEF Inv, TypeOK, Looked, Filing, Mutex, Holding, Standing, Before,
    Passing, store
<1>7. Quota'
  BY <1>0, FetchAssumption DEF Inv, TypeOK, Quota, Accounted, Passing, Filing, Mutex, Holding,
    Listed, Listing, Standing, Before, Looked, Settled, Filed, NoDuplicates, store
<1>8. NoDuplicates'
  BY <1>0, FetchAssumption DEF Inv, TypeOK, NoDuplicates, Quota, Accounted, Passing, Filing, Mutex,
    Holding, Listed, Listing, Standing, Before, Looked, store
<1>9. OnlyOrphansAreLost'
  BY <1>0, FetchAssumption DEF Inv, TypeOK, OnlyOrphansAreLost, Settled, Filed, Looked,
    Filing, Standing, Before, Passing, Mutex, Holding, store
<1> QED
  BY <1>1, <1>2, <1>3, <1>4, <1>5, <1>6, <1>7, <1>8, <1>9 DEF Inv

LEMMA FetchOldInv ==
  ASSUME Inv, NEW f \in Fetches, FetchOld(f)
  PROVE  Inv'
<1>1. TypeOK'
  BY FetchAssumption DEF Inv, TypeOK, Steps, Settled, Filed, Listed, Listing, Passing,
    Standing, Before, FetchOld, Goto, store, account
<1>2. Mutex'
  BY FetchAssumption DEF Inv, TypeOK, Mutex, Holding, FetchOld, Goto, store, account
<1>3. Settled'
  BY FetchAssumption DEF Inv, TypeOK, Settled, Filed, Mutex, Holding, Standing, Before,
    Passing, FetchOld, Goto, store, account
<1>4. Listed'
  BY FetchAssumption DEF Inv, TypeOK, Listed, Listing, Passing, Mutex, Holding, Standing, Before,
    FetchOld, Goto, store, account
<1>5. Standing'
  BY FetchAssumption DEF Inv, TypeOK, Standing, Before, Passing, Mutex, Holding, Listed, Listing,
    FetchOld, Goto, store, account
<1>6. Looked'
  BY FetchAssumption DEF Inv, TypeOK, Looked, Filing, Mutex, Holding, Standing, Before, Passing,
    FetchOld, Goto, store, account
<1>7. Quota'
  BY FetchAssumption DEF Inv, TypeOK, Quota, Accounted, Passing, Filing, Mutex, Holding, Listed,
    Listing, Standing, Before, Looked, Settled, Filed, NoDuplicates, FetchOld, Goto, store,
    account
<1>8. NoDuplicates'
  BY FetchAssumption DEF Inv, TypeOK, NoDuplicates, Quota, Accounted, Passing, Filing, Mutex,
    Holding, Listed, Listing, Standing, Before, Looked, FetchOld, Goto, store, account
<1>9. OnlyOrphansAreLost'
  BY FetchAssumption DEF Inv, TypeOK, OnlyOrphansAreLost, Settled, Filed, Looked, Filing,
    Standing, Before, Passing, Mutex, Holding, FetchOld, Goto, store, account
<1> QED
  BY <1>1, <1>2, <1>3, <1>4, <1>5, <1>6, <1>7, <1>8, <1>9 DEF Inv

LEMMA OpenCacheInv ==
  ASSUME Inv, NEW f \in Fetches, OpenCache(f)
  PROVE  Inv'
<1>1. TypeOK'
  <2>1. (arrived \subseteq Messages /\ server \subseteq arrived /\ cached \subseteq arrived)'
    BY FetchAssumption DEF Inv, TypeOK, Steps, OpenCache, Goto, Mishap, store, account
  <2>2. (inbox \in [Messages -> Nat] /\ known \subseteq cached)'
    BY FetchAssumption DEF Inv, TypeOK, Steps, Settled, Filed, Standing, Before, Passing,
      OpenCache, Goto, Mishap, store, account
  <2>3. (lock \in Fetches \cup {None})'
    BY FetchAssumption DEF Inv, TypeOK, Steps, OpenCache, Goto, Mishap, store, account
  <2>4. (connected \in BOOLEAN)'
    BY FetchAssumption DEF Inv, TypeOK, Steps, OpenCache, Goto, Mishap, store, account
  <2>5. (pc \in [Fetches -> Steps])'
    BY FetchAssumption DEF Inv, TypeOK, Steps, OpenCache, Goto, Mishap, store, account
  <2>6. (plain \in [Fetches -> BOOLEAN])'
    BY FetchAssumption DEF Inv, TypeOK, Steps, OpenCache, Goto, Mishap, store, account
  <2>7. (listed \in [Fetches -> SUBSET arrived] /\ fresh \in [Fetches -> SUBSET arrived])'
    BY FetchAssumption DEF Inv, TypeOK, Steps, OpenCache, Goto, Mishap, store, account
  <2>8. (todo \in [Fetches -> SUBSET arrived] /\ mem \in [Fetches -> SUBSET arrived])'
    BY FetchAssumption DEF Inv, TypeOK, Steps, Settled, Filed, Standing, Before, Passing,
      OpenCache, Goto, Mishap, store, account
  <2>9. (cur \in [Fetches -> Messages \cup {None}])'
    BY FetchAssumption DEF Inv, TypeOK, Steps, OpenCache, Goto, Mishap, store, account
  <2>10. (failed \in [Fetches -> BOOLEAN] /\ err \in [Fetches -> BOOLEAN] /\ cancelled \in [Fetches -> BOOLEAN])'
    BY FetchAssumption DEF Inv, TypeOK, Steps, OpenCache, Goto, Mishap, store, account
  <2>11. (orphans \subseteq cached /\ mishaps \in 0..MaxMishaps)'
    BY FetchAssumption DEF Inv, TypeOK, Steps, Settled, Filed, Standing, Before, Passing,
      OpenCache, Goto, Mishap, store, account
  <2>12. (\A g \in Fetches : cur[g] = None <=> pc[g] # "file")'
    BY FetchAssumption DEF Inv, TypeOK, Steps, OpenCache, Goto, Mishap, store, account
  <2> QED
    BY <2>1, <2>2, <2>3, <2>4, <2>5, <2>6, <2>7, <2>8, <2>9, <2>10, <2>11, <2>12 DEF TypeOK
<1>2. Mutex'
  BY FetchAssumption DEF Inv, TypeOK, Mutex, Holding, OpenCache, Goto, Mishap, store, account
<1>3. Settled'
  BY FetchAssumption DEF Inv, TypeOK, Settled, Filed, Mutex, Holding, Standing, Before,
    Passing, OpenCache, Goto, Mishap, store, account
<1>4. Listed'
  BY FetchAssumption DEF Inv, TypeOK, Listed, Listing, Passing, Mutex, Holding, Standing, Before,
    OpenCache, Goto, Mishap, store, account
<1>5. Standing'
  BY FetchAssumption DEF Inv, TypeOK, Standing, Before, Passing, Mutex, Holding, Listed, Listing,
    OpenCache, Goto, Mishap, store, account
<1>6. Looked'
  BY FetchAssumption DEF Inv, TypeOK, Looked, Filing, Mutex, Holding, Standing, Before, Passing,
    OpenCache, Goto, Mishap, store, account
<1>7. Quota'
  BY FetchAssumption DEF Inv, TypeOK, Quota, Accounted, Passing, Filing, Mutex, Holding, Listed,
    Listing, Standing, Before, Looked, Settled, Filed, NoDuplicates, OpenCache, Goto,
    Mishap, store, account
<1>8. NoDuplicates'
  BY FetchAssumption DEF Inv, TypeOK, NoDuplicates, Quota, Accounted, Passing, Filing, Mutex,
    Holding, Listed, Listing, Standing, Before, Looked, OpenCache, Goto, Mishap, store, account
<1>9. OnlyOrphansAreLost'
  BY FetchAssumption DEF Inv, TypeOK, OnlyOrphansAreLost, Settled, Filed, Looked, Filing,
    Standing, Before, Passing, Mutex, Holding, OpenCache, Goto, Mishap, store, account
<1> QED
  BY <1>1, <1>2, <1>3, <1>4, <1>5, <1>6, <1>7, <1>8, <1>9 DEF Inv

LEMMA FindDestinationInv ==
  ASSUME Inv, NEW f \in Fetches, FindDestination(f)
  PROVE  Inv'
<1>1. TypeOK'
  <2>1. (arrived \subseteq Messages /\ server \subseteq arrived /\ cached \subseteq arrived)'
    BY FetchAssumption DEF Inv, TypeOK, Steps, FindDestination, Goto, store, account
  <2>2. (inbox \in [Messages -> Nat] /\ known \subseteq cached)'
    BY FetchAssumption DEF Inv, TypeOK, Steps, Settled, Filed, Standing, Before, Passing,
      FindDestination, Goto, store, account
  <2>3. (lock \in Fetches \cup {None})'
    BY FetchAssumption DEF Inv, TypeOK, Steps, FindDestination, Goto, store, account
  <2>4. (connected \in BOOLEAN)'
    BY FetchAssumption DEF Inv, TypeOK, Steps, FindDestination, Goto, store, account
  <2>5. (pc \in [Fetches -> Steps])'
    BY FetchAssumption DEF Inv, TypeOK, Steps, FindDestination, Goto, store, account
  <2>6. (plain \in [Fetches -> BOOLEAN])'
    BY FetchAssumption DEF Inv, TypeOK, Steps, FindDestination, Goto, store, account
  <2>7. (listed \in [Fetches -> SUBSET arrived] /\ fresh \in [Fetches -> SUBSET arrived])'
    BY FetchAssumption DEF Inv, TypeOK, Steps, FindDestination, Goto, store, account
  <2>8. (todo \in [Fetches -> SUBSET arrived] /\ mem \in [Fetches -> SUBSET arrived])'
    BY FetchAssumption DEF Inv, TypeOK, Steps, Settled, Filed, Standing, Before, Passing,
      FindDestination, Goto, store, account
  <2>9. (cur \in [Fetches -> Messages \cup {None}])'
    BY FetchAssumption DEF Inv, TypeOK, Steps, FindDestination, Goto, store, account
  <2>10. (failed \in [Fetches -> BOOLEAN] /\ err \in [Fetches -> BOOLEAN] /\ cancelled \in [Fetches -> BOOLEAN])'
    BY FetchAssumption DEF Inv, TypeOK, Steps, FindDestination, Goto, store, account
  <2>11. (orphans \subseteq cached /\ mishaps \in 0..MaxMishaps)'
    BY FetchAssumption DEF Inv, TypeOK, Steps, Settled, Filed, Standing, Before, Passing,
      FindDestination, Goto, store, account
  <2>12. (\A g \in Fetches : cur[g] = None <=> pc[g] # "file")'
    BY FetchAssumption DEF Inv, TypeOK, Steps, FindDestination, Goto, store, account
  <2> QED
    BY <2>1, <2>2, <2>3, <2>4, <2>5, <2>6, <2>7, <2>8, <2>9, <2>10, <2>11, <2>12 DEF TypeOK
<1>2. Mutex'
  BY FetchAssumption DEF Inv, TypeOK, Mutex, Holding, FindDestination, Goto, store, account
<1>3. Settled'
  BY FetchAssumption DEF Inv, TypeOK, Settled, Filed, Mutex, Holding, Standing, Before,
    Passing, FindDestination, Goto, store, account
<1>4. Listed'
  BY FetchAssumption DEF Inv, TypeOK, Listed, Listing, Passing, Mutex, Holding, Standing, Before,
    FindDestination, Goto, store, account
<1>5. Standing'
  BY FetchAssumption DEF Inv, TypeOK, Standing, Before, Passing, Mutex, Holding, Listed, Listing,
    FindDestination, Goto, store, account
<1>6. Looked'
  BY FetchAssumption DEF Inv, TypeOK, Looked, Filing, Mutex, Holding, Standing, Before, Passing,
    FindDestination, Goto, store, account
<1>7. Quota'
  BY FetchAssumption DEF Inv, TypeOK, Quota, Accounted, Passing, Filing, Mutex, Holding, Listed,
    Listing, Standing, Before, Looked, Settled, Filed, NoDuplicates, FindDestination, Goto,
    store, account
<1>8. NoDuplicates'
  BY FetchAssumption DEF Inv, TypeOK, NoDuplicates, Quota, Accounted, Passing, Filing, Mutex,
    Holding, Listed, Listing, Standing, Before, Looked, FindDestination, Goto, store, account
<1>9. OnlyOrphansAreLost'
  BY FetchAssumption DEF Inv, TypeOK, OnlyOrphansAreLost, Settled, Filed, Looked, Filing,
    Standing, Before, Passing, Mutex, Holding, FindDestination, Goto, store, account
<1> QED
  BY <1>1, <1>2, <1>3, <1>4, <1>5, <1>6, <1>7, <1>8, <1>9 DEF Inv

LEMMA TakeUidsInv ==
  ASSUME Inv, NEW f \in Fetches, TakeUids(f)
  PROVE  Inv'
<1>1. TypeOK'
  BY FetchAssumption DEF Inv, TypeOK, Steps, Settled, Filed, Listed, Listing, Passing,
    Standing, Before, TakeUids, Goto, store, account
<1>2. Mutex'
  BY FetchAssumption DEF Inv, TypeOK, Mutex, Holding, TakeUids, Goto, store, account
<1>3. Settled'
  BY FetchAssumption DEF Inv, TypeOK, Settled, Filed, Mutex, Holding, Standing, Before,
    Passing, TakeUids, Goto, store, account
<1>4. Listed'
  BY FetchAssumption DEF Inv, TypeOK, Listed, Listing, Passing, Mutex, Holding, Standing, Before,
    TakeUids, Goto, store, account
<1>5. Standing'
  BY FetchAssumption DEF Inv, TypeOK, Standing, Before, Passing, Mutex, Holding, Listed, Listing,
    TakeUids, Goto, store, account
<1>6. Looked'
  BY FetchAssumption DEF Inv, TypeOK, Looked, Filing, Mutex, Holding, Standing, Before, Passing,
    TakeUids, Goto, store, account
<1>7. Quota'
  BY FetchAssumption DEF Inv, TypeOK, Quota, Accounted, Passing, Filing, Mutex, Holding, Listed,
    Listing, Standing, Before, Looked, Settled, Filed, NoDuplicates, TakeUids, Goto, store,
    account
<1>8. NoDuplicates'
  BY FetchAssumption DEF Inv, TypeOK, NoDuplicates, Quota, Accounted, Passing, Filing, Mutex,
    Holding, Listed, Listing, Standing, Before, Looked, TakeUids, Goto, store, account
<1>9. OnlyOrphansAreLost'
  BY FetchAssumption DEF Inv, TypeOK, OnlyOrphansAreLost, Settled, Filed, Looked, Filing,
    Standing, Before, Passing, Mutex, Holding, TakeUids, Goto, store, account
<1> QED
  BY <1>1, <1>2, <1>3, <1>4, <1>5, <1>6, <1>7, <1>8, <1>9 DEF Inv

LEMMA DownloadInv ==
  ASSUME Inv, NEW f \in Fetches, NEW m \in Messages, Download(f, m)
  PROVE  Inv'
<1>1. TypeOK'
  <2>1. (arrived \subseteq Messages /\ server \subseteq arrived /\ cached \subseteq arrived)'
    BY FetchAssumption DEF Inv, TypeOK, Steps, Download, GiveUp, Goto, account
  <2>2. (inbox \in [Messages -> Nat] /\ known \subseteq cached)'
    BY FetchAssumption DEF Inv, TypeOK, Steps, Settled, Filed, Standing, Before, Passing,
      Download, GiveUp, Goto, account
  <2>3. (lock \in Fetches \cup {None})'
    BY FetchAssumption DEF Inv, TypeOK, Steps, Download, GiveUp, Goto, account
  <2>4. (connected \in BOOLEAN)'
    BY FetchAssumption DEF Inv, TypeOK, Steps, Download, GiveUp, Goto, account
  <2>5. (pc \in [Fetches -> Steps])'
    BY FetchAssumption DEF Inv, TypeOK, Steps, Download, GiveUp, Goto, account
  <2>6. (plain \in [Fetches -> BOOLEAN])'
    BY FetchAssumption DEF Inv, TypeOK, Steps, Download, GiveUp, Goto, account
  <2>7. (listed \in [Fetches -> SUBSET arrived] /\ fresh \in [Fetches -> SUBSET arrived])'
    BY FetchAssumption DEF Inv, TypeOK, Steps, Download, GiveUp, Goto, account
  <2>8. (todo \in [Fetches -> SUBSET arrived] /\ mem \in [Fetches -> SUBSET arrived])'
    BY FetchAssumption DEF Inv, TypeOK, Steps, Settled, Filed, Standing, Before, Passing,
      Download, GiveUp, Goto, account
  <2>9. (cur \in [Fetches -> Messages \cup {None}])'
    BY FetchAssumption DEF Inv, TypeOK, Steps, Download, GiveUp, Goto, account
  <2>10. (failed \in [Fetches -> BOOLEAN] /\ err \in [Fetches -> BOOLEAN] /\ cancelled \in [Fetches -> BOOLEAN])'
    BY FetchAssumption DEF Inv, TypeOK, Steps, Download, GiveUp, Goto, account
  <2>11. (orphans \subseteq cached /\ mishaps \in 0..MaxMishaps)'
    BY FetchAssumption DEF Inv, TypeOK, Steps, Settled, Filed, Standing, Before, Passing,
      Download, GiveUp, Goto, account
  <2>12. (\A g \in Fetches : cur[g] = None <=> pc[g] # "file")'
    BY FetchAssumption DEF Inv, TypeOK, Steps, Download, GiveUp, Goto, account
  <2> QED
    BY <2>1, <2>2, <2>3, <2>4, <2>5, <2>6, <2>7, <2>8, <2>9, <2>10, <2>11, <2>12 DEF TypeOK
<1>2. Mutex'
  BY FetchAssumption DEF Inv, TypeOK, Mutex, Holding, Download, GiveUp, Goto, account
<1>3. Settled'
  BY FetchAssumption DEF Inv, TypeOK, Settled, Filed, Mutex, Holding, Standing, Before,
    Passing, Download, GiveUp, Goto, account
<1>4. Listed'
  BY FetchAssumption DEF Inv, TypeOK, Listed, Listing, Passing, Mutex, Holding, Standing, Before,
    Download, GiveUp, Goto, account
<1>5. Standing'
  BY FetchAssumption DEF Inv, TypeOK, Standing, Before, Passing, Mutex, Holding, Listed, Listing,
    Download, GiveUp, Goto, account
<1>6. Looked'
  BY FetchAssumption DEF Inv, TypeOK, Looked, Filing, Mutex, Holding, Standing, Before, Passing,
    Download, GiveUp, Goto, account
<1>7. Quota'
  BY FetchAssumption DEF Inv, TypeOK, Quota, Accounted, Passing, Filing, Mutex, Holding, Listed,
    Listing, Standing, Before, Looked, Settled, Filed, NoDuplicates, Download, GiveUp, Goto,
    account
<1>8. NoDuplicates'
  BY FetchAssumption DEF Inv, TypeOK, NoDuplicates, Quota, Accounted, Passing, Filing, Mutex,
    Holding, Listed, Listing, Standing, Before, Looked, Download, GiveUp, Goto, account
<1>9. OnlyOrphansAreLost'
  BY FetchAssumption DEF Inv, TypeOK, OnlyOrphansAreLost, Settled, Filed, Looked, Filing,
    Standing, Before, Passing, Mutex, Holding, Download, GiveUp, Goto, account
<1> QED
  BY <1>1, <1>2, <1>3, <1>4, <1>5, <1>6, <1>7, <1>8, <1>9 DEF Inv

LEMMA FileInv ==
  ASSUME Inv, NEW f \in Fetches, File(f)
  PROVE  Inv'
<1>1. TypeOK'
  <2>1. (arrived \subseteq Messages /\ server \subseteq arrived /\ cached \subseteq arrived)'
    BY FetchAssumption DEF Inv, TypeOK, Steps, File, GiveUp, Goto, account
  <2>2. (inbox \in [Messages -> Nat] /\ known \subseteq cached)'
    BY FetchAssumption DEF Inv, TypeOK, Steps, Settled, Filed, Standing, Before, Passing,
      File, GiveUp, Goto, account
  <2>3. (lock \in Fetches \cup {None})'
    BY FetchAssumption DEF Inv, TypeOK, Steps, File, GiveUp, Goto, account
  <2>4. (connected \in BOOLEAN)'
    BY FetchAssumption DEF Inv, TypeOK, Steps, File, GiveUp, Goto, account
  <2>5. (pc \in [Fetches -> Steps])'
    BY FetchAssumption DEF Inv, TypeOK, Steps, File, GiveUp, Goto, account
  <2>6. (plain \in [Fetches -> BOOLEAN])'
    BY FetchAssumption DEF Inv, TypeOK, Steps, File, GiveUp, Goto, account
  <2>7. (listed \in [Fetches -> SUBSET arrived] /\ fresh \in [Fetches -> SUBSET arrived])'
    BY FetchAssumption DEF Inv, TypeOK, Steps, File, GiveUp, Goto, account
  <2>8. (todo \in [Fetches -> SUBSET arrived] /\ mem \in [Fetches -> SUBSET arrived])'
    BY FetchAssumption DEF Inv, TypeOK, Steps, Settled, Filed, Standing, Before, Passing,
      File, GiveUp, Goto, account
  <2>9. (cur \in [Fetches -> Messages \cup {None}])'
    BY FetchAssumption DEF Inv, TypeOK, Steps, File, GiveUp, Goto, account
  <2>10. (failed \in [Fetches -> BOOLEAN] /\ err \in [Fetches -> BOOLEAN] /\ cancelled \in [Fetches -> BOOLEAN])'
    BY FetchAssumption DEF Inv, TypeOK, Steps, File, GiveUp, Goto, account
  <2>11. (orphans \subseteq cached /\ mishaps \in 0..MaxMishaps)'
    BY FetchAssumption DEF Inv, TypeOK, Steps, Settled, Filed, Standing, Before, Passing,
      File, GiveUp, Goto, account
  <2>12. (\A g \in Fetches : cur[g] = None <=> pc[g] # "file")'
    BY FetchAssumption DEF Inv, TypeOK, Steps, File, GiveUp, Goto, account
  <2> QED
    BY <2>1, <2>2, <2>3, <2>4, <2>5, <2>6, <2>7, <2>8, <2>9, <2>10, <2>11, <2>12 DEF TypeOK
<1>2. Mutex'
  BY FetchAssumption DEF Inv, TypeOK, Mutex, Holding, File, GiveUp, Goto, account
<1>3. Settled'
  BY FetchAssumption DEF Inv, TypeOK, Settled, Filed, Mutex, Holding, Standing, Before,
    Passing, File, GiveUp, Goto, account
<1>4. Listed'
  BY FetchAssumption DEF Inv, TypeOK, Listed, Listing, Passing, Mutex, Holding, Standing, Before,
    File, GiveUp, Goto, account
<1>5. Standing'
  BY FetchAssumption DEF Inv, TypeOK, Standing, Before, Passing, Mutex, Holding, Listed, Listing,
    File, GiveUp, Goto, account
<1>6. Looked'
  BY FetchAssumption DEF Inv, TypeOK, Looked, Filing, Mutex, Holding, Standing, Before, Passing,
    File, GiveUp, Goto, account
<1>7. Quota'
  BY FetchAssumption DEF Inv, TypeOK, Quota, Accounted, Passing, Filing, Mutex, Holding, Listed,
    Listing, Standing, Before, Looked, Settled, Filed, NoDuplicates, File, GiveUp, Goto,
    account
<1>8. NoDuplicates'
  BY FetchAssumption DEF Inv, TypeOK, NoDuplicates, Quota, Accounted, Passing, Filing, Mutex,
    Holding, Listed, Listing, Standing, Before, Looked, File, GiveUp, Goto, account
<1>9. OnlyOrphansAreLost'
  BY FetchAssumption DEF Inv, TypeOK, OnlyOrphansAreLost, Settled, Filed, Looked, Filing,
    Standing, Before, Passing, Mutex, Holding, File, GiveUp, Goto, account
<1> QED
  BY <1>1, <1>2, <1>3, <1>4, <1>5, <1>6, <1>7, <1>8, <1>9 DEF Inv

LEMMA FilteredInv ==
  ASSUME Inv, NEW f \in Fetches, Filtered(f)
  PROVE  Inv'
<1>1. TypeOK'
  <2>1. (arrived \subseteq Messages /\ server \subseteq arrived /\ cached \subseteq arrived)'
    BY FetchAssumption DEF Inv, TypeOK, Steps, Filtered, Goto, store, account
  <2>2. (inbox \in [Messages -> Nat] /\ known \subseteq cached)'
    BY FetchAssumption DEF Inv, TypeOK, Steps, Filtered, Goto, store, account
  <2>3. (lock \in Fetches \cup {None})'
    BY FetchAssumption DEF Inv, TypeOK, Steps, Filtered, Goto, store, account
  <2>4. (connected \in BOOLEAN)'
    BY FetchAssumption DEF Inv, TypeOK, Steps, Filtered, Goto, store, account
  <2>5. (pc \in [Fetches -> Steps])'
    BY FetchAssumption DEF Inv, TypeOK, Steps, Filtered, Goto, store, account
  <2>6. (plain \in [Fetches -> BOOLEAN])'
    BY FetchAssumption DEF Inv, TypeOK, Steps, Filtered, Goto, store, account
  <2>7. (listed \in [Fetches -> SUBSET arrived] /\ fresh \in [Fetches -> SUBSET arrived])'
    BY FetchAssumption DEF Inv, TypeOK, Steps, Filtered, Goto, store, account
  <2>8. (todo \in [Fetches -> SUBSET arrived] /\ mem \in [Fetches -> SUBSET arrived])'
    BY FetchAssumption DEF Inv, TypeOK, Steps, Filtered, Goto, store, account
  <2>9. (cur \in [Fetches -> Messages \cup {None}])'
    BY FetchAssumption DEF Inv, TypeOK, Steps, Filtered, Goto, store, account
  <2>10. (failed \in [Fetches -> BOOLEAN] /\ err \in [Fetches -> BOOLEAN] /\ cancelled \in [Fetches -> BOOLEAN])'
    BY FetchAssumption DEF Inv, TypeOK, Steps, Filtered, Goto, store, account
  <2>11. (orphans \subseteq cached /\ mishaps \in 0..MaxMishaps)'
    BY FetchAssumption DEF Inv, TypeOK, Steps, Filtered, Goto, store, account
  <2>12. (\A g \in Fetches : cur[g] = None <=> pc[g] # "file")'
    BY FetchAssumption DEF Inv, TypeOK, Steps, Filtered, Goto, store, account
  <2> QED
    BY <2>1, <2>2, <2>3, <2>4, <2>5, <2>6, <2>7, <2>8, <2>9, <2>10, <2>11, <2>12 DEF TypeOK
<1>2. Mutex'
  BY FetchAssumption DEF Inv, TypeOK, Mutex, Holding, Filtered, Goto, store, account
<1>3. Settled'
  BY FetchAssumption DEF Inv, TypeOK, Settled, Filed, Mutex, Holding, Standing, Before,
    Passing, Filtered, Goto, store, account
<1>4. Listed'
  BY FetchAssumption DEF Inv, TypeOK, Listed, Listing, Passing, Mutex, Holding, Standing, Before,
    Filtered, Goto, store, account
<1>5. Standing'
  BY FetchAssumption DEF Inv, TypeOK, Standing, Before, Passing, Mutex, Holding, Listed, Listing,
    Filtered, Goto, store, account
<1>6. Looked'
  BY FetchAssumption DEF Inv, TypeOK, Looked, Filing, Mutex, Holding, Standing, Before, Passing,
    Filtered, Goto, store, account
<1>7. Quota'
  BY FetchAssumption DEF Inv, TypeOK, Quota, Accounted, Passing, Filing, Mutex, Holding, Listed,
    Listing, Standing, Before, Looked, Settled, Filed, NoDuplicates, Filtered, Goto, store,
    account
<1>8. NoDuplicates'
  BY FetchAssumption DEF Inv, TypeOK, NoDuplicates, Quota, Accounted, Passing, Filing, Mutex,
    Holding, Listed, Listing, Standing, Before, Looked, Filtered, Goto, store, account
<1>9. OnlyOrphansAreLost'
  BY FetchAssumption DEF Inv, TypeOK, OnlyOrphansAreLost, Settled, Filed, Looked, Filing,
    Standing, Before, Passing, Mutex, Holding, Filtered, Goto, store, account
<1> QED
  BY <1>1, <1>2, <1>3, <1>4, <1>5, <1>6, <1>7, <1>8, <1>9 DEF Inv

LEMMA SaveUidsInv ==
  ASSUME Inv, NEW f \in Fetches, SaveUids(f)
  PROVE  Inv'
<1>1. TypeOK'
  <2>1. (arrived \subseteq Messages /\ server \subseteq arrived /\ cached \subseteq arrived)'
    BY FetchAssumption DEF Inv, TypeOK, Steps, SaveUids, Goto, Mishap, account
  <2>2. (inbox \in [Messages -> Nat] /\ known \subseteq cached)'
    BY FetchAssumption DEF Inv, TypeOK, Steps, Settled, Filed, Standing, Before, Passing,
      SaveUids, Goto, Mishap, account
  <2>3. (lock \in Fetches \cup {None})'
    BY FetchAssumption DEF Inv, TypeOK, Steps, SaveUids, Goto, Mishap, account
  <2>4. (connected \in BOOLEAN)'
    BY FetchAssumption DEF Inv, TypeOK, Steps, SaveUids, Goto, Mishap, account
  <2>5. (pc \in [Fetches -> Steps])'
    BY FetchAssumption DEF Inv, TypeOK, Steps, SaveUids, Goto, Mishap, account
  <2>6. (plain \in [Fetches -> BOOLEAN])'
    BY FetchAssumption DEF Inv, TypeOK, Steps, SaveUids, Goto, Mishap, account
  <2>7. (listed \in [Fetches -> SUBSET arrived] /\ fresh \in [Fetches -> SUBSET arrived])'
    BY FetchAssumption DEF Inv, TypeOK, Steps, SaveUids, Goto, Mishap, account
  <2>8. (todo \in [Fetches -> SUBSET arrived] /\ mem \in [Fetches -> SUBSET arrived])'
    BY FetchAssumption DEF Inv, TypeOK, Steps, Settled, Filed, Standing, Before, Passing,
      SaveUids, Goto, Mishap, account
  <2>9. (cur \in [Fetches -> Messages \cup {None}])'
    BY FetchAssumption DEF Inv, TypeOK, Steps, SaveUids, Goto, Mishap, account
  <2>10. (failed \in [Fetches -> BOOLEAN] /\ err \in [Fetches -> BOOLEAN] /\ cancelled \in [Fetches -> BOOLEAN])'
    BY FetchAssumption DEF Inv, TypeOK, Steps, SaveUids, Goto, Mishap, account
  <2>11. (orphans \subseteq cached /\ mishaps \in 0..MaxMishaps)'
    BY FetchAssumption DEF Inv, TypeOK, Steps, Settled, Filed, Standing, Before, Passing,
      SaveUids, Goto, Mishap, account
  <2>12. (\A g \in Fetches : cur[g] = None <=> pc[g] # "file")'
    BY FetchAssumption DEF Inv, TypeOK, Steps, SaveUids, Goto, Mishap, account
  <2> QED
    BY <2>1, <2>2, <2>3, <2>4, <2>5, <2>6, <2>7, <2>8, <2>9, <2>10, <2>11, <2>12 DEF TypeOK
<1>2. Mutex'
  BY FetchAssumption DEF Inv, TypeOK, Mutex, Holding, SaveUids, Goto, Mishap, account
<1>3. Settled'
  BY FetchAssumption DEF Inv, TypeOK, Settled, Filed, Mutex, Holding, Standing, Before,
    Passing, SaveUids, Goto, Mishap, account
<1>4. Listed'
  BY FetchAssumption DEF Inv, TypeOK, Listed, Listing, Passing, Mutex, Holding, Standing, Before,
    SaveUids, Goto, Mishap, account
<1>5. Standing'
  BY FetchAssumption DEF Inv, TypeOK, Standing, Before, Passing, Mutex, Holding, Listed, Listing,
    SaveUids, Goto, Mishap, account
<1>6. Looked'
  BY FetchAssumption DEF Inv, TypeOK, Looked, Filing, Mutex, Holding, Standing, Before, Passing,
    SaveUids, Goto, Mishap, account
<1>7. Quota'
  BY FetchAssumption DEF Inv, TypeOK, Quota, Accounted, Passing, Filing, Mutex, Holding, Listed,
    Listing, Standing, Before, Looked, Settled, Filed, NoDuplicates, SaveUids, Goto, Mishap,
    account
<1>8. NoDuplicates'
  BY FetchAssumption DEF Inv, TypeOK, NoDuplicates, Quota, Accounted, Passing, Filing, Mutex,
    Holding, Listed, Listing, Standing, Before, Looked, SaveUids, Goto, Mishap, account
<1>9. OnlyOrphansAreLost'
  BY FetchAssumption DEF Inv, TypeOK, OnlyOrphansAreLost, Settled, Filed, Looked, Filing,
    Standing, Before, Passing, Mutex, Holding, SaveUids, Goto, Mishap, account
<1> QED
  BY <1>1, <1>2, <1>3, <1>4, <1>5, <1>6, <1>7, <1>8, <1>9 DEF Inv

LEMMA ExpungeInv ==
  ASSUME Inv, NEW f \in Fetches, Expunge(f)
  PROVE  Inv'
<1>1. TypeOK'
  BY FetchAssumption DEF Inv, TypeOK, Steps, Settled, Filed, Listed, Listing, Passing,
    Standing, Before, Expunge, Goto, account, work
<1>2. Mutex'
  BY FetchAssumption DEF Inv, TypeOK, Mutex, Holding, Expunge, Goto, account, work
<1>3. Settled'
  BY FetchAssumption DEF Inv, TypeOK, Settled, Filed, Mutex, Holding, Standing, Before,
    Passing, Expunge, Goto, account, work
<1>4. Listed'
  BY FetchAssumption DEF Inv, TypeOK, Listed, Listing, Passing, Mutex, Holding, Standing, Before,
    Expunge, Goto, account, work
<1>5. Standing'
  BY FetchAssumption DEF Inv, TypeOK, Standing, Before, Passing, Mutex, Holding, Listed, Listing,
    Expunge, Goto, account, work
<1>6. Looked'
  BY FetchAssumption DEF Inv, TypeOK, Looked, Filing, Mutex, Holding, Standing, Before, Passing,
    Expunge, Goto, account, work
<1>7. Quota'
  BY FetchAssumption DEF Inv, TypeOK, Quota, Accounted, Passing, Filing, Mutex, Holding, Listed,
    Listing, Standing, Before, Looked, Settled, Filed, NoDuplicates, Expunge, Goto, account,
    work
<1>8. NoDuplicates'
  BY FetchAssumption DEF Inv, TypeOK, NoDuplicates, Quota, Accounted, Passing, Filing, Mutex,
    Holding, Listed, Listing, Standing, Before, Looked, Expunge, Goto, account, work
<1>9. OnlyOrphansAreLost'
  BY FetchAssumption DEF Inv, TypeOK, OnlyOrphansAreLost, Settled, Filed, Looked, Filing,
    Standing, Before, Passing, Mutex, Holding, Expunge, Goto, account, work
<1> QED
  BY <1>1, <1>2, <1>3, <1>4, <1>5, <1>6, <1>7, <1>8, <1>9 DEF Inv

LEMMA UnlockInv ==
  ASSUME Inv, NEW f \in Fetches, Unlock(f)
  PROVE  Inv'
<1>1. TypeOK'
  BY FetchAssumption DEF Inv, TypeOK, Steps, Settled, Filed, Listed, Listing, Passing,
    Standing, Before, Unlock, Goto, store, work
<1>2. Mutex'
  BY FetchAssumption DEF Inv, TypeOK, Mutex, Holding, Unlock, Goto, store, work
<1>3. Settled'
  BY FetchAssumption DEF Inv, TypeOK, Settled, Filed, Mutex, Holding, Standing, Before,
    Passing, Unlock, Goto, store, work
<1>4. Listed'
  BY FetchAssumption DEF Inv, TypeOK, Listed, Listing, Passing, Mutex, Holding, Standing, Before,
    Unlock, Goto, store, work
<1>5. Standing'
  BY FetchAssumption DEF Inv, TypeOK, Standing, Before, Passing, Mutex, Holding, Listed, Listing,
    Unlock, Goto, store, work
<1>6. Looked'
  BY FetchAssumption DEF Inv, TypeOK, Looked, Filing, Mutex, Holding, Standing, Before, Passing,
    Unlock, Goto, store, work
<1>7. Quota'
  BY FetchAssumption DEF Inv, TypeOK, Quota, Accounted, Passing, Filing, Mutex, Holding, Listed,
    Listing, Standing, Before, Looked, Settled, Filed, NoDuplicates, Unlock, Goto, store,
    work
<1>8. NoDuplicates'
  BY FetchAssumption DEF Inv, TypeOK, NoDuplicates, Quota, Accounted, Passing, Filing, Mutex,
    Holding, Listed, Listing, Standing, Before, Looked, Unlock, Goto, store, work
<1>9. OnlyOrphansAreLost'
  BY FetchAssumption DEF Inv, TypeOK, OnlyOrphansAreLost, Settled, Filed, Looked, Filing,
    Standing, Before, Passing, Mutex, Holding, Unlock, Goto, store, work
<1> QED
  BY <1>1, <1>2, <1>3, <1>4, <1>5, <1>6, <1>7, <1>8, <1>9 DEF Inv

LEMMA DisconnectInv ==
  ASSUME Inv, NEW f \in Fetches, Disconnect(f)
  PROVE  Inv'
<1>1. TypeOK'
  <2>1. (arrived \subseteq Messages /\ server \subseteq arrived /\ cached \subseteq arrived)'
    BY FetchAssumption DEF Inv, TypeOK, Steps, Disconnect, Goto, store, work
  <2>2. (inbox \in [Messages -> Nat] /\ known \subseteq cached)'
    BY FetchAssumption DEF Inv, TypeOK, Steps, Settled, Filed, Standing, Before, Passing,
      Disconnect, Goto, store, work
  <2>3. (lock \in Fetches \cup {None})'
    BY FetchAssumption DEF Inv, TypeOK, Steps, Disconnect, Goto, store, work
  <2>4. (connected \in BOOLEAN)'
    BY FetchAssumption DEF Inv, TypeOK, Steps, Disconnect, Goto, store, work
  <2>5. (pc \in [Fetches -> Steps])'
    BY FetchAssumption DEF Inv, TypeOK, Steps, Disconnect, Goto, store, work
  <2>6. (plain \in [Fetches -> BOOLEAN])'
    BY FetchAssumption DEF Inv, TypeOK, Steps, Disconnect, Goto, store, work
  <2>7. (listed \in [Fetches -> SUBSET arrived] /\ fresh \in [Fetches -> SUBSET arrived])'
    BY FetchAssumption DEF Inv, TypeOK, Steps, Disconnect, Goto, store, work
  <2>8. (todo \in [Fetches -> SUBSET arrived] /\ mem \in [Fetches -> SUBSET arrived])'
    BY FetchAssumption DEF Inv, TypeOK, Steps, Settled, Filed, Standing, Before, Passing,
      Disconnect, Goto, store, work
  <2>9. (cur \in [Fetches -> Messages \cup {None}])'
    BY FetchAssumption DEF Inv, TypeOK, Steps, Disconnect, Goto, store, work
  <2>10. (failed \in [Fetches -> BOOLEAN] /\ err \in [Fetches -> BOOLEAN] /\ cancelled \in [Fetches -> BOOLEAN])'
    BY FetchAssumption DEF Inv, TypeOK, Steps, Disconnect, Goto, store, work
  <2>11. (orphans \subseteq cached /\ mishaps \in 0..MaxMishaps)'
    BY FetchAssumption DEF Inv, TypeOK, Steps, Settled, Filed, Standing, Before, Passing,
      Disconnect, Goto, store, work
  <2>12. (\A g \in Fetches : cur[g] = None <=> pc[g] # "file")'
    BY FetchAssumption DEF Inv, TypeOK, Steps, Disconnect, Goto, store, work
  <2> QED
    BY <2>1, <2>2, <2>3, <2>4, <2>5, <2>6, <2>7, <2>8, <2>9, <2>10, <2>11, <2>12 DEF TypeOK
<1>2. Mutex'
  BY FetchAssumption DEF Inv, TypeOK, Mutex, Holding, Disconnect, Goto, store, work
<1>3. Settled'
  BY FetchAssumption DEF Inv, TypeOK, Settled, Filed, Mutex, Holding, Standing, Before,
    Passing, Disconnect, Goto, store, work
<1>4. Listed'
  BY FetchAssumption DEF Inv, TypeOK, Listed, Listing, Passing, Mutex, Holding, Standing, Before,
    Disconnect, Goto, store, work
<1>5. Standing'
  BY FetchAssumption DEF Inv, TypeOK, Standing, Before, Passing, Mutex, Holding, Listed, Listing,
    Disconnect, Goto, store, work
<1>6. Looked'
  BY FetchAssumption DEF Inv, TypeOK, Looked, Filing, Mutex, Holding, Standing, Before, Passing,
    Disconnect, Goto, store, work
<1>7. Quota'
  BY FetchAssumption DEF Inv, TypeOK, Quota, Accounted, Passing, Filing, Mutex, Holding, Listed,
    Listing, Standing, Before, Looked, Settled, Filed, NoDuplicates, Disconnect, Goto,
    store, work
<1>8. NoDuplicates'
  BY FetchAssumption DEF Inv, TypeOK, NoDuplicates, Quota, Accounted, Passing, Filing, Mutex,
    Holding, Listed, Listing, Standing, Before, Looked, Disconnect, Goto, store, work
<1>9. OnlyOrphansAreLost'
  BY FetchAssumption DEF Inv, TypeOK, OnlyOrphansAreLost, Settled, Filed, Looked, Filing,
    Standing, Before, Passing, Mutex, Holding, Disconnect, Goto, store, work
<1> QED
  BY <1>1, <1>2, <1>3, <1>4, <1>5, <1>6, <1>7, <1>8, <1>9 DEF Inv

LEMMA DoneInv ==
  ASSUME Inv, NEW f \in Fetches, Done(f)
  PROVE  Inv'
<1>1. TypeOK'
  BY FetchAssumption DEF Inv, TypeOK, Steps, Settled, Filed, Listed, Listing, Passing,
    Standing, Before, Done, Goto, store, account, work
<1>2. Mutex'
  BY FetchAssumption DEF Inv, TypeOK, Mutex, Holding, Done, Goto, store, account, work
<1>3. Settled'
  BY FetchAssumption DEF Inv, TypeOK, Settled, Filed, Mutex, Holding, Standing, Before,
    Passing, Done, Goto, store, account, work
<1>4. Listed'
  BY FetchAssumption DEF Inv, TypeOK, Listed, Listing, Passing, Mutex, Holding, Standing, Before,
    Done, Goto, store, account, work
<1>5. Standing'
  BY FetchAssumption DEF Inv, TypeOK, Standing, Before, Passing, Mutex, Holding, Listed, Listing,
    Done, Goto, store, account, work
<1>6. Looked'
  BY FetchAssumption DEF Inv, TypeOK, Looked, Filing, Mutex, Holding, Standing, Before, Passing,
    Done, Goto, store, account, work
<1>7. Quota'
  BY FetchAssumption DEF Inv, TypeOK, Quota, Accounted, Passing, Filing, Mutex, Holding, Listed,
    Listing, Standing, Before, Looked, Settled, Filed, NoDuplicates, Done, Goto, store,
    account, work
<1>8. NoDuplicates'
  BY FetchAssumption DEF Inv, TypeOK, NoDuplicates, Quota, Accounted, Passing, Filing, Mutex,
    Holding, Listed, Listing, Standing, Before, Looked, Done, Goto, store, account, work
<1>9. OnlyOrphansAreLost'
  BY FetchAssumption DEF Inv, TypeOK, OnlyOrphansAreLost, Settled, Filed, Looked, Filing,
    Standing, Before, Passing, Mutex, Holding, Done, Goto, store, account, work
<1> QED
  BY <1>1, <1>2, <1>3, <1>4, <1>5, <1>6, <1>7, <1>8, <1>9 DEF Inv

LEMMA CrashInv ==
  ASSUME Inv, Crash
  PROVE  Inv'
<1>1. TypeOK'
  <2>1. (arrived \subseteq Messages /\ server \subseteq arrived /\ cached \subseteq arrived)'
    BY FetchAssumption DEF Inv, TypeOK, Steps, Crash, Mishap, store
  <2>2. (inbox \in [Messages -> Nat] /\ known \subseteq cached)'
    BY FetchAssumption DEF Inv, TypeOK, Steps, Settled, Filed, Standing, Before, Passing,
      Crash, Mishap, store
  <2>3. (lock \in Fetches \cup {None})'
    BY FetchAssumption DEF Inv, TypeOK, Steps, Crash, Mishap, store
  <2>4. (connected \in BOOLEAN)'
    BY FetchAssumption DEF Inv, TypeOK, Steps, Crash, Mishap, store
  <2>5. (pc \in [Fetches -> Steps])'
    BY FetchAssumption DEF Inv, TypeOK, Steps, Crash, Mishap, store
  <2>6. (plain \in [Fetches -> BOOLEAN])'
    BY FetchAssumption DEF Inv, TypeOK, Steps, Crash, Mishap, store
  <2>7. (listed \in [Fetches -> SUBSET arrived] /\ fresh \in [Fetches -> SUBSET arrived])'
    BY FetchAssumption DEF Inv, TypeOK, Steps, Crash, Mishap, store
  <2>8. (todo \in [Fetches -> SUBSET arrived] /\ mem \in [Fetches -> SUBSET arrived])'
    BY FetchAssumption DEF Inv, TypeOK, Steps, Settled, Filed, Standing, Before, Passing,
      Crash, Mishap, store
  <2>9. (cur \in [Fetches -> Messages \cup {None}])'
    BY FetchAssumption DEF Inv, TypeOK, Steps, Crash, Mishap, store
  <2>10. (failed \in [Fetches -> BOOLEAN] /\ err \in [Fetches -> BOOLEAN] /\ cancelled \in [Fetches -> BOOLEAN])'
    BY FetchAssumption DEF Inv, TypeOK, Steps, Crash, Mishap, store
  <2>11. (orphans \subseteq cached /\ mishaps \in 0..MaxMishaps)'
    BY FetchAssumption DEF Inv, TypeOK, Steps, Settled, Filed, Standing, Before, Passing,
      Crash, Mishap, store
  <2>12. (\A g \in Fetches : cur[g] = None <=> pc[g] # "file")'
    BY FetchAssumption DEF Inv, TypeOK, Steps, Crash, Mishap, store
  <2> QED
    BY <2>1, <2>2, <2>3, <2>4, <2>5, <2>6, <2>7, <2>8, <2>9, <2>10, <2>11, <2>12 DEF TypeOK
<1>2. Mutex'
  BY FetchAssumption DEF Inv, TypeOK, Mutex, Holding, Crash, Mishap, store
<1>3. Settled'
  BY FetchAssumption DEF Inv, TypeOK, Settled, Filed, Mutex, Holding, Standing, Before,
    Passing, Crash, Mishap, store
<1>4. Listed'
  BY FetchAssumption DEF Inv, TypeOK, Listed, Listing, Passing, Mutex, Holding, Standing, Before,
    Crash, Mishap, store
<1>5. Standing'
  BY FetchAssumption DEF Inv, TypeOK, Standing, Before, Passing, Mutex, Holding, Listed, Listing,
    Crash, Mishap, store
<1>6. Looked'
  BY FetchAssumption DEF Inv, TypeOK, Looked, Filing, Mutex, Holding, Standing, Before, Passing,
    Crash, Mishap, store
<1>7. Quota'
  BY FetchAssumption DEF Inv, TypeOK, Quota, Accounted, Passing, Filing, Mutex, Holding, Listed,
    Listing, Standing, Before, Looked, Settled, Filed, NoDuplicates, Crash, Mishap, store
<1>8. NoDuplicates'
  BY FetchAssumption DEF Inv, TypeOK, NoDuplicates, Quota, Accounted, Passing, Filing, Mutex,
    Holding, Listed, Listing, Standing, Before, Looked, Crash, Mishap, store
<1>9. OnlyOrphansAreLost'
  BY FetchAssumption DEF Inv, TypeOK, OnlyOrphansAreLost, Settled, Filed, Looked, Filing,
    Standing, Before, Passing, Mutex, Holding, Crash, Mishap, store
<1> QED
  BY <1>1, <1>2, <1>3, <1>4, <1>5, <1>6, <1>7, <1>8, <1>9 DEF Inv

LEMMA InitInv == Init => Inv
<1> SUFFICES ASSUME Init PROVE Inv
  OBVIOUS
<1>1. TypeOK
  <2>1. arrived \subseteq Messages /\ server \subseteq arrived /\ cached \subseteq arrived
    BY FetchAssumption DEF Init, Steps
  <2>2. inbox \in [Messages -> Nat] /\ known \subseteq cached
    BY FetchAssumption DEF Init, Steps
  <2>3. lock \in Fetches \cup {None}
    BY FetchAssumption DEF Init, Steps
  <2>4. connected \in BOOLEAN
    BY FetchAssumption DEF Init, Steps
  <2>5. pc \in [Fetches -> Steps]
    BY FetchAssumption DEF Init, Steps
  <2>6. plain \in [Fetches -> BOOLEAN]
    BY FetchAssumption DEF Init, Steps
  <2>7. listed \in [Fetches -> SUBSET arrived] /\ fresh \in [Fetches -> SUBSET arrived]
    BY FetchAssumption DEF Init, Steps
  <2>8. todo \in [Fetches -> SUBSET arrived] /\ mem \in [Fetches -> SUBSET arrived]
    BY FetchAssumption DEF Init, Steps
  <2>9. cur \in [Fetches -> Messages \cup {None}]
    BY FetchAssumption DEF Init, Steps
  <2>10. failed \in [Fetches -> BOOLEAN] /\ err \in [Fetches -> BOOLEAN] /\ cancelled \in [Fetches -> BOOLEAN]
    BY FetchAssumption DEF Init, Steps
  <2>11. orphans \subseteq cached /\ mishaps \in 0..MaxMishaps
    BY FetchAssumption DEF Init, Steps
  <2>12. \A f \in Fetches : cur[f] = None <=> pc[f] # "file"
    BY FetchAssumption DEF Init, Steps
  <2> QED
    BY <2>1, <2>2, <2>3, <2>4, <2>5, <2>6, <2>7, <2>8, <2>9, <2>10, <2>11, <2>12 DEF TypeOK
<1>2. Mutex
  BY FetchAssumption DEF Init, TypeOK, Steps, Mutex, Holding
<1>3. Settled
  BY FetchAssumption DEF Init, TypeOK, Steps, Settled, Filed
<1>4. Listed
  BY FetchAssumption DEF Init, TypeOK, Steps, Listed, Listing, Passing
<1>5. Standing
  BY FetchAssumption DEF Init, TypeOK, Steps, Standing, Before, Passing
<1>6. Looked
  BY FetchAssumption DEF Init, TypeOK, Steps, Looked, Filing
<1>7. Quota
  BY FetchAssumption DEF Init, TypeOK, Steps, Quota, Accounted, Passing, Filing
<1>8. NoDuplicates
  <2>1. mishaps = 0 /\ \A m \in Messages : inbox[m] = 0
    BY DEF Init
  <2>2. 0 <= 1 + mishaps
    BY <2>1
  <2> QED
    BY <2>1, <2>2, Zenon DEF NoDuplicates
<1>9. OnlyOrphansAreLost
  BY FetchAssumption DEF Init, TypeOK, Steps, OnlyOrphansAreLost
<1> QED
  BY <1>1, <1>2, <1>3, <1>4, <1>5, <1>6, <1>7, <1>8, <1>9 DEF Inv

LEMMA StutterInv ==
  ASSUME Inv, UNCHANGED vars
  PROVE  Inv'
<1> USE DEF vars, store, account, work
<1>1. TypeOK'
  BY DEF Inv, TypeOK, Steps
<1>2. Mutex'
  BY DEF Inv, Mutex, Holding
<1>3. Settled'
  BY DEF Inv, Settled, Filed
<1>4. Listed'
  BY DEF Inv, Listed, Listing, Passing
<1>5. Standing'
  BY DEF Inv, Standing, Before, Passing
<1>6. Looked'
  BY DEF Inv, Looked, Filing
<1>7. Quota'
  BY DEF Inv, Quota, Accounted, Passing, Filing
<1>8. NoDuplicates'
  BY DEF Inv, NoDuplicates
<1>9. OnlyOrphansAreLost'
  BY DEF Inv, OnlyOrphansAreLost
<1> QED
  BY <1>1, <1>2, <1>3, <1>4, <1>5, <1>6, <1>7, <1>8, <1>9 DEF Inv

\* Every state of Fetch satisfies the invariant.
THEOREM Invariance == Spec => []Inv
<1>1. Inv /\ [Next]_vars => Inv'
  <2> SUFFICES ASSUME Inv, [Next]_vars PROVE Inv'
    OBVIOUS
  <2>1. ASSUME NEW m \in Messages, Arrive(m) PROVE Inv'
    BY <2>1, ArriveInv
  <2>2. ASSUME NEW f \in Fetches, Push(f) PROVE Inv'
    BY <2>2, PushInv
  <2>3. ASSUME NEW f \in Fetches, Cancel(f) PROVE Inv'
    BY <2>3, CancelInv
  <2>4. ASSUME NEW f \in Fetches, Lock(f) PROVE Inv'
    BY <2>4, LockInv
  <2>5. ASSUME NEW f \in Fetches, OpenInbox(f) PROVE Inv'
    BY <2>5, OpenInboxInv
  <2>6. ASSUME NEW f \in Fetches, FetchOld(f) PROVE Inv'
    BY <2>6, FetchOldInv
  <2>7. ASSUME NEW f \in Fetches, OpenCache(f) PROVE Inv'
    BY <2>7, OpenCacheInv
  <2>8. ASSUME NEW f \in Fetches, FindDestination(f) PROVE Inv'
    BY <2>8, FindDestinationInv
  <2>9. ASSUME NEW f \in Fetches, TakeUids(f) PROVE Inv'
    BY <2>9, TakeUidsInv
  <2>10. ASSUME NEW f \in Fetches, NEW m \in Messages, Download(f, m) PROVE Inv'
    BY <2>10, DownloadInv
  <2>11. ASSUME NEW f \in Fetches, File(f) PROVE Inv'
    BY <2>11, FileInv
  <2>12. ASSUME NEW f \in Fetches, Filtered(f) PROVE Inv'
    BY <2>12, FilteredInv
  <2>13. ASSUME NEW f \in Fetches, SaveUids(f) PROVE Inv'
    BY <2>13, SaveUidsInv
  <2>14. ASSUME NEW f \in Fetches, Expunge(f) PROVE Inv'
    BY <2>14, ExpungeInv
  <2>15. ASSUME NEW f \in Fetches, Unlock(f) PROVE Inv'
    BY <2>15, UnlockInv
  <2>16. ASSUME NEW f \in Fetches, Disconnect(f) PROVE Inv'
    BY <2>16, DisconnectInv
  <2>17. ASSUME NEW f \in Fetches, Done(f) PROVE Inv'
    BY <2>17, DoneInv
  <2>18. CASE Crash
    BY <2>18, CrashInv
  <2>19. ASSUME NEW m \in Messages, Read(m) PROVE Inv'
    BY <2>19, ReadInv
  <2>20. CASE UNCHANGED vars
    BY <2>20, StutterInv
  <2> QED
    BY <2>1, <2>2, <2>3, <2>4, <2>5, <2>6, <2>7, <2>8, <2>9, <2>10, <2>11, <2>12, <2>13, <2>14,
      <2>15, <2>16, <2>17, <2>18, <2>19, <2>20 DEF Next, Run
<1> QED
  BY <1>1, InitInv, PTL DEF Spec

\* The types, for any messages, fetches and mishaps.
THEOREM TypeCorrect == Spec => []TypeOK
  BY Invariance, PTL DEF Inv

\* A copy of a message beyond the first has cost a crash or a uid cache that
\* was not read or not written.
THEOREM FiledOnce == Spec => []NoDuplicates
  BY Invariance, PTL DEF Inv

\* fetch_mail_exec deletes nothing from the server that was not filed, but for
\* the messages entered as known after a filter pass that failed before them.
THEOREM NothingElseIsLost == Spec => []OnlyOrphansAreLost
  BY Invariance, PTL DEF Inv
=============================================================================
