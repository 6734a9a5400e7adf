------------------------ MODULE FolderCache_proofs ------------------------
(***************************************************************************)
(* For any stores, folders and requests: no update stays behind            *)
(* (UpdatesAreFlushed) and store_info_free finds only live requests        *)
(* (WaitingAreAlive).  Neither depends on what the handlers queue: the     *)
(* first rests on flush_updates and the idle callback changing update_id   *)
(* under one mutex, the second on every end of a request taking it from    *)
(* the list of its store.                                                  *)
(*                                                                         *)
(* Then what the handlers queue.  The pending updates are a path from what *)
(* the listeners know to what the table has, but for the names that a      *)
(* rename took away in silence or put under a freed key (ListInv).  A      *)
(* handler makes the path longer at its end, one entry at a time (Right),  *)
(* emission makes it shorter at its beginning.  So listeners and lists     *)
(* converge (ListenersConverge, UrisConverge), and the cache implements    *)
(* FolderSignals (SignalsAreALog).                                         *)
(***************************************************************************)
EXTENDS FolderCache, FiniteSetTheorems, WellFoundedInduction, TLAPS

QueueType == updateId \in BOOLEAN /\ flushing \in BOOLEAN /\ sources \in {0, 1}
QueueInv == QueueType /\ UpdatesAreFlushed

\* Queueing any updates keeps them bound to be flushed.
LEMMA PushFlushes ==
  ASSUME QueueInv, NEW ups, Push(ups), UNCHANGED <<flushing, emitting>>
  PROVE  QueueInv'
<1>1. CASE ups = <<>>
  <2>1. updates' # <<>> => updates # <<>>
    BY <1>1 DEF Push
  <2> QED
    BY <1>1, <2>1 DEF QueueInv, QueueType, UpdatesAreFlushed, Push
<1>2. CASE ups # <<>>
  <2>1. updateId' = TRUE
    BY <1>2 DEF QueueInv, QueueType, Push
  <2>2. CASE updateId
    BY <2>1, <2>2 DEF QueueInv, QueueType, UpdatesAreFlushed, Push
  <2>3. CASE ~updateId
    <3>1. sources = 0 /\ flushing = FALSE
      BY <2>3 DEF QueueInv, QueueType, UpdatesAreFlushed
    <3>2. sources' = 1
      BY <1>2, <2>3, <3>1 DEF Push
    <3>3. flushing' = FALSE
      BY <3>1
    <3> QED
      BY <2>1, <3>2, <3>3 DEF QueueInv, QueueType, UpdatesAreFlushed
  <2> QED
    BY <2>2, <2>3
<1> QED
  BY <1>1, <1>2

LEMMA QueueStep ==
  ASSUME QueueInv, [Next]_vars
  PROVE  QueueInv'
<1> USE DEF flush, queue, table
<1>1. ASSUME NEW ups, Push(ups), UNCHANGED flush
      PROVE  QueueInv'
  BY <1>1, PushFlushes
<1>2. ASSUME UNCHANGED <<queue, flush>>
      PROVE  QueueInv'
  BY <1>2 DEF QueueInv, QueueType, UpdatesAreFlushed
<1>3. CASE \E s \in Stores : \E r \in Requests : NoteStore(s, r)
  BY <1>2, <1>3 DEF NoteStore
<1>4. CASE \E s \in Stores : \E fi \in FolderInfos : FolderAppears(s, fi)
  BY <1>1, <1>4 DEF FolderAppears, SetEntries
<1>5. CASE \E s \in Stores : \E n \in Names : FolderGoes(s, n)
  BY <1>1, <1>5 DEF FolderGoes, SetEntries
<1>6. CASE \E s \in Stores : \E n \in Names : NoteFolder(s, n)
  BY <1>1, <1>6 DEF NoteFolder
<1>16. CASE \E s \in Stores : \E n \in Names : LookUpSpoilt(s, n)
  BY <1>2, <1>16 DEF LookUpSpoilt
<1>7. CASE \E s \in Stores : \E pairs \in Renames : FolderRenamed(s, pairs)
  BY <1>1, <1>7 DEF FolderRenamed, SetEntries
<1>8. CASE \E s \in Stores : ServiceRemoved(s)
  BY <1>1, <1>8 DEF ServiceRemoved, SetEntries
<1>9. CASE \E r \in Requests : WentOnline(r) \/ Cancel(r)
  BY <1>2, <1>9 DEF WentOnline, Cancel
<1>10. CASE \E r \in Requests : \E infos \in Lists : Listed(r, infos)
  BY <1>1, <1>10 DEF Listed, SetEntries
<1>11. CASE Flush
  <2>1. sources = 1 /\ sources' = 0
    BY <1>11 DEF QueueInv, QueueType, Flush
  <2>2. updateId /\ flushing' /\ flushing' \in BOOLEAN
    BY <1>11, <2>1 DEF QueueInv, UpdatesAreFlushed, Flush
  <2> QED
    BY <1>11, <2>1, <2>2 DEF QueueInv, QueueType, UpdatesAreFlushed, Flush
<1>12. CASE Take
  BY <1>12 DEF QueueInv, QueueType, UpdatesAreFlushed, Take
<1>13. CASE Emit
  BY <1>13 DEF QueueInv, QueueType, UpdatesAreFlushed, Emit
<1>14. CASE FlushEnd
  BY <1>14 DEF QueueInv, QueueType, UpdatesAreFlushed, FlushEnd
<1>15. CASE UNCHANGED vars
  BY <1>2, <1>15 DEF vars
<1> QED
  BY <1>3, <1>4, <1>5, <1>6, <1>7, <1>8, <1>9, <1>10, <1>11, <1>12, <1>13, <1>14, <1>15, <1>16
  DEF Next

LEMMA QueueInit ==
  ASSUME Init
  PROVE  QueueInv
<1>1. sources \in {0, 1} /\ sources # 1
  BY DEF Init
<1> QED
  BY <1>1 DEF Init, QueueInv, QueueType, UpdatesAreFlushed

\* An update that is queued has an idle callback to take it, and only one, for
\* any stores and whatever the handlers queue.
THEOREM NoUpdateStaysBehind == Spec => []UpdatesAreFlushed
<1>1. Init => QueueInv
  BY QueueInit
<1>2. QueueInv => UpdatesAreFlushed
  BY DEF QueueInv
<1> QED
  BY <1>1, <1>2, QueueStep, PTL DEF Spec

-----------------------------------------------------------------------------
RequestType ==
  /\ noted \subseteq Stores
  /\ waiting \in [Stores -> SUBSET Requests]
  /\ request \in [Requests -> {None} \cup Live]
RequestInv == RequestType /\ WaitingAreAlive

\* A request is no more: it has left the list of its store.
LEMMA RequestEnds ==
  ASSUME RequestInv, NEW r \in Requests, request[r] \in Live,
         request' = [request EXCEPT ![r] = None], noted' = noted,
         \/ waiting' = [waiting EXCEPT ![request[r].store] = @ \ {r}]
         \/ waiting' = waiting /\ request[r].store \notin noted
  PROVE  RequestInv'
<1>1. request[r].store \in Stores
  BY DEF Live
<1>2. RequestType'
  BY <1>1 DEF RequestInv, RequestType
<1>3. ASSUME NEW s \in Stores, NEW q \in waiting'[s]
      PROVE  q # r /\ q \in waiting[s]
  BY <1>1, <1>3 DEF RequestInv, RequestType, WaitingAreAlive
<1>4. ASSUME NEW s \in Stores, NEW q \in waiting'[s]
      PROVE  s \in noted' /\ request'[q] # None /\ request'[q].store = s
  <2>1. q # r /\ q \in waiting[s] /\ q \in Requests
    BY <1>3 DEF RequestInv, RequestType
  <2>2. request'[q] = request[q]
    BY <2>1 DEF RequestInv, RequestType
  <2> QED
    BY <2>1, <2>2 DEF RequestInv, WaitingAreAlive
<1> QED
  BY <1>2, <1>4 DEF RequestInv, WaitingAreAlive

LEMMA RequestsStay ==
  ASSUME RequestInv, UNCHANGED <<noted, waiting, request>>
  PROVE  RequestInv'
BY DEF RequestInv, RequestType, WaitingAreAlive, Live

LEMMA NoteStoreRequests ==
  ASSUME RequestInv, NEW s \in Stores, NEW r \in Requests, NoteStore(s, r)
  PROVE  RequestInv'
<1>1. PICK live \in Live : live.store = s /\ request' = [request EXCEPT ![r] = live]
  BY DEF NoteStore, Live
<1>2. request[r] = None /\ live # None
  BY FolderCacheAssumption, <1>1 DEF NoteStore
<1>3. waiting' = [waiting EXCEPT ![s] = @ \cup {r}] /\ noted' = noted \cup {s}
  BY DEF NoteStore
<1>4. \A x \in Stores : r \notin waiting[x]
  BY <1>2 DEF RequestInv, WaitingAreAlive
<1>5. request'[r] = live /\ \A q \in Requests \ {r} : request'[q] = request[q]
  BY <1>1 DEF RequestInv, RequestType
<1>6. RequestType'
  BY <1>1, <1>3 DEF RequestInv, RequestType
<1>7. ASSUME NEW x \in Stores, NEW q \in waiting'[x]
      PROVE  x \in noted' /\ request'[q] # None /\ request'[q].store = x
  <2>1. CASE q = r
    BY <1>1, <1>2, <1>3, <1>4, <1>5, <1>7, <2>1 DEF RequestInv, RequestType
  <2>2. CASE q # r
    BY <1>3, <1>5, <1>7, <2>2 DEF RequestInv, RequestType, WaitingAreAlive
  <2> QED
    BY <2>1, <2>2
<1> QED
  BY <1>6, <1>7 DEF RequestInv, WaitingAreAlive

LEMMA CancelRequests ==
  ASSUME RequestInv, NEW r \in Requests, Cancel(r)
  PROVE  RequestInv'
<1>1. request[r] \in Live /\ request'[r] \in Live /\ request'[r].store = request[r].store
  BY DEF RequestInv, RequestType, Cancel, Live
<1>2. \A q \in Requests \ {r} : request'[q] = request[q]
  BY DEF RequestInv, RequestType, Cancel
<1>3. UNCHANGED <<noted, waiting>> /\ request' \in [Requests -> {None} \cup Live]
  BY <1>1 DEF RequestInv, RequestType, Cancel
<1> QED
  BY FolderCacheAssumption, <1>1, <1>2, <1>3 DEF RequestInv, RequestType, WaitingAreAlive

LEMMA WentOnlineRequests ==
  ASSUME RequestInv, NEW r \in Requests, WentOnline(r)
  PROVE  RequestInv'
<1>1. request[r] \in Live
  BY DEF RequestInv, RequestType, WentOnline
<1>2. CASE request' = [request EXCEPT ![r].phase = "list"] /\ UNCHANGED <<waiting, noted>>
  <2>1. request'[r] \in Live /\ request'[r].store = request[r].store
    BY <1>1, <1>2 DEF RequestInv, RequestType, Live
  <2>2. \A q \in Requests \ {r} : request'[q] = request[q]
    BY <1>2 DEF RequestInv, RequestType
  <2> QED
    BY FolderCacheAssumption, <1>2, <2>1, <2>2 DEF RequestInv, RequestType, WaitingAreAlive
<1>3. CASE /\ request' = [request EXCEPT ![r] = None] /\ UNCHANGED noted
           /\ waiting' = [waiting EXCEPT ![request[r].store] = @ \ {r}]
  BY <1>1, <1>3, RequestEnds
<1> QED
  BY <1>2, <1>3 DEF WentOnline

LEMMA ListedRequests ==
  ASSUME RequestInv, NEW r \in Requests, NEW infos \in Lists, Listed(r, infos)
  PROVE  RequestInv'
<1>1. request[r] \in Live
  BY DEF RequestInv, RequestType, Listed
<1>2. /\ request' = [request EXCEPT ![r] = None] /\ UNCHANGED noted
      /\ waiting' = [waiting EXCEPT ![request[r].store] =
            IF request[r].store \in noted THEN @ \ {r} ELSE @]
  BY DEF Listed
<1>3. CASE request[r].store \in noted
  BY <1>1, <1>2, <1>3, RequestEnds
<1>4. CASE request[r].store \notin noted
  <2>1. waiting' = waiting
    BY <1>2, <1>4 DEF RequestInv, RequestType
  <2> QED
    BY <1>1, <1>2, <1>4, <2>1, RequestEnds
<1> QED
  BY <1>3, <1>4

LEMMA ServiceRemovedRequests ==
  ASSUME RequestInv, NEW s \in Stores, ServiceRemoved(s)
  PROVE  RequestInv'
<1>1. \A q \in Requests :
        \/ request'[q] = request[q]
        \/ request'[q] = [request[q] EXCEPT !.cancelled = TRUE] /\ q \in waiting[s]
  BY Zenon DEF ServiceRemoved
<1>2. ASSUME NEW q \in Requests
      PROVE  /\ request'[q] \in {None} \cup Live
             /\ request[q] # None => request'[q] # None /\ request'[q].store = request[q].store
  <2>1. CASE request'[q] = request[q]
    BY <2>1 DEF RequestInv, RequestType
  <2>2. CASE request'[q] = [request[q] EXCEPT !.cancelled = TRUE] /\ q \in waiting[s]
    <3>1. request[q] \in Live
      BY <2>2 DEF RequestInv, RequestType, WaitingAreAlive
    <3>2. request'[q] \in Live /\ request'[q].store = request[q].store
      BY <2>2, <3>1 DEF Live
    <3> QED
      BY FolderCacheAssumption, <3>2
  <2> QED
    BY <1>1, <2>1, <2>2
<1>3. request' \in [Requests -> {None} \cup Live]
  <2>1. request' = [q \in Requests |-> request'[q]]
    BY DEF ServiceRemoved
  <2> QED
    BY <1>2, <2>1
<1>4. waiting' = [waiting EXCEPT ![s] = {}] /\ noted' = noted \ {s}
  BY DEF ServiceRemoved
<1> QED
  BY <1>2, <1>3, <1>4 DEF RequestInv, RequestType, WaitingAreAlive

LEMMA RequestStep ==
  ASSUME RequestInv, [Next]_vars
  PROVE  RequestInv'
<1> USE DEF flush, queue, table
<1>1. CASE \E s \in Stores : \E r \in Requests : NoteStore(s, r)
  BY <1>1, NoteStoreRequests
<1>2. CASE \E r \in Requests : Cancel(r)
  BY <1>2, CancelRequests
<1>3. CASE \E r \in Requests : WentOnline(r)
  BY <1>3, WentOnlineRequests
<1>4. CASE \E r \in Requests : \E infos \in Lists : Listed(r, infos)
  BY <1>4, ListedRequests
<1>5. CASE \E s \in Stores : ServiceRemoved(s)
  BY <1>5, ServiceRemovedRequests
<1>6. CASE \E s \in Stores : \E fi \in FolderInfos : FolderAppears(s, fi)
  BY <1>6, RequestsStay DEF FolderAppears
<1>7. CASE \E s \in Stores : \E n \in Names : FolderGoes(s, n) \/ NoteFolder(s, n)
  BY <1>7, RequestsStay DEF FolderGoes, NoteFolder
<1>10. CASE \E s \in Stores : \E n \in Names : LookUpSpoilt(s, n)
  BY <1>10, RequestsStay DEF LookUpSpoilt
<1>8. CASE \E s \in Stores : \E pairs \in Renames : FolderRenamed(s, pairs)
  BY <1>8, RequestsStay DEF FolderRenamed
<1>9. CASE Flush \/ Take \/ Emit \/ FlushEnd \/ UNCHANGED vars
  BY <1>9, RequestsStay DEF Flush, Take, Emit, FlushEnd, vars
<1> QED
  BY <1>1, <1>2, <1>3, <1>4, <1>5, <1>6, <1>7, <1>8, <1>9, <1>10 DEF Next

LEMMA RequestInit ==
  ASSUME Init
  PROVE  RequestInv
BY DEF Init, RequestInv, RequestType, WaitingAreAlive

\* store_info_free cancels only requests that are alive: one that ends leaves
\* the list of its store, whatever has become of the store in between.
THEOREM ListedRequestsLive == Spec => []WaitingAreAlive
<1>1. Init => RequestInv
  BY RequestInit
<1>2. RequestInv => WaitingAreAlive
  BY DEF RequestInv
<1> QED
  BY <1>1, <1>2, RequestStep, PTL DEF Spec

-----------------------------------------------------------------------------
(* Induction over the natural numbers, from the well-foundedness of finite *)
(* sets: each set of numbers stands for what is claimed of its members.    *)

LEMMA LeastNat ==
  ASSUME NEW T \in SUBSET Nat, T # {}
  PROVE  \E x \in T : \A y \in T : x <= y
<1> DEFINE Q == {0..x : x \in T}
           R == StrictSubsetOrdering(Nat)
<1>1. Q \subseteq FiniteSubsetsOf(Nat) /\ Q # {}
  <2>1. \A x \in T : IsFiniteSet(0..x) /\ 0..x \in SUBSET Nat
    BY FS_Interval
  <2> QED BY <2>1 DEF FiniteSubsetsOf
<1>2. IsWellFoundedOn(R, FiniteSubsetsOf(Nat))
  BY FS_StrictSubsetOrderingWellFounded
<1> HIDE DEF R
<1>3. PICK q \in Q : \A p \in Q : ~(<<p, q>> \in R)
  <2> HIDE DEF Q
  <2> QED BY <1>1, <1>2, WFMin
<1>4. PICK x \in T : q = 0..x
  OBVIOUS
<1>5. ASSUME NEW y \in T, y < x PROVE FALSE
  <2>1. 0..y \in Q
    OBVIOUS
  <2>2. 0..y \subseteq 0..x /\ 0..y # 0..x /\ 0..x \in SUBSET Nat /\ 0..y \in SUBSET Nat
    <3>1. x \in 0..x /\ x \notin 0..y
      BY <1>5
    <3> QED BY <1>5, <3>1
  <2>3. <<0..y, 0..x>> \in R
    BY <2>2 DEF R, StrictSubsetOrdering
  <2> QED BY <1>3, <1>4, <2>1, <2>3
<1> QED BY <1>5

LEMMA NatSetInduction ==
  ASSUME NEW S, 0 \in S, \A n \in Nat : n \in S => n + 1 \in S
  PROVE  Nat \subseteq S
<1> SUFFICES ASSUME Nat \ S # {} PROVE FALSE
  OBVIOUS
<1>1. PICK x \in Nat \ S : \A y \in Nat \ S : x <= y
  BY LeastNat
<1>2. x - 1 \in Nat /\ x - 1 \in S
  BY <1>1
<1> QED BY <1>1, <1>2

-----------------------------------------------------------------------------
(* Folding a sequence.  Values w are reached from v along q when each      *)
(* letter x of q takes a value that is in F[x] to its image under G[x].    *)

Path(V, G, F, v, q, w) ==
  \E h \in [0..Len(q) -> V] :
    /\ h[0] = v /\ h[Len(q)] = w
    /\ \A i \in 1..Len(q) : h[i - 1] \in F[q[i]] /\ h[i] = G[q[i]][h[i - 1]]

LEMMA PathNone ==
  ASSUME NEW V, NEW G, NEW F, NEW v \in V
  PROVE  Path(V, G, F, v, <<>>, v)
<1> DEFINE h == [i \in 0..0 |-> v]
<1>1. h \in [0..0 -> V] /\ h[0] = v /\ Len(<<>>) = 0
  OBVIOUS
<1> HIDE DEF h
<1> QED BY <1>1 DEF Path

LEMMA PathAppend ==
  ASSUME NEW X, NEW V, NEW G, NEW F, NEW q \in Seq(X), NEW v, NEW w, NEW z \in V,
         NEW x \in X, Path(V, G, F, v, q, w), w \in F[x], z = G[x][w]
  PROVE  Path(V, G, F, v, Append(q, x), z)
<1> DEFINE r == Append(q, x)
<1>1. /\ Len(q) \in Nat /\ Len(r) = Len(q) + 1 /\ r[Len(q) + 1] = x
      /\ \A i \in 1..Len(q) : r[i] = q[i]
  OBVIOUS
<1>2. PICK h \in [0..Len(q) -> V] :
        /\ h[0] = v /\ h[Len(q)] = w
        /\ \A i \in 1..Len(q) : h[i - 1] \in F[q[i]] /\ h[i] = G[q[i]][h[i - 1]]
  BY DEF Path
<1> DEFINE g == [i \in 0..Len(q) + 1 |-> IF i <= Len(q) THEN h[i] ELSE z]
<1>3. g \in [0..Len(q) + 1 -> V]
  BY <1>1
<1>4. g[0] = v /\ g[Len(q) + 1] = z /\ \A i \in 0..Len(q) : g[i] = h[i]
  BY <1>1, <1>2
<1> HIDE DEF g, r
<1>5. ASSUME NEW i \in 1..Len(q) + 1
      PROVE  g[i - 1] \in F[r[i]] /\ g[i] = G[r[i]][g[i - 1]]
  <2>1. CASE i <= Len(q)
    <3>1. i \in 1..Len(q) /\ i \in 0..Len(q) /\ i - 1 \in 0..Len(q)
      BY <1>1, <2>1
    <3> QED BY <1>1, <1>2, <1>4, <3>1
  <2>2. CASE i = Len(q) + 1
    <3>1. i - 1 = Len(q) /\ Len(q) \in 0..Len(q)
      BY <1>1, <2>2
    <3> QED BY <1>1, <1>2, <1>4, <2>2, <3>1
  <2> QED BY <1>1, <2>1, <2>2
<1>6. /\ g \in [0..Len(r) -> V] /\ g[0] = v /\ g[Len(r)] = z
      /\ \A i \in 1..Len(r) : g[i - 1] \in F[r[i]] /\ g[i] = G[r[i]][g[i - 1]]
  <2>1. Len(r) = Len(q) + 1
    BY <1>1
  <2> QED BY ONLY <1>3, <1>4, <1>5, <2>1
<1>7. Path(V, G, F, v, r, z)
  BY <1>6 DEF Path
<1> QED BY <1>7 DEF r

LEMMA PathConcat ==
  ASSUME NEW X, NEW V, NEW G, NEW F, NEW q \in Seq(X), NEW p \in Seq(X),
         NEW v, NEW w, NEW z, Path(V, G, F, v, q, w), Path(V, G, F, w, p, z)
  PROVE  Path(V, G, F, v, q \o p, z)
<1> DEFINE r == q \o p
<1>1. /\ Len(q) \in Nat /\ Len(p) \in Nat /\ Len(r) = Len(q) + Len(p)
      /\ \A i \in 1..Len(q) : r[i] = q[i]
      /\ \A i \in 1..Len(p) : r[Len(q) + i] = p[i]
  OBVIOUS
<1>2. PICK h \in [0..Len(q) -> V] :
        /\ h[0] = v /\ h[Len(q)] = w
        /\ \A i \in 1..Len(q) : h[i - 1] \in F[q[i]] /\ h[i] = G[q[i]][h[i - 1]]
  BY DEF Path
<1>3. PICK k \in [0..Len(p) -> V] :
        /\ k[0] = w /\ k[Len(p)] = z
        /\ \A i \in 1..Len(p) : k[i - 1] \in F[p[i]] /\ k[i] = G[p[i]][k[i - 1]]
  BY DEF Path
<1> DEFINE m == Len(q)
           n == Len(p)
           g == [i \in 0..m + n |-> IF i <= m THEN h[i] ELSE k[i - m]]
<1> HIDE DEF r
<1>4. g \in [0..m + n -> V]
  BY <1>1
<1>5. /\ \A i \in 0..m : g[i] = h[i]
      /\ \A i \in 0..n : g[m + i] = k[i]
  <2>1. ASSUME NEW i \in 0..n PROVE g[m + i] = k[i]
    <3>1. CASE i = 0
      BY <1>1, <1>2, <1>3, <3>1
    <3>2. CASE i # 0
      <4>1. m + i \in 0..m + n /\ ~(m + i <= m) /\ (m + i) - m = i
        BY <1>1, <3>2
      <4> QED BY <4>1
    <3> QED BY <3>1, <3>2
  <2> QED BY <1>1, <2>1
<1> HIDE DEF g
<1>6. ASSUME NEW i \in 1..m + n
      PROVE  g[i - 1] \in F[r[i]] /\ g[i] = G[r[i]][g[i - 1]]
  <2>1. CASE i <= m
    <3>1. i \in 1..m /\ i \in 0..m /\ i - 1 \in 0..m
      BY <1>1, <2>1
    <3> QED BY <1>1, <1>2, <1>5, <3>1
  <2>2. CASE i > m
    <3>1. PICK j \in 1..n : i = m + j
      <4>1. i - m \in 1..n /\ i = m + (i - m)
        BY <1>1, <2>2
      <4> QED BY <4>1
    <3>2. j - 1 \in 0..n /\ j \in 0..n /\ i - 1 = m + (j - 1)
      BY <1>1, <3>1
    <3>3. g[i - 1] = k[j - 1] /\ g[i] = k[j] /\ r[i] = p[j]
      BY <1>1, <1>5, <3>1, <3>2
    <3> QED BY <1>3, <3>3
  <2> QED BY <1>1, <2>1, <2>2
<1>7. g[0] = v /\ g[m + n] = z
  <2>1. 0 \in 0..m /\ n \in 0..n
    BY <1>1
  <2> QED BY <1>2, <1>3, <1>5, <2>1
<1>8. /\ g \in [0..Len(r) -> V] /\ g[0] = v /\ g[Len(r)] = z
      /\ \A i \in 1..Len(r) : g[i - 1] \in F[r[i]] /\ g[i] = G[r[i]][g[i - 1]]
  <2>1. Len(r) = m + n
    BY <1>1
  <2> HIDE DEF m, n
  <2> QED BY ONLY <1>4, <1>6, <1>7, <2>1
<1>9. Path(V, G, F, v, r, z)
  BY <1>8 DEF Path
<1> QED BY <1>9 DEF r

LEMMA PathTail ==
  ASSUME NEW X, NEW V, NEW G, NEW F, NEW q \in Seq(X), q # <<>>, NEW v, NEW w,
         Path(V, G, F, v, q, w)
  PROVE  /\ v \in F[Head(q)] /\ G[Head(q)][v] \in V
         /\ Path(V, G, F, G[Head(q)][v], Tail(q), w)
<1> DEFINE r == Tail(q)
<1>1. /\ Len(q) \in Nat /\ Len(q) >= 1 /\ Len(r) = Len(q) - 1 /\ Head(q) = q[1]
      /\ \A i \in 1..Len(q) - 1 : r[i] = q[i + 1]
  OBVIOUS
<1>2. PICK h \in [0..Len(q) -> V] :
        /\ h[0] = v /\ h[Len(q)] = w
        /\ \A i \in 1..Len(q) : h[i - 1] \in F[q[i]] /\ h[i] = G[q[i]][h[i - 1]]
  BY DEF Path
<1> DEFINE g == [i \in 0..Len(q) - 1 |-> h[i + 1]]
<1>3. g \in [0..Len(q) - 1 -> V] /\ \A i \in 0..Len(q) - 1 : g[i] = h[i + 1]
  BY <1>1
<1> HIDE DEF g, r
<1>4. v \in F[q[1]] /\ h[1] = G[q[1]][v] /\ h[1] \in V /\ g[0] = h[1]
  <2>1. 1 \in 1..Len(q) /\ 1 - 1 = 0 /\ 0 \in 0..Len(q) - 1 /\ 0 + 1 = 1 /\ 1 \in 0..Len(q)
    BY <1>1
  <2> QED BY <1>2, <1>3, <2>1
<1>5. g[Len(q) - 1] = w
  <2>1. Len(q) - 1 \in 0..Len(q) - 1 /\ (Len(q) - 1) + 1 = Len(q)
    BY <1>1
  <2> QED BY <1>2, <1>3, <2>1
<1>6. ASSUME NEW i \in 1..Len(q) - 1
      PROVE  g[i - 1] \in F[r[i]] /\ g[i] = G[r[i]][g[i - 1]]
  <2>1. /\ i + 1 \in 1..Len(q) /\ i - 1 \in 0..Len(q) - 1 /\ i \in 0..Len(q) - 1
        /\ (i - 1) + 1 = i /\ (i + 1) - 1 = i
    BY <1>1
  <2>2. g[i - 1] = h[i] /\ g[i] = h[i + 1] /\ r[i] = q[i + 1]
    BY <1>1, <1>3, <2>1
  <2>3. h[(i + 1) - 1] \in F[q[i + 1]] /\ h[i + 1] = G[q[i + 1]][h[(i + 1) - 1]]
    BY <1>2, <2>1
  <2> QED BY <2>1, <2>2, <2>3
<1>7. /\ g \in [0..Len(r) -> V] /\ g[0] = h[1] /\ g[Len(r)] = w
      /\ \A i \in 1..Len(r) : g[i - 1] \in F[r[i]] /\ g[i] = G[r[i]][g[i - 1]]
  <2>1. Len(r) = Len(q) - 1
    BY <1>1
  <2> QED BY ONLY <1>3, <1>4, <1>5, <1>6, <2>1
<1>8. Path(V, G, F, h[1], r, w)
  BY <1>7 DEF Path
<1> QED BY <1>1, <1>4, <1>8 DEF r

\* A fold that goes everywhere ends somewhere.
LEMMA PathExists ==
  ASSUME NEW X, NEW V, NEW G \in [X -> [V -> V]], NEW v \in V, NEW q \in Seq(X)
  PROVE  \E w \in V : Path(V, G, [x \in X |-> V], v, q, w)
<1> DEFINE F == [x \in X |-> V]
           n == Len(q)
           Right(h, k) == /\ h[0] = v
                          /\ \A i \in 1..k : h[i - 1] \in F[q[i]] /\ h[i] = G[q[i]][h[i - 1]]
           Good == {k \in Nat : k <= n => \E h \in [0..k -> V] : Right(h, k)}
<1>0. n \in Nat /\ \A i \in 1..n : q[i] \in X /\ F[q[i]] = V
  OBVIOUS
<1>1. 0 \in Good
  <2> DEFINE h0 == [i \in 0..0 |-> v]
  <2>1. h0 \in [0..0 -> V] /\ h0[0] = v /\ \A i \in 1..0 : FALSE
    OBVIOUS
  <2> HIDE DEF h0
  <2> QED BY <2>1
<1> HIDE DEF Right, F, n
<1>2. ASSUME NEW k \in Nat, k \in Good PROVE k + 1 \in Good
  <2> SUFFICES ASSUME k + 1 <= n PROVE \E h \in [0..k + 1 -> V] : Right(h, k + 1)
    OBVIOUS
  <2>1. PICK h \in [0..k -> V] : Right(h, k)
    BY <1>0, <1>2
  <2> USE DEF Right
  <2> DEFINE z == G[q[k + 1]][h[k]]
             g == [i \in 0..k + 1 |-> IF i <= k THEN h[i] ELSE z]
  <2>2. k + 1 \in 1..n /\ q[k + 1] \in X /\ h[k] \in V /\ z \in V
    BY <1>0
  <2>3. g \in [0..k + 1 -> V] /\ g[k + 1] = z /\ \A i \in 0..k : g[i] = h[i]
    BY <2>2
  <2> HIDE DEF g, F
  <2>4. g[0] = v
    <3>1. 0 \in 0..k /\ h[0] = v
      BY <2>1
    <3> QED BY <2>3, <3>1
  <2>5. ASSUME NEW i \in 1..k + 1 PROVE g[i - 1] \in F[q[i]] /\ g[i] = G[q[i]][g[i - 1]]
    <3>1. CASE i <= k
      <4>1. i \in 1..k /\ i \in 0..k /\ i - 1 \in 0..k
        BY <3>1
      <4> QED BY <2>1, <2>3, <4>1
    <3>2. CASE i = k + 1
      <4>1. i - 1 = k /\ k \in 0..k
        BY <3>2
      <4> QED BY <1>0, <2>2, <2>3, <3>2, <4>1
    <3> QED BY <3>1, <3>2
  <2> QED BY <2>3, <2>4, <2>5
<1> HIDE DEF Good
<1>3. n \in Good
  BY <1>0, <1>1, <1>2, NatSetInduction
<1>4. PICK h \in [0..n -> V] : Right(h, n)
  BY <1>0, <1>3 DEF Good
<1>5. h[n] \in V
  BY <1>0
<1> HIDE DEF F
<1>6. Path(V, G, F, v, q, h[n])
  BY <1>4 DEF Path, n, Right
<1> QED BY <1>5, <1>6 DEF F

\* Two sequences that grow alike are alike.
LEMMA GrowAlike ==
  ASSUME NEW n \in Nat, NEW h, NEW L, h[0] = L[0],
         \A i \in 1..n : h[i - 1] = L[i - 1] => h[i] = L[i]
  PROVE  h[n] = L[n]
<1> DEFINE Good == {k \in Nat : k <= n => h[k] = L[k]}
<1>1. 0 \in Good
  OBVIOUS
<1>2. ASSUME NEW k \in Nat, k \in Good PROVE k + 1 \in Good
  <2> SUFFICES ASSUME k + 1 <= n PROVE h[k + 1] = L[k + 1]
    OBVIOUS
  <2>1. h[k] = L[k]
    BY <1>2
  <2>2. k + 1 \in 1..n /\ (k + 1) - 1 = k
    OBVIOUS
  <2> QED BY <2>1, <2>2
<1> HIDE DEF Good
<1>3. n \in Good
  BY <1>1, <1>2, NatSetInduction
<1> QED BY <1>3 DEF Good

-----------------------------------------------------------------------------
(* The folds of the model are paths.                                       *)

Views == [Stores -> SUBSET Names]

\* What a listener and the cache's own handlers make of an update.
HearG == [u \in Updates |-> [v \in Views |-> Heard(v, u)]]
RecordG == [u \in Updates |-> [v \in Views |-> Recorded(v, u)]]

\* They take any; FolderSignals allows some, where names R are free.
AnyF == [u \in Updates |-> Views]
FitF(R) == [u \in Updates |-> {v \in Views : u.kind = "count" \/ Promise!Fits(v, u, R)}]

LEMMA UpdateKinds ==
  ASSUME NEW u \in Updates
  PROVE  \/ u.kind = "count" /\ u.store \in Stores
         \/ /\ u.kind \in {"available", "unavailable", "deleted", "renamed"}
            /\ u.store \in Stores /\ u.name \in Names /\ u.old \in Names
BY DEF Updates, Kinds, Count, Update

LEMMA HeardIsView ==
  ASSUME NEW v \in Views, NEW u \in Updates
  PROVE  Heard(v, u) \in Views /\ Recorded(v, u) \in Views
<1>1. CASE u.kind = "count" /\ u.store \in Stores
  BY <1>1 DEF Heard, Recorded, Views
<1>2. CASE /\ u.kind \in {"available", "unavailable", "deleted", "renamed"}
           /\ u.store \in Stores /\ u.name \in Names /\ u.old \in Names
  <2>1. u.kind = "available" \/ u.kind = "unavailable" \/ u.kind = "deleted"
        \/ u.kind = "renamed"
    BY <1>2
  <2> QED BY <1>2, <2>1 DEF Heard, Recorded, Views
<1> QED BY <1>1, <1>2, UpdateKinds

LEMMA HeardAllAlong ==
  ASSUME NEW v, NEW w, NEW us \in Seq(Updates), Path(Views, HearG, AnyF, v, us, w)
  PROVE  HeardAll(v, us) = w
<1> DEFINE n == Len(us)
           Is(H) == H = [i \in 0..n |-> IF i = 0 THEN v ELSE Heard(H[i - 1], us[i])]
           L == CHOOSE H : Is(H)
<1>0. n \in Nat /\ \A i \in 1..n : us[i] \in Updates
  OBVIOUS
<1>1. PICK h \in [0..n -> Views] :
        /\ h[0] = v /\ h[n] = w
        /\ \A i \in 1..n : h[i - 1] \in AnyF[us[i]] /\ h[i] = HearG[us[i]][h[i - 1]]
  BY DEF Path
<1> HIDE DEF n
<1>2. ASSUME NEW i \in 1..n PROVE h[i] = Heard(h[i - 1], us[i])
  <2>1. i - 1 \in 0..n
    BY <1>0
  <2> QED BY <1>0, <1>1, <2>1 DEF HearG
<1>3. Is(h)
  <2>1. ASSUME NEW i \in 0..n
        PROVE  h[i] = IF i = 0 THEN v ELSE Heard(h[i - 1], us[i])
    <3>1. CASE i = 0
      BY <1>1, <3>1
    <3>2. CASE i # 0
      <4>1. i \in 1..n
        BY <1>0, <3>2
      <4> QED BY <1>2, <3>2, <4>1
    <3> QED BY <3>1, <3>2
  <2> QED BY <2>1
<1> HIDE DEF Is
<1>4. Is(L)
  BY <1>3
<1>5. HeardAll(v, us) = L[n]
  BY DEF HeardAll, Is, n
<1> HIDE DEF L
<1>6. L[0] = v /\ \A i \in 1..n : L[i] = Heard(L[i - 1], us[i])
  BY <1>0, <1>4 DEF Is
<1>7. h[n] = L[n]
  <2>1. h[0] = L[0] /\ \A i \in 1..n : h[i - 1] = L[i - 1] => h[i] = L[i]
    BY <1>1, <1>2, <1>6
  <2> QED BY <1>0, <2>1, GrowAlike
<1> QED BY <1>1, <1>5, <1>7

LEMMA RecordedAllAlong ==
  ASSUME NEW v, NEW w, NEW us \in Seq(Updates), Path(Views, RecordG, AnyF, v, us, w)
  PROVE  RecordedAll(v, us) = w
<1> DEFINE n == Len(us)
           Is(H) == H = [i \in 0..n |-> IF i = 0 THEN v ELSE Recorded(H[i - 1], us[i])]
           L == CHOOSE H : Is(H)
<1>0. n \in Nat /\ \A i \in 1..n : us[i] \in Updates
  OBVIOUS
<1>1. PICK h \in [0..n -> Views] :
        /\ h[0] = v /\ h[n] = w
        /\ \A i \in 1..n : h[i - 1] \in AnyF[us[i]] /\ h[i] = RecordG[us[i]][h[i - 1]]
  BY DEF Path
<1> HIDE DEF n
<1>2. ASSUME NEW i \in 1..n PROVE h[i] = Recorded(h[i - 1], us[i])
  <2>1. i - 1 \in 0..n
    BY <1>0
  <2> QED BY <1>0, <1>1, <2>1 DEF RecordG
<1>3. Is(h)
  <2>1. ASSUME NEW i \in 0..n
        PROVE  h[i] = IF i = 0 THEN v ELSE Recorded(h[i - 1], us[i])
    <3>1. CASE i = 0
      BY <1>1, <3>1
    <3>2. CASE i # 0
      <4>1. i \in 1..n
        BY <1>0, <3>2
      <4> QED BY <1>2, <3>2, <4>1
    <3> QED BY <3>1, <3>2
  <2> QED BY <2>1
<1> HIDE DEF Is
<1>4. Is(L)
  BY <1>3
<1>5. RecordedAll(v, us) = L[n]
  BY DEF RecordedAll, Is, n
<1> HIDE DEF L
<1>6. L[0] = v /\ \A i \in 1..n : L[i] = Recorded(L[i - 1], us[i])
  BY <1>0, <1>4 DEF Is
<1>7. h[n] = L[n]
  <2>1. h[0] = L[0] /\ \A i \in 1..n : h[i - 1] = L[i - 1] => h[i] = L[i]
    BY <1>1, <1>2, <1>6
  <2> QED BY <1>0, <2>1, GrowAlike
<1> QED BY <1>1, <1>5, <1>7

-----------------------------------------------------------------------------
(* The entries of one store, while a handler changes them.                 *)

Entry == [f : [Names -> States], ups : Seq(Updates)]

\* The selectable folders, when the entries of store s have become e.
Table(s, e) ==
  [x \in Stores |-> IF x = s THEN {n \in Names : e.f[n] = "select"} ELSE Selectable(x)]
Known == [x \in Stores |-> Selectable(x)]

\* Folder lists that are the same for names outside R.
Agree(w, v, R) == \A x \in Stores : w[x] \ R[x] = v[x] \ R[x]

\* Folder list w has those of v and none besides but for names in M; names in S
\* are excepted.
Close(w, v, S, M) ==
  \A x \in Stores : v[x] \ S[x] \subseteq w[x] \ S[x] /\ w[x] \ S[x] \subseteq v[x] \cup M[x]

\* Where a handler begins: what listeners and the cache's lists make of all that
\* is pending, and the names that are excepted when it has ended.
Places == [hear : Views, record : Views, renamed : Views, spoilt : Views, muted : Views]

\* The updates that are queued tell how the table came to be what it is: they
\* are a log of its changes, listeners hear of them, and so do the cache's lists.
LogTold(s, e, R) ==
  \E z \in Views :
    Path(Views, HearG, FitF(R), Known, e.ups, z) /\ Agree(z, Table(s, e), R)
HearTold(s, e, c) ==
  \E v \in Views :
    /\ Path(Views, HearG, AnyF, c.hear, e.ups, v)
    /\ Close(v, Table(s, e), c.spoilt, c.muted)
RecordTold(s, e, c) ==
  \E w \in Views :
    Path(Views, RecordG, AnyF, c.record, e.ups, w) /\ Agree(w, Table(s, e), c.renamed)
Told(s, e, c) == LogTold(s, e, c.renamed) /\ HearTold(s, e, c) /\ RecordTold(s, e, c)
Right(s, e, c) == e \in Entry /\ Told(s, e, c)

\* The handler may begin there.
Begins(c) ==
  /\ c \in Places
  /\ Close(c.hear, Known, c.spoilt, c.muted) /\ Agree(c.record, Known, c.renamed)

TableType ==
  /\ folders \in [Stores -> [Names -> States]]
  /\ updates \in Seq(Updates) /\ emitting \in {None} \cup Updates
  /\ view \in Views /\ uris \in Views
  /\ renamed \in Views /\ spoilt \in Views /\ muted \in Views

LEMMA TableIsView ==
  ASSUME NEW s, NEW e
  PROVE  Table(s, e) \in Views /\ Known \in Views
BY DEF Table, Known, Views, Selectable

\* An update u tells that the folders of v are now those of z, with names R free
\* and those in M left out.
Tells(u, v, z, R, M) ==
  /\ \A x \in Stores : x # u.store => z[x] = v[x]
  /\ CASE u.kind = "available" ->
            /\ z[u.store] = v[u.store] \cup {u.name}
            /\ u.name \in R[u.store] \/ u.name \notin v[u.store]
       [] u.kind \in {"unavailable", "deleted"} ->
            z[u.store] = v[u.store] \ {u.name} /\ u.name \in v[u.store]
       [] u.kind = "renamed" ->
            /\ z[u.store] = (v[u.store] \ {u.old}) \cup {u.name}
            /\ u.name \in R[u.store] /\ u.old \in R[u.store]
       [] u.kind = "count" ->
            \E Q \in SUBSET (R[u.store] \cap M[u.store]) : z[u.store] = v[u.store] \ Q

\* Where an update leads that tells of a change of the table.
LEMMA UpdateKeepsUp ==
  ASSUME NEW u \in Updates, NEW v \in Views, NEW z \in Views, NEW w \in Views,
         NEW R \in Views, NEW S \in Views, NEW M \in Views, Tells(u, v, z, R, M)
  PROVE  /\ Agree(w, v, R) =>
              /\ w \in FitF(R)[u] /\ Agree(Heard(w, u), z, R) /\ Agree(Recorded(w, u), z, R)
         /\ Close(w, v, S, M) => Close(Heard(w, u), z, S, M)
<1> DEFINE s == u.store
           n == u.name
           o == u.old
<1>1. /\ \A x \in Stores : x # s => z[x] = v[x]
      /\ \A x \in Stores : x # s => Heard(w, u)[x] = w[x] /\ Recorded(w, u)[x] = w[x]
      /\ s \in Stores
  <2>1. s \in Stores
    BY UpdateKinds
  <2> QED BY <2>1 DEF Heard, Recorded, Views, Tells
<1>2. ASSUME Heard(w, u)[s] = (w[s] \ {o}) \cup {n}, z[s] = (v[s] \ {o}) \cup {n},
             Agree(w, v, R) => w \in FitF(R)[u],
             Agree(w, v, R) => Recorded(w, u)[s] \ R[s] = z[s] \ R[s]
      PROVE  /\ Agree(w, v, R) =>
                  /\ w \in FitF(R)[u] /\ Agree(Heard(w, u), z, R) /\ Agree(Recorded(w, u), z, R)
             /\ Close(w, v, S, M) => Close(Heard(w, u), z, S, M)
  BY <1>1, <1>2 DEF Agree, Close
<1>3. CASE u.kind = "available"
  <2>1. z[s] = v[s] \cup {n} /\ (n \in R[s] \/ n \notin v[s])
    BY <1>3 DEF Tells
  <2>2. Heard(w, u)[s] = w[s] \cup {n} /\ Recorded(w, u)[s] = w[s] \cup {n}
    BY <1>1, <1>3 DEF Heard, Recorded, Views
  <2>3. ASSUME Agree(w, v, R) PROVE w \in FitF(R)[u]
    <3>1. n \in R[s] \/ n \notin w[s]
      BY <1>1, <2>1, <2>3 DEF Agree
    <3> QED BY <1>3, <3>1 DEF FitF, Promise!Fits
  <2> QED BY <1>1, <2>1, <2>2, <2>3 DEF Agree, Close
<1>4. CASE u.kind \in {"unavailable", "deleted"}
  <2>1. z[s] = v[s] \ {n} /\ n \in v[s]
    BY <1>4 DEF Tells
  <2>2. Heard(w, u)[s] = w[s] \ {n} /\ Recorded(w, u)[s] = w[s] \ {n}
    BY <1>1, <1>4 DEF Heard, Recorded, Views
  <2>3. ASSUME Agree(w, v, R) PROVE w \in FitF(R)[u]
    <3>1. n \in R[s] \/ n \in w[s]
      BY <1>1, <2>1, <2>3 DEF Agree
    <3> QED BY <1>4, <3>1 DEF FitF, Promise!Fits
  <2> QED BY <1>1, <2>1, <2>2, <2>3 DEF Agree, Close
<1>5. CASE u.kind = "renamed"
  <2>1. z[s] = (v[s] \ {o}) \cup {n} /\ n \in R[s] /\ o \in R[s]
    BY <1>5 DEF Tells
  <2>2. Heard(w, u)[s] = (w[s] \ {o}) \cup {n} /\ Recorded(w, u)[s] = w[s]
    BY <1>1, <1>5 DEF Heard, Recorded, Views
  <2>3. w \in FitF(R)[u]
    BY <1>5, <2>1 DEF FitF, Promise!Fits
  <2>4. ASSUME Agree(w, v, R) PROVE Recorded(w, u)[s] \ R[s] = z[s] \ R[s]
    <3>1. w[s] \ R[s] = v[s] \ R[s]
      BY <1>1, <2>4 DEF Agree
    <3> QED BY <2>1, <2>2, <3>1
  <2> QED BY <1>2, <2>1, <2>2, <2>3, <2>4
<1>6. CASE u.kind = "count"
  <2>1. PICK Q \in SUBSET (R[s] \cap M[s]) : z[s] = v[s] \ Q
    BY <1>6 DEF Tells
  <2>2. Heard(w, u)[s] = w[s] /\ Recorded(w, u)[s] = w[s]
    BY <1>1, <1>6 DEF Heard, Recorded, Views
  <2>3. w \in FitF(R)[u]
    BY <1>6 DEF FitF
  <2> QED BY <1>1, <2>1, <2>2, <2>3 DEF Agree, Close
<1> QED BY <1>3, <1>4, <1>5, <1>6, UpdateKinds

\* One more update, which tells how the table came to be where it is.
LEMMA OneMoreTold ==
  ASSUME NEW s \in Stores, NEW e, NEW d \in Entry, NEW c \in Places,
         NEW u \in Updates, Right(s, e, c), d.ups = Append(e.ups, u),
         Tells(u, Table(s, e), Table(s, d), c.renamed, c.muted)
  PROVE  Right(s, d, c)
<1> DEFINE v == Table(s, e)
           z == Table(s, d)
           R == c.renamed
           S == c.spoilt
           M == c.muted
<1>1. v \in Views /\ z \in Views /\ R \in Views /\ S \in Views /\ M \in Views
  BY TableIsView DEF Places
<1>2. e.ups \in Seq(Updates)
  BY DEF Right, Entry
<1>3. Tells(u, v, z, R, M)
  OBVIOUS
<1>4. LogTold(s, e, R) /\ HearTold(s, e, c) /\ RecordTold(s, e, c)
  BY DEF Right, Told
<1> HIDE DEF v, z, R, S, M
<1>5. LogTold(s, d, R)
  <2>1. PICK x \in Views : Path(Views, HearG, FitF(R), Known, e.ups, x) /\ Agree(x, v, R)
    BY <1>4 DEF LogTold, v
  <2>2. x \in FitF(R)[u] /\ Agree(Heard(x, u), z, R)
    BY <1>1, <1>3, <2>1, UpdateKeepsUp
  <2>3. Heard(x, u) \in Views /\ Heard(x, u) = HearG[u][x]
    BY HeardIsView DEF HearG
  <2>4. Path(Views, HearG, FitF(R), Known, d.ups, Heard(x, u))
    BY <1>2, <2>1, <2>2, <2>3, PathAppend
  <2> QED BY <2>2, <2>3, <2>4 DEF LogTold, z
<1>6. HearTold(s, d, c)
  <2>1. PICK x \in Views : Path(Views, HearG, AnyF, c.hear, e.ups, x) /\ Close(x, v, S, M)
    BY <1>4 DEF HearTold, v, S, M
  <2>2. Close(Heard(x, u), z, S, M)
    BY <1>1, <1>3, <2>1, UpdateKeepsUp
  <2>3. Heard(x, u) \in Views /\ Heard(x, u) = HearG[u][x] /\ x \in AnyF[u]
    BY HeardIsView DEF HearG, AnyF
  <2>4. Path(Views, HearG, AnyF, c.hear, d.ups, Heard(x, u))
    BY <1>2, <2>1, <2>3, PathAppend
  <2> QED BY <2>2, <2>3, <2>4 DEF HearTold, z, S, M
<1>7. RecordTold(s, d, c)
  <2>1. PICK x \in Views : Path(Views, RecordG, AnyF, c.record, e.ups, x) /\ Agree(x, v, R)
    BY <1>4 DEF RecordTold, v, R
  <2>2. Agree(Recorded(x, u), z, R)
    BY <1>1, <1>3, <2>1, UpdateKeepsUp
  <2>3. Recorded(x, u) \in Views /\ Recorded(x, u) = RecordG[u][x] /\ x \in AnyF[u]
    BY HeardIsView DEF RecordG, AnyF
  <2>4. Path(Views, RecordG, AnyF, c.record, d.ups, Recorded(x, u))
    BY <1>2, <2>1, <2>3, PathAppend
  <2> QED BY <2>2, <2>3, <2>4 DEF RecordTold, z, R
<1> QED BY <1>5, <1>6, <1>7 DEF Right, Told, R

LEMMA SameTold ==
  ASSUME NEW s, NEW e, NEW d \in Entry, NEW c, Right(s, e, c),
         d.ups = e.ups, Table(s, d) = Table(s, e)
  PROVE  Right(s, d, c)
BY DEF Right, Told, LogTold, HearTold, RecordTold

\* Only counts are told, and the table is as it was.
LEMMA CountTold ==
  ASSUME NEW s \in Stores, NEW e, NEW d \in Entry, NEW c \in Places, Right(s, e, c),
         d.ups = Append(e.ups, Count(s)), Table(s, d) = Table(s, e)
  PROVE  Right(s, d, c)
<1> DEFINE u == Count(s)
           v == Table(s, e)
<1>1. u \in Updates /\ u.kind = "count" /\ u.store = s
  BY DEF Count, Update, Updates
<1> HIDE DEF u
<1>2. Tells(u, v, v, c.renamed, c.muted)
  <2> HIDE DEF v
  <2>1. v[s] = v[s] \ {}
    OBVIOUS
  <2> QED BY <1>1, <2>1 DEF Tells
<1> QED BY <1>1, <1>2, OneMoreTold DEF u

LEMMA EntriesAreRight ==
  ASSUME TableType, NEW s \in Stores, NEW c, Begins(c)
  PROVE  Right(s, Entries(s), c)
<1>1. Entries(s) \in Entry /\ Entries(s).ups = <<>>
  BY DEF Entries, Entry, TableType
<1>2. Table(s, Entries(s)) = Known
  BY DEF Table, Entries, Known, Selectable
<1>3. Known \in Views /\ c.hear \in Views /\ c.record \in Views
  BY TableIsView DEF Begins, Places
<1>4. Agree(Known, Known, c.renamed)
  BY DEF Agree
<1>5. LogTold(s, Entries(s), c.renamed)
  BY <1>1, <1>2, <1>3, <1>4, PathNone DEF LogTold
<1>6. HearTold(s, Entries(s), c)
  BY <1>1, <1>2, <1>3, PathNone DEF HearTold, Begins
<1>7. RecordTold(s, Entries(s), c)
  BY <1>1, <1>2, <1>3, PathNone DEF RecordTold, Begins
<1> QED BY <1>1, <1>5, <1>6, <1>7 DEF Right, Told

LEMMA SetupRight ==
  ASSUME NEW s \in Stores, NEW e, NEW c \in Places, Right(s, e, c),
         NEW fi \in FolderInfos, NEW open
  PROVE  Right(s, Setup(e, s, fi, open), c)
<1> DEFINE d == Setup(e, s, fi, open)
           n == fi.name
           v == Table(s, e)
<1>0. /\ n \in Names /\ fi.state \in {"select", "noselect"}
      /\ e = [f |-> e.f, ups |-> e.ups] /\ e.f \in [Names -> States] /\ e.ups \in Seq(Updates)
  BY DEF Right, FolderInfos, Entry
<1>1. CASE e.f[n] # "none"
  <2>1. CASE n \in open
    <3>1. d = [f |-> e.f, ups |-> Append(e.ups, Count(s))]
      BY <1>0, <1>1, <2>1 DEF Setup
    <3>2. Count(s) \in Updates
      BY DEF Updates
    <3>3. d \in Entry /\ d.ups = Append(e.ups, Count(s)) /\ d.f = e.f
      BY <1>0, <3>1, <3>2 DEF Entry
    <3>4. Table(s, d) = v
      BY <3>3 DEF Table
    <3> HIDE DEF d
    <3> QED BY <3>3, <3>4, CountTold DEF d
  <2>2. CASE n \notin open
    <3>1. d = e
      BY <1>0, <1>1, <2>2 DEF Setup
    <3> QED BY <3>1
  <2> QED BY <2>1, <2>2
<1>2. CASE e.f[n] = "none"
  <2> DEFINE u == IF fi.state = "select" THEN Update("available", s, n, n) ELSE Count(s)
  <2>1. d = [f |-> [e.f EXCEPT ![n] = fi.state], ups |-> Append(e.ups, u)]
    BY <1>2 DEF Setup, Enter
  <2>2. u \in Updates
    BY <1>0 DEF Update, Updates, Kinds
  <2> HIDE DEF u
  <2>3. d \in Entry /\ d.f = [e.f EXCEPT ![n] = fi.state] /\ d.ups = Append(e.ups, u)
    BY <1>0, <2>1, <2>2 DEF Entry, States
  <2> HIDE DEF d
  <2>4. CASE fi.state = "noselect"
    <3>1. Table(s, d) = v
      <4>1. {m \in Names : d.f[m] = "select"} = {m \in Names : e.f[m] = "select"}
        BY <1>0, <1>2, <2>3, <2>4
      <4> QED BY <4>1 DEF Table
    <3> QED BY <2>3, <2>4, <3>1, CountTold DEF d, u
  <2>5. CASE fi.state = "select"
    <3>1. u.kind = "available" /\ u.store = s /\ u.name = n
      BY <2>5 DEF u, Update
    <3>2. {m \in Names : d.f[m] = "select"} = {m \in Names : e.f[m] = "select"} \cup {n}
      BY <1>0, <2>3, <2>5
    <3>3. /\ Table(s, d)[s] = v[s] \cup {n} /\ n \notin v[s]
          /\ \A x \in Stores : x # s => Table(s, d)[x] = v[x]
      BY <1>2, <3>2 DEF Table
    <3>4. Tells(u, v, Table(s, d), c.renamed, c.muted)
      <4> HIDE DEF v, n
      <4> QED BY <3>1, <3>3 DEF Tells
    <3> QED BY <2>2, <2>3, <3>4, OneMoreTold DEF d
  <2> QED BY <1>0, <2>4, <2>5
<1> QED BY <1>1, <1>2

LEMMA UnsetRight ==
  ASSUME NEW s \in Stores, NEW e, NEW c \in Places, Right(s, e, c),
         NEW n \in Names, NEW kind \in {"unavailable", "deleted"}
  PROVE  Right(s, Unset(e, s, n, kind), c)
<1> DEFINE d == Unset(e, s, n, kind)
           u == Update(kind, s, n, n)
           v == Table(s, e)
<1>0. e.f \in [Names -> States] /\ e.ups \in Seq(Updates)
  BY DEF Right, Entry
<1>1. u \in Updates /\ u.kind = kind /\ u.store = s /\ u.name = n
  BY DEF Update, Updates, Kinds
<1>2. d = [f |-> [e.f EXCEPT ![n] = "none"],
           ups |-> IF e.f[n] = "select" THEN Append(e.ups, u) ELSE e.ups]
  BY DEF Unset
<1> HIDE DEF u
<1>3. /\ d \in Entry /\ d.f = [e.f EXCEPT ![n] = "none"]
      /\ d.ups = IF e.f[n] = "select" THEN Append(e.ups, u) ELSE e.ups
  BY <1>0, <1>1, <1>2 DEF Entry, States
<1> HIDE DEF d
<1>4. {m \in Names : d.f[m] = "select"} = {m \in Names : e.f[m] = "select"} \ {n}
  BY <1>0, <1>3
<1>5. CASE e.f[n] = "select"
  <2>1. /\ Table(s, d)[s] = v[s] \ {n} /\ n \in v[s]
        /\ \A x \in Stores : x # s => Table(s, d)[x] = v[x]
    BY <1>4, <1>5 DEF Table
  <2>2. Tells(u, v, Table(s, d), c.renamed, c.muted)
    <3>1. CASE kind = "unavailable"
      <4> HIDE DEF v
      <4> QED BY <1>1, <2>1, <3>1 DEF Tells
    <3>2. CASE kind = "deleted"
      <4> HIDE DEF v
      <4> QED BY <1>1, <2>1, <3>2 DEF Tells
    <3> QED BY <3>1, <3>2
  <2> QED BY <1>1, <1>3, <1>5, <2>2, OneMoreTold DEF d
<1>6. CASE e.f[n] # "select"
  <2>1. Table(s, d) = v
    BY <1>4, <1>6 DEF Table
  <2> QED BY <1>3, <1>6, <2>1, SameTold DEF d
<1> QED BY <1>5, <1>6

\* The i-th of the folders that a rename moves.
Move(pairs, kept, i) == [old |-> pairs[i][1], name |-> pairs[i][2], state |-> kept[i]]

\* The names of a rename are free, and left out if the folder is not selectable.
Movable(s, fi, c) ==
  /\ {fi.old, fi.name} \subseteq c.renamed[s] /\ fi.old # fi.name
  /\ fi.state = "select" \/ (fi.state = "noselect" /\ {fi.old, fi.name} \subseteq c.muted[s])

LEMMA RenameRight ==
  ASSUME NEW s \in Stores, NEW e, NEW c \in Places, Right(s, e, c),
         NEW fi, Movable(s, fi, c)
  PROVE  Right(s, Rename(e, s, fi), c)
<1> DEFINE d == Rename(e, s, fi)
           n == fi.name
           o == fi.old
           v == Table(s, e)
           u == Renaming(e, s, fi)
<1>0. /\ e.f \in [Names -> States] /\ e.ups \in Seq(Updates)
      /\ c.renamed[s] \subseteq Names /\ fi.state \in {"select", "noselect"}
  BY DEF Right, Entry, Places, Views, Movable
<1>1. n \in Names /\ o \in Names /\ o # n /\ n \in c.renamed[s] /\ o \in c.renamed[s]
  BY <1>0 DEF Movable
<1>2. d = [f |-> [e.f EXCEPT ![o] = "none", ![n] = fi.state], ups |-> Append(e.ups, u)]
  BY DEF Rename
<1>3. u \in Updates
  BY <1>1 DEF Renaming, Updates, Update, Kinds
<1>4. d \in Entry /\ d.ups = Append(e.ups, u) /\ d.f = [e.f EXCEPT ![o] = "none", ![n] = fi.state]
  <2>1. [e.f EXCEPT ![o] = "none", ![n] = fi.state] \in [Names -> States]
    BY <1>0 DEF States
  <2>2. Append(e.ups, u) \in Seq(Updates)
    BY <1>0, <1>3
  <2> QED BY <1>2, <2>1, <2>2 DEF Entry
<1> HIDE DEF d
<1>5. d.f[o] = "none" /\ d.f[n] = fi.state /\ \A m \in Names \ {o, n} : d.f[m] = e.f[m]
  BY <1>0, <1>1, <1>4
<1>6. /\ v[s] = {m \in Names : e.f[m] = "select"}
      /\ Table(s, d)[s] = {m \in Names : d.f[m] = "select"}
      /\ \A x \in Stores : x # s => Table(s, d)[x] = v[x]
  BY DEF Table
<1>7. CASE fi.state = "noselect"
  <2>1. u.kind = "count" /\ u.store = s
    BY <1>7 DEF Renaming, Count, Update
  <2>2. Table(s, d)[s] = v[s] \ {o, n}
    BY <1>1, <1>5, <1>6, <1>7
  <2>3. {o, n} \in SUBSET (c.renamed[s] \cap c.muted[s])
    BY <1>1, <1>7 DEF Movable
  <2>4. Tells(u, v, Table(s, d), c.renamed, c.muted)
    <3> HIDE DEF v, u
    <3> QED BY <1>6, <2>1, <2>2, <2>3 DEF Tells
  <2> QED BY <1>3, <1>4, <2>4, OneMoreTold DEF d
<1>8. CASE fi.state = "select" /\ e.f[o] = "none"
  <2>1. u.kind = "available" /\ u.store = s /\ u.name = n
    BY <1>8 DEF Renaming, Update
  <2>2. Table(s, d)[s] = v[s] \cup {n}
    BY <1>1, <1>5, <1>6, <1>8
  <2>3. Tells(u, v, Table(s, d), c.renamed, c.muted)
    <3> HIDE DEF v, u
    <3> QED BY <1>1, <1>6, <2>1, <2>2 DEF Tells
  <2> QED BY <1>3, <1>4, <2>3, OneMoreTold DEF d
<1>9. CASE fi.state = "select" /\ e.f[o] # "none"
  <2>1. u.kind = "renamed" /\ u.store = s /\ u.name = n /\ u.old = o
    BY <1>9 DEF Renaming, Update
  <2>2. Table(s, d)[s] = (v[s] \ {o}) \cup {n}
    BY <1>1, <1>5, <1>6, <1>9
  <2>3. Tells(u, v, Table(s, d), c.renamed, c.muted)
    <3> HIDE DEF v, u
    <3> QED BY <1>1, <1>6, <2>1, <2>2 DEF Tells
  <2> QED BY <1>3, <1>4, <2>3, OneMoreTold DEF d
<1> QED BY <1>0, <1>7, <1>8, <1>9

\* A folder list enters the table.
LEMMA EnterAllRight ==
  ASSUME TableType, NEW s \in Stores, NEW c, Begins(c),
         NEW infos \in Seq(FolderInfos), NEW open
  PROVE  Right(s, EnterAll(s, infos, open), c)
<1> DEFINE V == {e \in Entry : Right(s, e, c)}
           G == [fi \in FolderInfos |-> [e \in V |-> Setup(e, s, fi, open)]]
           F == [fi \in FolderInfos |-> V]
           v == Entries(s)
           n == Len(infos)
           Is(H) == H = [i \in 0..n |-> IF i = 0 THEN v ELSE Setup(H[i - 1], s, infos[i], open)]
           L == CHOOSE H : Is(H)
<1>0. c \in Places
  BY DEF Begins
<1>1. v \in V
  BY EntriesAreRight DEF Right
<1>2. \A fi \in FolderInfos : \A e \in V : Setup(e, s, fi, open) \in V
  <2>1. ASSUME NEW fi \in FolderInfos, NEW e \in V PROVE Setup(e, s, fi, open) \in V
    <3>1. Right(s, Setup(e, s, fi, open), c)
      BY <1>0, SetupRight
    <3> QED BY <3>1 DEF Right
  <2> QED BY <2>1
<1>3. n \in Nat /\ \A i \in 1..n : infos[i] \in FolderInfos
  OBVIOUS
<1> HIDE DEF V, v
<1>4. G \in [FolderInfos -> [V -> V]]
  BY <1>2
<1>5. PICK w \in V : Path(V, G, F, v, infos, w)
  BY <1>1, <1>4, PathExists
<1>6. PICK h \in [0..n -> V] :
        /\ h[0] = v /\ h[n] = w
        /\ \A i \in 1..n : h[i - 1] \in F[infos[i]] /\ h[i] = G[infos[i]][h[i - 1]]
  BY <1>5 DEF Path
<1> HIDE DEF n, F
<1>7. ASSUME NEW i \in 1..n PROVE h[i] = Setup(h[i - 1], s, infos[i], open)
  <2>1. i - 1 \in 0..n
    BY <1>3
  <2> QED BY <1>3, <1>6, <2>1
<1> HIDE DEF G
<1>8. Is(h)
  <2>1. ASSUME NEW i \in 0..n
        PROVE  h[i] = IF i = 0 THEN v ELSE Setup(h[i - 1], s, infos[i], open)
    <3>1. CASE i = 0
      BY <1>6, <3>1
    <3>2. CASE i # 0
      <4>1. i \in 1..n
        BY <1>3, <3>2
      <4> QED BY <1>7, <3>2, <4>1
    <3> QED BY <3>1, <3>2
  <2> QED BY <2>1
<1> HIDE DEF Is
<1>9. Is(L)
  BY <1>8
<1>10. EnterAll(s, infos, open) = L[n]
  BY DEF EnterAll, Is, n, v
<1> HIDE DEF L
<1>11. L[0] = v /\ \A i \in 1..n : L[i] = Setup(L[i - 1], s, infos[i], open)
  BY <1>3, <1>9 DEF Is
<1>12. h[n] = L[n]
  <2>1. h[0] = L[0] /\ \A i \in 1..n : h[i - 1] = L[i - 1] => h[i] = L[i]
    BY <1>6, <1>7, <1>11
  <2> QED BY <1>3, <2>1, GrowAlike
<1> QED BY <1>5, <1>6, <1>10, <1>12 DEF V

\* The folders of a store that is removed leave it, in any order.
LEMMA LeaveAllRight ==
  ASSUME TableType, NEW s \in Stores, NEW c, Begins(c),
         NEW names \in Seq(Names)
  PROVE  /\ Right(s, LeaveAll(s, names), c)
         /\ \A m \in Names : (\E i \in 1..Len(names) : m = names[i]) \/ folders[s][m] = "none"
              => LeaveAll(s, names).f[m] = "none"
<1> DEFINE V == {e \in Entry : Right(s, e, c)}
           G == [m \in Names |-> [e \in V |-> Unset(e, s, m, "unavailable")]]
           F == [m \in Names |-> V]
           v == Entries(s)
           n == Len(names)
           Is(H) == H = [i \in 0..n |->
                          IF i = 0 THEN v ELSE Unset(H[i - 1], s, names[i], "unavailable")]
           L == CHOOSE H : Is(H)
<1>0. c \in Places
  BY DEF Begins
<1>1. v \in V
  BY EntriesAreRight DEF Right
<1>2. \A m \in Names : \A e \in V : Unset(e, s, m, "unavailable") \in V
  <2>1. ASSUME NEW m \in Names, NEW e \in V PROVE Unset(e, s, m, "unavailable") \in V
    <3>1. Right(s, Unset(e, s, m, "unavailable"), c)
      BY <1>0, UnsetRight
    <3> QED BY <3>1 DEF Right
  <2> QED BY <2>1
<1>3. n \in Nat /\ \A i \in 1..n : names[i] \in Names
  OBVIOUS
<1> HIDE DEF V, v
<1>4. G \in [Names -> [V -> V]]
  BY <1>2
<1>5. PICK w \in V : Path(V, G, F, v, names, w)
  BY <1>1, <1>4, PathExists
<1>6. PICK h \in [0..n -> V] :
        /\ h[0] = v /\ h[n] = w
        /\ \A i \in 1..n : h[i - 1] \in F[names[i]] /\ h[i] = G[names[i]][h[i - 1]]
  BY <1>5 DEF Path
<1> HIDE DEF n, F
<1>7. ASSUME NEW i \in 1..n PROVE h[i] = Unset(h[i - 1], s, names[i], "unavailable")
  <2>1. i - 1 \in 0..n
    BY <1>3
  <2> QED BY <1>3, <1>6, <2>1
<1> HIDE DEF G
<1>8. Is(h)
  <2>1. ASSUME NEW i \in 0..n
        PROVE  h[i] = IF i = 0 THEN v ELSE Unset(h[i - 1], s, names[i], "unavailable")
    <3>1. CASE i = 0
      BY <1>6, <3>1
    <3>2. CASE i # 0
      <4>1. i \in 1..n
        BY <1>3, <3>2
      <4> QED BY <1>7, <3>2, <4>1
    <3> QED BY <3>1, <3>2
  <2> QED BY <2>1
<1> HIDE DEF Is
<1>9. Is(L)
  BY <1>8
<1>10. LeaveAll(s, names) = L[n]
  BY DEF LeaveAll, Is, n, v
<1> HIDE DEF L
<1>11. L[0] = v /\ \A i \in 1..n : L[i] = Unset(L[i - 1], s, names[i], "unavailable")
  BY <1>3, <1>9 DEF Is
<1>12. h[n] = L[n]
  <2>1. h[0] = L[0] /\ \A i \in 1..n : h[i - 1] = L[i - 1] => h[i] = L[i]
    BY <1>6, <1>7, <1>11
  <2> QED BY <1>3, <2>1, GrowAlike
<1>13. LeaveAll(s, names) \in V /\ Right(s, LeaveAll(s, names), c)
  BY <1>5, <1>6, <1>10, <1>12 DEF V
<1> DEFINE Gone(i, m) == (\E j \in 1..i : m = names[j]) \/ folders[s][m] = "none"
           S == [i \in 0..n |-> {e \in V : \A m \in Names : Gone(i, m) => e.f[m] = "none"}]
<1>14. v \in S[0]
  BY <1>1, <1>3 DEF v, Entries
<1>15. ASSUME NEW i \in 1..n, NEW e \in S[i - 1]
       PROVE  Unset(e, s, names[i], "unavailable") \in S[i]
  <2> DEFINE d == Unset(e, s, names[i], "unavailable")
  <2>1. /\ i \in 0..n /\ i - 1 \in 0..n /\ names[i] \in Names
        /\ e \in V /\ \A m \in Names : Gone(i - 1, m) => e.f[m] = "none"
    BY <1>3
  <2>2. d \in V
    BY <1>2, <2>1
  <2>3. e.f \in [Names -> States]
    BY <2>1 DEF V, Entry
  <2>4. d.f = [e.f EXCEPT ![names[i]] = "none"]
    BY DEF Unset
  <2> HIDE DEF d
  <2>5. ASSUME NEW m \in Names, Gone(i, m) PROVE d.f[m] = "none"
    <3>1. CASE m = names[i]
      BY <2>1, <2>3, <2>4, <3>1
    <3>2. CASE m # names[i]
      <4>1. Gone(i - 1, m)
        <5>1. ASSUME NEW j \in 1..i, m = names[j] PROVE j \in 1..i - 1
          BY <1>3, <3>2, <5>1
        <5> QED BY <2>5, <5>1
      <4> QED BY <2>1, <2>3, <2>4, <3>2, <4>1
    <3> QED BY <3>1, <3>2
  <2>6. d \in S[i]
    BY <2>1, <2>2, <2>5
  <2> QED BY <2>6 DEF d
<1> HIDE DEF S
<1> DEFINE Good == {k \in Nat : k <= n => L[k] \in S[k]}
<1>16. 0 \in Good
  BY <1>11, <1>14
<1>17. ASSUME NEW k \in Nat, k \in Good PROVE k + 1 \in Good
  <2> SUFFICES ASSUME k + 1 <= n PROVE L[k + 1] \in S[k + 1]
    OBVIOUS
  <2>1. L[k] \in S[k] /\ k + 1 \in 1..n /\ (k + 1) - 1 = k
    BY <1>3, <1>17
  <2>2. L[k + 1] = Unset(L[k], s, names[k + 1], "unavailable")
    BY <1>11, <2>1
  <2> QED BY <1>15, <2>1, <2>2
<1> HIDE DEF Good
<1>18. n \in Good
  BY <1>3, <1>16, <1>17, NatSetInduction
<1>19. L[n] \in S[n] /\ n \in 0..n
  BY <1>3, <1>18 DEF Good
<1>20. \A m \in Names : Gone(n, m) => L[n].f[m] = "none"
  BY <1>19 DEF S
<1> QED BY <1>10, <1>13, <1>20 DEF n

\* A folder and those below it are renamed.
LEMMA MoveAllRight ==
  ASSUME TableType, NEW s \in Stores, NEW c, Begins(c),
         NEW pairs, Len(pairs) \in Nat, NEW kept,
         \A i \in 1..Len(pairs) : Movable(s, Move(pairs, kept, i), c)
  PROVE  Right(s, MoveAll(s, pairs, kept), c)
<1> DEFINE n == Len(pairs)
           X == 1..n
           q == [i \in 1..n |-> i]
           fi(i) == Move(pairs, kept, i)
           V == {e \in Entry : Right(s, e, c)}
           G == [i \in X |-> [e \in V |-> Rename(e, s, fi(i))]]
           F == [i \in X |-> V]
           v == Entries(s)
           Is(H) == H = [i \in 0..n |-> IF i = 0 THEN v ELSE Rename(H[i - 1], s, fi(i))]
           L == CHOOSE H : Is(H)
<1>0. c \in Places
  BY DEF Begins
<1>1. v \in V
  BY EntriesAreRight DEF Right
<1>2. ASSUME NEW i \in X, NEW e \in V PROVE Rename(e, s, fi(i)) \in V
  <2>1. Movable(s, fi(i), c)
    OBVIOUS
  <2> HIDE DEF fi
  <2>2. Right(s, Rename(e, s, fi(i)), c)
    BY <1>0, <2>1, RenameRight
  <2> QED BY <2>2 DEF Right
<1>3. n \in Nat /\ q \in Seq(X) /\ Len(q) = n /\ \A i \in 1..n : q[i] = i /\ i \in X
  <2> HIDE DEF n
  <2>1. n \in Nat
    BY DEF n
  <2> QED BY <2>1
<1> HIDE DEF V, v, fi, q, n, X
<1>4. G \in [X -> [V -> V]]
  BY <1>2
<1>5. PICK w \in V : Path(V, G, F, v, q, w)
  <2> HIDE DEF G
  <2>1. \E w \in V : Path(V, G, [i \in X |-> V], v, q, w)
    BY <1>1, <1>3, <1>4, PathExists
  <2> QED BY <2>1
<1>6. PICK h \in [0..n -> V] :
        /\ h[0] = v /\ h[n] = w
        /\ \A i \in 1..n : h[i - 1] \in F[q[i]] /\ h[i] = G[q[i]][h[i - 1]]
  BY <1>3, <1>5 DEF Path
<1> HIDE DEF F
<1>7. ASSUME NEW i \in 1..n PROVE h[i] = Rename(h[i - 1], s, fi(i))
  <2>1. i - 1 \in 0..n
    BY <1>3
  <2> QED BY <1>3, <1>6, <2>1
<1> HIDE DEF G
<1>8. Is(h)
  <2>1. ASSUME NEW i \in 0..n
        PROVE  h[i] = IF i = 0 THEN v ELSE Rename(h[i - 1], s, fi(i))
    <3>1. CASE i = 0
      BY <1>6, <3>1
    <3>2. CASE i # 0
      <4>1. i \in 1..n
        BY <1>3, <3>2
      <4> QED BY <1>7, <3>2, <4>1
    <3> QED BY <3>1, <3>2
  <2> QED BY <2>1
<1> HIDE DEF Is
<1>9. Is(L)
  BY <1>8
<1>10. MoveAll(s, pairs, kept) = L[n]
  BY DEF MoveAll, Is, n, v, fi, Move
<1> HIDE DEF L
<1>11. L[0] = v /\ \A i \in 1..n : L[i] = Rename(L[i - 1], s, fi(i))
  BY <1>3, <1>9 DEF Is
<1>12. h[n] = L[n]
  <2>1. h[0] = L[0] /\ \A i \in 1..n : h[i - 1] = L[i - 1] => h[i] = L[i]
    BY <1>6, <1>7, <1>11
  <2> QED BY <1>3, <2>1, GrowAlike
<1> QED BY <1>5, <1>6, <1>10, <1>12 DEF V

-----------------------------------------------------------------------------
(* The log of the changes: the pending updates without those of counts.    *)

ChangeG == [u \in Updates |->
             [c \in Seq(Updates) |-> IF u.kind = "count" THEN c ELSE Append(c, u)]]
ChangeF == [u \in Updates |-> Seq(Updates)]

LEMMA ChangesAlong ==
  ASSUME NEW us \in Seq(Updates), NEW w, Path(Seq(Updates), ChangeG, ChangeF, <<>>, us, w)
  PROVE  Changes(us) = w
<1> DEFINE n == Len(us)
           Is(H) == H = [i \in 0..n |->
                          IF i = 0 THEN <<>>
                          ELSE IF us[i].kind = "count" THEN H[i - 1] ELSE Append(H[i - 1], us[i])]
           L == CHOOSE H : Is(H)
<1>0. n \in Nat /\ \A i \in 1..n : us[i] \in Updates
  OBVIOUS
<1>1. PICK h \in [0..n -> Seq(Updates)] :
        /\ h[0] = <<>> /\ h[n] = w
        /\ \A i \in 1..n : h[i - 1] \in ChangeF[us[i]] /\ h[i] = ChangeG[us[i]][h[i - 1]]
  BY DEF Path
<1> HIDE DEF n
<1>2. ASSUME NEW i \in 1..n
      PROVE  h[i] = IF us[i].kind = "count" THEN h[i - 1] ELSE Append(h[i - 1], us[i])
  <2>1. i - 1 \in 0..n
    BY <1>0
  <2>2. h[i - 1] \in Seq(Updates)
    BY <2>1
  <2> QED BY <1>0, <1>1, <2>2 DEF ChangeG
<1>3. Is(h)
  <2>1. ASSUME NEW i \in 0..n
        PROVE  h[i] = IF i = 0 THEN <<>>
                      ELSE IF us[i].kind = "count" THEN h[i - 1] ELSE Append(h[i - 1], us[i])
    <3>1. CASE i = 0
      BY <1>1, <3>1
    <3>2. CASE i # 0
      <4>1. i \in 1..n
        BY <1>0, <3>2
      <4> QED BY <1>2, <3>2, <4>1
    <3> QED BY <3>1, <3>2
  <2> QED BY <2>1
<1> HIDE DEF Is
<1>4. Is(L)
  BY <1>3
<1>5. Changes(us) = L[n]
  BY DEF Changes, Is, n
<1> HIDE DEF L
<1>6. L[0] = <<>> /\ \A i \in 1..n :
        L[i] = IF us[i].kind = "count" THEN L[i - 1] ELSE Append(L[i - 1], us[i])
  <2>1. L = [i \in 0..n |->
              IF i = 0 THEN <<>>
              ELSE IF us[i].kind = "count" THEN L[i - 1] ELSE Append(L[i - 1], us[i])]
    BY <1>4 DEF Is
  <2>2. L[0] = <<>>
    <3>1. 0 \in 0..n
      BY <1>0
    <3> QED BY <2>1, <3>1, Zenon
  <2>3. ASSUME NEW i \in 1..n
        PROVE  L[i] = IF us[i].kind = "count" THEN L[i - 1] ELSE Append(L[i - 1], us[i])
    <3>1. i \in 0..n /\ i # 0
      BY <1>0
    <3> QED BY <2>1, <3>1, Zenon
  <2> QED BY <2>2, <2>3
<1>7. h[n] = L[n]
  <2>1. h[0] = L[0] /\ \A i \in 1..n : h[i - 1] = L[i - 1] => h[i] = L[i]
    BY <1>1, <1>2, <1>6
  <2> QED BY <1>0, <2>1, GrowAlike
<1> QED BY <1>1, <1>5, <1>7

LEMMA ChangesPath ==
  ASSUME NEW us \in Seq(Updates)
  PROVE  /\ Changes(us) \in Seq(Updates)
         /\ Path(Seq(Updates), ChangeG, ChangeF, <<>>, us, Changes(us))
<1> DEFINE V == Seq(Updates)
<1>1. \A u \in Updates : \A c \in V : (IF u.kind = "count" THEN c ELSE Append(c, u)) \in V
  OBVIOUS
<1>2. <<>> \in V
  OBVIOUS
<1> HIDE DEF V
<1>3. ChangeG \in [Updates -> [V -> V]] /\ ChangeF = [u \in Updates |-> V]
  BY <1>1 DEF ChangeG, ChangeF, V
<1>4. PICK w \in V : Path(V, ChangeG, [u \in Updates |-> V], <<>>, us, w)
  BY <1>2, <1>3, PathExists
<1>5. Path(Seq(Updates), ChangeG, ChangeF, <<>>, us, w)
  BY <1>3, <1>4 DEF V
<1>6. Changes(us) = w
  BY <1>5, ChangesAlong
<1> QED BY <1>4, <1>5, <1>6 DEF V

LEMMA ChangesOfLonger ==
  ASSUME NEW p \in Seq(Updates), NEW q \in Seq(Updates)
  PROVE  Changes(p \o q) = Changes(p) \o Changes(q)
<1> DEFINE c == Changes(p)
           d == Changes(q)
           n == Len(q)
           V == Seq(Updates)
<1>1. c \in V /\ d \in V /\ Path(V, ChangeG, ChangeF, <<>>, p, c)
      /\ Path(V, ChangeG, ChangeF, <<>>, q, d)
  BY ChangesPath
<1> HIDE DEF c, d
<1>0. n \in Nat /\ \A i \in 1..n : q[i] \in Updates
  OBVIOUS
<1>2. PICK h \in [0..n -> V] :
        /\ h[0] = <<>> /\ h[n] = d
        /\ \A i \in 1..n : h[i - 1] \in ChangeF[q[i]] /\ h[i] = ChangeG[q[i]][h[i - 1]]
  BY <1>1 DEF Path
<1>3. \A a, b \in V : a \o b \in V
  OBVIOUS
<1>4. \A a, b \in V : \A u \in Updates : a \o Append(b, u) = Append(a \o b, u)
  OBVIOUS
<1>5. c \o <<>> = c
  BY <1>1
<1>6. \A i \in 1..n : \A x \in V : x \in ChangeF[q[i]]
        /\ ChangeG[q[i]][x] = IF q[i].kind = "count" THEN x ELSE Append(x, q[i])
  BY <1>0 DEF ChangeG, ChangeF
<1> HIDE DEF V
<1> DEFINE g == [i \in 0..n |-> c \o h[i]]
<1>7. g \in [0..n -> V] /\ g[0] = c /\ g[n] = c \o d
  <2>1. 0 \in 0..n /\ n \in 0..n
    BY <1>0
  <2> HIDE DEF n
  <2> QED BY <1>1, <1>2, <1>3, <1>5, <2>1
<1>8. \A i \in 0..n : g[i] = c \o h[i]
  OBVIOUS
<1> HIDE DEF g, n
<1>9. ASSUME NEW i \in 1..n PROVE g[i - 1] \in ChangeF[q[i]] /\ g[i] = ChangeG[q[i]][g[i - 1]]
  <2>1. i - 1 \in 0..n /\ i \in 0..n
    BY <1>0
  <2>2. h[i - 1] \in V /\ g[i - 1] = c \o h[i - 1] /\ g[i] = c \o h[i] /\ g[i - 1] \in V
    BY <1>7, <1>8, <2>1
  <2>3. h[i] = IF q[i].kind = "count" THEN h[i - 1] ELSE Append(h[i - 1], q[i])
    BY <1>2, <1>6, <2>2
  <2>4. g[i] = IF q[i].kind = "count" THEN g[i - 1] ELSE Append(g[i - 1], q[i])
    <3>1. CASE q[i].kind = "count"
      BY <2>2, <2>3, <3>1
    <3>2. CASE q[i].kind # "count"
      <4>1. c \o Append(h[i - 1], q[i]) = Append(c \o h[i - 1], q[i])
        BY <1>0, <1>1, <1>4, <2>2
      <4> QED BY <2>2, <2>3, <3>2, <4>1
    <3> QED BY <3>1, <3>2
  <2> QED BY <1>6, <2>2, <2>4
<1>10. Path(V, ChangeG, ChangeF, c, q, c \o d)
  BY <1>7, <1>9 DEF Path, n
<1>11. Path(V, ChangeG, ChangeF, <<>>, p \o q, c \o d)
  BY <1>1, <1>10, PathConcat
<1>12. p \o q \in Seq(Updates)
  OBVIOUS
<1> QED BY <1>11, <1>12, ChangesAlong DEF V, c, d

LEMMA ChangesOfOne ==
  ASSUME NEW u \in Updates
  PROVE  Changes(<<u>>) = IF u.kind = "count" THEN <<>> ELSE <<u>>
<1> DEFINE w == IF u.kind = "count" THEN <<>> ELSE <<u>>
           V == Seq(Updates)
<1>1. <<>> \in V /\ w \in V /\ <<u>> \in V /\ Append(<<>>, u) = <<u>>
  OBVIOUS
<1>2. <<>> \in ChangeF[u] /\ w = ChangeG[u][<<>>]
  BY <1>1 DEF ChangeF, ChangeG
<1> HIDE DEF w
<1>3. Path(V, ChangeG, ChangeF, <<>>, <<>>, <<>>)
  BY <1>1, PathNone
<1> HIDE DEF V
<1>4. Path(V, ChangeG, ChangeF, <<>>, Append(<<>>, u), w)
  <2> DEFINE q == <<>>
  <2>1. q \in Seq(Updates)
    OBVIOUS
  <2>2. q \in V /\ Path(V, ChangeG, ChangeF, q, q, q) /\ q \in ChangeF[u] /\ w = ChangeG[u][q]
    BY <1>1, <1>2, <1>3
  <2> HIDE DEF q
  <2>3. Path(V, ChangeG, ChangeF, q, Append(q, u), w)
    BY <1>1, <2>1, <2>2, PathAppend
  <2> QED BY <2>3 DEF q
<1> QED BY <1>1, <1>4, ChangesAlong DEF V, w

\* Counts apart, the updates tell the same.
LEMMA ChangesTellTheSame ==
  ASSUME NEW v \in Views, NEW w \in Views, NEW us \in Seq(Updates), NEW R,
         Path(Views, HearG, FitF(R), v, us, w)
  PROVE  /\ Path(Views, HearG, FitF(R), v, Changes(us), w)
         /\ Changes(us) \in Seq({u \in Updates : u.kind # "count"})
<1> DEFINE n == Len(us)
           C == {u \in Updates : u.kind # "count"}
           V == Seq(Updates)
<1>0. n \in Nat /\ \A i \in 1..n : us[i] \in Updates
  OBVIOUS
<1>1. PICK h \in [0..n -> Views] :
        /\ h[0] = v /\ h[n] = w
        /\ \A i \in 1..n : h[i - 1] \in FitF(R)[us[i]] /\ h[i] = HearG[us[i]][h[i - 1]]
  BY DEF Path
<1>2. PICK c \in [0..n -> V] :
        /\ c[0] = <<>> /\ c[n] = Changes(us)
        /\ \A i \in 1..n : c[i - 1] \in ChangeF[us[i]] /\ c[i] = ChangeG[us[i]][c[i - 1]]
  BY ChangesPath DEF Path
<1>3. \A x \in Seq(C) : x \in V /\ \A u \in C : Append(x, u) \in Seq(C)
  OBVIOUS
<1> DEFINE Same(k) == c[k] \in Seq(C) /\ Path(Views, HearG, FitF(R), v, c[k], h[k])
           Good == {k \in Nat : k <= n => Same(k)}
<1> HIDE DEF n
<1>4. 0 \in Good
  <2>1. <<>> \in Seq(C)
    OBVIOUS
  <2> HIDE DEF C
  <2> QED BY <1>1, <1>2, <2>1, PathNone
<1>5. ASSUME NEW k \in Nat, k \in Good PROVE k + 1 \in Good
  <2> SUFFICES ASSUME k + 1 <= n PROVE Same(k + 1)
    OBVIOUS
  <2>1. Same(k) /\ k + 1 \in 1..n /\ (k + 1) - 1 = k /\ k \in 0..n /\ k + 1 \in 0..n
    BY <1>0, <1>5
  <2> DEFINE u == us[k + 1]
             x == h[k]
             a == c[k]
  <2>2. u \in Updates /\ x \in Views /\ h[k + 1] \in Views /\ a \in V /\ a \in Seq(C)
    BY <1>0, <2>1
  <2>3. x \in FitF(R)[u] /\ h[k + 1] = HearG[u][x] /\ c[k + 1] = ChangeG[u][a]
    BY <1>1, <1>2, <2>1
  <2>4. Path(Views, HearG, FitF(R), v, a, x)
    BY <2>1
  <2> HIDE DEF u, x, a
  <2>5. CASE u.kind = "count"
    <3>1. c[k + 1] = a
      BY <2>2, <2>3, <2>5 DEF ChangeG
    <3>2. h[k + 1] = x
      <4>1. Heard(x, u) = x
        BY <2>2, <2>5 DEF Heard, Views
      <4> QED BY <2>2, <2>3, <4>1 DEF HearG
    <3> QED BY <2>2, <2>4, <3>1, <3>2
  <2>6. CASE u.kind # "count"
    <3>1. c[k + 1] = Append(a, u) /\ u \in C
      BY <2>2, <2>3, <2>6 DEF ChangeG
    <3>2. Append(a, u) \in Seq(C)
      BY <1>3, <2>2, <3>1
    <3>3. Path(Views, HearG, FitF(R), v, Append(a, u), h[k + 1])
      BY <2>2, <2>3, <2>4, PathAppend
    <3> QED BY <3>1, <3>2, <3>3
  <2> QED BY <2>5, <2>6
<1> HIDE DEF Good
<1>6. n \in Good
  BY <1>0, <1>4, <1>5, NatSetInduction
<1>7. Same(n)
  BY <1>0, <1>6 DEF Good
<1> QED BY <1>1, <1>2, <1>7

LEMMA PathPrefix ==
  ASSUME NEW X, NEW V, NEW G, NEW F, NEW q \in Seq(X), NEW v, NEW w, Path(V, G, F, v, q, w)
  PROVE  \E h \in [0..Len(q) -> V] :
           /\ \A i \in 1..Len(q) : h[i - 1] \in F[q[i]]
           /\ \A k \in 0..Len(q) :
                SubSeq(q, 1, k) \in Seq(X) /\ Path(V, G, F, v, SubSeq(q, 1, k), h[k])
<1>1. PICK h \in [0..Len(q) -> V] :
        /\ h[0] = v /\ h[Len(q)] = w
        /\ \A i \in 1..Len(q) : h[i - 1] \in F[q[i]] /\ h[i] = G[q[i]][h[i - 1]]
  BY DEF Path
<1>2. ASSUME NEW k \in 0..Len(q)
      PROVE  SubSeq(q, 1, k) \in Seq(X) /\ Path(V, G, F, v, SubSeq(q, 1, k), h[k])
  <2> DEFINE r == SubSeq(q, 1, k)
             g == [i \in 0..k |-> h[i]]
  <2>1. /\ r \in Seq(X) /\ Len(r) = k /\ k \in Nat /\ Len(q) \in Nat /\ k <= Len(q)
        /\ \A i \in 1..k : r[i] = q[i]
    OBVIOUS
  <2>2. g \in [0..k -> V] /\ \A i \in 0..k : g[i] = h[i]
    BY <2>1
  <2> HIDE DEF r, g
  <2>3. g[0] = v /\ g[k] = h[k]
    <3>1. 0 \in 0..k /\ k \in 0..k
      BY <2>1
    <3> QED BY <1>1, <2>2, <3>1
  <2>4. ASSUME NEW i \in 1..k PROVE g[i - 1] \in F[r[i]] /\ g[i] = G[r[i]][g[i - 1]]
    <3>1. i - 1 \in 0..k /\ i \in 0..k /\ i \in 1..Len(q)
      BY <2>1
    <3> QED BY <1>1, <2>1, <2>2, <3>1
  <2>5. Path(V, G, F, v, r, h[k])
    BY <2>1, <2>2, <2>3, <2>4 DEF Path
  <2> QED BY <2>1, <2>5 DEF r
<1> QED BY <1>1, <1>2

-----------------------------------------------------------------------------
(* The table's changes, as FolderSignals has them.                         *)

LEMMA AfterIsHeard ==
  ASSUME NEW v \in Views, NEW u \in Updates, u.kind # "count"
  PROVE  Promise!After(v, u) = Heard(v, u)
<1>1. u.kind = "available" \/ u.kind = "unavailable" \/ u.kind = "deleted" \/ u.kind = "renamed"
  BY UpdateKinds
<1> QED BY <1>1 DEF Promise!After, Heard

LEMMA AfterAllAlong ==
  ASSUME NEW v, NEW w, NEW R,
         NEW us \in Seq({u \in Updates : u.kind # "count"}),
         Path(Views, HearG, FitF(R), v, us, w)
  PROVE  Promise!AfterAll(v, us) = w
<1> DEFINE n == Len(us)
           Is(H) == H = [i \in 0..n |-> IF i = 0 THEN v ELSE Promise!After(H[i - 1], us[i])]
           L == CHOOSE H : Is(H)
<1>0. n \in Nat /\ \A i \in 1..n : us[i] \in Updates /\ us[i].kind # "count"
  OBVIOUS
<1>1. PICK h \in [0..n -> Views] :
        /\ h[0] = v /\ h[n] = w
        /\ \A i \in 1..n : h[i - 1] \in FitF(R)[us[i]] /\ h[i] = HearG[us[i]][h[i - 1]]
  BY DEF Path
<1> HIDE DEF n
<1>2. ASSUME NEW i \in 1..n PROVE h[i] = Promise!After(h[i - 1], us[i])
  <2>1. i - 1 \in 0..n
    BY <1>0
  <2>2. h[i - 1] \in Views /\ us[i] \in Updates /\ us[i].kind # "count"
    BY <1>0, <2>1
  <2>3. h[i] = Heard(h[i - 1], us[i])
    BY <1>1, <2>2 DEF HearG, FitF
  <2> QED BY <2>2, <2>3, AfterIsHeard
<1>3. Is(h)
  <2>1. ASSUME NEW i \in 0..n
        PROVE  h[i] = IF i = 0 THEN v ELSE Promise!After(h[i - 1], us[i])
    <3>1. CASE i = 0
      BY <1>1, <3>1
    <3>2. CASE i # 0
      <4>1. i \in 1..n
        BY <1>0, <3>2
      <4> QED BY <1>2, <3>2, <4>1
    <3> QED BY <3>1, <3>2
  <2> QED BY <2>1
<1> HIDE DEF Is
<1>4. Is(L)
  BY <1>3
<1>5. Promise!AfterAll(v, us) = L[n]
  BY DEF Promise!AfterAll, Is, n
<1> HIDE DEF L
<1>6. L[0] = v /\ \A i \in 1..n : L[i] = Promise!After(L[i - 1], us[i])
  BY <1>0, <1>4 DEF Is
<1>7. h[n] = L[n]
  <2>1. h[0] = L[0] /\ \A i \in 1..n : h[i - 1] = L[i - 1] => h[i] = L[i]
    BY <1>1, <1>2, <1>6
  <2> QED BY <1>0, <2>1, GrowAlike
<1> QED BY <1>1, <1>5, <1>7

LEMMA LogFromPath ==
  ASSUME NEW v \in Views, NEW w, NEW R,
         NEW us \in Seq({u \in Updates : u.kind # "count"}),
         Path(Views, HearG, FitF(R), v, us, w)
  PROVE  Promise!IsLogFrom(v, us, R)
<1> DEFINE n == Len(us)
           C == {u \in Updates : u.kind # "count"}
           T(k) == SubSeq(us, 1, k)
<1>0. n \in Nat /\ DOMAIN us = 1..n /\ us \in Seq(C) /\ \A i \in 1..n : us[i] \in C
  OBVIOUS
<1> HIDE DEF C
<1>1. PICK h \in [0..Len(us) -> Views] :
        /\ \A i \in 1..Len(us) : h[i - 1] \in FitF(R)[us[i]]
        /\ \A k \in 0..Len(us) : T(k) \in Seq(C) /\ Path(Views, HearG, FitF(R), v, T(k), h[k])
  BY <1>0, PathPrefix
<1>2. ASSUME NEW i \in 1..n
      PROVE  Promise!Fits(Promise!AfterAll(v, T(i - 1)), us[i], R)
  <2>1. i - 1 \in 0..n
    BY <1>0
  <2> HIDE DEF T
  <2>2. T(i - 1) \in Seq(C) /\ Path(Views, HearG, FitF(R), v, T(i - 1), h[i - 1])
    BY <1>1, <2>1
  <2>3. Promise!AfterAll(v, T(i - 1)) = h[i - 1]
    BY <2>2, AfterAllAlong DEF C
  <2>4. h[i - 1] \in FitF(R)[us[i]] /\ us[i] \in Updates /\ us[i].kind # "count"
    BY <1>0, <1>1 DEF C
  <2>5. Promise!Fits(h[i - 1], us[i], R)
    BY <2>4 DEF FitF
  <2> QED BY <2>3, <2>5
<1> QED BY <1>0, <1>2 DEF Promise!IsLogFrom

\* What is added to a sequence can be told from it.
LEMMA AddedAtTheEnd ==
  ASSUME NEW X, NEW c \in Seq(X), NEW d \in Seq(X)
  PROVE  /\ Promise!IsPrefix(c, c \o d)
         /\ SubSeq(c \o d, Len(c) + 1, Len(c \o d)) = d
<1>1. Len(c) <= Len(c \o d) /\ SubSeq(c, 1, Len(c)) = SubSeq(c \o d, 1, Len(c))
  OBVIOUS
<1>2. SubSeq(c \o d, Len(c) + 1, Len(c \o d)) = d
  OBVIOUS
<1> QED BY <1>1, <1>2 DEF Promise!IsPrefix

\* A handler's updates are a change of the table that FolderSignals allows.
LEMMA UpdatesAreAChange ==
  ASSUME NEW ups \in Seq(Updates), Pending \in Seq(Updates), Pending' = Pending \o ups,
         view' = view, \A x \in Stores : renamed[x] \subseteq renamed'[x],
         NEW z \in Views, Path(Views, HearG, FitF(renamed'), Known, ups, z),
         Agree(z, Known', renamed')
  PROVE  Promise!Change
<1> DEFINE c == Changes(Pending)
           d == Changes(ups)
           k == Known
           R == renamed'
<1>1. k \in Views
  BY DEF Known, Views, Selectable
<1>2. c \in Seq(Updates) /\ d \in Seq(Updates)
  BY ChangesPath
<1>3. Changes(Pending)' = c \o d
  <2>1. Changes(Pending') = c \o d
    BY ChangesOfLonger
  <2> QED BY <2>1
<1>4. k = [s \in Stores |-> Selectable(s)] /\ Known' = [s \in Stores |-> Selectable(s)]'
  BY DEF Known
<1>5. Path(Views, HearG, FitF(R), k, ups, z)
  OBVIOUS
<1> HIDE DEF d, k, R
<1>6. Path(Views, HearG, FitF(R), k, d, z) /\ d \in Seq({u \in Updates : u.kind # "count"})
  BY <1>1, <1>5, ChangesTellTheSame DEF d
<1>7. Promise!AfterAll(k, d) = z /\ Promise!IsLogFrom(k, d, R)
  BY <1>1, <1>6, AfterAllAlong, LogFromPath
<1>8. /\ Promise!IsPrefix(c, c \o d)
      /\ SubSeq(c \o d, Len(c) + 1, Len(c \o d)) = d
  BY <1>2, AddedAtTheEnd
<1>9. \A s \in Stores :
        [x \in Stores |-> Selectable(x)]'[s] \ renamed'[s] = Promise!AfterAll(k, d)[s] \ renamed'[s]
  BY <1>4, <1>7 DEF Agree
<1>10. Promise!IsLogFrom([s \in Stores |-> Selectable(s)], d, renamed')
  BY <1>4, <1>7 DEF R
<1>11. Promise!Record(d)
  BY <1>3, <1>4, <1>9, <1>10 DEF Promise!Record
<1> QED BY <1>3, <1>8, <1>11 DEF Promise!Change

-----------------------------------------------------------------------------
(* The pending updates lead from what the listeners know to the table.     *)

\* Where the pending updates lead those who hear of them.
Heeded(v) ==
  Path(Views, HearG, AnyF, view, Pending, v) /\ Close(v, Known, spoilt, muted)
Kept(w) ==
  Path(Views, RecordG, AnyF, uris, Pending, w) /\ Agree(w, Known, renamed)

ListInv ==
  /\ TableType
  /\ \A s \in Stores : spoilt[s] \subseteq renamed[s]
  /\ \E v \in Views : Heeded(v)
  /\ \E w \in Views : Kept(w)

\* A step that FolderSignals allows.
Logged == [Promise!Change \/ Promise!Tell]_(Promise!signalVars)

LEMMA PendingType ==
  ASSUME TableType
  PROVE  Pending \in Seq(Updates)
BY DEF Pending, TableType
LEMMA PendingGrows ==
  ASSUME TableType, NEW ups \in Seq(Updates), updates' = updates \o ups, emitting' = emitting
  PROVE  Pending' = Pending \o ups
<1>1. updates \in Seq(Updates)
  BY DEF TableType
<1>2. CASE emitting = None
  <2>1. Pending = <<>> \o updates /\ Pending' = <<>> \o (updates \o ups)
    BY <1>2 DEF Pending
  <2> QED BY <1>1, <2>1
<1>3. CASE emitting # None
  <2>1. Pending = <<emitting>> \o updates /\ Pending' = <<emitting>> \o (updates \o ups)
    BY <1>3 DEF Pending
  <2>2. emitting \in Updates
    BY <1>3 DEF TableType
  <2>3. \A b, c \in Seq(Updates) : <<emitting>> \o (b \o c) = (<<emitting>> \o b) \o c
    BY <2>2
  <2> QED BY <1>1, <2>1, <2>3
<1> QED BY <1>2, <1>3

\* A handler's changes of one store, with the updates that tell of them.  While
\* it runs names S are excepted, which takes in those excepted before.
LEMMA SetEntriesKeeps ==
  ASSUME ListInv, NEW s \in Stores, NEW e, NEW S \in Views,
         folders' = [folders EXCEPT ![s] = e.f], updates' = updates \o e.ups,
         UNCHANGED <<view, uris, emitting>>,
         renamed' \in Views, spoilt' \in Views, muted' \in Views,
         \A x \in Stores : /\ renamed[x] \subseteq renamed'[x] /\ muted[x] \subseteq muted'[x]
                           /\ spoilt'[x] \subseteq renamed'[x] /\ spoilt[x] \subseteq S[x],
         \A c : Begins(c) /\ c.renamed = renamed' /\ c.muted = muted' /\ c.spoilt = S
                  => Right(s, e, c),
         \A v \in Views : Close(v, Table(s, e), S, muted') => Close(v, Table(s, e), spoilt', muted')
  PROVE  ListInv' /\ Logged
<1>1. PICK v \in Views : Heeded(v)
  BY DEF ListInv
<1>2. PICK w \in Views : Kept(w)
  BY DEF ListInv
<1> DEFINE R == renamed'
           M == muted'
           c == [hear |-> v, record |-> w, renamed |-> R, spoilt |-> S, muted |-> M]
<1>3. Close(v, Known, S, M) /\ Agree(w, Known, R) /\ R \in Views /\ M \in Views
  BY <1>1, <1>2 DEF Close, Agree, Heeded, Kept
<1> HIDE DEF R, M
<1>4. /\ c.hear = v /\ c.record = w /\ c.renamed = R /\ c.spoilt = S /\ c.muted = M
      /\ c \in Places
  BY <1>3 DEF Places
<1> HIDE DEF c
<1>5. Right(s, e, c)
  <2>1. Begins(c)
    BY <1>3, <1>4 DEF Begins
  <2> QED BY <1>4, <2>1 DEF R, M
<1>6. e.f \in [Names -> States] /\ e.ups \in Seq(Updates)
  BY <1>5 DEF Right, Entry
<1>7. TableType /\ Pending \in Seq(Updates)
  BY PendingType DEF ListInv
<1>8. TableType'
  BY <1>6, <1>7 DEF TableType
<1>9. Pending' = Pending \o e.ups
  BY <1>6, <1>7, PendingGrows
<1>10. Known' = Table(s, e)
  <2>1. \A x \in Stores : folders'[x] = IF x = s THEN e.f ELSE folders[x]
    BY <1>7 DEF TableType
  <2> QED BY <2>1 DEF Known, Table, Selectable
<1>11. PICK y \in Views : Heeded(y)'
  <2>1. PICK y \in Views : Path(Views, HearG, AnyF, v, e.ups, y) /\ Close(y, Table(s, e), S, M)
    BY <1>4, <1>5 DEF Right, Told, HearTold
  <2>2. Path(Views, HearG, AnyF, view, Pending, v)
    BY <1>1 DEF Heeded
  <2>3. Path(Views, HearG, AnyF, view, Pending \o e.ups, y)
    BY <1>6, <1>7, <2>1, <2>2, PathConcat
  <2>4. Path(Views, HearG, AnyF, view', Pending', y)
    BY <1>9, <2>3
  <2>5. Close(y, Known', spoilt', muted')
    BY <1>10, <2>1 DEF M
  <2> QED BY <2>4, <2>5 DEF Heeded
<1>12. PICK x \in Views : Kept(x)'
  <2>1. PICK x \in Views : Path(Views, RecordG, AnyF, w, e.ups, x) /\ Agree(x, Table(s, e), R)
    BY <1>4, <1>5 DEF Right, Told, RecordTold
  <2>2. Path(Views, RecordG, AnyF, uris, Pending, w)
    BY <1>2 DEF Kept
  <2>3. Path(Views, RecordG, AnyF, uris, Pending \o e.ups, x)
    BY <1>6, <1>7, <2>1, <2>2, PathConcat
  <2>4. Path(Views, RecordG, AnyF, uris', Pending', x)
    BY <1>9, <2>3
  <2>5. Agree(x, Known', renamed')
    BY <1>10, <2>1 DEF R
  <2> QED BY <2>4, <2>5 DEF Kept
<1>13. ListInv'
  <2>1. (\A t \in Stores : spoilt[t] \subseteq renamed[t])'
    OBVIOUS
  <2>2. (\E g \in Views : Heeded(g))'
    BY <1>11
  <2>3. (\E g \in Views : Kept(g))'
    BY <1>12
  <2> QED BY <1>8, <2>1, <2>2, <2>3 DEF ListInv
<1>14. Promise!Change
  <2>1. PICK z \in Views :
          Path(Views, HearG, FitF(R), Known, e.ups, z) /\ Agree(z, Table(s, e), R)
    BY <1>4, <1>5 DEF Right, Told, LogTold
  <2>2. Path(Views, HearG, FitF(renamed'), Known, e.ups, z) /\ Agree(z, Known', renamed')
    BY <1>10, <2>1 DEF R
  <2> QED BY <1>6, <1>7, <1>9, <2>2, UpdatesAreAChange
<1> QED BY <1>13, <1>14 DEF Logged

\* Most handlers leave the excepted names as they are.
LEMMA EntriesSet ==
  ASSUME ListInv, NEW s \in Stores, NEW e, SetEntries(s, e),
         UNCHANGED <<view, uris, emitting, spoilt, muted, renamed>>,
         \A c : Begins(c) => Right(s, e, c)
  PROVE  ListInv' /\ Logged
<1>1. TableType /\ \A x \in Stores : spoilt[x] \subseteq renamed[x]
  BY DEF ListInv
<1>2. folders' = [folders EXCEPT ![s] = e.f] /\ updates' = updates \o e.ups
  BY DEF SetEntries, Push
<1>3. \A c : Begins(c) /\ c.renamed = renamed' /\ c.muted = muted' /\ c.spoilt = spoilt
               => Right(s, e, c)
  OBVIOUS
<1> QED BY <1>1, <1>2, <1>3, SetEntriesKeeps DEF TableType

LEMMA NothingLogged ==
  ASSUME Known' = Known, Pending' = Pending, view' = view, renamed' = renamed
  PROVE  Logged
<1>1. [s \in Stores |-> Selectable(s)]' = [s \in Stores |-> Selectable(s)]
  BY DEF Known
<1>2. Changes(Pending)' = Changes(Pending)
  <2>1. Changes(Pending') = Changes(Pending)
    OBVIOUS
  <2> QED BY <2>1
<1> QED BY <1>1, <1>2 DEF Logged, Promise!signalVars

\* The invariant is about these alone.
LEMMA ListsStay ==
  ASSUME ListInv, TableType', Pending' = Pending, UNCHANGED <<folders, view, uris, renames>>
  PROVE  ListInv' /\ Logged
<1> USE DEF renames
<1>1. Known' = Known
  BY DEF Known, Selectable
<1>2. \A v \in Views : Heeded(v) => Heeded(v)'
  BY <1>1 DEF Heeded
<1>3. \A w \in Views : Kept(w) => Kept(w)'
  BY <1>1 DEF Kept
<1>4. (\A s \in Stores : spoilt[s] \subseteq renamed[s])'
  BY DEF ListInv
<1>5. (\E v \in Views : Heeded(v))' /\ (\E w \in Views : Kept(w))'
  BY <1>2, <1>3 DEF ListInv
<1>6. ListInv'
  BY <1>4, <1>5 DEF ListInv
<1> QED BY <1>1, <1>6, NothingLogged

LEMMA OthersKeep ==
  ASSUME ListInv, UNCHANGED <<folders, updates, emitting, view, uris, renames>>
  PROVE  ListInv' /\ Logged
<1>1. Pending' = Pending
  BY DEF Pending
<1>2. TableType'
  BY DEF ListInv, TableType, renames
<1> QED BY <1>1, <1>2, ListsStay

LEMMA TakeKeeps ==
  ASSUME ListInv, Take
  PROVE  ListInv' /\ Logged
<1>1. /\ emitting = None /\ updates # <<>> /\ updates \in Seq(Updates)
      /\ emitting' = Head(updates) /\ updates' = Tail(updates)
      /\ UNCHANGED <<folders, view, uris, renames>>
  BY DEF Take, table, ListInv, TableType
<1>2. Head(updates) \in Updates /\ Tail(updates) \in Seq(Updates)
      /\ <<Head(updates)>> \o Tail(updates) = updates
  BY <1>1
<1>3. Pending = updates /\ Pending' = <<Head(updates)>> \o Tail(updates)
  <2>1. Head(updates) # None
    BY <1>2, FolderCacheAssumption
  <2> QED BY <1>1, <2>1 DEF Pending
<1>4. Pending' = Pending
  BY <1>2, <1>3
<1>5. TableType'
  BY <1>1, <1>2 DEF ListInv, TableType, renames
<1> QED BY <1>1, <1>4, <1>5, ListsStay

LEMMA EmitKeeps ==
  ASSUME ListInv, Emit
  PROVE  ListInv' /\ Logged
<1> DEFINE u == emitting
<1>1. /\ u # None /\ u \in Updates /\ updates \in Seq(Updates) /\ emitting' = None
      /\ UNCHANGED <<folders, updates, renames>> /\ view \in Views /\ uris \in Views
      /\ view' = Heard(view, u) /\ uris' = Recorded(uris, u)
  BY DEF Emit, table, queue, ListInv, TableType
<1>2. Pending = <<u>> \o updates /\ Pending' = updates
  BY <1>1 DEF Pending
<1>3. Pending \in Seq(Updates) /\ Pending # <<>> /\ Head(Pending) = u /\ Tail(Pending) = updates
  BY <1>1, <1>2
<1> HIDE DEF u
<1>4. view' = HearG[u][view] /\ uris' = RecordG[u][uris]
  BY <1>1 DEF HearG, RecordG
<1>5. TableType'
  BY <1>1, HeardIsView DEF ListInv, TableType, renames
<1>6. Known' = Known
  BY <1>1 DEF Known, Selectable
<1>7. (\E v \in Views : Heeded(v))'
  <2>1. PICK v \in Views : Heeded(v)
    BY DEF ListInv
  <2>2. Path(Views, HearG, AnyF, HearG[Head(Pending)][view], Tail(Pending), v)
    BY <1>3, <2>1, PathTail DEF Heeded
  <2>3. Path(Views, HearG, AnyF, view', Pending', v)
    BY <1>2, <1>3, <1>4, <2>2
  <2>4. Close(v, Known', spoilt', muted')
    BY <1>1, <1>6, <2>1 DEF Heeded, renames
  <2>5. Heeded(v)'
    BY <2>3, <2>4 DEF Heeded
  <2> QED BY <2>5
<1>8. (\E w \in Views : Kept(w))'
  <2>1. PICK w \in Views : Kept(w)
    BY DEF ListInv
  <2>2. Path(Views, RecordG, AnyF, RecordG[Head(Pending)][uris], Tail(Pending), w)
    BY <1>3, <2>1, PathTail DEF Kept
  <2>3. Path(Views, RecordG, AnyF, uris', Pending', w)
    BY <1>2, <1>3, <1>4, <2>2
  <2>4. Agree(w, Known', renamed')
    BY <1>1, <1>6, <2>1 DEF Kept, renames
  <2>5. Kept(w)'
    BY <2>3, <2>4 DEF Kept
  <2> QED BY <2>5
<1>9. ListInv'
  <2>1. (\A s \in Stores : spoilt[s] \subseteq renamed[s])'
    BY <1>1 DEF ListInv, renames
  <2> QED BY <1>5, <1>7, <1>8, <2>1 DEF ListInv
<1>10. Changes(Pending) = (IF u.kind = "count" THEN <<>> ELSE <<u>>) \o Changes(Pending')
  <2>1. <<u>> \in Seq(Updates)
    BY <1>1
  <2> QED BY <1>1, <1>2, <2>1, ChangesOfLonger, ChangesOfOne
<1>11. Changes(Pending') \in Seq(Updates)
  BY <1>1, <1>2, ChangesPath
<1>12. [s \in Stores |-> Selectable(s)]' = [s \in Stores |-> Selectable(s)]
       /\ renamed' = renamed
  BY <1>1, <1>6 DEF Known, renames
<1>13. CASE u.kind = "count"
  <2>1. Changes(Pending) = Changes(Pending')
    BY <1>10, <1>11, <1>13
  <2>2. view' = view
    <3>1. u.store \in Stores
      BY <1>1, UpdateKinds
    <3> QED BY <1>1, <1>13, <3>1 DEF Heard, Views
  <2>3. Changes(Pending)' = Changes(Pending)
    BY <2>1
  <2> QED BY <1>9, <1>12, <2>2, <2>3 DEF Logged, Promise!signalVars
<1>14. CASE u.kind # "count"
  <2> DEFINE d == Changes(Pending')
  <2>1. Changes(Pending) = <<u>> \o d /\ d \in Seq(Updates)
    BY <1>10, <1>11, <1>14
  <2>2. Changes(Pending)' = d
    OBVIOUS
  <2> HIDE DEF d
  <2>3. Changes(Pending) # <<>> /\ Head(Changes(Pending)) = u /\ Tail(Changes(Pending)) = d
    BY <1>1, <2>1
  <2>4. view' = Promise!After(view, u)
    BY <1>1, <1>14, AfterIsHeard
  <2>5. Promise!Tell
    BY <1>12, <2>2, <2>3, <2>4 DEF Promise!Tell
  <2> QED BY <1>9, <2>5 DEF Logged
<1> QED BY <1>13, <1>14

LEMMA FolderAppearsKeeps ==
  ASSUME ListInv, NEW s \in Stores, NEW fi \in FolderInfos, FolderAppears(s, fi)
  PROVE  ListInv' /\ Logged
<1>1. PICK open \in SUBSET {fi.name} : SetEntries(s, Setup(Entries(s), s, fi, open))
  BY DEF FolderAppears
<1>2. ASSUME NEW c, Begins(c)
      PROVE  Right(s, Setup(Entries(s), s, fi, open), c)
  <2>1. Right(s, Entries(s), c) /\ c \in Places
    BY <1>2, EntriesAreRight DEF ListInv, Begins
  <2> QED BY <2>1, SetupRight
<1>3. UNCHANGED <<view, uris, emitting, spoilt, muted, renamed>>
  BY DEF FolderAppears, flush, renames
<1> QED BY <1>1, <1>2, <1>3, EntriesSet

LEMMA FolderGoesKeeps ==
  ASSUME ListInv, NEW s \in Stores, NEW n \in Names, FolderGoes(s, n)
  PROVE  ListInv' /\ Logged
<1>1. ASSUME NEW c, Begins(c)
      PROVE  Right(s, Unset(Entries(s), s, n, "deleted"), c)
  <2>1. Right(s, Entries(s), c) /\ c \in Places
    BY <1>1, EntriesAreRight DEF ListInv, Begins
  <2> QED BY <2>1, UnsetRight
<1>2. /\ SetEntries(s, Unset(Entries(s), s, n, "deleted"))
      /\ UNCHANGED <<view, uris, emitting, spoilt, muted, renamed>>
  BY DEF FolderGoes, flush, renames
<1> QED BY <1>1, <1>2, EntriesSet

LEMMA ListedKeeps ==
  ASSUME ListInv, RequestInv, NEW r \in Requests, NEW infos \in Lists, Listed(r, infos)
  PROVE  ListInv' /\ Logged
<1>1. TableType /\ infos \in Seq(FolderInfos)
  BY FolderCacheAssumption DEF ListInv
<1>2. PICK s, open :
        /\ s \in Stores
        /\ SetEntries(s, EnterAll(s, infos, open)) \/ SetEntries(s, Entries(s))
  <2>1. request[r].store \in Stores
    BY DEF Listed, RequestInv, RequestType, Live
  <2>2. PICK open : SetEntries(request[r].store,
          IF request[r].store \in noted /\ ~request[r].cancelled
          THEN EnterAll(request[r].store, infos, open) ELSE Entries(request[r].store))
    BY DEF Listed
  <2> QED BY <2>1, <2>2
<1>3. UNCHANGED <<view, uris, emitting, spoilt, muted, renamed>>
  BY DEF Listed, flush, renames
<1>4. \A c : Begins(c) => Right(s, EnterAll(s, infos, open), c) /\ Right(s, Entries(s), c)
  BY <1>1, <1>2, EnterAllRight, EntriesAreRight
<1> QED BY <1>2, <1>3, <1>4, EntriesSet

\* mail_folder_cache_note_folder only has the counts told.
LEMMA NoteFolderKeeps ==
  ASSUME ListInv, NEW s \in Stores, NEW n \in Names, NoteFolder(s, n)
  PROVE  ListInv' /\ Logged
<1> DEFINE e == [f |-> folders[s], ups |-> <<Count(s)>>]
<1>1. TableType
  BY DEF ListInv
<1>2. e \in Entry /\ e.f = folders[s] /\ e.ups = Append(<<>>, Count(s))
  BY <1>1 DEF Entry, TableType, Updates
<1>3. UNCHANGED <<view, uris, emitting, spoilt, muted, renamed, folders>> /\ Push(e.ups)
  BY DEF NoteFolder, flush, renames
<1>4. SetEntries(s, e)
  <2>1. [folders EXCEPT ![s] = folders[s]] = folders
    BY <1>1 DEF TableType
  <2> QED BY <1>3, <2>1 DEF SetEntries
<1> HIDE DEF e
<1>5. ASSUME NEW c, Begins(c) PROVE Right(s, e, c)
  <2>1. Right(s, Entries(s), c) /\ c \in Places
    BY <1>1, <1>5, EntriesAreRight DEF Begins
  <2>2. Entries(s).f = e.f /\ Entries(s).ups = <<>>
    BY <1>2 DEF Entries
  <2>3. Table(s, e) = Table(s, Entries(s))
    BY <2>2 DEF Table
  <2> QED BY <1>2, <2>1, <2>2, <2>3, CountTold
<1> QED BY <1>3, <1>4, <1>5, EntriesSet

\* What is under a freed key is excepted, and free.
LEMMA LookUpSpoiltKeeps ==
  ASSUME ListInv, NEW s \in Stores, NEW n \in Names, LookUpSpoilt(s, n)
  PROVE  ListInv' /\ Logged
<1>1. PICK state \in States : folders' = [folders EXCEPT ![s][n] = state]
  BY DEF LookUpSpoilt
<1> DEFINE e == [f |-> [folders[s] EXCEPT ![n] = state], ups |-> <<>>]
<1>2. TableType /\ n \in spoilt[s] /\ spoilt[s] \subseteq renamed[s]
      /\ UNCHANGED <<view, uris, emitting, updates, spoilt, muted, renamed>>
      /\ \A x \in Stores : spoilt[x] \subseteq renamed[x]
  BY DEF LookUpSpoilt, flush, queue, renames, ListInv
<1>3. e.f = [folders[s] EXCEPT ![n] = state] /\ e.ups = <<>> /\ e \in Entry
  BY <1>2 DEF Entry, TableType
<1> HIDE DEF e
<1>4. folders' = [folders EXCEPT ![s] = e.f] /\ updates' = updates \o e.ups
  BY <1>1, <1>2, <1>3 DEF TableType
<1>5. /\ \A x \in Stores : x # s => Table(s, e)[x] = Known[x]
      /\ Table(s, e)[s] \ {n} = Known[s] \ {n}
  BY <1>2, <1>3 DEF Table, Known, Selectable, TableType
<1>6. ASSUME NEW c, Begins(c), c.renamed = renamed, c.muted = muted, c.spoilt = spoilt
      PROVE  Right(s, e, c)
  <2>1. Right(s, Entries(s), c)
    BY <1>2, <1>6, EntriesAreRight
  <2>2. Entries(s).ups = <<>> /\ Table(s, Entries(s)) = Known
    BY DEF Entries, Table, Known, Selectable
  <2>3. \A v \in Views : Agree(v, Known, renamed) => Agree(v, Table(s, e), renamed)
    BY <1>2, <1>5 DEF Agree
  <2>4. \A v \in Views : Close(v, Known, spoilt, muted) => Close(v, Table(s, e), spoilt, muted)
    BY <1>2, <1>5 DEF Close
  <2>5. LogTold(s, e, c.renamed)
    BY <1>3, <1>6, <2>1, <2>2, <2>3 DEF Right, Told, LogTold
  <2>6. HearTold(s, e, c)
    BY <1>3, <1>6, <2>1, <2>2, <2>4 DEF Right, Told, HearTold
  <2>7. RecordTold(s, e, c)
    BY <1>3, <1>6, <2>1, <2>2, <2>3 DEF Right, Told, RecordTold
  <2> QED BY <1>3, <2>5, <2>6, <2>7 DEF Right, Told
<1>7. \A c : Begins(c) /\ c.renamed = renamed' /\ c.muted = muted' /\ c.spoilt = spoilt
               => Right(s, e, c)
  BY <1>2, <1>6
<1> QED BY <1>2, <1>4, <1>7, SetEntriesKeeps DEF TableType

\* Every folder of a finite set is in its sequences.
LEMMA InSequence ==
  ASSUME NEW S, IsFiniteSet(S), NEW q \in SetToSeqs(S)
  PROVE  q \in Seq(S) /\ \A x \in S : \E i \in 1..Len(q) : x = q[i]
<1> DEFINE k == Cardinality(S)
<1>1. k \in Nat /\ IsFiniteSet(1..k) /\ Cardinality(1..k) = k
  <2>1. k \in Nat
    BY FS_CardinalityType
  <2> HIDE DEF k
  <2>2. IsFiniteSet(1..k) /\ Cardinality(1..k) = IF 1 > k THEN 0 ELSE k - 1 + 1
    BY <2>1, FS_Interval
  <2> QED BY <2>1, <2>2
<1>2. q \in [1..k -> S] /\ \A i, j \in 1..k : i # j => q[i] # q[j]
  BY DEF SetToSeqs
<1>3. k = Cardinality(S)
  OBVIOUS
<1> HIDE DEF k
<1>4. q \in Surjection(1..k, S)
  <2>1. q \in Injection(1..k, S)
    BY <1>2 DEF Injection, IsInjective
  <2> QED BY <1>1, <1>3, <2>1, FS_Injection
<1>5. q \in Seq(S) /\ Len(q) = k
  BY <1>1, <1>2
<1> QED BY <1>4, <1>5 DEF Surjection

\* A store that leaves takes its folders along, whatever their keys.
LEMMA ServiceRemovedKeeps ==
  ASSUME ListInv, NEW s \in Stores, ServiceRemoved(s)
  PROVE  ListInv' /\ Logged
<1> DEFINE T == {n \in Names : folders[s][n] # "none"}
<1>1. /\ TableType
      /\ \A x \in Stores : spoilt[x] \subseteq renamed[x]
  BY DEF ListInv
<1>2. PICK names \in SetToSeqs(T) : SetEntries(s, LeaveAll(s, names))
  BY DEF ServiceRemoved
<1>3. names \in Seq(T) /\ \A x \in T : \E i \in 1..Len(names) : x = names[i]
  <2>1. IsFiniteSet(T)
    BY FolderCacheAssumption, FS_Subset
  <2> HIDE DEF T
  <2> QED BY <2>1, InSequence
<1>4. names \in Seq(Names)
  BY <1>3
<1> DEFINE e == LeaveAll(s, names)
<1>5. /\ UNCHANGED <<view, uris, emitting, renamed>>
      /\ spoilt' = [spoilt EXCEPT ![s] = {}] /\ muted' = [muted EXCEPT ![s] = @ \cup spoilt[s]]
  BY DEF ServiceRemoved, flush
<1>6. folders' = [folders EXCEPT ![s] = e.f] /\ updates' = updates \o e.ups
  BY <1>2 DEF SetEntries, Push
<1>7. \A c : Begins(c) => Right(s, e, c)
  BY <1>1, <1>4, LeaveAllRight
<1>8. ASSUME NEW v \in Views, Close(v, Table(s, e), spoilt, muted')
      PROVE  Close(v, Table(s, e), spoilt', muted')
  <2>1. Table(s, e)[s] = {}
    <3>1. Begins([hear |-> Known, record |-> Known, renamed |-> Known, spoilt |-> Known, muted |-> Known])
      BY TableIsView DEF Begins, Places, Close, Agree
    <3>2. \A m \in Names : e.f[m] = "none"
      <4>1. \A m \in Names : (\E i \in 1..Len(names) : m = names[i]) \/ folders[s][m] = "none"
              => e.f[m] = "none"
        BY <1>1, <1>4, <3>1, LeaveAllRight
      <4> HIDE DEF e
      <4> QED BY <1>3, <4>1
    <3> HIDE DEF e
    <3> QED BY <3>2 DEF Table
  <2> HIDE DEF e
  <2>2. ASSUME NEW x \in Stores
        PROVE  /\ Table(s, e)[x] \ spoilt'[x] \subseteq v[x] \ spoilt'[x]
               /\ v[x] \ spoilt'[x] \subseteq Table(s, e)[x] \cup muted'[x]
    <3>1. CASE x = s
      <4>1. spoilt'[s] = {} /\ muted'[s] = muted[s] \cup spoilt[s]
        BY <1>1, <1>5 DEF TableType, Views
      <4> QED BY <1>8, <2>1, <3>1, <4>1 DEF Close
    <3>2. CASE x # s
      <4>1. spoilt'[x] = spoilt[x]
        BY <1>1, <1>5, <3>2 DEF TableType, Views
      <4> QED BY <1>8, <4>1 DEF Close
    <3> QED BY <3>1, <3>2
  <2> QED BY <2>2 DEF Close
<1>9. /\ renamed' \in Views /\ spoilt' \in Views /\ muted' \in Views
      /\ \A x \in Stores : /\ renamed[x] \subseteq renamed'[x] /\ muted[x] \subseteq muted'[x]
                           /\ spoilt'[x] \subseteq renamed'[x] /\ spoilt[x] \subseteq spoilt[x]
  BY <1>1, <1>5 DEF TableType, Views
<1>10. spoilt \in Views
  BY <1>1 DEF TableType
<1> HIDE DEF e
<1> QED BY <1>5, <1>6, <1>7, <1>8, <1>9, <1>10, SetEntriesKeeps

\* Whatever the store says of the folders, and whatever had the new names.
LEMMA FolderRenamedKeeps ==
  ASSUME ListInv, NEW s \in Stores, NEW pairs \in Renames, FolderRenamed(s, pairs)
  PROVE  ListInv' /\ Logged
<1>1. TableType /\ \A x \in Stores : spoilt[x] \subseteq renamed[x]
  BY DEF ListInv
<1>2. IsRenaming(pairs) /\ pairs \in Seq(Names \X Names) /\ Len(pairs) \in Nat
      /\ DOMAIN pairs = 1..Len(pairs)
  BY FolderCacheAssumption DEF IsRenaming
<1> DEFINE N == UNION {{p[1], p[2]} : p \in Range(pairs)}
           Lost(kept) == UNION {{pairs[i][1], pairs[i][2]} :
                                i \in {i \in DOMAIN pairs : kept[i] = "noselect"}}
           e(kept) == MoveAll(s, pairs, kept)
<1>3. PICK kept \in [DOMAIN pairs -> {"select", "noselect"}] :
        SetEntries(s, e(kept)) /\ muted' = [muted EXCEPT ![s] = @ \cup Lost(kept)]
  BY DEF FolderRenamed
<1>4. /\ UNCHANGED <<view, uris, emitting>>
      /\ renamed' = [renamed EXCEPT ![s] = @ \cup N]
      /\ spoilt' = [spoilt EXCEPT ![s] = @ \cup Occupied(s, pairs)]
  BY DEF FolderRenamed, flush
<1>5. \A i \in DOMAIN pairs : /\ pairs[i][1] \in N /\ pairs[i][2] \in N
                             /\ pairs[i][1] \in Names /\ pairs[i][2] \in Names
  BY <1>2 DEF Range
<1>6. N \subseteq Names /\ Occupied(s, pairs) \subseteq N /\ Lost(kept) \subseteq N
  <2>1. N \subseteq Names
    <3>1. ASSUME NEW p \in Range(pairs) PROVE p[1] \in Names /\ p[2] \in Names
      BY <1>2, <1>5, <3>1 DEF Range
    <3> QED BY <3>1
  <2>2. Occupied(s, pairs) \subseteq N
    <3> HIDE DEF N
    <3> QED BY <1>5 DEF Occupied
  <2>3. Lost(kept) \subseteq N
    <3> HIDE DEF N
    <3> QED BY <1>5
  <2> QED BY <2>1, <2>2, <2>3
<1>7. \A i \in DOMAIN pairs : kept[i] = "noselect" => {pairs[i][1], pairs[i][2]} \subseteq Lost(kept)
  OBVIOUS
<1> HIDE DEF N, Lost, e
<1>8. /\ renamed' \in Views /\ spoilt' \in Views /\ muted' \in Views
      /\ N \subseteq renamed'[s] /\ Lost(kept) \subseteq muted'[s]
      /\ \A x \in Stores : /\ renamed[x] \subseteq renamed'[x] /\ muted[x] \subseteq muted'[x]
                           /\ spoilt'[x] \subseteq renamed'[x] /\ spoilt[x] \subseteq spoilt'[x]
  <2>1. /\ renamed' \in Views /\ spoilt' \in Views /\ muted' \in Views
        /\ N \subseteq renamed'[s] /\ Lost(kept) \subseteq muted'[s]
    BY <1>1, <1>3, <1>4, <1>6 DEF TableType, Views
  <2>2. ASSUME NEW x \in Stores
        PROVE  /\ renamed[x] \subseteq renamed'[x] /\ muted[x] \subseteq muted'[x]
               /\ spoilt'[x] \subseteq renamed'[x] /\ spoilt[x] \subseteq spoilt'[x]
    BY <1>1, <1>3, <1>4, <1>6 DEF TableType, Views
  <2> QED BY <2>1, <2>2
<1>9. ASSUME NEW c, Begins(c), c.renamed = renamed', c.muted = muted'
      PROVE  Right(s, e(kept), c)
  <2>1. ASSUME NEW i \in 1..Len(pairs) PROVE Movable(s, Move(pairs, kept, i), c)
    <3>1. i \in DOMAIN pairs /\ pairs[i][1] # pairs[i][2] /\ kept[i] \in {"select", "noselect"}
      BY <1>2 DEF IsRenaming
    <3>2. {pairs[i][1], pairs[i][2]} \subseteq renamed'[s]
      BY <1>5, <1>8, <3>1
    <3>3. kept[i] = "noselect" => {pairs[i][1], pairs[i][2]} \subseteq muted'[s]
      BY <1>7, <1>8, <3>1
    <3> QED BY <1>9, <3>1, <3>2, <3>3 DEF Movable, Move
  <2> QED BY <1>1, <1>2, <1>9, <2>1, MoveAllRight DEF e
<1>10. folders' = [folders EXCEPT ![s] = e(kept).f] /\ updates' = updates \o e(kept).ups
  BY <1>3 DEF SetEntries, Push
<1>11. \A c : Begins(c) /\ c.renamed = renamed' /\ c.muted = muted' /\ c.spoilt = spoilt'
               => Right(s, e(kept), c)
  BY <1>9
<1> DEFINE d == e(kept)
<1> HIDE DEF d
<1>12. /\ folders' = [folders EXCEPT ![s] = d.f] /\ updates' = updates \o d.ups
       /\ \A c : Begins(c) /\ c.renamed = renamed' /\ c.muted = muted' /\ c.spoilt = spoilt'
               => Right(s, d, c)
  BY <1>10, <1>11 DEF d
<1> QED BY <1>4, <1>8, <1>12, SetEntriesKeeps

LEMMA ListStep ==
  ASSUME ListInv, RequestInv, [Next]_vars
  PROVE  ListInv' /\ Logged
<1> USE DEF flush, queue, table
<1>1. CASE \E s \in Stores : \E r \in Requests : NoteStore(s, r)
  BY <1>1, OthersKeep DEF NoteStore
<1>2. CASE \E r \in Requests : WentOnline(r) \/ Cancel(r)
  BY <1>2, OthersKeep DEF WentOnline, Cancel
<1>3. CASE \E r \in Requests : \E infos \in Lists : Listed(r, infos)
  BY <1>3, ListedKeeps
<1>4. CASE \E s \in Stores : ServiceRemoved(s)
  BY <1>4, ServiceRemovedKeeps
<1>5. CASE \E s \in Stores : \E fi \in FolderInfos : FolderAppears(s, fi)
  BY <1>5, FolderAppearsKeeps
<1>6. CASE \E s \in Stores : \E n \in Names : FolderGoes(s, n)
  BY <1>6, FolderGoesKeeps
<1>7. CASE \E s \in Stores : \E n \in Names : NoteFolder(s, n)
  BY <1>7, NoteFolderKeeps
<1>8. CASE \E s \in Stores : \E pairs \in Renames : FolderRenamed(s, pairs)
  BY <1>8, FolderRenamedKeeps
<1>9. CASE \E s \in Stores : \E n \in Names : LookUpSpoilt(s, n)
  BY <1>9, LookUpSpoiltKeeps
<1>10. CASE Flush \/ FlushEnd \/ UNCHANGED vars
  BY <1>10, OthersKeep DEF Flush, FlushEnd, vars
<1>11. CASE Take
  BY <1>11, TakeKeeps
<1>12. CASE Emit
  BY <1>12, EmitKeeps
<1> QED
  BY <1>1, <1>2, <1>3, <1>4, <1>5, <1>6, <1>7, <1>8, <1>9, <1>10, <1>11, <1>12 DEF Next

LEMMA ListInit ==
  ASSUME Init
  PROVE  ListInv
<1> DEFINE v == [s \in Stores |-> {}]
<1>1. TableType
  BY DEF Init, TableType, NoFolders, States, Views
<1>2. Pending = <<>>
  BY DEF Init, Pending
<1>3. view = v /\ uris = v /\ v \in Views
  BY DEF Init, Views
<1>4. Known = v
  BY DEF Init, Known, Selectable, NoFolders
<1> HIDE DEF v
<1>5. Heeded(v)
  BY <1>2, <1>3, <1>4, PathNone DEF Heeded, Close
<1>6. Kept(v)
  BY <1>2, <1>3, <1>4, PathNone DEF Kept, Agree
<1>7. \A s \in Stores : spoilt[s] \subseteq renamed[s]
  BY DEF Init
<1> QED BY <1>1, <1>3, <1>5, <1>6, <1>7 DEF ListInv

\* When what is pending has been told, everyone knows the table.
LEMMA ListInvConverges ==
  ASSUME ListInv
  PROVE  ListenersConverge /\ UrisConverge
<1>1. Pending \in Seq(Updates)
  BY PendingType DEF ListInv
<1>2. PICK v \in Views : Heeded(v)
  BY DEF ListInv
<1>3. HeardAll(view, Pending) = v
  BY <1>1, <1>2, HeardAllAlong DEF Heeded
<1>4. PICK w \in Views : Kept(w)
  BY DEF ListInv
<1>5. RecordedAll(uris, Pending) = w
  BY <1>1, <1>4, RecordedAllAlong DEF Kept
<1>6. ListenersConverge
  BY <1>2, <1>3 DEF ListenersConverge, Heeded, Close, Known
<1>7. UrisConverge
  BY <1>4, <1>5 DEF UrisConverge, Kept, Agree, Known
<1> QED BY <1>6, <1>7

LEMMA CacheInvariant == Spec => [](QueueInv /\ RequestInv /\ ListInv)
<1>1. Init => QueueInv /\ RequestInv /\ ListInv
  BY ListInit, QueueInit, RequestInit
<1> QED
  BY <1>1, QueueStep, RequestStep, ListStep, PTL DEF Spec

\* Every state of the cache is of its type, for any folders, lists and renames.
THEOREM TypeCorrect == Spec => []TypeOK
<1>1. QueueInv /\ RequestInv /\ ListInv => TypeOK
  <2> SUFFICES ASSUME QueueInv, RequestInv, ListInv PROVE TypeOK
    OBVIOUS
  <2>1. sources \in 0..1
    BY DEF QueueInv, QueueType
  <2> QED
    BY <2>1 DEF QueueInv, QueueType, RequestInv, RequestType, ListInv, TableType, Views, TypeOK
<1> QED
  BY <1>1, CacheInvariant, PTL

\* Whoever follows the signals ends with the table, but for names that renames
\* have muted or put under a freed key: for any stores and names, folder lists of
\* any length and any renames, whatever the table has under their names.
THEOREM SignalsConverge == Spec => []ListenersConverge
<1>1. ListInv => ListenersConverge
  BY ListInvConverges
<1> QED
  BY <1>1, CacheInvariant, PTL

\* So do the cache's own lists of uris, but for the names of a rename.
THEOREM UriListsConverge == Spec => []UrisConverge
<1>1. ListInv => UrisConverge
  BY ListInvConverges
<1> QED
  BY <1>1, CacheInvariant, PTL

LEMMA SignalsStart ==
  ASSUME Init
  PROVE  Promise!SignalsInit
<1>1. \A s \in Stores : Selectable(s) = {}
  BY DEF Init, Selectable, NoFolders
<1>2. Changes(Pending) = <<>>
  <2> DEFINE V == Seq(Updates)
             q == <<>>
  <2>1. q \in V /\ Pending = q
    BY DEF Init, Pending
  <2> HIDE DEF V
  <2>2. Path(V, ChangeG, ChangeF, q, q, q)
    BY <2>1, PathNone
  <2> QED BY <2>1, <2>2, ChangesAlong DEF V
<1> QED BY <1>1, <1>2 DEF Init, Promise!SignalsInit

\* The folder cache is an implementation of FolderSignals: what it emits is a
\* log of its table, whatever the store renames and whatever threads its signals
\* come from.
THEOREM CacheImplementsSignals == Spec => SignalsAreALog
<1>1. RequestInv /\ ListInv /\ [Next]_vars => [Promise!Change \/ Promise!Tell]_(Promise!signalVars)
  BY ListStep DEF Logged
<1> QED
  BY <1>1, CacheInvariant, SignalsStart, PTL DEF Spec, SignalsAreALog, Promise!SignalsSpec
=============================================================================
