--------------------------- MODULE VFolder_proofs ---------------------------
(***************************************************************************)
(* Proofs about the search folders: once signals and messages have been    *)
(* worked off, each searches the folders of the cache that its rule asks   *)
(* for, and no others, renames and failures apart.                         *)
(*                                                                         *)
(* SearchInv follows each pair of a search folder and a folder.  Announced *)
(* says that the last signal about the folder that waits, or else the list *)
(* of uris, tells whether it is in the table; Leads that, once no signal   *)
(* about it waits, the last message that concerns the pair, or else the    *)
(* one the worker executes, or else what is searched now, does.            *)
(***************************************************************************)
EXTENDS VFolder, FiniteSetTheorems, WellFoundedInduction, TLAPS

(* Induction over the natural numbers, from the well-foundedness of finite *)
(* sets: each set of numbers stands for what is claimed of its members.    *)

LEMMA LeastNat ==
  ASSUME NEW T \in SUBSET Nat, T # {}
  PROVE  \E x \in T : \A y \in T : x <= y
<1> DEFINE Q == {0..x : x \in T}
           R == StrictSubsetOrdering(Nat)
<1>1. Q \subseteq FiniteSubsetsOf(Nat) /\ Q # {}
  <2>1. \A x \in T : IsFiniteSet(0..x) /\ 0..x \in SUBSET Nat
    BY FS_Interval
  <2> QED BY <2>1 DEF FiniteSubsetsOf
<1>2. IsWellFoundedOn(R, FiniteSubsetsOf(Nat))
  BY FS_StrictSubsetOrderingWellFounded
<1> HIDE DEF R
<1>3. PICK q \in Q : \A p \in Q : ~(<<p, q>> \in R)
  <2> HIDE DEF Q
  <2> QED BY <1>1, <1>2, WFMin
<1>4. PICK x \in T : q = 0..x
  OBVIOUS
<1>5. ASSUME NEW y \in T, y < x PROVE FALSE
  <2>1. 0..y \in Q
    OBVIOUS
  <2>2. 0..y \subseteq 0..x /\ 0..y # 0..x /\ 0..x \in SUBSET Nat /\ 0..y \in SUBSET Nat
    <3>1. x \in 0..x /\ x \notin 0..y
      BY <1>5
    <3> QED BY <1>5, <3>1
  <2>3. <<0..y, 0..x>> \in R
    BY <2>2 DEF R, StrictSubsetOrdering
  <2> QED BY <1>3, <1>4, <2>1, <2>3
<1> QED BY <1>5

LEMMA NatSetInduction ==
  ASSUME NEW S, 0 \in S, \A n \in Nat : n \in S => n + 1 \in S
  PROVE  Nat \subseteq S
<1> SUFFICES ASSUME Nat \ S # {} PROVE FALSE
  OBVIOUS
<1>1. PICK x \in Nat \ S : \A y \in Nat \ S : x <= y
  BY LeastNat
<1>2. x - 1 \in Nat /\ x - 1 \in S
  BY <1>1
<1> QED BY <1>1, <1>2

LEMMA GrowAlike ==
  ASSUME NEW n \in Nat, NEW h, NEW L, h[0] = L[0],
         \A i \in 1..n : h[i - 1] = L[i - 1] => h[i] = L[i]
  PROVE  h[n] = L[n]
<1> DEFINE Good == {k \in Nat : k <= n => h[k] = L[k]}
<1>1. 0 \in Good
  OBVIOUS
<1>2. ASSUME NEW k \in Nat, k \in Good PROVE k + 1 \in Good
  <2> SUFFICES ASSUME k + 1 <= n PROVE h[k + 1] = L[k + 1]
    OBVIOUS
  <2>1. h[k] = L[k]
    BY <1>2
  <2>2. k + 1 \in 1..n /\ (k + 1) - 1 = k
    OBVIOUS
  <2> QED BY <2>1, <2>2
<1> HIDE DEF Good
<1>3. n \in Good
  BY <1>1, <1>2, NatSetInduction
<1> QED BY <1>3 DEF Good

-----------------------------------------------------------------------------
(* The signals that wait.                                                  *)

SignalTypes == [kind : {"available", "unavailable", "deleted", "renamed"},
                store : Stores, name : Names, old : Names]

Of(u) == <<u.store, u.name>>

Quiet(f) == \A i \in DOMAIN signals : Of(signals[i]) # f

LastSignal(i, f) ==
  Of(signals[i]) = f /\ \A j \in DOMAIN signals : j > i => Of(signals[j]) # f

\* What a folder is once all signals about it are heard, it is in the table.
Announced(f) ==
  /\ \A i \in DOMAIN signals :
       LastSignal(i, f) => (signals[i].kind = "available" <=> f \in Known)
  /\ Quiet(f) => (f \in uris <=> f \in Known)

SignalsOK ==
  /\ \A i \in DOMAIN signals :
       LET u == signals[i]
       IN  /\ u.kind = "deleted" => Of(u) \in But({"deleted"})
           /\ u.kind = "renamed" =>
                Of(u) \in But({"renamed"}) /\ <<u.store, u.old>> \in But({"renamed"})
  /\ \A f \in Folders \ But({"renamed"}) : Announced(f)

(* The messages.                                                           *)

Held(m) == m.folders \cup m.opened

\* The worker has nothing to do with a folder.
Unheld(f) ==
  /\ \A i \in DOMAIN messages : f \notin Held(messages[i])
  /\ running # None => f \notin Held(running)
  /\ \A r \in Rules : f \notin members[r]

UnheldFor(r, f) ==
  /\ \A i \in DOMAIN messages : r \in messages[i].rules => f \notin Held(messages[i])
  /\ running # None => (r \in running.rules => f \notin Held(running))
  /\ f \notin members[r]

\* A name that is not in use, and has never been, is known to nobody.
NamesOK ==
  /\ Known \subseteq exists
  /\ \A f \in Folders \ But({"renamed", "deleted"}) :
       f \notin exists => Quiet(f) /\ Unheld(f)

\* No search folder gets what its rule does not match.
MatchesOK ==
  \A r \in Rules, f \in Folders \ But({"renamed", "deleted"}) :
    ~Matches(r, f) => UnheldFor(r, f)

CutOK(m) == m.cancelled => Held(m) \subseteq But({"failed", "renamed"})

MessagesOK ==
  /\ \A i \in DOMAIN messages :
       LET m == messages[i]
       IN  /\ m.opened = {} /\ CutOK(m)
           /\ m.kind = "add" => \E f \in Folders : m.folders = {f}
  /\ running # None => CutOK(running)

\* A setup message comes before any other of its search folder.
SetupsOK ==
  /\ \A i \in DOMAIN messages :
       messages[i].kind = "setup" =>
         \A r \in messages[i].rules :
           /\ members[r] = {} /\ (running # None => r \notin running.rules)
           /\ \A j \in DOMAIN messages : j < i => r \notin messages[j].rules
  /\ running # None =>
       (running.kind = "setup" => \A r \in running.rules : members[r] = {})

Concerns(m, r, f) == r \in m.rules /\ (m.kind = "setup" \/ f \in Held(m))
Gives(m, f) == m.kind # "remove" /\ f \in Held(m)

LastMessage(i, r, f) ==
  /\ Concerns(messages[i], r, f)
  /\ \A j \in DOMAIN messages : j > i => ~Concerns(messages[j], r, f)

NoMessage(r, f) == \A i \in DOMAIN messages : ~Concerns(messages[i], r, f)

\* In the end search folder r will search f if and only if f is in the table.
Leads(r, f) ==
  /\ \A i \in DOMAIN messages :
       LastMessage(i, r, f) => (Gives(messages[i], f) <=> f \in Known)
  /\ NoMessage(r, f) /\ running # None =>
       (Concerns(running, r, f) => (Gives(running, f) <=> f \in Known))
  /\ NoMessage(r, f) /\ (running # None => ~Concerns(running, r, f)) =>
       (f \in members[r] <=> f \in Known)

Bound(r, f) ==
  /\ Quiet(f) /\ f \notin But({"failed", "renamed"})
  /\ IF f \in Known THEN f \in Asked(r) ELSE f \notin But({"deleted"})

LeadsOK == \A r \in rules \cap hashed, f \in Folders : Bound(r, f) => Leads(r, f)

Unstarted ==
  ~loaded => /\ messages = <<>> /\ running = None /\ hashed = {}
             /\ \A r \in Rules : members[r] = {}

Types ==
  /\ TypeOK /\ known \in [Stores -> SUBSET Names] /\ heard \in [Stores -> SUBSET Names]
  /\ signals \in Seq(SignalTypes)

SearchInv ==
  /\ Types /\ Unstarted /\ SignalsOK /\ NamesOK /\ MatchesOK
  /\ MessagesOK /\ SetupsOK /\ LeadsOK

-----------------------------------------------------------------------------
(* What is remembered.                                                     *)

LEMMA ExcusesStay ==
  ASSUME history \subseteq history', NEW e PROVE But(e) \subseteq But(e)'
BY DEF But

LEMMA Remembered ==
  ASSUME NEW what, NEW fs, Remember(what, fs)
  PROVE  /\ history \subseteq history'
         /\ \A e, f : what \in e /\ f \in fs => f \in But(e)'
<1>1. history' = history \cup (fs \X {what})
  BY DEF Remember
<1>2. ASSUME NEW e, NEW f, what \in e, f \in fs PROVE f \in But(e)'
  <2>1. <<f, what>> \in history' /\ <<f, what>>[1] = f /\ <<f, what>>[2] = what
    BY <1>1, <1>2
  <2> QED BY <1>2, <2>1 DEF But
<1> QED BY <1>1, <1>2

(* Changes of the table.                                                   *)

Tables == [Stores -> SUBSET Names]

\* The values that the fold of FolderSignals goes through.
Along(V, v, us, h, n) ==
  /\ n \in Nat /\ Len(us) = n /\ h \in [0..n -> V] /\ h[0] = v
  /\ \A i \in 1..n : h[i] = After(h[i - 1], us[i])

LEMMA AfterAllIs ==
  ASSUME NEW V, NEW v, NEW us, NEW h, NEW n, Along(V, v, us, h, n)
  PROVE  AfterAll(v, us) = h[n]
<1>0. n \in Nat /\ Len(us) = n /\ h \in [0..n -> V] /\ h[0] = v
      /\ \A i \in 1..n : h[i] = After(h[i - 1], us[i])
  BY DEF Along
<1> DEFINE Is(H) == H = [i \in 0..n |-> IF i = 0 THEN v ELSE After(H[i - 1], us[i])]
           L == CHOOSE H : Is(H)
<1>1. Is(h)
  <2>1. ASSUME NEW i \in 0..n PROVE h[i] = IF i = 0 THEN v ELSE After(h[i - 1], us[i])
    <3>1. CASE i = 0
      BY <1>0, <3>1
    <3>2. CASE i # 0
      <4>1. i \in 1..n
        BY <1>0, <3>2
      <4> QED BY <1>0, <3>2, <4>1
    <3> QED BY <3>1, <3>2
  <2> QED BY <1>0, <2>1
<1>2. AfterAll(v, us) = L[n]
  BY <1>0 DEF AfterAll, Is
<1> HIDE DEF Is
<1>3. Is(L)
  BY <1>1
<1> HIDE DEF L
<1>4. L[0] = v /\ \A i \in 1..n : L[i] = After(L[i - 1], us[i])
  BY <1>0, <1>3 DEF Is
<1>5. h[n] = L[n]
  <2>1. h[0] = L[0] /\ \A i \in 1..n : h[i - 1] = L[i - 1] => h[i] = L[i]
    BY <1>0, <1>4
  <2> QED BY <1>0, <2>1, GrowAlike
<1> QED BY <1>2, <1>5

LEMMA AfterOne ==
  ASSUME NEW v, NEW u PROVE AfterAll(v, <<u>>) = After(v, u)
<1> DEFINE h == [i \in 0..1 |-> IF i = 0 THEN v ELSE After(v, u)]
<1>1. Len(<<u>>) = 1 /\ <<u>>[1] = u
  OBVIOUS
<1>2. h[0] = v /\ h[1] = After(v, u) /\ h \in [0..1 -> {v, After(v, u)}] /\ 1 \in Nat
  OBVIOUS
<1>3. \A i \in 1..1 : h[i] = After(h[i - 1], <<u>>[i])
  <2>1. \A i \in 1..1 : i = 1 /\ i - 1 = 0
    OBVIOUS
  <2> HIDE DEF h
  <2> QED BY <1>1, <1>2, <2>1
<1> HIDE DEF h
<1> DEFINE V == {v, After(v, u)}
           us == <<u>>
<1>4. Along(V, v, us, h, 1)
  BY <1>1, <1>2, <1>3 DEF Along
<1> HIDE DEF V, us
<1>5. AfterAll(v, us) = h[1]
  BY ONLY <1>4, AfterAllIs
<1> QED BY <1>2, <1>5 DEF us

Withdrawal(s, names) == [i \in DOMAIN names |-> Signal("unavailable", s, names[i], names[i])]

\* Once all folders of a store are unavailable the others are left.
LEMMA AfterWithdrawal ==
  ASSUME NEW v \in Tables, NEW s \in Stores, NEW n \in Nat,
         NEW names \in [1..n -> v[s]], \A x \in v[s] : \E i \in 1..n : names[i] = x
  PROVE  AfterAll(v, Withdrawal(s, names)) = [v EXCEPT ![s] = {}]
<1> DEFINE us == Withdrawal(s, names)
           left(i) == v[s] \ {names[j] : j \in 1..i}
           h == [i \in 0..n |-> [v EXCEPT ![s] = left(i)]]
<1>1. DOMAIN us = 1..n /\ Len(us) = n
  BY DEF Withdrawal
<1>2. ASSUME NEW i \in 1..n PROVE us[i].kind = "unavailable" /\ us[i].store = s /\ us[i].name = names[i]
  BY <1>1 DEF Withdrawal, Signal
<1>3. h[0] = v
  <2>1. left(0) = v[s]
    OBVIOUS
  <2>2. [v EXCEPT ![s] = v[s]] = v
    BY DEF Tables
  <2>3. h[0] = [v EXCEPT ![s] = left(0)]
    OBVIOUS
  <2> QED BY <2>1, <2>2, <2>3
<1>4. h[n] = [v EXCEPT ![s] = {}]
  <2>1. left(n) = {}
    OBVIOUS
  <2>2. n \in 0..n
    OBVIOUS
  <2> QED BY <2>1, <2>2
<1>5. ASSUME NEW i \in 1..n PROVE h[i] = After(h[i - 1], us[i])
  <2>1. i \in 0..n /\ i - 1 \in 0..n
    OBVIOUS
  <2>2. left(i) = left(i - 1) \ {names[i]}
    <3>1. \A j : j \in 1..i <=> j \in 1..i - 1 \/ j = i
      OBVIOUS
    <3> QED BY <3>1
  <2>3. h[i - 1] = [v EXCEPT ![s] = left(i - 1)] /\ h[i] = [v EXCEPT ![s] = left(i)]
    BY <2>1
  <2> HIDE DEF h, left, us
  <2>4. After(h[i - 1], us[i]) = [h[i - 1] EXCEPT ![s] = @ \ {names[i]}]
    BY <1>2 DEF After
  <2>5. h[i - 1][s] = left(i - 1)
    BY <2>3 DEF Tables
  <2>6. [h[i - 1] EXCEPT ![s] = left(i)] = [v EXCEPT ![s] = left(i)]
    BY <2>3 DEF Tables
  <2> QED BY <2>2, <2>3, <2>4, <2>5, <2>6
<1>6. h \in [0..n -> Tables]
  BY DEF Tables
<1> HIDE DEF h, us
<1>7. AfterAll(v, us) = h[n]
  <2>1. Along(Tables, v, us, h, n)
    BY <1>1, <1>3, <1>5, <1>6 DEF Along
  <2> QED BY ONLY <2>1, AfterAllIs
<1> QED BY <1>4, <1>7 DEF us

-----------------------------------------------------------------------------
(* A step of a store: signals us are recorded.                             *)

NewSignals(us) ==
  /\ us \in Seq(SignalTypes) /\ signals' = signals \o us
  /\ known' \in Tables /\ UNCHANGED <<heard, uris>>
  /\ \A i \in DOMAIN us :
       /\ us[i].kind = "deleted" => Of(us[i]) \in But({"deleted"})'
       /\ us[i].kind = "renamed" =>
            /\ Of(us[i]) \in But({"renamed"})'
            /\ <<us[i].store, us[i].old>> \in But({"renamed"})'
  /\ \A f \in Folders \ But({"renamed"})' :
       /\ \A i \in DOMAIN us : Of(us[i]) = f => (us[i].kind = "available" <=> f \in Known')
       /\ (\A i \in DOMAIN us : Of(us[i]) # f) => (f \in Known' <=> f \in Known)

LEMMA NewSignalsOK ==
  ASSUME Types, SignalsOK, NEW us, NewSignals(us), history \subseteq history'
  PROVE  /\ SignalsOK' /\ signals' \in Seq(SignalTypes)
         /\ \A f \in Folders \ But({"renamed"})' :
              Quiet(f)' => Quiet(f) /\ (f \in Known' <=> f \in Known)
         /\ \A f : Quiet(f) /\ (\A i \in DOMAIN us : Of(us[i]) # f) => Quiet(f)'
<1> DEFINE m == Len(signals)
           n == Len(us)
<1>1. /\ m \in Nat /\ n \in Nat /\ DOMAIN signals = 1..m /\ DOMAIN us = 1..n
      /\ signals \in Seq(SignalTypes) /\ us \in Seq(SignalTypes)
  BY DEF Types, NewSignals
<1>2. /\ signals' \in Seq(SignalTypes) /\ DOMAIN signals' = 1..m + n
      /\ \A i \in 1..m : signals'[i] = signals[i]
      /\ \A i \in 1..n : signals'[m + i] = us[i]
  <2>1. signals' = signals \o us
    BY DEF NewSignals
  <2> QED BY <1>1, <2>1
<1> HIDE DEF m, n
<1>3. \A i \in 1..m : i \in 1..m + n
  BY <1>1
<1>4. \A i \in 1..n : m + i \in 1..m + n /\ \A j \in 1..m : j < m + i
  BY <1>1
<1>5. ASSUME NEW i \in 1..m + n PROVE i \in 1..m \/ \E k \in 1..n : i = m + k
  <2>1. CASE i > m
    <3>1. i - m \in 1..n /\ i = m + (i - m)
      BY <1>1, <2>1
    <3> QED BY <3>1
  <2> QED BY <1>1, <2>1
<1>6. \A i, j \in 1..n : m + i > m + j <=> i > j
  BY <1>1
<1>7. \A e : But(e) \subseteq But(e)'
  BY ExcusesStay
<1>8. ASSUME NEW f, Quiet(f)' PROVE Quiet(f) /\ \A i \in 1..n : Of(us[i]) # f
  <2>1. \A i \in 1..m + n : Of(signals'[i]) # f
    BY <1>2, <1>8 DEF Quiet, Of
  <2>2. \A i \in 1..m : Of(signals[i]) # f
    BY <1>2, <1>3, <2>1
  <2>3. \A i \in 1..n : Of(us[i]) # f
    BY <1>2, <1>4, <2>1
  <2> QED BY <1>1, <2>2, <2>3 DEF Quiet
<1>9. ASSUME NEW f, Quiet(f), \A i \in 1..n : Of(us[i]) # f PROVE Quiet(f)'
  <2>0. \A i \in 1..m : Of(signals[i]) # f
    BY <1>1, <1>9 DEF Quiet
  <2>1. \A i \in 1..m + n : Of(signals'[i]) # f
    BY <1>2, <1>5, <1>9, <2>0
  <2>2. \A i \in DOMAIN signals' : <<signals'[i].store, signals'[i].name>> # f
    BY <1>2, <2>1 DEF Of
  <2> QED BY ONLY <2>2 DEF Quiet, Of
<1>10. ASSUME NEW f \in Folders \ But({"renamed"})', Quiet(f)' PROVE f \in Known' <=> f \in Known
  BY <1>1, <1>8, <1>10 DEF NewSignals
<1>11. ASSUME NEW i \in 1..m + n
       PROVE  LET u == signals'[i]
              IN  /\ u.kind = "deleted" => Of(u) \in But({"deleted"})'
                  /\ u.kind = "renamed" =>
                       Of(u) \in But({"renamed"})' /\ <<u.store, u.old>> \in But({"renamed"})'
  <2>1. CASE i \in 1..m
    BY <1>1, <1>2, <1>7, <2>1 DEF SignalsOK
  <2>2. ASSUME NEW k \in 1..n, i = m + k
        PROVE  LET u == us[k]
               IN  /\ signals'[i] = u
                   /\ u.kind = "deleted" => Of(u) \in But({"deleted"})'
                   /\ u.kind = "renamed" =>
                        Of(u) \in But({"renamed"})' /\ <<u.store, u.old>> \in But({"renamed"})'
    BY <1>1, <1>2, <2>2 DEF NewSignals
  <2> QED BY <1>5, <2>1, <2>2
<1>12. ASSUME NEW f \in Folders \ But({"renamed"})' PROVE Announced(f)'
  <2>0. f \in Folders \ But({"renamed"}) /\ Announced(f)
    BY <1>7 DEF SignalsOK
  <2>1. ASSUME NEW i \in 1..m + n, Of(signals'[i]) = f,
               \A j \in 1..m + n : j > i => Of(signals'[j]) # f
        PROVE  signals'[i].kind = "available" <=> f \in Known'
    <3>1. ASSUME NEW k \in 1..n, i = m + k PROVE signals'[i].kind = "available" <=> f \in Known'
      <4>1. signals'[i] = us[k] /\ k \in DOMAIN us
        BY <1>1, <1>2, <3>1
      <4> QED BY <2>1, <4>1 DEF NewSignals
    <3>2. CASE i \in 1..m
      <4>1. \A j \in 1..n : Of(us[j]) # f
        BY <1>2, <1>4, <2>1, <3>2
      <4>2. f \in Known' <=> f \in Known
        BY <1>1, <4>1 DEF NewSignals
      <4>3. LastSignal(i, f)
        BY <1>1, <1>2, <1>3, <2>1, <3>2 DEF LastSignal
      <4> QED BY <1>1, <1>2, <2>0, <3>2, <4>2, <4>3 DEF Announced
    <3> QED BY <1>5, <3>1, <3>2
  <2>2. \A i \in DOMAIN signals' :
          LastSignal(i, f)' => (signals'[i].kind = "available" <=> f \in Known')
    BY <1>2, <2>1 DEF LastSignal, Of
  <2>3. Quiet(f)' => (f \in uris' <=> f \in Known')
    BY <1>8, <1>10, <2>0 DEF Announced, NewSignals
  <2> QED BY <2>2, <2>3 DEF Announced
<1>13. SignalsOK'
  BY <1>2, <1>11, <1>12 DEF SignalsOK, Of
<1> QED BY <1>1, <1>2, <1>8, <1>9, <1>10, <1>13

LEMMA MoreExcuses == \A d, e : d \subseteq e => But(d) \subseteq But(e) /\ But(d)' \subseteq But(e)'
BY DEF But

LEMMA MessageFields ==
  ASSUME NEW m \in Messages
  PROVE  /\ m.kind \in {"setup", "add", "remove"} /\ m.rules \subseteq Rules
         /\ m.folders \subseteq Folders /\ m.opened \subseteq Folders
         /\ m.cancelled \in BOOLEAN
BY DEF Messages

LEMMA MessageOf ==
  ASSUME Types
  PROVE  /\ \A i \in DOMAIN messages : messages[i] \in Messages
         /\ running # None <=> running \in Messages
BY VFolderAssumption DEF Types, TypeOK

\* Folders G are renamed or deleted, and whoever holds their objects follows.
Rekeyed(G) ==
  /\ UNCHANGED <<messages, loaded, rules, hashed, sources>>
  /\ running = None => running' = None
  /\ running # None =>
       /\ running' \in Messages
       /\ running'.kind = running.kind /\ running'.rules = running.rules
       /\ running'.folders = running.folders /\ running'.cancelled = running.cancelled
       /\ \A f \in Folders \ G : f \in running'.opened <=> f \in running.opened
       /\ running'.opened \cap G \subseteq But({"renamed"})'
  /\ members' \in [Rules -> SUBSET Folders]
  /\ \A r \in Rules :
       /\ members[r] = {} => members'[r] = {}
       /\ \A f \in Folders \ G : f \in members'[r] <=> f \in members[r]
  /\ \A f \in G : f \in But({"renamed"})' \/ (f \in But({"deleted"})' /\ f \notin Known')

LEMMA StoreStepOK ==
  ASSUME SearchInv, NEW us, NewSignals(us), NEW G \in SUBSET Folders, Rekeyed(G),
         history \subseteq history', history' \subseteq Folders \X Excuses,
         Known' \subseteq exists', exists' \subseteq Folders, exists \ G \subseteq exists',
         \A i \in DOMAIN us : Of(us[i]) \in exists' \cup But({"renamed", "deleted"})'
  PROVE  SearchInv'
<1> DEFINE RD == {"renamed", "deleted"}
           FR == {"failed", "renamed"}
<1>1. /\ SignalsOK' /\ signals' \in Seq(SignalTypes)
      /\ \A f \in Folders \ But({"renamed"})' :
           Quiet(f)' => Quiet(f) /\ (f \in Known' <=> f \in Known)
      /\ \A f : Quiet(f) /\ (\A i \in DOMAIN us : Of(us[i]) # f) => Quiet(f)'
  BY NewSignalsOK DEF SearchInv
<1>2. /\ But(RD) \subseteq But(RD)' /\ But(FR) \subseteq But(FR)' /\ But({"deleted"}) \subseteq But({"deleted"})'
      /\ But({"renamed"})' \subseteq But(RD)' /\ But({"renamed"})' \subseteq But(FR)'
      /\ But({"deleted"})' \subseteq But(RD)'
  BY ExcusesStay, MoreExcuses
<1> HIDE DEF RD, FR
<1>3. /\ UNCHANGED <<messages, loaded, rules, hashed, sources>>
      /\ messages \in Seq(Messages) /\ None \notin Messages
      /\ running \in {None} \cup Messages /\ running' \in {None} \cup Messages
      /\ running # None <=> running' # None
      /\ known' \in Tables /\ UNCHANGED <<heard, uris>>
  BY VFolderAssumption DEF Rekeyed, SearchInv, Types, TypeOK, NewSignals
<1>4. Types'
  BY <1>1, <1>3 DEF SearchInv, Types, TypeOK, Rekeyed, Tables
<1>5. Unstarted'
  BY <1>3 DEF SearchInv, Unstarted, Rekeyed
<1>6. ASSUME NEW f \in Folders \ But(RD)' PROVE f \notin G
  BY <1>2, <1>6 DEF Rekeyed
<1>7. NamesOK'
  <2>1. ASSUME NEW f \in Folders \ But(RD)', f \notin exists' PROVE Quiet(f)' /\ Unheld(f)'
    <3>1. f \notin exists /\ f \notin But(RD) /\ f \notin G
      BY <1>2, <1>6, <2>1
    <3>2. Quiet(f) /\ Unheld(f)
      BY <3>1 DEF SearchInv, NamesOK, RD
    <3>3. \A i \in DOMAIN us : Of(us[i]) # f
      BY <2>1 DEF RD
    <3>4. running' # None => f \notin Held(running')
      BY <1>3, <3>1, <3>2 DEF Unheld, Held, Rekeyed
    <3> QED BY <1>1, <1>3, <3>1, <3>2, <3>3, <3>4 DEF Unheld, Held, Rekeyed
  <2> QED BY <2>1 DEF NamesOK, RD
<1>8. MatchesOK'
  <2>1. ASSUME NEW r \in Rules, NEW f \in Folders \ But(RD)', ~Matches(r, f)' PROVE UnheldFor(r, f)'
    <3>1. f \notin But(RD) /\ f \notin G /\ ~Matches(r, f)
      BY <1>2, <1>3, <1>6, <2>1 DEF Matches, OfKind
    <3>2. UnheldFor(r, f)
      BY <3>1 DEF SearchInv, MatchesOK, RD
    <3>3. running' # None => (r \in running'.rules => f \notin Held(running'))
      BY <1>3, <3>1, <3>2 DEF UnheldFor, Held, Rekeyed
    <3> QED BY <1>3, <3>1, <3>2, <3>3 DEF UnheldFor, Held, Rekeyed
  <2> QED BY <2>1 DEF MatchesOK, RD
<1>9. MessagesOK'
  <2>1. \A i \in DOMAIN messages : CutOK(messages[i]) => CutOK(messages[i])'
    BY <1>2, <1>3 DEF CutOK, Held, FR
  <2>2. running' # None => CutOK(running)'
    <3> SUFFICES ASSUME running # None, running'.cancelled PROVE Held(running') \subseteq But(FR)'
      BY <1>3 DEF CutOK, Held, FR
    <3>1. Held(running) \subseteq But(FR)
      BY DEF SearchInv, MessagesOK, CutOK, Rekeyed, FR
    <3>2. running'.folders = running.folders /\ running' \in Messages
      BY DEF Rekeyed
    <3>3. \A f \in running'.opened : f \in Folders
      BY <3>2 DEF Messages
    <3>4. \A f \in running'.opened : f \in running.opened \/ f \in But({"renamed"})'
      BY <3>3 DEF Rekeyed
    <3> QED BY <1>2, <3>1, <3>2, <3>4 DEF Held
  <2> QED BY <1>3, <2>1, <2>2 DEF SearchInv, MessagesOK
<1>10. SetupsOK'
  <2>1. /\ \A i \in DOMAIN messages : messages[i].rules \subseteq Rules
        /\ running # None => running.rules \subseteq Rules
    BY MessageFields, MessageOf DEF SearchInv
  <2>2. \A r \in Rules : members[r] = {} => members'[r] = {}
    BY DEF Rekeyed
  <2>3. running # None => running'.kind = running.kind /\ running'.rules = running.rules
    BY DEF Rekeyed
  <2>4. SetupsOK
    BY DEF SearchInv
  <2> QED BY <1>3, <2>1, <2>2, <2>3, <2>4 DEF SetupsOK
<1>11. LeadsOK'
  <2> SUFFICES ASSUME NEW r \in rules \cap hashed, NEW f \in Folders, Bound(r, f)'
               PROVE  Leads(r, f)'
    BY <1>3 DEF LeadsOK
  <2>1. f \notin But(FR)' /\ Quiet(f)' /\ (f \notin Known' => f \notin But({"deleted"})')
    BY DEF Bound, FR
  <2>2. f \notin G
    BY <1>2, <2>1 DEF Rekeyed
  <2>3. Quiet(f) /\ (f \in Known' <=> f \in Known)
    BY <1>1, <1>2, <2>1
  <2>4. Bound(r, f)
    BY <1>2, <1>3, <2>1, <2>3 DEF Bound, Asked, OfKind, FR
  <2>5. Leads(r, f) /\ r \in Rules
    BY <2>4 DEF SearchInv, LeadsOK, Types, TypeOK
  <2>6. \A i \in DOMAIN messages : LastMessage(i, r, f)' <=> LastMessage(i, r, f)
    BY <1>3 DEF LastMessage, Concerns, Held
  <2>7. NoMessage(r, f)' <=> NoMessage(r, f)
    BY <1>3 DEF NoMessage, Concerns, Held
  <2>8. running' # None =>
          /\ Concerns(running', r, f) <=> Concerns(running, r, f)
          /\ Gives(running', f) <=> Gives(running, f)
    BY <1>3, <2>2 DEF Concerns, Gives, Held, Rekeyed
  <2>9. f \in members'[r] <=> f \in members[r]
    BY <2>2, <2>5 DEF Rekeyed
  <2> QED BY <1>3, <2>3, <2>5, <2>6, <2>7, <2>8, <2>9 DEF Leads, Gives, Concerns, Held
<1> QED BY <1>1, <1>4, <1>5, <1>7, <1>8, <1>9, <1>10, <1>11 DEF SearchInv

LEMMA RekeyIs ==
  ASSUME Types, NEW new \in [Folders -> Folders \cup {None}], Rekey(new),
         UNCHANGED <<messages, loaded, rules, hashed, sources>>,
         NEW G \in SUBSET Folders, \A f \in Folders \ G : new[f] = f,
         \A f \in G : new[f] # None => new[f] \in G /\ new[f] \in But({"renamed"})',
         \A f \in G : f \in But({"renamed"})' \/ (f \in But({"deleted"})' /\ f \notin Known')
  PROVE  Rekeyed(G)
<1> DEFINE Image(S) == {new[f] : f \in S} \ {None}
<1>1. None \notin Folders
  BY VFolderAssumption
<1>2. ASSUME NEW S \in SUBSET Folders
      PROVE  /\ Image(S) \subseteq Folders /\ (S = {} => Image(S) = {})
             /\ \A f \in Folders \ G : f \in Image(S) <=> f \in S
             /\ Image(S) \cap G \subseteq But({"renamed"})'
  <2>1. ASSUME NEW f \in Folders \ G PROVE f \in Image(S) <=> f \in S
    BY <1>1, <2>1
  <2>2. ASSUME NEW f \in Image(S), f \in G PROVE f \in But({"renamed"})'
    <3>1. PICK g \in S : f = new[g] /\ f # None
      OBVIOUS
    <3>2. g \in G
      BY <2>2, <3>1
    <3> QED BY <3>1, <3>2
  <2> QED BY <2>1, <2>2
<1>3. members' = [r \in Rules |-> Image(members[r])]
  BY DEF Rekey
<1>4. running # None => running' = [running EXCEPT !.opened = Image(running.opened)]
  BY DEF Rekey
<1>5. running = None => running' = None
  BY DEF Rekey
<1> HIDE DEF Image
<1>6. \A r \in Rules : members[r] \in SUBSET Folders
  BY DEF Types, TypeOK
<1>7. running # None =>
       /\ running' \in Messages
       /\ running'.kind = running.kind /\ running'.rules = running.rules
       /\ running'.folders = running.folders /\ running'.cancelled = running.cancelled
       /\ \A f \in Folders \ G : f \in running'.opened <=> f \in running.opened
       /\ running'.opened \cap G \subseteq But({"renamed"})'
  <2> SUFFICES ASSUME running # None
               PROVE  /\ running' \in Messages
                      /\ running'.kind = running.kind /\ running'.rules = running.rules
                      /\ running'.folders = running.folders
                      /\ running'.cancelled = running.cancelled
                      /\ \A f \in Folders \ G : f \in running'.opened <=> f \in running.opened
                      /\ running'.opened \cap G \subseteq But({"renamed"})'
    OBVIOUS
  <2>1. running \in Messages /\ running.opened \in SUBSET Folders
    BY MessageOf, MessageFields
  <2>2. Image(running.opened) \in SUBSET Folders
    BY <1>2, <2>1
  <2>3. running' = [running EXCEPT !.opened = Image(running.opened)]
    BY <1>4
  <2>4. /\ running' \in Messages /\ running'.opened = Image(running.opened)
        /\ running'.kind = running.kind /\ running'.rules = running.rules
        /\ running'.folders = running.folders
        /\ running'.cancelled = running.cancelled
    BY <2>1, <2>2, <2>3 DEF Messages
  <2> QED BY <1>2, <2>1, <2>4
<1>8. /\ members' \in [Rules -> SUBSET Folders]
      /\ \A r \in Rules :
           /\ members[r] = {} => members'[r] = {}
           /\ \A f \in Folders \ G : f \in members'[r] <=> f \in members[r]
  BY <1>2, <1>3, <1>6
<1> QED BY <1>5, <1>7, <1>8 DEF Rekeyed

\* Nobody's folder has changed its name.
LEMMA NoRekey ==
  ASSUME Types, UNCHANGED <<messages, running, members, loaded, rules, hashed, sources>>
  PROVE  Rekeyed({})
BY MessageOf DEF Types, TypeOK, Rekeyed

LEMMA OneSignal ==
  ASSUME Types, NEW kind \in {"available", "unavailable", "deleted", "renamed"},
         NEW s \in Stores, NEW n \in Names, NEW old \in Names,
         Changes(<<Signal(kind, s, n, old)>>)
  PROVE  /\ <<Signal(kind, s, n, old)>> \in Seq(SignalTypes)
         /\ signals' = signals \o <<Signal(kind, s, n, old)>>
         /\ known' \in Tables /\ heard' = heard
         /\ DOMAIN <<Signal(kind, s, n, old)>> = {1}
         /\ LET u == <<Signal(kind, s, n, old)>>[1]
            IN  u.kind = kind /\ u.store = s /\ u.name = n /\ u.old = old /\ Of(u) = <<s, n>>
         /\ Known' = CASE kind = "available" -> Known \cup {<<s, n>>}
                       [] kind \in {"unavailable", "deleted"} -> Known \ {<<s, n>>}
                       [] kind = "renamed" -> (Known \ {<<s, old>>}) \cup {<<s, n>>}
<1> DEFINE u == Signal(kind, s, n, old)
<1>1. /\ u \in SignalTypes /\ u.kind = kind /\ u.store = s /\ u.name = n /\ u.old = old
      /\ Of(u) = <<s, n>>
  BY DEF Signal, SignalTypes, Of
<1> HIDE DEF u
<1>2. <<u>> \in Seq(SignalTypes) /\ DOMAIN <<u>> = {1} /\ <<u>>[1] = u
  BY <1>1
<1>3. signals' = signals \o <<u>> /\ known' = AfterAll(known, <<u>>) /\ heard' = heard
  BY DEF Changes, Tells, Record, u
<1>4. known' = After(known, u)
  BY <1>3, AfterOne
<1>5. known \in Tables
  BY DEF Types, Tables
<1>6. known' = [known EXCEPT ![s] =
                 CASE kind = "available" -> @ \cup {n}
                   [] kind \in {"unavailable", "deleted"} -> @ \ {n}
                   [] kind = "renamed" -> (@ \ {old}) \cup {n}]
  BY <1>1, <1>4 DEF After
<1>7. known' \in Tables
  BY <1>5, <1>6 DEF Tables
<1>8. ASSUME NEW x \in Stores, NEW m \in Names
      PROVE  m \in known'[x] <=>
               IF x # s THEN m \in known[x]
               ELSE CASE kind = "available" -> m \in known[x] \/ m = n
                      [] kind \in {"unavailable", "deleted"} -> m \in known[x] /\ m # n
                      [] kind = "renamed" -> (m \in known[x] /\ m # old) \/ m = n
  BY <1>5, <1>6 DEF Tables
<1>9. Known' = CASE kind = "available" -> Known \cup {<<s, n>>}
                 [] kind \in {"unavailable", "deleted"} -> Known \ {<<s, n>>}
                 [] kind = "renamed" -> (Known \ {<<s, old>>}) \cup {<<s, n>>}
  <2>1. CASE kind = "available"
    BY <1>8, <2>1 DEF Known, Folders
  <2>2. CASE kind \in {"unavailable", "deleted"}
    <3>1. \A x \in Stores, m \in Names :
            m \in known'[x] <=> m \in known[x] /\ ~(x = s /\ m = n)
      BY <1>8, <2>2
    <3>2. Known' = Known \ {<<s, n>>}
      BY <3>1 DEF Known, Folders
    <3> QED BY <2>2, <3>2
  <2>3. CASE kind = "renamed"
    BY <1>8, <2>3 DEF Known, Folders
  <2> QED BY <2>1, <2>2, <2>3
<1> QED BY <1>1, <1>2, <1>3, <1>7, <1>9 DEF u

LEMMA AppearsOK ==
  ASSUME SearchInv, NEW s \in Stores, NEW n \in Names, Appears(s, n)
  PROVE  SearchInv'
<1> DEFINE us == <<Signal("available", s, n, n)>>
<1>0. Types /\ Known \subseteq exists /\ exists \subseteq Folders /\ history \subseteq Folders \X Excuses
  BY DEF SearchInv, Types, TypeOK, NamesOK
<1>1. /\ us \in Seq(SignalTypes) /\ signals' = signals \o us /\ known' \in Tables /\ heard' = heard
      /\ DOMAIN us = {1} /\ us[1].kind = "available" /\ Of(us[1]) = <<s, n>>
      /\ Known' = Known \cup {<<s, n>>}
  BY <1>0, OneSignal DEF Appears
<1> HIDE DEF us
<1>2. /\ exists' = exists \cup {<<s, n>>} /\ history' = history /\ uris' = uris
      /\ <<s, n>> \in Folders
  BY DEF Appears, Folders
<1>3. NewSignals(us)
  BY <1>1, <1>2 DEF NewSignals
<1>4. Rekeyed({})
  BY <1>0, NoRekey DEF Appears, ruleVars, workVars
<1> QED BY <1>0, <1>1, <1>2, <1>3, <1>4, StoreStepOK

LEMMA DeletedOK ==
  ASSUME SearchInv, NEW s \in Stores, NEW n \in Names, Deleted(s, n)
  PROVE  SearchInv'
<1> DEFINE us == <<Signal("deleted", s, n, n)>>
           f == <<s, n>>
           new == [g \in Folders |-> IF g = f THEN None ELSE g]
<1>0. Types /\ Known \subseteq exists /\ exists \subseteq Folders /\ history \subseteq Folders \X Excuses
  BY DEF SearchInv, Types, TypeOK, NamesOK
<1>1. /\ us \in Seq(SignalTypes) /\ signals' = signals \o us /\ known' \in Tables /\ heard' = heard
      /\ DOMAIN us = {1} /\ us[1].kind = "deleted" /\ Of(us[1]) = f
      /\ Known' = Known \ {f}
  BY <1>0, OneSignal DEF Deleted
<1> HIDE DEF us
<1>2. /\ exists' = exists \ {f} /\ uris' = uris /\ f \in Folders
      /\ history \subseteq history' /\ history' \subseteq Folders \X Excuses
      /\ f \in But({"deleted"})'
  <2>1. Remember("deleted", {f}) /\ f \in Folders
    BY DEF Deleted, Folders
  <2>2. history' \subseteq Folders \X Excuses
    BY <1>0, <2>1 DEF Remember, Excuses
  <2> QED BY <2>1, <2>2, Remembered DEF Deleted
<1>3. NewSignals(us)
  BY <1>1, <1>2 DEF NewSignals
<1>4. Rekeyed({f})
  <2>1. new \in [Folders -> Folders \cup {None}] /\ Rekey(new) /\ new[f] = None
        /\ \A g \in Folders \ {f} : new[g] = g
    BY <1>2 DEF Deleted
  <2>2. UNCHANGED <<messages, loaded, rules, hashed, sources>>
    BY DEF Deleted, ruleVars
  <2>3. f \notin Known'
    BY <1>1
  <2> HIDE DEF new, f
  <2> QED BY <1>0, <1>2, <2>1, <2>2, <2>3, RekeyIs
<1>5. Of(us[1]) \in But({"renamed", "deleted"})'
  BY <1>1, <1>2, MoreExcuses
<1> QED BY <1>0, <1>1, <1>2, <1>3, <1>4, <1>5, StoreStepOK

LEMMA RenamedOK ==
  ASSUME SearchInv, NEW s \in Stores, NEW old \in Names, NEW n \in Names, Renamed(s, old, n)
  PROVE  SearchInv'
<1> DEFINE f == <<s, n>>
           g == <<s, old>>
           new == [h \in Folders |-> IF h = g THEN f ELSE h]
           Told(us, names) ==
             /\ us = <<>> \/ \E kind \in {"renamed", "available"} : us = <<Signal(kind, s, n, old)>>
             /\ Record(us)
             /\ known' = [known EXCEPT ![s] = (@ \ {old, n}) \cup names]
             /\ names \subseteq {n}
             /\ exists' = (exists \ {f, g}) \cup {<<s, m>> : m \in names}
<1>0. /\ Types /\ Known \subseteq exists /\ exists \subseteq Folders
      /\ history \subseteq Folders \X Excuses /\ known \in Tables
  BY DEF SearchInv, Types, TypeOK, NamesOK, Tables
<1>1. /\ uris' = uris /\ f \in Folders /\ g \in Folders
      /\ history \subseteq history' /\ history' \subseteq Folders \X Excuses
      /\ f \in But({"renamed"})' /\ g \in But({"renamed"})'
  <2>1. Remember("renamed", {g, f}) /\ f \in Folders /\ g \in Folders
    BY DEF Renamed, Folders
  <2>2. history' \subseteq Folders \X Excuses
    BY <1>0, <2>1 DEF Remember, Excuses
  <2> QED BY <2>1, <2>2, Remembered DEF Renamed
<1>2. PICK us, names : Told(us, names)
  <2>1. ASSUME NEW kind \in {"renamed", "available"}, Record(<<Signal(kind, s, n, old)>>),
               known' = [known EXCEPT ![s] = (@ \ {old}) \cup {n}],
               exists' = (exists \ {g}) \cup {f}
        PROVE  Told(<<Signal(kind, s, n, old)>>, {n})
    <3>1. known' = [known EXCEPT ![s] = (@ \ {old, n}) \cup {n}]
      <4>1. (known[s] \ {old}) \cup {n} = (known[s] \ {old, n}) \cup {n}
        OBVIOUS
      <4> QED BY <2>1, <4>1
    <3>2. exists' = (exists \ {f, g}) \cup {<<s, m>> : m \in {n}}
      BY <2>1
    <3> QED BY <2>1, <3>1, <3>2
  <2>2. ASSUME Record(<<>>), known' = [known EXCEPT ![s] = @ \ {old, n}],
               exists' = exists \ {g, f}
        PROVE  Told(<<>>, {})
    <3>1. known' = [known EXCEPT ![s] = (@ \ {old, n}) \cup {}]
      <4>1. known[s] \ {old, n} = (known[s] \ {old, n}) \cup {}
        OBVIOUS
      <4> QED BY <2>2, <4>1
    <3>2. exists' = (exists \ {f, g}) \cup {<<s, m>> : m \in {}}
      BY <2>2
    <3> QED BY <2>2, <3>1, <3>2
  <2> HIDE DEF Told
  <2>3. CASE /\ exists' = (exists \ {<<s, old>>}) \cup {<<s, n>>}
             /\ known' = [known EXCEPT ![s] = (@ \ {old}) \cup {n}]
             /\ \E kind \in {"renamed"} \cup (IF old \in known[s] THEN {} ELSE {"available"}) :
                  Tells(<<Signal(kind, s, n, old)>>)
    <3>1. PICK kind \in {"renamed", "available"} : Record(<<Signal(kind, s, n, old)>>)
      BY <2>3 DEF Tells
    <3> QED BY <2>1, <2>3, <3>1
  <2>4. CASE /\ exists' = exists \ {<<s, old>>, <<s, n>>}
             /\ known' = [known EXCEPT ![s] = @ \ {old, n}]
             /\ Tells(<<>>)
    <3>1. Record(<<>>)
      BY <2>4 DEF Tells
    <3> QED BY <2>2, <2>4, <3>1
  <2> HIDE DEF f, g, new
  <2> QED BY <2>3, <2>4 DEF Renamed
<1>3. known' \in Tables /\ \A h \in Folders \ {f, g} : h \in Known' <=> h \in Known
  BY <1>0, <1>2 DEF Tables, Known, Folders
<1>4. Known' \subseteq exists' /\ exists' \subseteq Folders /\ exists \ {f, g} \subseteq exists'
  <2>1. \A m \in names : <<s, m>> = f
    BY <1>2
  <2>2. exists' \subseteq Folders /\ exists \ {f, g} \subseteq exists'
    BY <1>0, <1>1, <1>2, <2>1
  <2>3. ASSUME NEW h \in Known', h \notin exists' PROVE FALSE
    <3>1. h \in Folders /\ h[2] \in known'[h[1]]
      BY DEF Known
    <3>2. PICK x \in Stores, m \in Names : h = <<x, m>>
      BY <3>1 DEF Folders
    <3>3. h \in {f, g}
      BY <1>0, <1>3, <2>2, <2>3, <3>1
    <3>4. x = s /\ m \in {old, n}
      BY <3>2, <3>3
    <3>5. m \in names
      BY <1>0, <1>2, <3>1, <3>2, <3>4 DEF Tables
    <3> QED BY <1>2, <2>3, <3>2, <3>4, <3>5
  <2> QED BY <2>2, <2>3
<1>5. /\ us \in Seq(SignalTypes)
      /\ \A i \in DOMAIN us :
           /\ us[i].kind \in {"renamed", "available"} /\ Of(us[i]) = f
           /\ us[i].store = s /\ us[i].old = old
  <2>1. CASE us = <<>>
    BY <2>1
  <2>2. ASSUME NEW kind \in {"renamed", "available"}, us = <<Signal(kind, s, n, old)>>
        PROVE  /\ us \in Seq(SignalTypes)
               /\ \A i \in DOMAIN us :
                    /\ us[i].kind \in {"renamed", "available"} /\ Of(us[i]) = f
                    /\ us[i].store = s /\ us[i].old = old
    <3> DEFINE u == Signal(kind, s, n, old)
    <3>1. /\ u \in SignalTypes /\ u.kind = kind /\ Of(u) = f /\ u.store = s /\ u.old = old
      BY DEF Signal, SignalTypes, Of
    <3> HIDE DEF u, f
    <3>2. us = <<u>>
      BY <2>2 DEF u
    <3> QED BY <3>1, <3>2
  <2> QED BY <1>2, <2>1, <2>2
<1> HIDE DEF f, g, new
<1>6. NewSignals(us)
  <2>1. signals' = signals \o us /\ heard' = heard
    BY <1>2 DEF Record
  <2>2. \A h \in Folders \ But({"renamed"})' : h # f /\ h # g
    BY <1>1
  <2>3. \A i \in DOMAIN us : <<us[i].store, us[i].old>> = g
    BY <1>5 DEF g
  <2> QED BY <1>1, <1>3, <1>5, <2>1, <2>2, <2>3 DEF NewSignals
<1>7. Rekeyed({f, g})
  <2>1. new \in [Folders -> Folders \cup {None}] /\ Rekey(new)
        /\ new[g] = f /\ new[f] = f
        /\ \A h \in Folders \ {f, g} : new[h] = h
    BY <1>1 DEF Renamed, new, f, g
  <2>2. UNCHANGED <<messages, loaded, rules, hashed, sources>>
    BY DEF Renamed, ruleVars
  <2> QED BY <1>0, <1>1, <2>1, <2>2, RekeyIs
<1>8. \A i \in DOMAIN us : Of(us[i]) \in But({"renamed", "deleted"})'
  BY <1>1, <1>5, MoreExcuses
<1> QED BY <1>1, <1>4, <1>6, <1>7, <1>8, StoreStepOK

\* An enumeration of a set reaches all of it.
LEMMA Enumerates ==
  ASSUME NEW S, IsFiniteSet(S), NEW q \in SetToSeqs(S)
  PROVE  \E n \in Nat :
           /\ q \in [1..n -> S] /\ \A x \in S : \E i \in 1..n : q[i] = x
           /\ \A i, j \in 1..n : i # j => q[i] # q[j]
<1> DEFINE n == Cardinality(S)
<1>1. n \in Nat
  BY FS_CardinalityType
<1>2. q \in [1..n -> S] /\ \A i, j \in 1..n : i # j => q[i] # q[j]
  BY DEF SetToSeqs
<1>3. IsFiniteSet(1..n) /\ Cardinality(1..n) = n
  BY <1>1, FS_Interval
<1> HIDE DEF n
<1> DEFINE T == {q[i] : i \in 1..n}
<1>4. T \subseteq S /\ q \in Bijection(1..n, T)
  BY <1>2 DEF Bijection, Injection, Surjection, IsInjective
<1>5. T = S
  <2>0. ExistsBijection(1..n, T)
    BY <1>4 DEF ExistsBijection
  <2>1. IsFiniteSet(T) /\ Cardinality(T) = n
    BY <1>3, <2>0, FS_Bijection
  <2> QED BY <1>4, <2>1, FS_Subset DEF n
<1> QED BY <1>1, <1>2, <1>5

LEMMA WithdrawnOK ==
  ASSUME SearchInv, NEW s \in Stores, Withdrawn(s)
  PROVE  SearchInv'
<1>0. /\ Types /\ Known \subseteq exists /\ exists \subseteq Folders
      /\ history \subseteq Folders \X Excuses /\ known \in Tables
  BY DEF SearchInv, Types, TypeOK, NamesOK, Tables
<1>1. PICK names \in SetToSeqs(known[s]) : Changes(Withdrawal(s, names))
  BY DEF Withdrawn, Withdrawal
<1>2. known[s] \subseteq Names
  BY <1>0 DEF Tables
<1>3. IsFiniteSet(known[s])
  BY <1>2, VFolderAssumption, FS_Subset
<1>4. PICK n \in Nat :
        names \in [1..n -> known[s]] /\ \A x \in known[s] : \E i \in 1..n : names[i] = x
  BY <1>3, Enumerates
<1> DEFINE us == Withdrawal(s, names)
<1>5. /\ DOMAIN us = 1..n
      /\ \A i \in 1..n : us[i] \in SignalTypes /\ us[i].kind = "unavailable" /\ Of(us[i]) = <<s, names[i]>>
  BY <1>2, <1>4 DEF Withdrawal, Signal, SignalTypes, Of
<1>6. us \in Seq(SignalTypes)
  <2>1. us = [i \in 1..n |-> us[i]]
    BY <1>4 DEF Withdrawal
  <2>2. us \in [1..n -> SignalTypes]
    BY <1>5, <2>1
  <2> HIDE DEF us
  <2> QED BY <2>2
<1>7. signals' = signals \o us /\ heard' = heard /\ known' = [known EXCEPT ![s] = {}]
  BY <1>0, <1>1, <1>4, AfterWithdrawal DEF Changes, Tells, Record
<1>8. known' \in Tables /\ \A f \in Folders : f \in Known' <=> f \in Known /\ f[1] # s
  BY <1>0, <1>7 DEF Tables, Known, Folders
<1> HIDE DEF us
<1>9. UNCHANGED <<exists, history, uris>>
  BY DEF Withdrawn
<1>10. ASSUME NEW f \in Folders
       PROVE  /\ \A i \in 1..n : Of(us[i]) = f => f \notin Known'
              /\ (\A i \in 1..n : Of(us[i]) # f) => (f \in Known' <=> f \in Known)
  <2>1. \A i \in 1..n : Of(us[i]) = f => f[1] = s
    BY <1>5
  <2>2. ASSUME f \in Known, f[1] = s PROVE \E i \in 1..n : Of(us[i]) = f
    <3>1. f[2] \in known[s] /\ f = <<s, f[2]>>
      BY <2>2 DEF Known, Folders
    <3>2. PICK i \in 1..n : names[i] = f[2]
      BY <1>4, <3>1
    <3> QED BY <1>5, <3>1, <3>2
  <2>3. f \in Known' <=> f \in Known /\ f[1] # s
    BY <1>8
  <2> HIDE DEF Known
  <2> QED BY <2>1, <2>2, <2>3
<1>11. NewSignals(us)
  BY <1>5, <1>6, <1>7, <1>8, <1>9, <1>10 DEF NewSignals
<1>12. Rekeyed({})
  BY <1>0, NoRekey DEF Withdrawn, ruleVars, workVars
<1>13. Known' \subseteq exists'
  BY <1>0, <1>8, <1>9 DEF Known
<1>14. \A i \in DOMAIN us : Of(us[i]) \in exists'
  <2>1. \A i \in 1..n : names[i] \in known[s] /\ <<s, names[i]>> \in Folders
    BY <1>2, <1>4 DEF Folders
  <2>2. \A i \in 1..n : <<s, names[i]>> \in Known
    BY <2>1 DEF Known
  <2> QED BY <1>0, <1>5, <1>9, <2>2
<1> QED BY <1>0, <1>9, <1>11, <1>12, <1>13, <1>14, StoreStepOK

-----------------------------------------------------------------------------
(* Steps of the worker and of the clients: no signal is recorded or heard. *)

LEMMA SignalsStay ==
  ASSUME SignalsOK, UNCHANGED <<known, heard, signals, uris>>, history \subseteq history'
  PROVE  SignalsOK' /\ Known' = Known /\ \A f : Quiet(f)' <=> Quiet(f)
<1>1. \A e : But(e) \subseteq But(e)'
  BY ExcusesStay
<1>2. Known' = Known /\ \A f : Quiet(f)' <=> Quiet(f)
  BY DEF Known, Quiet, Of
<1>3. \A f : Announced(f) => Announced(f)'
  BY <1>2 DEF Announced, LastSignal, Of
<1>4. Folders \ But({"renamed"})' \subseteq Folders \ But({"renamed"})
  BY <1>1
<1>5. \A i \in DOMAIN signals' :
        LET u == signals'[i]
        IN  /\ u.kind = "deleted" => Of(u) \in But({"deleted"})'
            /\ u.kind = "renamed" =>
                 Of(u) \in But({"renamed"})' /\ <<u.store, u.old>> \in But({"renamed"})'
  BY <1>1 DEF SignalsOK
<1> QED BY <1>2, <1>3, <1>4, <1>5 DEF SignalsOK, Of

LEMMA RuleGoesOK ==
  ASSUME SearchInv, NEW r \in Rules, RuleGoes(r)
  PROVE  SearchInv'
<1>1. /\ UNCHANGED <<known, heard, signals, exists, uris, loaded, hashed, sources, members,
                     messages, running, history>>
      /\ rules' \subseteq rules
  BY DEF RuleGoes, cacheVars, workVars
<1>2. SignalsOK' /\ Known' = Known /\ \A f : Quiet(f)' <=> Quiet(f)
  BY <1>1, SignalsStay DEF SearchInv
<1>3. \A e : But(e)' = But(e)
  BY <1>1 DEF But
<1>4. Types' /\ Unstarted'
  BY <1>1 DEF SearchInv, Types, TypeOK, Unstarted
<1>5. NamesOK' /\ MatchesOK' /\ MessagesOK' /\ SetupsOK'
  BY <1>1, <1>2, <1>3
     DEF SearchInv, NamesOK, MatchesOK, MessagesOK, SetupsOK, Unheld, UnheldFor, Held,
         Matches, OfKind, CutOK
<1>6. LeadsOK'
  <2>1. \A q, f : (Bound(q, f)' <=> Bound(q, f)) /\ (Leads(q, f)' <=> Leads(q, f))
    BY <1>1, <1>2, <1>3
       DEF Bound, Asked, OfKind, Leads, LastMessage, NoMessage, Concerns, Gives, Held
  <2> QED BY <1>1, <2>1 DEF SearchInv, LeadsOK
<1> QED BY <1>2, <1>4, <1>5, <1>6 DEF SearchInv

LEMMA BeginOK ==
  ASSUME SearchInv, Begin
  PROVE  SearchInv'
<1> DEFINE m == Head(messages)
           n == Len(messages)
           drops == m.kind = "add" /\ ~(m.folders \subseteq Known)
<1>1. /\ UNCHANGED <<known, heard, signals, exists, uris, loaded, rules, hashed, sources,
                     members, history>>
      /\ running = None /\ messages # <<>> /\ messages' = Tail(messages)
      /\ drops => running' = None
      /\ ~drops => running' = m
  BY DEF Begin, cacheVars, ruleVars
<1>2. SignalsOK' /\ Known' = Known /\ \A f : Quiet(f)' <=> Quiet(f)
  BY <1>1, SignalsStay DEF SearchInv
<1>3. \A e : But(e)' = But(e)
  BY <1>1 DEF But
<1>4. /\ n \in Nat /\ n >= 1 /\ DOMAIN messages = 1..n /\ m = messages[1]
      /\ messages' \in Seq(Messages)
      /\ DOMAIN messages' = 1..n - 1 /\ \A i \in 1..n - 1 : messages'[i] = messages[i + 1]
  BY <1>1 DEF SearchInv, Types, TypeOK
<1> HIDE DEF m, n
<1>5. 1 \in 1..n /\ \A i \in 1..n - 1 : i + 1 \in 1..n /\ 1 < i + 1
  BY <1>4
<1>6. m \in Messages /\ m # None
  <2>1. m \in Messages
    BY <1>4, <1>5, MessageOf DEF SearchInv
  <2> QED BY <2>1, VFolderAssumption
<1>7. running' # None => running' = m /\ ~drops
  BY <1>1
<1>8. Types'
  <2>1. \A i \in DOMAIN messages' : messages'[i].rules \subseteq hashed
    BY <1>4, <1>5 DEF SearchInv, Types, TypeOK
  <2>2. m.rules \subseteq hashed
    BY <1>4, <1>5 DEF SearchInv, Types, TypeOK
  <2> QED BY <1>1, <1>4, <1>6, <2>1, <2>2 DEF SearchInv, Types, TypeOK
<1>9. Unstarted'
  BY <1>1 DEF SearchInv, Unstarted
<1>10. ASSUME NEW f, Unheld(f) PROVE Unheld(f)'
  <2>1. f \notin Held(m) /\ \A i \in 1..n - 1 : f \notin Held(messages'[i])
    BY <1>4, <1>5, <1>10 DEF Unheld
  <2>2. \A r \in Rules : f \notin members'[r]
    BY <1>1, <1>10 DEF Unheld
  <2> QED BY <1>4, <1>7, <2>1, <2>2 DEF Unheld, Held
<1>11. ASSUME NEW r \in Rules, NEW f, UnheldFor(r, f) PROVE UnheldFor(r, f)'
  <2>1. /\ r \in m.rules => f \notin Held(m)
        /\ \A i \in 1..n - 1 : r \in messages'[i].rules => f \notin Held(messages'[i])
    BY <1>4, <1>5, <1>11 DEF UnheldFor
  <2>2. f \notin members'[r]
    BY <1>1, <1>11 DEF UnheldFor
  <2> QED BY <1>4, <1>7, <2>1, <2>2 DEF UnheldFor, Held
<1>12. NamesOK'
  BY <1>1, <1>2, <1>3, <1>10 DEF SearchInv, NamesOK
<1>13. MatchesOK'
  BY <1>1, <1>3, <1>11 DEF SearchInv, MatchesOK, Matches, OfKind
<1>14. MessagesOK'
  <2>1. \A x : CutOK(x) <=> (x.cancelled => Held(x) \subseteq But({"failed", "renamed"})')
    BY <1>3 DEF CutOK
  <2>2. CutOK(m) /\ \A i \in 1..n - 1 :
           /\ messages'[i].opened = {} /\ CutOK(messages'[i])
           /\ messages'[i].kind = "add" => \E f \in Folders : messages'[i].folders = {f}
    BY <1>4, <1>5 DEF SearchInv, MessagesOK
  <2> QED BY <1>4, <1>7, <2>1, <2>2 DEF MessagesOK, CutOK, Held
<1>15. SetupsOK'
  <2>1. ASSUME NEW i \in 1..n - 1, messages'[i].kind = "setup", NEW r \in messages'[i].rules
        PROVE  /\ members'[r] = {} /\ (running' # None => r \notin running'.rules)
               /\ \A j \in 1..n - 1 : j < i => r \notin messages'[j].rules
    <3>1. /\ members[r] = {} /\ r \notin m.rules
          /\ \A j \in 1..n : j < i + 1 => r \notin messages[j].rules
      BY <1>4, <1>5, <2>1 DEF SearchInv, SetupsOK
    <3>2. \A j \in 1..n - 1 : j < i => j + 1 < i + 1
      BY <1>4
    <3> QED BY <1>1, <1>4, <1>5, <1>7, <3>1, <3>2
  <2>2. m.kind = "setup" => \A r \in m.rules : members'[r] = {}
    BY <1>1, <1>4, <1>5 DEF SearchInv, SetupsOK
  <2> QED BY <1>4, <1>7, <2>1, <2>2 DEF SetupsOK
<1>16. LeadsOK'
  <2> SUFFICES ASSUME NEW r \in rules \cap hashed, NEW f \in Folders, Bound(r, f)'
               PROVE  Leads(r, f)'
    BY <1>1 DEF LeadsOK
  <2>1. Leads(r, f)
    BY <1>1, <1>2, <1>3 DEF Bound, Asked, OfKind, SearchInv, LeadsOK
  <2>2. ASSUME NEW i \in 1..n - 1, Concerns(messages'[i], r, f),
               \A j \in 1..n - 1 : j > i => ~Concerns(messages'[j], r, f)
        PROVE  Gives(messages'[i], f) <=> f \in Known
    <3>1. ASSUME NEW j \in 1..n, j > i + 1 PROVE ~Concerns(messages[j], r, f)
      <4>1. j - 1 \in 1..n - 1 /\ j - 1 > i /\ (j - 1) + 1 = j
        BY <1>4, <3>1
      <4>2. messages'[j - 1] = messages[j]
        BY <1>4, <4>1
      <4> QED BY <2>2, <4>1, <4>2
    <3>2. LastMessage(i + 1, r, f)
      BY <1>4, <1>5, <2>2, <3>1 DEF LastMessage
    <3> QED BY <1>4, <1>5, <2>1, <3>2 DEF Leads
  <2>3. ASSUME \A i \in 1..n - 1 : ~Concerns(messages'[i], r, f)
        PROVE  IF Concerns(m, r, f) THEN Gives(m, f) <=> f \in Known
                                    ELSE f \in members[r] <=> f \in Known
    <3>1. ASSUME NEW j \in 1..n, j > 1 PROVE ~Concerns(messages[j], r, f)
      <4>1. j - 1 \in 1..n - 1 /\ (j - 1) + 1 = j
        BY <1>4, <3>1
      <4>2. messages'[j - 1] = messages[j]
        BY <1>4, <4>1
      <4> QED BY <2>3, <4>1, <4>2
    <3>2. CASE Concerns(m, r, f)
      <4>1. LastMessage(1, r, f)
        BY <1>4, <1>5, <3>1, <3>2 DEF LastMessage
      <4> QED BY <1>4, <1>5, <2>1, <3>2, <4>1 DEF Leads
    <3>3. CASE ~Concerns(m, r, f)
      <4>1. \A j \in 1..n : j = 1 \/ j > 1
        BY <1>4
      <4>2. NoMessage(r, f)
        BY <1>4, <3>1, <3>3, <4>1 DEF NoMessage
      <4> QED BY <1>1, <2>1, <3>3, <4>2 DEF Leads
    <3> QED BY <3>2, <3>3
  <2>4. ASSUME drops, Concerns(m, r, f) PROVE ~(Gives(m, f) <=> f \in Known)
    <3>1. PICK g \in Folders : m.folders = {g} /\ m.opened = {}
      BY <1>4, <1>5, <2>4 DEF SearchInv, MessagesOK
    <3>2. f = g /\ f \notin Known
      BY <2>4, <3>1 DEF Concerns, Held
    <3> QED BY <2>4, <3>1, <3>2 DEF Gives, Held
  <2> HIDE DEF drops
  <2> QED BY <1>1, <1>2, <1>4, <1>6, <1>7, <2>2, <2>3, <2>4
          DEF Leads, LastMessage, NoMessage, Concerns, Gives, Held
<1> QED BY <1>2, <1>8, <1>9, <1>12, <1>13, <1>14, <1>15, <1>16 DEF SearchInv

LEMMA OpenOK ==
  ASSUME SearchInv, NEW g \in Folders, Open(g)
  PROVE  SearchInv'
<1> DEFINE FR == {"failed", "renamed"}
<1>1. /\ UNCHANGED <<known, heard, signals, exists, uris, loaded, rules, hashed, sources,
                     members, messages>>
      /\ running # None /\ g \in running.folders
  BY DEF Open, cacheVars, ruleVars
<1>2. running \in Messages /\ None \notin Messages /\ Known \subseteq exists /\ Types
  BY <1>1, MessageOf, VFolderAssumption DEF SearchInv, NamesOK
<1>3. /\ running' \in Messages /\ running'.kind = running.kind /\ running'.rules = running.rules
      /\ running'.cancelled = running.cancelled
      /\ Held(running') \subseteq Held(running) /\ Held(running) \ {g} \subseteq Held(running')
      /\ g \notin Held(running') => Remember("failed", {g} \cap exists)
      /\ history' = history \/ Remember("failed", {g} \cap exists)
  <2>1. CASE running' = [running EXCEPT !.folders = @ \ {g}, !.opened = @ \cup {g}]
               /\ UNCHANGED history
    BY <1>1, <1>2, <2>1 DEF Messages, Held
  <2>2. CASE running' = [running EXCEPT !.folders = @ \ {g}] /\ Remember("failed", {g} \cap exists)
    BY <1>1, <1>2, <2>2 DEF Messages, Held
  <2> QED BY <2>1, <2>2 DEF Open
<1>4. /\ history \subseteq history' /\ history' \subseteq Folders \X Excuses
      /\ g \notin Held(running') /\ g \in exists => g \in But(FR)'
  <2>1. Remember("failed", {g} \cap exists) =>
          history \subseteq history' /\ (g \in exists => g \in But(FR)')
    BY Remembered
  <2>2. Remember("failed", {g} \cap exists) => history' \subseteq Folders \X Excuses
    BY DEF Remember, Excuses, SearchInv, Types, TypeOK
  <2> QED BY <1>2, <1>3, <2>1, <2>2 DEF Types, TypeOK
<1>5. SignalsOK' /\ Known' = Known /\ \A f : Quiet(f)' <=> Quiet(f)
  BY <1>1, <1>4, SignalsStay DEF SearchInv
<1>6. \A e : But(e) \subseteq But(e)'
  BY <1>4, ExcusesStay
<1>7. Types' /\ Unstarted'
  BY <1>1, <1>2, <1>3, <1>4 DEF SearchInv, Types, TypeOK, Unstarted
<1>8. Held(running)' = Held(running')
  BY DEF Held
<1>9. \A i \in DOMAIN messages : Held(messages[i])' = Held(messages[i])
  BY <1>1 DEF Held
<1>10. NamesOK'
  <2>1. \A f : Unheld(f) => Unheld(f)'
    BY <1>1, <1>3, <1>8, <1>9 DEF Unheld
  <2> QED BY <1>1, <1>5, <1>6, <2>1 DEF SearchInv, NamesOK
<1>11. MatchesOK'
  <2>1. \A r, f : UnheldFor(r, f) => UnheldFor(r, f)'
    BY <1>1, <1>3, <1>8, <1>9 DEF UnheldFor
  <2> QED BY <1>1, <1>6, <2>1 DEF SearchInv, MatchesOK, Matches, OfKind
<1>12. MessagesOK'
  <2>1. CutOK(running)'
    BY <1>1, <1>3, <1>6, <1>8 DEF SearchInv, MessagesOK, CutOK
  <2>2. \A i \in DOMAIN messages : CutOK(messages[i])'
    BY <1>1, <1>6, <1>9 DEF SearchInv, MessagesOK, CutOK
  <2> QED BY <1>1, <2>1, <2>2 DEF SearchInv, MessagesOK
<1>13. SetupsOK'
  BY <1>1, <1>2, <1>3 DEF SearchInv, SetupsOK
<1> HIDE DEF FR
<1>14. LeadsOK'
  <2> SUFFICES ASSUME NEW r \in rules \cap hashed, NEW f \in Folders, Bound(r, f)'
               PROVE  Leads(r, f)'
    BY <1>1 DEF LeadsOK
  <2>1. f \notin But(FR)' /\ (f \notin Known => f \notin But({"deleted"})')
    BY <1>5 DEF Bound, FR
  <2>2. Leads(r, f)
    BY <1>1, <1>5, <1>6 DEF Bound, Asked, OfKind, SearchInv, LeadsOK
  <2>3. f \in Held(running') <=> f \in Held(running)
    <3> SUFFICES ASSUME f \in Held(running), f \notin Held(running') PROVE FALSE
      BY <1>3
    <3>1. f = g /\ f \notin exists
      BY <1>3, <1>4, <2>1
    <3>2. f \notin But({"renamed", "deleted"})
      <4>1. f \notin But({"deleted"}) /\ f \notin But(FR)
        BY <1>2, <1>6, <2>1, <3>1
      <4> QED BY <4>1 DEF But, FR
    <3> QED BY <1>1, <3>1, <3>2 DEF SearchInv, NamesOK, Unheld
  <2>4. Concerns(running', r, f) <=> Concerns(running, r, f)
    BY <1>3, <2>3 DEF Concerns
  <2>5. Gives(running', f) <=> Gives(running, f)
    BY <1>3, <2>3 DEF Gives
  <2> QED BY <1>1, <1>2, <1>3, <1>5, <2>2, <2>4, <2>5
          DEF Leads, LastMessage, NoMessage, Concerns, Gives, Held
<1> QED BY <1>5, <1>7, <1>10, <1>11, <1>12, <1>13, <1>14 DEF SearchInv

LEMMA FinishOK ==
  ASSUME SearchInv, Finish
  PROVE  SearchInv'
<1> DEFINE m == running
           Result(r) ==
             IF r \notin m.rules THEN members[r]
             ELSE CASE m.kind = "setup" -> IF m.cancelled THEN members[r] ELSE m.opened
                    [] m.kind = "add" -> members[r] \cup m.opened
                    [] m.kind = "remove" -> members[r] \ m.opened
<1>1. /\ UNCHANGED <<known, heard, signals, exists, uris, loaded, rules, hashed, sources,
                     messages, history>>
      /\ m # None /\ running' = None
      /\ m.folders = {} \/ (m.kind = "setup" /\ m.cancelled)
  BY DEF Finish, cacheVars, ruleVars
<1>2. members' = [r \in Rules |-> Result(r)]
  BY <1>1 DEF Finish
<1>3. m \in Messages /\ Types
  BY <1>1, MessageOf DEF SearchInv
<1>4. m.kind \in {"setup", "add", "remove"} /\ m.opened \subseteq Folders /\ m.rules \subseteq Rules
  BY <1>3, MessageFields
<1> HIDE DEF m
<1>5. ASSUME NEW r \in Rules
      PROVE  /\ members'[r] \subseteq Folders
             /\ r \notin m.rules => members'[r] = members[r]
             /\ r \in m.rules => members'[r] \subseteq members[r] \cup Held(m)
  <2>1. members[r] \subseteq Folders
    BY <1>3 DEF Types, TypeOK
  <2>2. members'[r] = Result(r)
    BY <1>2
  <2>3. CASE r \notin m.rules
    BY <2>1, <2>2, <2>3
  <2>4. CASE r \in m.rules
    <3>1. Result(r) \in {members[r], m.opened, members[r] \cup m.opened, members[r] \ m.opened}
      BY <1>4, <2>4
    <3> HIDE DEF Result
    <3> QED BY <1>4, <2>1, <2>2, <2>4, <3>1 DEF Held
  <2> QED BY <2>3, <2>4
<1>6. members' \in [Rules -> SUBSET Folders]
  BY <1>2, <1>5
<1>7. SignalsOK' /\ Known' = Known /\ \A f : Quiet(f)' <=> Quiet(f)
  BY <1>1, SignalsStay DEF SearchInv
<1>8. \A e : But(e)' = But(e)
  BY <1>1 DEF But
<1>9. Types' /\ Unstarted'
  BY <1>1, <1>6 DEF SearchInv, Types, TypeOK, Unstarted, m
<1>10. \A i \in DOMAIN messages : Held(messages[i])' = Held(messages[i])
  BY <1>1 DEF Held
<1>11. NamesOK'
  <2>1. ASSUME NEW f, Unheld(f) PROVE Unheld(f)'
    <3>1. \A r \in Rules : f \notin members'[r]
      BY <1>1, <1>5, <2>1 DEF Unheld, m
    <3> QED BY <1>1, <1>10, <2>1, <3>1 DEF Unheld
  <2> QED BY <1>1, <1>7, <1>8, <2>1 DEF SearchInv, NamesOK
<1>12. MatchesOK'
  <2>1. ASSUME NEW r \in Rules, NEW f, UnheldFor(r, f) PROVE UnheldFor(r, f)'
    <3>1. f \notin members'[r]
      BY <1>1, <1>5, <2>1 DEF UnheldFor, m
    <3> QED BY <1>1, <1>10, <2>1, <3>1 DEF UnheldFor
  <2> QED BY <1>1, <1>8, <2>1 DEF SearchInv, MatchesOK, Matches, OfKind
<1>13. MessagesOK'
  <2>1. \A i \in DOMAIN messages : CutOK(messages[i])' <=> CutOK(messages[i])
    BY <1>1, <1>8, <1>10 DEF CutOK
  <2> QED BY <1>1, <2>1 DEF SearchInv, MessagesOK
<1>14. SetupsOK'
  <2>1. ASSUME NEW i \in DOMAIN messages, messages[i].kind = "setup", NEW r \in messages[i].rules
        PROVE  members'[r] = {} /\ \A j \in DOMAIN messages : j < i => r \notin messages[j].rules
    <3>1. members[r] = {} /\ r \notin m.rules
          /\ \A j \in DOMAIN messages : j < i => r \notin messages[j].rules
      BY <1>1, <2>1 DEF SearchInv, SetupsOK, m
    <3>2. r \in Rules
      BY <1>3, MessageOf, MessageFields
    <3> QED BY <1>5, <3>1, <3>2
  <2> QED BY <1>1, <2>1 DEF SetupsOK
<1>15. LeadsOK'
  <2> SUFFICES ASSUME NEW r \in rules \cap hashed, NEW f \in Folders, Bound(r, f)'
               PROVE  Leads(r, f)'
    BY <1>1 DEF LeadsOK
  <2>1. Leads(r, f) /\ f \notin But({"failed", "renamed"}) /\ r \in Rules
    BY <1>1, <1>3, <1>7, <1>8 DEF Bound, Asked, OfKind, SearchInv, LeadsOK, Types, TypeOK
  <2>2. ASSUME NoMessage(r, f) PROVE f \in members'[r] <=> f \in Known
    <3>1. Concerns(m, r, f) => (Gives(m, f) <=> f \in Known)
      BY <1>1, <2>1, <2>2 DEF Leads, m
    <3>2. ~Concerns(m, r, f) => (f \in members[r] <=> f \in Known)
      BY <1>1, <2>1, <2>2 DEF Leads, m
    <3>3. CASE r \notin m.rules
      BY <1>5, <2>1, <3>2, <3>3 DEF Concerns
    <3>4. CASE r \in m.rules /\ m.kind = "setup" /\ m.cancelled
      <4>1. f \notin Held(m)
        BY <1>1, <2>1, <3>4 DEF SearchInv, MessagesOK, CutOK, m
      <4>2. members[r] = {}
        BY <1>1, <3>4 DEF SearchInv, SetupsOK, m
      <4>3. members'[r] = members[r]
        BY <1>2, <2>1, <3>4
      <4> QED BY <3>1, <3>4, <4>1, <4>2, <4>3 DEF Concerns, Gives
    <3>5. CASE r \in m.rules /\ m.kind = "setup" /\ ~m.cancelled
      <4>1. members'[r] = m.opened /\ Held(m) = m.opened
        BY <1>1, <1>2, <2>1, <3>5 DEF Held
      <4> QED BY <3>1, <3>5, <4>1 DEF Concerns, Gives
    <3>6. CASE r \in m.rules /\ m.kind = "add"
      <4>1. members'[r] = members[r] \cup m.opened /\ Held(m) = m.opened
        BY <1>1, <1>2, <2>1, <3>6 DEF Held
      <4> QED BY <3>1, <3>2, <3>6, <4>1 DEF Concerns, Gives
    <3>7. CASE r \in m.rules /\ m.kind = "remove"
      <4>1. members'[r] = members[r] \ m.opened /\ Held(m) = m.opened
        BY <1>1, <1>2, <2>1, <3>7 DEF Held
      <4> QED BY <3>1, <3>2, <3>7, <4>1 DEF Concerns, Gives
    <3> QED BY <1>4, <3>3, <3>4, <3>5, <3>6, <3>7
  <2> QED BY <1>1, <1>7, <2>1, <2>2 DEF Leads, LastMessage, NoMessage, Concerns, Gives, Held
<1> QED BY <1>7, <1>9, <1>11, <1>12, <1>13, <1>14, <1>15 DEF SearchInv

LEMMA CancelAllOK ==
  ASSUME SearchInv, CancelAll
  PROVE  SearchInv'
<1> DEFINE hit == {i \in DOMAIN messages : ~messages[i].cancelled}
           cut == running # None /\ ~running.cancelled
           FR == {"failed", "renamed"}
           failed == (UNION {messages[i].folders : i \in hit})
                       \cup (IF cut THEN running.folders \cup running.opened ELSE {})
<1>1. /\ UNCHANGED <<known, heard, signals, exists, uris, loaded, rules, hashed, sources, members>>
      /\ messages' = [i \in DOMAIN messages |-> [messages[i] EXCEPT !.cancelled = TRUE]]
      /\ running' = IF cut THEN [running EXCEPT !.cancelled = TRUE] ELSE running
      /\ Remember("failed", failed)
  BY DEF CancelAll, cacheVars, ruleVars
<1>2. /\ Types /\ messages \in Seq(Messages) /\ None \notin Messages
      /\ history \subseteq Folders \X Excuses
      /\ \A i \in DOMAIN messages : messages[i] \in Messages
      /\ running # None <=> running \in Messages
  BY MessageOf, VFolderAssumption DEF SearchInv, Types, TypeOK
<1>3. /\ messages' \in Seq(Messages) /\ DOMAIN messages' = DOMAIN messages
      /\ \A i \in DOMAIN messages :
           /\ messages'[i].kind = messages[i].kind /\ messages'[i].rules = messages[i].rules
           /\ messages'[i].folders = messages[i].folders
           /\ messages'[i].opened = messages[i].opened
           /\ Held(messages'[i]) = Held(messages[i])
  <2>1. \A i \in DOMAIN messages :
           /\ messages'[i] \in Messages
           /\ messages'[i].kind = messages[i].kind /\ messages'[i].rules = messages[i].rules
           /\ messages'[i].folders = messages[i].folders
           /\ messages'[i].opened = messages[i].opened
    BY <1>1, <1>2 DEF Messages
  <2>2. DOMAIN messages = 1..Len(messages) /\ Len(messages) \in Nat
    BY <1>2
  <2>3. messages' = [i \in 1..Len(messages) |-> messages'[i]]
    BY <1>1, <2>2
  <2>4. messages' \in [1..Len(messages) -> Messages]
    BY <2>1, <2>2, <2>3
  <2>5. messages' \in Seq(Messages) /\ DOMAIN messages' = DOMAIN messages
    BY <2>2, <2>4
  <2> QED BY <2>1, <2>5 DEF Held
<1>4. /\ running' = None <=> running = None
      /\ running # None =>
           /\ running' \in Messages
           /\ running'.kind = running.kind /\ running'.rules = running.rules
           /\ Held(running') = Held(running)
           /\ running'.cancelled
  BY <1>1, <1>2 DEF Messages, Held
<1>5. /\ history \subseteq history' /\ history' \subseteq Folders \X Excuses
      /\ failed \subseteq But(FR)'
  <2>1. history \subseteq history' /\ \A f \in failed : f \in But(FR)'
    BY <1>1, Remembered
  <2>2. failed \subseteq Folders
    <3>1. \A i \in DOMAIN messages : messages[i].folders \subseteq Folders
      BY <1>2, MessageFields
    <3>2. cut => running.folders \subseteq Folders /\ running.opened \subseteq Folders
      BY <1>2, MessageFields
    <3> QED BY <3>1, <3>2
  <2> HIDE DEF failed
  <2>3. history' \subseteq Folders \X Excuses
    BY <1>1, <1>2, <2>2 DEF Remember, Excuses
  <2> QED BY <2>1, <2>3
<1>6. SignalsOK' /\ Known' = Known /\ \A f : Quiet(f)' <=> Quiet(f)
  BY <1>1, <1>5, SignalsStay DEF SearchInv
<1>7. \A e : But(e) \subseteq But(e)'
  BY <1>5, ExcusesStay
<1>8. Types'
  <2>1. \A i \in DOMAIN messages' : messages'[i].rules \subseteq hashed'
    BY <1>1, <1>3 DEF SearchInv, Types, TypeOK
  <2>2. running' # None => running'.rules \subseteq hashed'
    BY <1>1, <1>4 DEF SearchInv, Types, TypeOK
  <2>3. running' \in {None} \cup Messages
    BY <1>4
  <2> HIDE DEF hit, cut, failed
  <2> QED BY <1>1, <1>3, <1>5, <2>1, <2>2, <2>3 DEF SearchInv, Types, TypeOK
<1>9. Unstarted'
  <2>1. messages = <<>> => messages' = <<>>
    BY <1>2, <1>3
  <2> QED BY <1>1, <1>4, <2>1 DEF SearchInv, Unstarted
<1>10. /\ Held(running)' = Held(running')
       /\ \A i \in DOMAIN messages' : Held(messages[i])' = Held(messages'[i])
  BY DEF Held
<1>11. MessagesOK'
  <2>1. ASSUME NEW i \in DOMAIN messages PROVE Held(messages'[i]) \subseteq But(FR)'
    <3>1. CASE messages[i].cancelled
      BY <1>3, <1>7, <3>1 DEF SearchInv, MessagesOK, CutOK
    <3>2. CASE ~messages[i].cancelled
      <4>1. messages[i].folders \subseteq failed
        BY <3>2
      <4>2. messages[i].opened = {}
        BY DEF SearchInv, MessagesOK
      <4> HIDE DEF failed
      <4> QED BY <1>3, <1>5, <4>1, <4>2 DEF Held
    <3> QED BY <3>1, <3>2
  <2>2. ASSUME running # None PROVE Held(running') \subseteq But(FR)'
    <3>1. CASE running.cancelled
      BY <1>4, <1>7, <2>2, <3>1 DEF SearchInv, MessagesOK, CutOK
    <3>2. CASE ~running.cancelled
      <4>1. Held(running) \subseteq failed
        BY <2>2, <3>2 DEF Held
      <4> HIDE DEF failed
      <4> QED BY <1>4, <1>5, <2>2, <4>1
    <3> QED BY <3>1, <3>2
  <2>3. \A i \in DOMAIN messages : CutOK(messages[i])'
    BY <1>3, <1>10, <2>1 DEF CutOK
  <2>4. running' # None => CutOK(running)'
    BY <1>4, <1>10, <2>2 DEF CutOK
  <2>5. \A i \in DOMAIN messages :
           messages'[i].kind = "add" => \E f \in Folders : messages'[i].folders = {f}
    BY <1>3 DEF SearchInv, MessagesOK
  <2>6. \A i \in DOMAIN messages : messages'[i].opened = {}
    BY <1>3 DEF SearchInv, MessagesOK
  <2> QED BY <1>3, <2>3, <2>4, <2>5, <2>6 DEF MessagesOK
<1> HIDE DEF hit, cut, failed, FR
<1>12. NamesOK'
  <2>1. \A f : Unheld(f) => Unheld(f)'
    BY <1>1, <1>3, <1>4, <1>10 DEF Unheld
  <2> QED BY <1>1, <1>6, <1>7, <2>1 DEF SearchInv, NamesOK
<1>13. MatchesOK'
  <2>1. \A r, f : UnheldFor(r, f) => UnheldFor(r, f)'
    BY <1>1, <1>3, <1>4, <1>10 DEF UnheldFor
  <2> QED BY <1>1, <1>7, <2>1 DEF SearchInv, MatchesOK, Matches, OfKind
<1>14. SetupsOK'
  <2>1. SetupsOK
    BY DEF SearchInv
  <2>2. ASSUME NEW i \in DOMAIN messages, messages[i].kind = "setup", NEW r \in messages[i].rules
        PROVE  /\ members'[r] = {} /\ (running' # None => r \notin running'.rules)
               /\ \A j \in DOMAIN messages : j < i => r \notin messages'[j].rules
    <3>1. /\ members[r] = {} /\ (running # None => r \notin running.rules)
          /\ \A j \in DOMAIN messages : j < i => r \notin messages[j].rules
      BY <2>1, <2>2 DEF SetupsOK
    <3> QED BY <1>1, <1>3, <1>4, <3>1
  <2>3. running' # None => (running'.kind = "setup" => \A r \in running'.rules : members'[r] = {})
    BY <1>1, <1>4, <2>1 DEF SetupsOK
  <2> QED BY <1>3, <2>2, <2>3 DEF SetupsOK
<1>15. LeadsOK'
  <2> SUFFICES ASSUME NEW r \in rules \cap hashed, NEW f \in Folders, Bound(r, f)'
               PROVE  Leads(r, f)'
    BY <1>1 DEF LeadsOK
  <2>1. Leads(r, f)
    BY <1>1, <1>6, <1>7 DEF Bound, Asked, OfKind, SearchInv, LeadsOK
  <2>2. \A i \in DOMAIN messages :
          /\ Concerns(messages'[i], r, f) <=> Concerns(messages[i], r, f)
          /\ Gives(messages'[i], f) <=> Gives(messages[i], f)
    BY <1>3 DEF Concerns, Gives
  <2>3. running # None =>
          /\ Concerns(running', r, f) <=> Concerns(running, r, f)
          /\ Gives(running', f) <=> Gives(running, f)
    BY <1>4 DEF Concerns, Gives
  <2>4. NoMessage(r, f)' <=> NoMessage(r, f)
    BY <1>3, <2>2 DEF NoMessage, Concerns, Held
  <2>5. \A i \in DOMAIN messages : LastMessage(i, r, f)' <=> LastMessage(i, r, f)
    BY <1>3, <2>2 DEF LastMessage, Concerns, Held
  <2> QED BY <1>1, <1>3, <1>4, <1>6, <2>1, <2>2, <2>3, <2>4, <2>5 DEF Leads, Concerns, Gives, Held
<1> QED BY <1>6, <1>8, <1>9, <1>11, <1>12, <1>13, <1>14, <1>15 DEF SearchInv

LEMMA LoadOK ==
  ASSUME SearchInv, Load
  PROVE  SearchInv'
<1>1. /\ UNCHANGED <<known, heard, signals, exists, uris, sources, members, running, history>>
      /\ ~loaded /\ loaded' = TRUE /\ rules' \in RuleFiles
  BY DEF Load, cacheVars
<1>2. /\ Types /\ messages = <<>> /\ running = None
      /\ \A r \in Rules : members[r] = {}
      /\ Known \subseteq exists /\ Known \subseteq Folders
  BY <1>1 DEF SearchInv, Unstarted, NamesOK, Known
<1>3. rules' \subseteq Rules
  BY <1>1, VFolderAssumption
<1>4. PICK ok \in SUBSET rules' :
        /\ hashed' = ok
        /\ \E order \in SetToSeqs(ok) :
             messages' = [i \in DOMAIN order |->
                            Message("setup", {order[i]}, Available(order[i]))]
  BY DEF Load
<1>5. PICK order \in SetToSeqs(ok) :
        messages' = [i \in DOMAIN order |-> Message("setup", {order[i]}, Available(order[i]))]
  BY <1>4
<1>6. ok \subseteq Rules /\ IsFiniteSet(ok)
  BY <1>3, VFolderAssumption, FS_Subset
<1>7. PICK n \in Nat :
        /\ order \in [1..n -> ok] /\ \A r \in ok : \E i \in 1..n : order[i] = r
        /\ \A i, j \in 1..n : i # j => order[i] # order[j]
  BY <1>6, Enumerates
<1>8. ASSUME NEW i \in 1..n
      PROVE  /\ messages'[i] \in Messages /\ messages'[i].kind = "setup"
             /\ messages'[i].rules = {order[i]} /\ messages'[i].opened = {}
             /\ Held(messages'[i]) = Available(order[i]) /\ ~messages'[i].cancelled
             /\ Available(order[i]) \subseteq Known
  <2>1. messages'[i] = Message("setup", {order[i]}, Available(order[i]))
    BY <1>5, <1>7
  <2>2. Available(order[i]) \subseteq Known /\ order[i] \in Rules
    BY <1>6, <1>7 DEF Available
  <2> QED BY <1>2, <2>1, <2>2 DEF Message, Messages, Held
<1>9. messages' \in Seq(Messages) /\ DOMAIN messages' = 1..n
  <2>1. messages' = [i \in 1..n |-> messages'[i]]
    BY <1>5, <1>7
  <2>2. messages' \in [1..n -> Messages]
    BY <1>8, <2>1
  <2> QED BY <2>2
<1>10. SignalsOK' /\ Known' = Known /\ \A f : Quiet(f)' <=> Quiet(f)
  BY <1>1, SignalsStay DEF SearchInv
<1>11. \A e : But(e)' = But(e)
  BY <1>1 DEF But
<1>12. Types'
  <2>1. \A i \in 1..n : messages'[i].rules \subseteq hashed'
    <3>1. hashed' = ok
      BY <1>4
    <3>2. \A i \in 1..n : order[i] \in ok
      BY <1>7
    <3> QED BY <1>8, <3>1, <3>2
  <2> QED BY <1>1, <1>2, <1>3, <1>4, <1>6, <1>9, <2>1 DEF Types, TypeOK
<1>13. Unstarted'
  BY <1>1 DEF Unstarted
<1>14. \A i \in 1..n : Held(messages[i])' = Held(messages'[i])
  BY DEF Held
<1>15. NamesOK'
  <2>1. ASSUME NEW f \in Folders \ But({"renamed", "deleted"}), f \notin exists
        PROVE  Quiet(f)' /\ Unheld(f)'
    <3>1. Quiet(f)'
      BY <1>10, <2>1 DEF SearchInv, NamesOK
    <3>2. \A i \in 1..n : f \notin Held(messages'[i])
      BY <1>2, <1>8, <2>1
    <3> QED BY <1>1, <1>2, <1>9, <1>14, <3>1, <3>2 DEF Unheld
  <2> QED BY <1>1, <1>2, <1>10, <1>11, <2>1 DEF NamesOK
<1>16. MatchesOK'
  <2>1. ASSUME NEW r \in Rules, NEW f \in Folders, ~Matches(r, f)' PROVE UnheldFor(r, f)'
    <3>1. ~OfKind(r, f) /\ f \notin sources[r]
      BY <1>1, <2>1 DEF Matches, OfKind
    <3>2. f \notin Available(r)
      BY <3>1 DEF Available
    <3>3. \A i \in 1..n : r \in messages'[i].rules => f \notin Held(messages'[i])
      BY <1>8, <3>2
    <3> QED BY <1>1, <1>2, <1>9, <1>14, <3>3 DEF UnheldFor
  <2> QED BY <2>1 DEF MatchesOK
<1>17. MessagesOK'
  <2>1. \A i \in 1..n : CutOK(messages[i])'
    BY <1>8, <1>14 DEF CutOK
  <2>2. \A i \in 1..n : messages'[i].kind # "add" /\ messages'[i].opened = {}
    BY <1>8
  <2> QED BY <1>1, <1>2, <1>9, <2>1, <2>2 DEF MessagesOK
<1>18. SetupsOK'
  <2>1. ASSUME NEW i \in 1..n, NEW r \in messages'[i].rules
        PROVE  members'[r] = {} /\ \A j \in 1..n : j < i => r \notin messages'[j].rules
    <3>1. r = order[i] /\ r \in Rules
      BY <1>6, <1>7, <1>8, <2>1
    <3>2. \A j \in 1..n : j < i => order[j] # order[i]
      BY <1>7
    <3> QED BY <1>1, <1>2, <1>8, <3>1, <3>2
  <2> QED BY <1>1, <1>2, <1>9, <2>1 DEF SetupsOK
<1>19. LeadsOK'
  <2> SUFFICES ASSUME NEW r \in rules' \cap hashed', NEW f \in Folders, Bound(r, f)'
               PROVE  Leads(r, f)'
    BY DEF LeadsOK
  <2>1. PICK k \in 1..n : order[k] = r
    BY <1>4, <1>7
  <2>2. /\ Quiet(f) /\ f \notin But({"renamed"})
        /\ f \in Known => (IF With[r] = "specific" THEN f \in sources[r] ELSE OfKind(r, f))
    <3>1. But({"renamed"}) \subseteq But({"failed", "renamed"})
      BY MoreExcuses
    <3> QED BY <1>1, <1>10, <1>11, <3>1 DEF Bound, Asked, OfKind
  <2>3. f \in uris <=> f \in Known
    BY <2>2 DEF SearchInv, SignalsOK, Announced
  <2>4. f \in Available(r) <=> f \in Known
    BY <2>2, <2>3 DEF Available
  <2>5. ASSUME NEW i \in 1..n, Concerns(messages'[i], r, f)
        PROVE  Gives(messages'[i], f) <=> f \in Known
    <3>1. order[i] = r
      BY <1>8, <2>5 DEF Concerns
    <3> QED BY <1>8, <2>4, <3>1 DEF Gives
  <2>6. Concerns(messages'[k], r, f)
    BY <1>8, <2>1 DEF Concerns
  <2> QED BY <1>9, <1>10, <2>5, <2>6 DEF Leads, LastMessage, NoMessage, Concerns, Gives, Held
<1> QED BY <1>10, <1>12, <1>13, <1>15, <1>16, <1>17, <1>18, <1>19 DEF SearchInv

-----------------------------------------------------------------------------
(* A signal is heard.                                                      *)

LEMMA HeardSignal ==
  ASSUME SearchInv, Hear
  PROVE  LET u == Head(signals)
         IN  /\ signals # <<>> /\ u \in SignalTypes /\ signals' \in Seq(SignalTypes)
             /\ u = signals[1] /\ 1 \in DOMAIN signals
             /\ UNCHANGED <<known, exists, loaded, rules, hashed, members, running, history>>
             /\ heard' \in Tables /\ uris' \subseteq Folders
             /\ Known' = Known /\ SignalsOK'
             /\ \A f : Quiet(f) => Quiet(f)' /\ f # Of(u)
             /\ \A f : Quiet(f)' => Quiet(f) \/ LastSignal(1, f)
<1> DEFINE u == Head(signals)
           n == Len(signals)
<1>1. /\ signals # <<>> /\ signals' = Tail(signals) /\ heard' = After(heard, u)
      /\ UNCHANGED <<known, exists, loaded, rules, hashed, members, running, history>>
      /\ Recorded(u)
  BY DEF Hear, Tell
<1>2. /\ n \in Nat /\ n >= 1 /\ DOMAIN signals = 1..n /\ u = signals[1] /\ u \in SignalTypes
      /\ signals' \in Seq(SignalTypes) /\ DOMAIN signals' = 1..n - 1
      /\ \A i \in 1..n - 1 : signals'[i] = signals[i + 1]
  BY <1>1 DEF SearchInv, Types
<1>3. heard \in Tables /\ uris \subseteq Folders
  BY DEF SearchInv, Types, TypeOK, Tables
<1> HIDE DEF u, n
<1>4. /\ u.kind \in {"available", "unavailable", "deleted", "renamed"}
      /\ u.store \in Stores /\ u.name \in Names /\ u.old \in Names /\ Of(u) \in Folders
  BY <1>2 DEF SignalTypes, Of, Folders
<1>5. heard' \in Tables
  <2>1. \A S \in SUBSET Names : /\ S \cup {u.name} \in SUBSET Names /\ S \ {u.name} \in SUBSET Names
                                /\ (S \ {u.old}) \cup {u.name} \in SUBSET Names
    BY <1>4
  <2> QED BY <1>1, <1>3, <1>4, <2>1 DEF After, Tables
<1>6. /\ uris' \subseteq Folders
      /\ \A f : f # Of(u) => (f \in uris' <=> f \in uris)
      /\ u.kind # "renamed" => (Of(u) \in uris' <=> u.kind = "available")
  BY <1>1, <1>3, <1>4 DEF Recorded, Of
<1>7. Known' = Known
  BY <1>1 DEF Known
<1>8. \A e : But(e)' = But(e)
  BY <1>1 DEF But
<1>9. 1 \in 1..n /\ \A i \in 1..n - 1 : i + 1 \in 1..n
  BY <1>2
<1>10. ASSUME NEW j \in 1..n, NEW i \in 0..n - 1, j > i + 1
       PROVE  j - 1 \in 1..n - 1 /\ j - 1 > i /\ signals'[j - 1] = signals[j]
  <2>1. j - 1 \in 1..n - 1 /\ j - 1 > i /\ (j - 1) + 1 = j
    BY <1>2, <1>10
  <2> QED BY <1>2, <2>1
<1>11. ASSUME NEW f, Quiet(f) PROVE Quiet(f)' /\ f # Of(u)
  <2>1. \A i \in 1..n - 1 : Of(signals'[i]) # f
    BY <1>2, <1>9, <1>11 DEF Quiet
  <2> QED BY <1>2, <1>9, <1>11, <2>1 DEF Quiet, Of
<1>12. ASSUME NEW f, Quiet(f)' PROVE Quiet(f) \/ LastSignal(1, f)
  <2>1. \A i \in 1..n - 1 : Of(signals'[i]) # f
    BY <1>2, <1>12 DEF Quiet, Of
  <2>2. ASSUME NEW j \in 1..n, j > 1 PROVE Of(signals[j]) # f
    <3>1. 0 \in 0..n - 1 /\ j > 0 + 1
      BY <1>2, <2>2
    <3> QED BY <1>10, <2>1, <3>1
  <2>3. \A j \in 1..n : j = 1 \/ j > 1
    BY <1>2
  <2> QED BY <1>2, <1>9, <2>2, <2>3 DEF Quiet, LastSignal
<1>13. ASSUME NEW f \in Folders \ But({"renamed"}) PROVE Announced(f)'
  <2>0. Announced(f)
    BY DEF SearchInv, SignalsOK
  <2>1. ASSUME NEW i \in 1..n - 1, LastSignal(i, f)'
        PROVE  signals'[i].kind = "available" <=> f \in Known
    <3>1. Of(signals[i + 1]) = f
      BY <1>2, <2>1 DEF LastSignal, Of
    <3>2. ASSUME NEW j \in 1..n, j > i + 1 PROVE Of(signals[j]) # f
      <4>1. i \in 0..n - 1
        BY <1>2
      <4>2. \A h \in 1..n - 1 : h > i => Of(signals'[h]) # f
        BY <1>2, <2>1 DEF LastSignal, Of
      <4> QED BY <1>10, <3>2, <4>1, <4>2
    <3>3. LastSignal(i + 1, f)
      BY <1>2, <1>9, <3>1, <3>2 DEF LastSignal
    <3> QED BY <1>2, <1>9, <2>0, <3>3 DEF Announced
  <2>2. ASSUME Quiet(f)' PROVE f \in uris' <=> f \in Known
    <3>1. CASE Quiet(f)
      BY <1>6, <1>11, <2>0, <3>1 DEF Announced
    <3>2. CASE LastSignal(1, f)
      <4>1. u.kind = "available" <=> f \in Known
        BY <1>2, <1>9, <2>0, <3>2 DEF Announced
      <4>2. f = Of(u)
        BY <1>2, <3>2 DEF LastSignal
      <4>3. u.kind # "renamed"
        BY <1>2, <1>9, <4>2 DEF SearchInv, SignalsOK
      <4> QED BY <1>6, <4>1, <4>2, <4>3
    <3> QED BY <1>12, <2>2, <3>1, <3>2
  <2> QED BY <1>2, <1>7, <2>1, <2>2 DEF Announced
<1>14. SignalsOK'
  <2>1. \A i \in 1..n - 1 :
          LET x == signals'[i]
          IN  /\ x.kind = "deleted" => Of(x) \in But({"deleted"})
              /\ x.kind = "renamed" =>
                   Of(x) \in But({"renamed"}) /\ <<x.store, x.old>> \in But({"renamed"})
    BY <1>2, <1>9 DEF SearchInv, SignalsOK
  <2> QED BY <1>2, <1>8, <1>13, <2>1 DEF SignalsOK, Of
<1> QED BY <1>1, <1>2, <1>5, <1>6, <1>7, <1>9, <1>11, <1>12, <1>14 DEF u

\* The rules change when a folder is deleted or renamed, and then for it only.
LEMMA HeardSources ==
  ASSUME SearchInv, Hear
  PROVE  LET u == Head(signals)
         IN  /\ sources' \in [Rules -> SUBSET Folders]
             /\ u.kind \in {"available", "unavailable"} => sources' = sources
             /\ \A r \in Rules, f \in Folders :
                  /\ f \in sources'[r] => f \in sources[r] \/ f = Of(u)
                  /\ f \in sources[r] =>
                       f \in sources'[r] \/ f \in But({"renamed", "deleted"})
<1> DEFINE u == Head(signals)
           old == <<u.store, u.old>>
           RD == {"renamed", "deleted"}
<1>1. sources \in [Rules -> SUBSET Folders]
  BY DEF SearchInv, Types, TypeOK
<1>2. u \in SignalTypes /\ u = signals[1] /\ 1 \in DOMAIN signals
  BY HeardSignal
<1>3. /\ u.kind = "deleted" => Of(u) \in But(RD)
      /\ u.kind = "renamed" => Of(u) \in But(RD) /\ old \in But(RD)
  <2>1. /\ u.kind = "deleted" => Of(u) \in But({"deleted"})
        /\ u.kind = "renamed" => Of(u) \in But({"renamed"}) /\ old \in But({"renamed"})
    BY <1>2 DEF SearchInv, SignalsOK
  <2> QED BY <2>1, MoreExcuses
<1> HIDE DEF u, RD
<1>4. Of(u) \in Folders /\ Of(u) = <<u.store, u.name>>
      /\ u.kind \in {"available", "unavailable", "deleted", "renamed"}
  BY <1>2 DEF SignalTypes, Of, Folders
<1> DEFINE swap(r) == CASE u.kind = "deleted" -> RemoveSource(r, Of(u))
                        [] u.kind = "renamed" /\ old \in sources[r] ->
                             RemoveSource(r, old) \cup {Of(u)}
                        [] OTHER -> sources[r]
<1>5. \/ sources' = sources
      \/ sources' = [r \in Rules |-> IF r \in rules \cap hashed THEN swap(r) ELSE sources[r]]
  BY <1>4 DEF Hear, HearDeletedRenamed, u
<1>6. ASSUME NEW r \in Rules
      PROVE  /\ swap(r) \subseteq Folders
             /\ u.kind \in {"available", "unavailable"} => swap(r) = sources[r]
             /\ \A f \in swap(r) : f \in sources[r] \/ f = Of(u)
             /\ \A f \in sources[r] : f \in swap(r) \/ f \in But(RD)
  <2>1. sources[r] \subseteq Folders
    BY <1>1
  <2>2. CASE u.kind = "deleted"
    <3>1. swap(r) = sources[r] \ {Of(u)}
      BY <2>2 DEF RemoveSource
    <3> HIDE DEF swap
    <3> QED BY <1>3, <2>1, <2>2, <3>1
  <2>3. CASE u.kind = "renamed" /\ old \in sources[r]
    <3>1. swap(r) = (sources[r] \ {old}) \cup {Of(u)}
      BY <2>3 DEF RemoveSource
    <3> HIDE DEF swap, old
    <3> QED BY <1>3, <1>4, <2>1, <2>3, <3>1
  <2>4. CASE ~(u.kind = "deleted") /\ ~(u.kind = "renamed" /\ old \in sources[r])
    <3>1. swap(r) = sources[r]
      BY <2>4
    <3> HIDE DEF swap
    <3> QED BY <2>1, <3>1
  <2> QED BY <2>2, <2>3, <2>4
<1> HIDE DEF swap
<1>7. ASSUME NEW r \in Rules PROVE sources'[r] \in {swap(r), sources[r]}
  BY <1>1, <1>5
<1>8. sources' \in [Rules -> SUBSET Folders]
  BY <1>1, <1>5, <1>6
<1>9. u.kind \in {"available", "unavailable"} => sources' = sources
  <2> SUFFICES ASSUME u.kind \in {"available", "unavailable"} PROVE sources' = sources
    OBVIOUS
  <2>1. \A r \in Rules : sources'[r] = sources[r]
    BY <1>6, <1>7
  <2> QED BY <1>1, <1>8, <2>1
<1>10. ASSUME NEW r \in Rules, NEW f \in Folders
       PROVE  /\ f \in sources'[r] => f \in sources[r] \/ f = Of(u)
              /\ f \in sources[r] => f \in sources'[r] \/ f \in But(RD)
  BY <1>6, <1>7
<1> QED BY <1>8, <1>9, <1>10 DEF u, RD

LEMMA HearOK ==
  ASSUME SearchInv, Hear
  PROVE  SearchInv'
<1> DEFINE u == Head(signals)
           g == Of(u)
           n == Len(messages)
           rs == {r \in rules \cap hashed : Matches(r, g)}
           kind == IF u.kind = "available" THEN "add" ELSE "remove"
           adds == loaded /\ rs # {} /\ u.kind \in {"available", "unavailable"}
           m == Message(kind, rs, {g})
<1>1. /\ u \in SignalTypes /\ signals' \in Seq(SignalTypes) /\ u = signals[1] /\ 1 \in DOMAIN signals
      /\ UNCHANGED <<known, exists, loaded, rules, hashed, members, running, history>>
      /\ heard' \in Tables /\ uris' \subseteq Folders
      /\ Known' = Known /\ SignalsOK'
      /\ \A f : Quiet(f) => Quiet(f)' /\ f # g
      /\ \A f : Quiet(f)' => Quiet(f) \/ LastSignal(1, f)
  BY HeardSignal
<1>2. /\ sources' \in [Rules -> SUBSET Folders]
      /\ u.kind \in {"available", "unavailable"} => sources' = sources
      /\ \A r \in Rules, f \in Folders :
           /\ f \in sources'[r] => f \in sources[r] \/ f = g
           /\ f \in sources[r] => f \in sources'[r] \/ f \in But({"renamed", "deleted"})
  BY HeardSources
<1>3. IF adds THEN messages' = Append(messages, m) ELSE messages' = messages
  BY DEF Hear, HearAddRemove, Of
<1>4. g \in Folders /\ u.kind \in {"available", "unavailable", "deleted", "renamed"}
  BY <1>1 DEF SignalTypes, Of, Folders
<1>5. Types /\ rules \subseteq Rules /\ hashed \subseteq Rules /\ rs \subseteq rules \cap hashed
  BY DEF SearchInv, Types, TypeOK
<1>6. /\ m \in Messages /\ m.kind = kind /\ kind \in {"add", "remove"} /\ m.rules = rs
      /\ m.folders = {g} /\ m.opened = {} /\ ~m.cancelled /\ Held(m) = {g}
  BY <1>4, <1>5 DEF Message, Messages, Held
<1>7. /\ n \in Nat /\ DOMAIN messages = 1..n /\ messages \in Seq(Messages)
      /\ \A i \in 1..n : messages[i] \in Messages
  BY <1>5 DEF Types, TypeOK
<1> DEFINE n2 == IF adds THEN n + 1 ELSE n
<1>8. /\ messages' \in Seq(Messages) /\ DOMAIN messages' = 1..n2
      /\ \A i \in 1..n : messages'[i] = messages[i]
      /\ adds => messages'[n + 1] = m
  <2> HIDE DEF m, adds
  <2> QED BY <1>3, <1>6, <1>7
<1> HIDE DEF m, u, n
<1>9. /\ \A i \in 1..n : i \in 1..n2
      /\ \A i \in 1..n2 : i \in 1..n \/ (adds /\ i = n + 1)
      /\ adds => n + 1 \in 1..n2 /\ \A i \in 1..n2 : i <= n + 1
      /\ \A i \in 1..n : i # n + 1 /\ n + 1 > i
  BY <1>7
<1> HIDE DEF n2, adds, rs, kind, g
<1>10. \A e : But(e)' = But(e)
  BY <1>1 DEF But
<1>11. \A i \in 1..n2 : Held(messages[i])' = Held(messages'[i])
  BY DEF Held
<1>12. Types'
  <2>1. \A i \in 1..n : messages[i].rules \subseteq hashed
    BY <1>5, <1>7 DEF Types, TypeOK
  <2>2. \A i \in 1..n2 : messages'[i].rules \subseteq hashed
    BY <1>5, <1>6, <1>8, <1>9, <2>1
  <2>3. \A i \in DOMAIN messages' : messages'[i].rules \subseteq hashed'
    BY <1>1, <1>8, <2>2
  <2> QED BY <1>1, <1>2, <1>8, <2>3 DEF SearchInv, Types, TypeOK, Tables
<1>13. Unstarted'
  BY <1>1, <1>3 DEF SearchInv, Unstarted, adds
<1>14. NamesOK'
  <2>1. ASSUME NEW f \in Folders \ But({"renamed", "deleted"}), f \notin exists
        PROVE  Quiet(f)' /\ Unheld(f)'
    <3>1. Quiet(f)' /\ Unheld(f) /\ f # g
      BY <1>1, <2>1 DEF SearchInv, NamesOK
    <3>2. \A i \in 1..n2 : f \notin Held(messages'[i])
      BY <1>6, <1>7, <1>8, <1>9, <3>1 DEF Unheld
    <3> QED BY <1>1, <1>8, <1>11, <3>1, <3>2 DEF Unheld, Held
  <2> QED BY <1>1, <1>10, <2>1 DEF SearchInv, NamesOK
<1>15. MatchesOK'
  <2>1. ASSUME NEW r \in Rules, NEW f \in Folders \ But({"renamed", "deleted"}), ~Matches(r, f)'
        PROVE  UnheldFor(r, f)'
    <3>1. ~OfKind(r, f) /\ f \notin sources'[r]
      BY <2>1 DEF Matches, OfKind
    <3>2. ~Matches(r, f)
      BY <1>2, <2>1, <3>1 DEF Matches
    <3>3. UnheldFor(r, f)
      BY <2>1, <3>2 DEF SearchInv, MatchesOK
    <3>4. r \in m.rules => f \notin Held(m)
      BY <1>6, <3>2 DEF rs
    <3>5. \A i \in 1..n2 : r \in messages'[i].rules => f \notin Held(messages'[i])
      BY <1>7, <1>8, <1>9, <3>3, <3>4 DEF UnheldFor
    <3> QED BY <1>1, <1>8, <1>11, <3>3, <3>5 DEF UnheldFor, Held
  <2> QED BY <1>10, <2>1 DEF MatchesOK
<1>16. MessagesOK'
  <2>1. \A i \in 1..n : /\ messages[i].opened = {} /\ CutOK(messages[i])
                        /\ messages[i].kind = "add" => \E f \in Folders : messages[i].folders = {f}
    BY <1>7 DEF SearchInv, MessagesOK
  <2>2. m.opened = {} /\ CutOK(m) /\ \E f \in Folders : m.folders = {f}
    BY <1>4, <1>6 DEF CutOK
  <2>3. \A i \in 1..n2 :
           /\ messages'[i].opened = {} /\ CutOK(messages'[i])
           /\ messages'[i].kind = "add" => \E f \in Folders : messages'[i].folders = {f}
    BY <1>8, <1>9, <2>1, <2>2
  <2>4. \A x : CutOK(x) <=> (x.cancelled => Held(x) \subseteq But({"failed", "renamed"})')
    BY <1>10 DEF CutOK
  <2>5. running # None => CutOK(running)
    BY DEF SearchInv, MessagesOK
  <2> QED BY <1>1, <1>8, <2>3, <2>4, <2>5 DEF MessagesOK, CutOK, Held
<1>17. SetupsOK'
  <2>1. SetupsOK
    BY DEF SearchInv
  <2>2. ASSUME NEW i \in 1..n2, messages'[i].kind = "setup", NEW r \in messages'[i].rules
        PROVE  /\ members'[r] = {} /\ (running' # None => r \notin running'.rules)
               /\ \A j \in 1..n2 : j < i => r \notin messages'[j].rules
    <3>1. i \in 1..n /\ messages'[i] = messages[i]
      BY <1>6, <1>8, <1>9, <2>2
    <3>2. /\ members[r] = {} /\ (running # None => r \notin running.rules)
          /\ \A j \in 1..n : j < i => r \notin messages[j].rules
      BY <1>7, <2>1, <2>2, <3>1 DEF SetupsOK
    <3>3. \A j \in 1..n2 : j < i => j \in 1..n
      BY <1>7, <1>9, <3>1
    <3> QED BY <1>1, <1>8, <3>2, <3>3
  <2> QED BY <1>1, <1>8, <2>1, <2>2 DEF SetupsOK
<1>18. LeadsOK'
  <2> SUFFICES ASSUME NEW r \in rules \cap hashed, NEW f \in Folders, Bound(r, f)'
               PROVE  Leads(r, f)'
    BY <1>1 DEF LeadsOK
  <2>1. /\ Quiet(f)' /\ f \notin But({"failed", "renamed"}) /\ f \notin But({"renamed"})
        /\ f \notin Known => f \notin But({"deleted"})
        /\ f \in Known =>
             (IF With[r] = "specific" THEN f \in sources'[r] ELSE OfKind(r, f))
    <3>1. But({"renamed"}) \subseteq But({"failed", "renamed"})
      BY MoreExcuses
    <3> QED BY <1>1, <1>10, <3>1 DEF Bound, Asked, OfKind
  <2>2. r \in Rules
    BY <1>5
  \* What is to be shown, of the messages as they are then.
  <2> DEFINE Right(x) == Gives(x, f) <=> f \in Known
  <2>3. SUFFICES /\ \A i \in 1..n2 :
                      Concerns(messages'[i], r, f) =>
                        \/ Right(messages'[i])
                        \/ \E j \in 1..n2 : j > i /\ Concerns(messages'[j], r, f)
                 /\ (\A i \in 1..n2 : ~Concerns(messages'[i], r, f)) =>
                      /\ running # None /\ Concerns(running, r, f) => Right(running)
                      /\ (running # None => ~Concerns(running, r, f)) =>
                           (f \in members[r] <=> f \in Known)
    <3>1. \A i \in 1..n2 : (LastMessage(i, r, f)' <=>
            /\ Concerns(messages'[i], r, f)
            /\ \A j \in 1..n2 : j > i => ~Concerns(messages'[j], r, f))
      BY <1>8 DEF LastMessage, Concerns, Held
    <3>2. NoMessage(r, f)' <=> \A i \in 1..n2 : ~Concerns(messages'[i], r, f)
      BY <1>8 DEF NoMessage, Concerns, Held
    <3> QED BY <1>1, <1>8, <2>3, <3>1, <3>2 DEF Leads, Concerns, Gives, Held
  <2>4. CASE f # g
    <3>1. Quiet(f)
      BY <1>1, <2>1, <2>4 DEF LastSignal, g
    <3>2. f \in sources'[r] => f \in sources[r]
      BY <1>2, <2>2, <2>4
    <3>3. Bound(r, f)
      BY <2>1, <3>1, <3>2 DEF Bound, Asked
    <3>4. Leads(r, f)
      BY <3>3 DEF SearchInv, LeadsOK
    <3>5. ~Concerns(m, r, f)
      BY <1>6, <2>4 DEF Concerns
    <3>6. ASSUME NEW i \in 1..n2, Concerns(messages'[i], r, f),
                 \A j \in 1..n2 : j > i => ~Concerns(messages'[j], r, f)
          PROVE  Right(messages'[i])
      <4>1. i \in 1..n /\ messages'[i] = messages[i]
        BY <1>8, <1>9, <3>5, <3>6
      <4>2. LastMessage(i, r, f)
        BY <1>7, <1>8, <1>9, <3>6, <4>1 DEF LastMessage
      <4> QED BY <1>7, <3>4, <4>1, <4>2 DEF Leads
    <3>7. ASSUME \A i \in 1..n2 : ~Concerns(messages'[i], r, f) PROVE NoMessage(r, f)
      BY <1>7, <1>8, <1>9, <3>7 DEF NoMessage
    <3> QED BY <3>4, <3>6, <3>7 DEF Leads
  <2>5. CASE f = g
    <3>1. ~Quiet(f)
      BY <1>1, <2>5
    <3>2. LastSignal(1, f)
      BY <1>1, <2>1, <3>1
    <3>3. u.kind = "available" <=> f \in Known
      BY <1>1, <2>1, <3>2 DEF SearchInv, SignalsOK, Announced
    <3>4. u.kind # "renamed" /\ (u.kind = "deleted" => f \in But({"deleted"}))
      BY <1>1, <2>1, <2>5 DEF SearchInv, SignalsOK, g
    <3>5. u.kind \in {"available", "unavailable"} /\ sources' = sources
      BY <1>2, <1>4, <2>1, <3>3, <3>4
    <3>6. loaded
      BY <1>5 DEF SearchInv, Unstarted
    <3>7. CASE Matches(r, f)
      <4>1. adds /\ r \in m.rules
        BY <1>6, <2>5, <3>5, <3>6, <3>7 DEF adds, rs
      <4>2. Concerns(m, r, f) /\ Right(m)
        BY <1>6, <2>5, <3>3, <4>1 DEF Concerns, Gives, kind
      <4> HIDE DEF Right
      <4>3. /\ n + 1 \in 1..n2 /\ messages'[n + 1] = m
            /\ \A i \in 1..n2 : i = n + 1 \/ n + 1 > i
        BY <1>8, <1>9, <4>1
      <4>4. \A i \in 1..n2 : Right(messages'[i]) \/ (n + 1 > i /\ Concerns(messages'[n + 1], r, f))
        BY <4>2, <4>3
      <4> QED BY <4>2, <4>3, <4>4
    <3>8. CASE ~Matches(r, f)
      <4>1. f \notin Known
        BY <2>1, <3>5, <3>8 DEF Matches
      <4>2. f \notin But({"renamed", "deleted"})
        BY <2>1, <4>1 DEF But
      <4>3. UnheldFor(r, f)
        BY <2>2, <3>8, <4>2 DEF SearchInv, MatchesOK
      <4>4. r \notin m.rules
        BY <1>6, <2>5, <3>8 DEF rs
      <4>5. \A i \in 1..n2 : Concerns(messages'[i], r, f) => ~Gives(messages'[i], f)
        BY <1>7, <1>8, <1>9, <4>3, <4>4 DEF Concerns, Gives, UnheldFor
      <4>6. /\ running # None /\ Concerns(running, r, f) => ~Gives(running, f)
            /\ f \notin members[r]
        BY <4>3 DEF Concerns, Gives, UnheldFor
      <4> QED BY <4>1, <4>5, <4>6
    <3> QED BY <3>7, <3>8
  <2> QED BY <2>4, <2>5
<1> QED BY <1>1, <1>12, <1>13, <1>14, <1>15, <1>16, <1>17, <1>18 DEF SearchInv

-----------------------------------------------------------------------------
(* The theorems.                                                           *)

LEMMA SearchInit == Init => SearchInv
<1> SUFFICES ASSUME Init PROVE SearchInv
  OBVIOUS
<1>1. /\ known = [s \in Stores |-> {}] /\ heard = [s \in Stores |-> {}] /\ signals = <<>>
      /\ exists = {} /\ uris = {} /\ loaded = FALSE /\ rules = {} /\ hashed = {}
      /\ sources = Sources /\ members = [r \in Rules |-> {}] /\ messages = <<>>
      /\ running = None /\ history = {}
  BY DEF Init, SignalsInit
<1>2. Known = {} /\ \A f : Quiet(f) /\ (\A r \in Rules : UnheldFor(r, f)) /\ Unheld(f)
  <2>1. Known = {}
    BY <1>1 DEF Known, Folders
  <2>2. DOMAIN signals = {} /\ DOMAIN messages = {}
    BY <1>1
  <2> QED BY <1>1, <2>1, <2>2 DEF Quiet, UnheldFor, Unheld
<1>3. Types
  <2>1. known \in [Stores -> SUBSET Names] /\ heard \in [Stores -> SUBSET Names]
    BY <1>1
  <2>2. signals \in Seq(SignalTypes)
    BY <1>1
  <2>3. messages \in Seq(Messages) /\ DOMAIN messages = {}
    BY <1>1
  <2>4. sources \in [Rules -> SUBSET Folders]
    BY <1>1, VFolderAssumption
  <2>5. members \in [Rules -> SUBSET Folders]
    BY <1>1
  <2>6. exists \subseteq Folders /\ uris \subseteq Folders /\ loaded \in BOOLEAN
        /\ rules \subseteq Rules /\ hashed \subseteq Rules
        /\ history \subseteq Folders \X Excuses
    BY <1>1
  <2> QED BY <1>1, <2>1, <2>2, <2>3, <2>4, <2>5, <2>6 DEF Types, TypeOK
<1>4. SignalsOK
  <2>1. DOMAIN signals = {}
    BY <1>1
  <2> QED BY <1>1, <1>2, <2>1 DEF SignalsOK, Announced
<1>5. Unstarted /\ NamesOK /\ MatchesOK
  BY <1>1, <1>2 DEF Unstarted, NamesOK, MatchesOK
<1>6. MessagesOK /\ SetupsOK
  <2>1. DOMAIN messages = {}
    BY <1>1
  <2> QED BY <1>1, <2>1 DEF MessagesOK, SetupsOK
<1>7. LeadsOK
  BY <1>1 DEF LeadsOK
<1> QED BY <1>3, <1>4, <1>5, <1>6, <1>7 DEF SearchInv

LEMMA SearchStays == SearchInv /\ UNCHANGED vars => SearchInv'
<1> SUFFICES ASSUME SearchInv, UNCHANGED vars PROVE SearchInv'
  OBVIOUS
<1>1. UNCHANGED <<known, heard, signals, exists, uris, loaded, rules, hashed, sources, members,
                  messages, running, history>>
  BY DEF vars, cacheVars, ruleVars, workVars
<1>2. SignalsOK' /\ Known' = Known /\ \A f : Quiet(f)' <=> Quiet(f)
  BY <1>1, SignalsStay DEF SearchInv
<1>3. \A e : But(e)' = But(e)
  BY <1>1 DEF But
<1>4. Types' /\ Unstarted'
  BY <1>1 DEF SearchInv, Types, TypeOK, Unstarted
<1>5. NamesOK' /\ MatchesOK' /\ MessagesOK' /\ SetupsOK'
  BY <1>1, <1>2, <1>3
     DEF SearchInv, NamesOK, MatchesOK, MessagesOK, SetupsOK, Unheld, UnheldFor, Held,
         Matches, OfKind, CutOK
<1>6. LeadsOK'
  <2>1. \A q, f : (Bound(q, f)' <=> Bound(q, f)) /\ (Leads(q, f)' <=> Leads(q, f))
    BY <1>1, <1>2, <1>3
       DEF Bound, Asked, OfKind, Leads, LastMessage, NoMessage, Concerns, Gives, Held
  <2> QED BY <1>1, <2>1 DEF SearchInv, LeadsOK
<1> QED BY <1>2, <1>4, <1>5, <1>6 DEF SearchInv

LEMMA SearchNext == SearchInv /\ [Next]_vars => SearchInv'
<1> SUFFICES ASSUME SearchInv, [Next]_vars PROVE SearchInv'
  OBVIOUS
<1>1. CASE StoreStep
  <2>1. ASSUME NEW s \in Stores, NEW names \in Renames, Renamed(s, names[1], names[2])
        PROVE  SearchInv'
    <3>1. names[1] \in Names /\ names[2] \in Names
      BY VFolderAssumption
    <3> QED BY <2>1, <3>1, RenamedOK
  <2> QED BY <1>1, <2>1, AppearsOK, DeletedOK, WithdrawnOK DEF StoreStep
<1>2. CASE Load
  BY <1>2, LoadOK
<1>3. CASE Hear
  BY <1>3, HearOK
<1>4. CASE \E r \in Rules : RuleGoes(r)
  BY <1>4, RuleGoesOK
<1>5. CASE Work
  BY <1>5, BeginOK, FinishOK, OpenOK DEF Work
<1>6. CASE CancelAll
  BY <1>6, CancelAllOK
<1>7. CASE UNCHANGED vars
  BY <1>7, SearchStays
<1> QED BY <1>1, <1>2, <1>3, <1>4, <1>5, <1>6, <1>7 DEF Next

LEMMA SearchInvariant == Spec => []SearchInv
BY SearchInit, SearchNext, PTL DEF Spec

\* The rules, the messages and what is searched keep the forms of
\* mail-vfolder.c; in particular no message is for a rule whose search folder
\* could not be opened.
THEOREM TypeCorrect == Spec => []TypeOK
<1>1. SearchInv => TypeOK
  BY DEF SearchInv, Types
<1> QED
  BY <1>1, SearchInvariant, PTL

LEMMA SettledIsLed ==
  ASSUME SearchInv, Settled, NEW r \in rules \cap hashed, NEW f \in Folders,
         f \notin But({"failed", "renamed"}),
         IF f \in Known THEN f \in Asked(r) ELSE f \notin But({"deleted"})
  PROVE  f \in members[r] <=> f \in Known
<1>1. DOMAIN signals = {} /\ DOMAIN messages = {} /\ running = None
  BY DEF Settled
<1>2. Bound(r, f)
  BY <1>1 DEF Bound, Quiet
<1>3. Leads(r, f)
  BY <1>2 DEF SearchInv, LeadsOK
<1> QED BY <1>1, <1>3 DEF Leads, NoMessage

\* When signals and messages have been worked off, each search folder searches
\* every folder of the cache that its rule asks for and that has opened and
\* kept its name: whatever came, went and came back in between, be it before
\* the rules were loaded or while a message for the folder was under way.
THEOREM AllIsSearched == Spec => []SearchesAllItShould
<1>1. SearchInv => SearchesAllItShould
  <2> SUFFICES ASSUME SearchInv, Settled, NEW r \in rules \cap hashed,
                      NEW f \in Asked(r) \ But({"failed", "renamed"})
               PROVE  f \in members[r]
    BY DEF SearchesAllItShould
  <2>1. f \in Known /\ f \in Folders
    BY DEF Asked, Known
  <2> QED BY <2>1, SettledIsLed
<1> QED
  BY <1>1, SearchInvariant, PTL

\* It then searches no folder that its rule does not match, and none that has
\* left the cache, with the same exceptions and that of a name in use anew.
THEOREM NothingElseIsSearched == Spec => []SearchesNothingElse
<1>1. SearchInv => SearchesNothingElse
  <2> SUFFICES ASSUME SearchInv, Settled, NEW r \in rules \cap hashed,
                      NEW f \in members[r] \ But({"failed", "renamed", "deleted"})
               PROVE  f \in Wanted(r)
    BY DEF SearchesNothingElse
  <2>1. /\ f \notin But({"failed", "renamed"}) /\ f \notin But({"renamed", "deleted"})
        /\ f \notin But({"deleted"})
    BY MoreExcuses
  <2>2. r \in Rules /\ f \in Folders
    BY DEF SearchInv, Types, TypeOK
  <2>3. Matches(r, f)
    BY <2>1, <2>2 DEF SearchInv, MatchesOK, UnheldFor
  <2>4. f \in Known
    BY <2>1, <2>2, SettledIsLed
  <2> QED BY <2>3, <2>4 DEF Wanted, Matches
<1> QED
  BY <1>1, SearchInvariant, PTL
=============================================================================
