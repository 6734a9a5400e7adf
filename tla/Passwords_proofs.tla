-------------------------- MODULE Passwords_proofs --------------------------
(* No password request is left in the queue with nobody coming for it, for *)
(* any number of threads, nested calls and keys.                           *)
EXTENDS Passwords, FiniteSetTheorems, WellFoundedInduction, TLAPS

\* What QueueIsServed needs of the rest: sources counts, so one that is
\* dispatched was attached.
Inv == sources \in Nat /\ QueueIsServed

LEMMA InitInv == Init => Inv
  BY DEF Init, Inv, QueueIsServed

\* A thread that finds no idle id attaches a source (ep_msg_send).
LEMMA SendInv ==
    ASSUME Inv, NEW r \in Callers, Send(r)
    PROVE  Inv'
<1>1. sources' \in Nat /\ UNCHANGED <<drain, dialog>>
  BY DEF Inv, Send
<1>2. idleId => sources > 0 \/ drain
  BY DEF Inv, QueueIsServed
<1>3. sources' > 0 \/ drain'
  <2>1. CASE idleId
    BY <2>1, <1>1, <1>2 DEF Send
  <2>2. CASE ~idleId
    BY <2>2 DEF Send, Inv
  <2> QED
    BY <2>1, <2>2
<1> QED
  BY <1>1, <1>3 DEF Inv, QueueIsServed

\* The main thread runs the queue itself unless the id says that a source
\* will, and then there is one: it is not in the loop at that time.
LEMMA SendMainInv ==
    ASSUME Inv, NEW r \in Callers, SendMain(r)
    PROVE  Inv'
<1>1. UNCHANGED <<idleId, sources, dialog>> /\ ~drain /\ drain' = ~idleId
  BY DEF SendMain
<1>2. idleId => sources > 0
  BY <1>1 DEF Inv, QueueIsServed
<1>3. sources' > 0 \/ drain'
  BY <1>1, <1>2
<1> QED
  BY <1>1, <1>3 DEF Inv, QueueIsServed

\* A message that is taken leaves the loop running (ep_idle_dispatch); an
\* operation that puts up a dialog only adds to who comes for the queue.
LEMMA DrainInv ==
    ASSUME Inv, Drain
    PROVE  Inv'
<1>1. UNCHANGED <<sources, drain>> /\ drain
  BY DEF Drain
<1> QED
  BY <1>1 DEF Inv, QueueIsServed

\* The loop ends at a dialog or an empty queue, and clears the id: a source
\* that is still attached is then one too many, never one too few.
LEMMA DrainEndInv ==
    ASSUME Inv, DrainEnd
    PROVE  Inv'
<1>1. UNCHANGED <<sources, queue, dialog>> /\ idleId' = FALSE
  BY DEF DrainEnd
<1>2. queue = <<>> \/ dialog # NoWord
  BY DEF DrainEnd
<1> QED
  BY <1>1, <1>2 DEF Inv, QueueIsServed

LEMMA NextInv == Inv /\ [Next]_vars => Inv'
<1> SUFFICES ASSUME Inv, [Next]_vars PROVE Inv'
  OBVIOUS
<1>1. ASSUME NEW r \in Callers, Send(r) \/ SendMain(r) \/ Return(r)
      PROVE  Inv'
  <2>1. CASE Return(r)
    BY <2>1 DEF Return, Inv, QueueIsServed
  <2> QED
    BY <1>1, <2>1, SendInv, SendMainInv
<1>2. CASE IdleDispatch
  BY <1>2 DEF IdleDispatch, Inv, QueueIsServed
<1>3. CASE Drain \/ DrainEnd
  BY <1>3, DrainInv, DrainEndInv
<1>4. CASE UserAnswers
  <2>1. drain' /\ sources' = sources
    BY <1>4 DEF UserAnswers, Response
  <2> QED
    BY <2>1 DEF Inv, QueueIsServed
<1>5. CASE ReturnMain
  BY <1>5 DEF ReturnMain, Inv, QueueIsServed
<1>6. CASE UNCHANGED vars
  BY <1>6 DEF vars, Inv, QueueIsServed
<1>7. CASE Finished
  BY <1>6, <1>7 DEF Finished
<1> QED
  BY <1>1, <1>2, <1>3, <1>4, <1>5, <1>6, <1>7 DEF Next, MainLoop

\* However threads queue requests, calls nest in the main thread and dialogs
\* come and go, a queued request has a dialog, an idle source or the loop of
\* ep_idle_dispatch coming for it.
THEOREM QueueAlwaysServed == Spec => []QueueIsServed
<1>1. Inv => QueueIsServed
  BY DEF Inv
<1> QED
  BY <1>1, InitInv, NextInv, PTL DEF Spec

-----------------------------------------------------------------------------
(* Induction over the natural numbers, from the well-foundedness of finite *)
(* sets: each set of numbers stands for what is claimed of its members.    *)

LEMMA LeastNat ==
  ASSUME NEW T \in SUBSET Nat, T # {}
  PROVE  \E x \in T : \A y \in T : x <= y
<1> DEFINE Q == {0..x : x \in T}
           R == StrictSubsetOrdering(Nat)
<1>1. Q \subseteq FiniteSubsetsOf(Nat) /\ Q # {}
  <2>1. \A x \in T : IsFiniteSet(0..x) /\ 0..x \in SUBSET Nat
    BY FS_Interval
  <2> QED BY <2>1 DEF FiniteSubsetsOf
<1>2. IsWellFoundedOn(R, FiniteSubsetsOf(Nat))
  BY FS_StrictSubsetOrderingWellFounded
<1> HIDE DEF R
<1>3. PICK q \in Q : \A p \in Q : ~(<<p, q>> \in R)
  <2> HIDE DEF Q
  <2> QED BY <1>1, <1>2, WFMin
<1>4. PICK x \in T : q = 0..x
  OBVIOUS
<1>5. ASSUME NEW y \in T, y < x PROVE FALSE
  <2>1. 0..y \in Q
    OBVIOUS
  <2>2. 0..y \subseteq 0..x /\ 0..y # 0..x /\ 0..x \in SUBSET Nat /\ 0..y \in SUBSET Nat
    <3>1. x \in 0..x /\ x \notin 0..y
      BY <1>5
    <3> QED BY <1>5, <3>1
  <2>3. <<0..y, 0..x>> \in R
    BY <2>2 DEF R, StrictSubsetOrdering
  <2> QED BY <1>3, <1>4, <2>1, <2>3
<1> QED BY <1>5

LEMMA NatSetInduction ==
  ASSUME NEW S, 0 \in S, \A n \in Nat : n \in S => n + 1 \in S
  PROVE  Nat \subseteq S
<1> SUFFICES ASSUME Nat \ S # {} PROVE FALSE
  OBVIOUS
<1>1. PICK x \in Nat \ S : \A y \in Nat \ S : x <= y
  BY LeastNat
<1>2. x - 1 \in Nat /\ x - 1 \in S
  BY <1>1
<1> QED BY <1>1, <1>2

Steps(S, n) == [1..n -> [S -> S]]
Iterates(F, n, b, g) == F[0] = b /\ \A i \in 1..n : F[i] = g[i][F[i - 1]]

\* A function on 0..n that is defined by recursion exists.
LEMMA RecursionExists ==
  ASSUME NEW S, NEW n \in Nat, NEW b \in S, NEW g \in Steps(S, n)
  PROVE  \E F \in [0..n -> S] : Iterates(F, n, b, g)
<1> USE DEF Steps, Iterates
<1> DEFINE Has(k) == \E F \in [0..k -> S] :
                       F[0] = b /\ \A i \in 1..k : F[i] = g[i][F[i - 1]]
           Good == {k \in Nat : k <= n => Has(k)}
<1>1. 0 \in Good
  <2> DEFINE F0 == [i \in 0..0 |-> b]
  <2>1. F0 \in [0..0 -> S] /\ F0[0] = b /\ \A i \in 1..0 : FALSE
    OBVIOUS
  <2> HIDE DEF F0
  <2> QED BY <2>1
<1>2. ASSUME NEW k \in Nat, k \in Good PROVE k + 1 \in Good
  <2> SUFFICES ASSUME k + 1 <= n PROVE Has(k + 1)
    OBVIOUS
  <2>1. PICK F \in [0..k -> S] : F[0] = b /\ \A i \in 1..k : F[i] = g[i][F[i - 1]]
    BY <1>2
  <2> DEFINE G == [i \in 0..k + 1 |-> IF i <= k THEN F[i] ELSE g[k + 1][F[k]]]
  <2>2. k + 1 \in 1..n /\ k \in 0..k /\ g[k + 1] \in [S -> S]
    OBVIOUS
  <2>3. G \in [0..k + 1 -> S]
    BY <2>2
  <2>4. G[0] = b
    BY <2>1
  <2>5. ASSUME NEW i \in 1..k + 1 PROVE G[i] = g[i][G[i - 1]]
    <3>1. CASE i <= k
      BY <2>1, <3>1
    <3>2. CASE i = k + 1
      BY <3>2
    <3> QED BY <3>1, <3>2
  <2> HIDE DEF G
  <2> QED BY <2>3, <2>4, <2>5
<1> HIDE DEF Good
<1>3. n \in Good
  BY <1>1, <1>2, NatSetInduction
<1> QED BY <1>3 DEF Good

\* So the recursive function in Without satisfies its equations.
LEMMA WithoutDef ==
  ASSUME NEW C, NEW D, NEW q \in Seq(C)
  PROVE  \E F : /\ Without(q, D) = F[Len(q)] /\ F[0] = <<>>
               /\ \A i \in 1..Len(q) :
                    F[i] = IF q[i] \in D THEN F[i - 1] ELSE Append(F[i - 1], q[i])
<1> DEFINE g == [i \in 1..Len(q) |-> [s \in Seq(C) |-> IF q[i] \in D THEN s ELSE Append(s, q[i])]]
           Is(F) == F = [i \in 0..Len(q) |-> IF i = 0 THEN <<>>
                           ELSE IF q[i] \in D THEN F[i - 1] ELSE Append(F[i - 1], q[i])]
<1>1. Len(q) \in Nat /\ <<>> \in Seq(C) /\ \A i \in 1..Len(q) : q[i] \in C
  OBVIOUS
<1>0. g \in Steps(Seq(C), Len(q))
  BY <1>1 DEF Steps
<1>2. PICK F \in [0..Len(q) -> Seq(C)] : Iterates(F, Len(q), <<>>, g)
  <2> HIDE DEF g
  <2> QED BY <1>1, <1>0, RecursionExists
<1>3. ASSUME NEW i \in 1..Len(q)
      PROVE  F[i] = IF q[i] \in D THEN F[i - 1] ELSE Append(F[i - 1], q[i])
  <2>0. i - 1 \in 0..Len(q)
    BY <1>1
  <2>1. F[i - 1] \in Seq(C)
    BY <2>0
  <2>2. g[i] = [s \in Seq(C) |-> IF q[i] \in D THEN s ELSE Append(s, q[i])]
    OBVIOUS
  <2>3. F[i] = g[i][F[i - 1]]
    BY <1>2 DEF Iterates
  <2> HIDE DEF g
  <2> QED BY <2>1, <2>2, <2>3
<1>4. \A i \in 0..Len(q) : i = 0 \/ i \in 1..Len(q)
  BY <1>1
<1>5. Is(F)
  BY <1>2, <1>3, <1>4 DEF Iterates
<1> DEFINE L == CHOOSE H : Is(H)
<1>6. Is(L)
  <2> HIDE DEF Is
  <2> QED BY <1>5
<1>7. Without(q, D) = L[Len(q)]
  BY DEF Without
<1> HIDE DEF L
<1>8. L[0] = <<>>
  BY <1>1, <1>6
<1>9. ASSUME NEW i \in 1..Len(q)
      PROVE L[i] = IF q[i] \in D THEN L[i - 1] ELSE Append(L[i - 1], q[i])
  <2>1. i \in 0..Len(q) /\ i # 0
    BY <1>1
  <2> QED BY <1>6, <2>1
<1> QED BY <1>7, <1>8, <1>9

In(q, r) == \E i \in DOMAIN q : q[i] = r
NoTwice(q) == \A i, j \in DOMAIN q : q[i] = q[j] => i = j

LEMMA AppendFacts ==
  ASSUME NEW C, NEW q \in Seq(C), NEW m \in C, NoTwice(q), ~In(q, m)
  PROVE  /\ Append(q, m) \in Seq(C) /\ NoTwice(Append(q, m))
         /\ \A r : In(Append(q, m), r) <=> In(q, r) \/ r = m
<1> DEFINE a == Append(q, m)
<1>1. /\ Len(q) \in Nat /\ DOMAIN q = 1..Len(q) /\ DOMAIN a = 1..Len(q) + 1
      /\ a[Len(q) + 1] = m /\ \A i \in 1..Len(q) : a[i] = q[i]
      /\ a \in Seq(C)
  OBVIOUS
<1>2. \A i \in 1..Len(q) + 1 : i \in 1..Len(q) \/ i = Len(q) + 1
  BY <1>1
<1>3. 1..Len(q) \subseteq 1..Len(q) + 1 /\ Len(q) + 1 \in 1..Len(q) + 1
  BY <1>1
<1> HIDE DEF a
<1>4. \A r : In(a, r) <=> In(q, r) \/ r = m
  BY <1>1, <1>2, <1>3 DEF In
<1>5. NoTwice(a)
  BY <1>1, <1>2 DEF In, NoTwice
<1> QED BY <1>1, <1>4, <1>5 DEF a

LEMMA TailFacts ==
  ASSUME NEW C, NEW q \in Seq(C), q # <<>>, NoTwice(q)
  PROVE  /\ Head(q) \in C /\ In(q, Head(q))
         /\ Tail(q) \in Seq(C) /\ NoTwice(Tail(q))
         /\ \A r : In(Tail(q), r) <=> In(q, r) /\ r # Head(q)
<1> DEFINE t == Tail(q)
<1>1. /\ Len(q) \in Nat /\ Len(q) >= 1 /\ DOMAIN q = 1..Len(q)
      /\ t \in Seq(C) /\ Len(t) = Len(q) - 1 /\ DOMAIN t = 1..Len(q) - 1
      /\ Head(q) = q[1]
  OBVIOUS
<1>2. \A i \in 1..Len(q) - 1 : t[i] = q[i + 1]
  OBVIOUS
<1> HIDE DEF t
<1>3. Head(q) \in C /\ 1 \in DOMAIN q
  BY <1>1
<1>4. ASSUME NEW r PROVE In(t, r) <=> In(q, r) /\ r # Head(q)
  <2>1. ASSUME NEW i \in 1..Len(q) - 1, r = t[i]
        PROVE  In(q, r) /\ r # q[1]
    <3>1. i + 1 \in DOMAIN q /\ 1 \in DOMAIN q /\ i + 1 # 1 /\ r = q[i + 1]
      BY <1>1, <1>2, <2>1
    <3> QED BY <3>1 DEF NoTwice, In
  <2>2. ASSUME NEW i \in 1..Len(q), r = q[i], r # q[1]
        PROVE  In(t, r)
    <3>1. i - 1 \in 1..Len(q) - 1 /\ r = t[i - 1]
      BY <1>1, <1>2, <2>2
    <3> QED BY <1>1, <3>1 DEF In
  <2> QED BY <1>1, <2>1, <2>2 DEF In
<1>5. NoTwice(t)
  <2>1. ASSUME NEW i \in 1..Len(q) - 1, NEW j \in 1..Len(q) - 1, t[i] = t[j]
        PROVE  i = j
    <3>1. i + 1 \in DOMAIN q /\ j + 1 \in DOMAIN q /\ q[i + 1] = q[j + 1]
      BY <1>1, <1>2, <2>1
    <3>2. i + 1 = j + 1
      BY <3>1 DEF NoTwice
    <3> QED BY <3>2
  <2> QED BY <1>1, <2>1 DEF NoTwice
<1> QED BY <1>1, <1>3, <1>4, <1>5 DEF In, t

\* What is taken out of the list is gone from it, and nothing else.
LEMMA WithoutFacts ==
  ASSUME NEW C, NEW D, NEW q \in Seq(C), NoTwice(q)
  PROVE  /\ Without(q, D) \in Seq(C) /\ NoTwice(Without(q, D))
         /\ \A r : In(Without(q, D), r) <=> In(q, r) /\ r \notin D
<1>1. PICK F : /\ Without(q, D) = F[Len(q)] /\ F[0] = <<>>
               /\ \A i \in 1..Len(q) :
                    F[i] = IF q[i] \in D THEN F[i - 1] ELSE Append(F[i - 1], q[i])
  BY WithoutDef, SMTT(30)
<1>2. Len(q) \in Nat /\ DOMAIN q = 1..Len(q)
  OBVIOUS
<1> DEFINE Kept(k, r) == \E i \in 1..k : q[i] = r /\ r \notin D
           Right(k) == /\ F[k] \in Seq(C) /\ NoTwice(F[k])
                       /\ \A r : In(F[k], r) <=> Kept(k, r)
           Good == {k \in Nat : k <= Len(q) => Right(k)}
<1>3. 0 \in Good
  <2>1. F[0] \in Seq(C) /\ DOMAIN F[0] = {}
    BY <1>1
  <2>2. NoTwice(F[0]) /\ \A r : ~In(F[0], r)
    BY <2>1 DEF NoTwice, In
  <2>3. \A r : ~Kept(0, r)
    OBVIOUS
  <2> QED BY <2>1, <2>2, <2>3
<1>4. ASSUME NEW k \in Nat, k \in Good PROVE k + 1 \in Good
  <2> SUFFICES ASSUME k + 1 <= Len(q) PROVE Right(k + 1)
    OBVIOUS
  <2>1. Right(k)
    BY <1>2, <1>4
  <2>2. k + 1 \in 1..Len(q) /\ (k + 1) - 1 = k
    BY <1>2
  <2>3. F[k + 1] = IF q[k + 1] \in D THEN F[k] ELSE Append(F[k], q[k + 1])
    BY <1>1, <2>2
  <2>4. \A i \in 1..k + 1 : i \in 1..k \/ i = k + 1
    OBVIOUS
  <2>5. 1..k \subseteq 1..k + 1 /\ k + 1 \in 1..k + 1
    OBVIOUS
  <2>6. \A r : Kept(k + 1, r) <=> Kept(k, r) \/ (r = q[k + 1] /\ r \notin D)
    BY <2>4, <2>5
  <2>7. CASE q[k + 1] \in D
    BY <2>1, <2>3, <2>6, <2>7
  <2>8. CASE q[k + 1] \notin D
    <3>1. q[k + 1] \in C
      BY <2>2
    <3>2. ~Kept(k, q[k + 1])
      <4>1. ASSUME NEW i \in 1..k PROVE q[i] # q[k + 1]
        <5>1. i \in DOMAIN q /\ k + 1 \in DOMAIN q /\ i # k + 1
          BY <1>2, <2>2
        <5> QED BY <5>1 DEF NoTwice
      <4> QED BY <4>1
    <3> HIDE DEF Kept
    <3>3. /\ Append(F[k], q[k + 1]) \in Seq(C) /\ NoTwice(Append(F[k], q[k + 1]))
          /\ \A r : In(Append(F[k], q[k + 1]), r) <=> In(F[k], r) \/ r = q[k + 1]
      BY <2>1, <3>1, <3>2, AppendFacts
    <3> QED BY <2>1, <2>3, <2>6, <2>8, <3>3
  <2> QED BY <2>7, <2>8
<1> HIDE DEF Good
<1>5. Len(q) \in Good
  BY <1>2, <1>3, <1>4, NatSetInduction
<1>6. Right(Len(q))
  BY <1>2, <1>5 DEF Good
<1> QED BY <1>1, <1>2, <1>6 DEF In

-----------------------------------------------------------------------------
(* Every waiting caller has its place.                                     *)

KeysKnown == \A r \in Callers : msg[r].st = "waiting" => msg[r].key \in Keys

PlaceInv == TypeOK /\ WaiterHasPlace /\ NoTwice(queue) /\ KeysKnown

MsgType == [st : {"idle", "waiting", "answered"}, op : Ops,
            key : Keys \cup {NoWord}, word : Maybe]

LEMMA IdleType == Idle \in MsgType
  BY DEF Idle, MsgType, Ops, Maybe

\* The place of a caller.
Waits(r) == msg[r].st = "waiting"
HasPlace(r) == /\ Waits(r) <=> In(queue, r) \/ dialog = r
               /\ ~(In(queue, r) /\ dialog = r)

LEMMA PlaceParts ==
  ASSUME PlaceInv
  PROVE  /\ TypeOK /\ NoTwice(queue) /\ KeysKnown
         /\ \A r \in Callers : HasPlace(r)
BY DEF PlaceInv, WaiterHasPlace, InQueue, HasPlace, Waits, In

LEMMA PlaceWhole ==
  ASSUME TypeOK', NoTwice(queue)', KeysKnown', \A r \in Callers : HasPlace(r)'
  PROVE  PlaceInv'
BY DEF PlaceInv, WaiterHasPlace, InQueue, HasPlace, Waits, In, NoTwice

LEMMA PlaceInit == Init => PlaceInv
<1> SUFFICES ASSUME Init PROVE PlaceInv
  OBVIOUS
<1>1. TypeOK
  <2>1. msg \in [Callers -> MsgType]
    BY IdleType DEF Init
  <2>2. calls \in [Callers -> 0..MaxCalls] /\ sources \in Nat
    BY PasswordsAssumption DEF Init
  <2>3. cache \in [Keys -> Maybe] /\ keyring \in [Keys -> Maybe] /\ NoWord \in Maybe
    BY DEF Init, Maybe
  <2>4. queue \in Seq(Callers) /\ stack \in Seq(MainCalls)
    BY DEF Init
  <2> QED
    BY <2>1, <2>2, <2>3, <2>4 DEF Init, TypeOK, MsgType
<1>2. NoTwice(queue) /\ \A r \in Callers : ~InQueue(r) /\ dialog # r /\ msg[r].st = "idle"
  BY PasswordsAssumption DEF Init, NoTwice, InQueue, Idle
<1> QED
  BY <1>1, <1>2 DEF PlaceInv, WaiterHasPlace, KeysKnown, NoTwice

\* A call is queued (ep_msg_send): its caller had no place before.
LEMMA MessagePlaces ==
  ASSUME PlaceInv, NEW r \in Callers, NEW m \in Messages, Message(r, m),
         dialog' = dialog
  PROVE  /\ NoTwice(queue)' /\ KeysKnown' /\ \A p \in Callers : HasPlace(p)'
         /\ msg' \in [Callers -> MsgType] /\ queue' \in Seq(Callers)
         /\ calls' \in [Callers -> 0..MaxCalls]
<1>1. TypeOK /\ NoTwice(queue) /\ KeysKnown /\ \A p \in Callers : HasPlace(p)
  BY PlaceParts
<1>2. /\ msg[r].st = "idle" /\ msg' = [msg EXCEPT ![r] = m] /\ queue' = Append(queue, r)
      /\ calls[r] < MaxCalls /\ calls' = [calls EXCEPT ![r] = @ + 1]
  BY DEF Message
<1>3. m \in MsgType /\ m.st = "waiting" /\ m.key \in Keys
  BY DEF Messages, MsgType
<1>4. msg \in [Callers -> MsgType] /\ queue \in Seq(Callers)
      /\ calls \in [Callers -> 0..MaxCalls]
  BY <1>1 DEF TypeOK, MsgType
<1>5. ~In(queue, r) /\ dialog # r
  BY <1>1, <1>2 DEF HasPlace, Waits
<1>6. /\ queue' \in Seq(Callers) /\ NoTwice(queue')
      /\ \A p : In(queue', p) <=> In(queue, p) \/ p = r
  BY <1>1, <1>2, <1>4, <1>5, AppendFacts
<1>7. msg' \in [Callers -> MsgType] /\ msg'[r] = m
      /\ \A p \in Callers \ {r} : msg'[p] = msg[p]
  BY <1>2, <1>3, <1>4
<1>8. calls' \in [Callers -> 0..MaxCalls]
  BY <1>2, <1>4, PasswordsAssumption
<1>9. ASSUME NEW p \in Callers PROVE HasPlace(p)'
  BY <1>1, <1>3, <1>5, <1>6, <1>7 DEF HasPlace, Waits
<1>10. KeysKnown'
  BY <1>1, <1>3, <1>7 DEF KeysKnown
<1> QED
  BY <1>6, <1>7, <1>8, <1>9, <1>10

LEMMA SendPlaces ==
  ASSUME PlaceInv, NEW r \in Callers, Send(r) \/ SendMain(r)
  PROVE  PlaceInv'
<1>1. PICK m \in Messages : Message(r, m)
  BY DEF Send, SendMain
<1>2. /\ UNCHANGED <<dialog, cache, keyring>> /\ idleId' \in BOOLEAN
      /\ sources' \in Nat /\ drain' \in BOOLEAN /\ stack' \in Seq(MainCalls)
  <2>1. idleId \in BOOLEAN /\ sources \in Nat /\ drain \in BOOLEAN /\ stack \in Seq(MainCalls)
    BY PlaceParts DEF TypeOK
  <2>2. CASE Send(r)
    BY <2>1, <2>2 DEF Send
  <2>3. CASE SendMain(r)
    <3>1. r \in MainCalls /\ stack' = Append(stack, r) /\ drain' = ~idleId
      BY <2>3 DEF SendMain
    <3>2. drain' \in BOOLEAN
      BY <3>1
    <3> QED BY <2>1, <2>3, <3>1, <3>2 DEF SendMain
  <2> QED
    BY <2>2, <2>3
<1>3. /\ NoTwice(queue)' /\ KeysKnown' /\ \A p \in Callers : HasPlace(p)'
      /\ msg' \in [Callers -> MsgType] /\ queue' \in Seq(Callers)
      /\ calls' \in [Callers -> 0..MaxCalls]
  BY <1>1, <1>2, MessagePlaces
<1>4. TypeOK'
  BY <1>2, <1>3, PlaceParts DEF TypeOK, MsgType
<1> QED
  BY <1>3, <1>4, PlaceWhole

\* An operation runs to its end and its caller is answered.
LEMMA AnswerPlaces ==
  ASSUME PlaceInv, NEW r \in Callers, r = Head(queue), queue # <<>>, dialog = NoWord,
         queue' = Tail(queue), NEW word \in Maybe, Answer(r, word), UNCHANGED dialog
  PROVE  /\ NoTwice(queue)' /\ KeysKnown' /\ \A p \in Callers : HasPlace(p)'
         /\ msg' \in [Callers -> MsgType] /\ queue' \in Seq(Callers)
<1>1. TypeOK /\ NoTwice(queue) /\ KeysKnown /\ \A p \in Callers : HasPlace(p)
  BY PlaceParts
<1>2. msg \in [Callers -> MsgType] /\ queue \in Seq(Callers)
  BY <1>1 DEF TypeOK, MsgType
<1>3. /\ queue' \in Seq(Callers) /\ NoTwice(queue')
      /\ \A p : In(queue', p) <=> In(queue, p) /\ p # r
  BY <1>1, <1>2, TailFacts
<1>4. [msg[r] EXCEPT !.st = "answered", !.word = word] \in MsgType
  BY <1>2 DEF MsgType
<1>5. msg' = [msg EXCEPT ![r] = [msg[r] EXCEPT !.st = "answered", !.word = word]]
  BY <1>2 DEF Answer, MsgType
<1>6. /\ msg' \in [Callers -> MsgType] /\ msg'[r].st = "answered"
      /\ \A p \in Callers \ {r} : msg'[p] = msg[p]
  BY <1>2, <1>4, <1>5 DEF MsgType
<1>7. ASSUME NEW p \in Callers PROVE HasPlace(p)'
  BY <1>1, <1>3, <1>6, PasswordsAssumption DEF HasPlace, Waits
<1>8. KeysKnown'
  BY <1>1, <1>6 DEF KeysKnown
<1> QED
  BY <1>3, <1>6, <1>7, <1>8

LEMMA DrainPlaces ==
  ASSUME PlaceInv, Drain
  PROVE  PlaceInv'
<1>1. TypeOK /\ NoTwice(queue) /\ KeysKnown /\ \A p \in Callers : HasPlace(p)
  BY PlaceParts
<1> DEFINE r == Head(queue)
           k == msg[r].key
<1>2. /\ msg \in [Callers -> MsgType] /\ queue \in Seq(Callers) /\ queue # <<>>
      /\ dialog = NoWord /\ queue' = Tail(queue) /\ Dispatch(r)
      /\ UNCHANGED <<idleId, sources, drain, stack, calls>>
  BY <1>1 DEF TypeOK, MsgType, Drain
<1>3. /\ r \in Callers /\ In(queue, r)
      /\ queue' \in Seq(Callers) /\ NoTwice(queue')
      /\ \A p : In(queue', p) <=> In(queue, p) /\ p # r
  BY <1>1, <1>2, TailFacts
<1>4. Waits(r) /\ k \in Keys /\ msg[r].op \in Ops /\ msg[r].word \in Maybe
  BY <1>1, <1>2, <1>3 DEF HasPlace, Waits, KeysKnown, MsgType
<1>5. cache \in [Keys -> Maybe] /\ keyring \in [Keys -> Maybe] /\ NoWord \in Maybe
  BY <1>1 DEF TypeOK, Maybe
<1> HIDE DEF r, k
<1>6. \/ Ask(r)
      \/ /\ \E word \in Maybe : Answer(r, word)
         /\ dialog' = dialog
         /\ cache' \in [Keys -> Maybe] /\ keyring' \in [Keys -> Maybe]
  <2>1. CASE msg[r].op = "get"
    <3>1. Get(r, k)
      BY <1>2, <2>1 DEF Dispatch, k
    <3> QED
      BY <1>4, <1>5, <3>1 DEF Get
  <2>2. CASE msg[r].op = "add"
    <3>1. Add(r, k)
      BY <1>2, <2>2 DEF Dispatch, k
    <3> QED
      BY <1>4, <1>5, <3>1 DEF Add
  <2>3. CASE msg[r].op = "remember"
    <3>1. Remember(r, k)
      BY <1>2, <2>3 DEF Dispatch, k
    <3> QED
      BY <1>4, <1>5, <3>1 DEF Remember
  <2>4. CASE msg[r].op = "forget"
    <3>1. Forget(r, k)
      BY <1>2, <2>4 DEF Dispatch, k
    <3> QED
      BY <1>4, <1>5, <3>1 DEF Forget
  <2>5. CASE msg[r].op = "ask"
    BY <1>2, <2>5 DEF Dispatch
  <2> QED
    BY <1>4, <2>1, <2>2, <2>3, <2>4, <2>5 DEF Ops
<1>7. CASE Ask(r)
  <2>1. dialog' = r /\ UNCHANGED <<msg, cache, keyring>>
    BY <1>7 DEF Ask
  <2>2. TypeOK'
    BY <1>1, <1>2, <1>3, <2>1 DEF TypeOK
  <2>3. ASSUME NEW p \in Callers PROVE HasPlace(p)'
    BY <1>1, <1>2, <1>3, <1>4, <2>1, PasswordsAssumption DEF HasPlace, Waits
  <2>4. KeysKnown'
    BY <1>1, <2>1 DEF KeysKnown
  <2> QED
    BY <1>3, <2>2, <2>3, <2>4, PlaceWhole
<1>8. CASE /\ \E word \in Maybe : Answer(r, word)
           /\ dialog' = dialog
           /\ cache' \in [Keys -> Maybe] /\ keyring' \in [Keys -> Maybe]
  <2>1. /\ NoTwice(queue)' /\ KeysKnown' /\ \A p \in Callers : HasPlace(p)'
        /\ msg' \in [Callers -> MsgType] /\ queue' \in Seq(Callers)
    BY <1>2, <1>3, <1>8, AnswerPlaces DEF r
  <2>2. TypeOK'
    BY <1>1, <1>2, <1>8, <2>1 DEF TypeOK, MsgType
  <2> QED
    BY <2>1, <2>2, PlaceWhole
<1> QED
  BY <1>6, <1>7, <1>8

\* The answer to a dialog settles its caller and pending requests for its key;
\* none of them keeps a place (pass_response).
LEMMA ResponsePlaces ==
  ASSUME PlaceInv, NEW word \in Maybe, Response(word)
  PROVE  PlaceInv'
<1>1. TypeOK /\ NoTwice(queue) /\ KeysKnown /\ \A p \in Callers : HasPlace(p)
  BY PlaceParts
<1> DEFINE k == msg[dialog].key
           done == Settled(k) \cup {dialog}
<1>2. /\ dialog # NoWord
      /\ Keep(k, word)
      /\ msg' = [r \in Callers |-> IF r \in done
                   THEN [msg[r] EXCEPT !.st = "answered", !.word = word] ELSE msg[r]]
      /\ queue' = Without(queue, done)
      /\ dialog' = NoWord /\ drain' = TRUE
      /\ UNCHANGED <<idleId, sources, stack, calls>>
  BY DEF Response
<1>3. msg \in [Callers -> MsgType] /\ queue \in Seq(Callers) /\ dialog \in Callers
  BY <1>1, <1>2 DEF TypeOK, MsgType
<1>4. cache' \in [Keys -> Maybe] /\ keyring' \in [Keys -> Maybe]
  BY <1>1, <1>2 DEF TypeOK, Keep, Maybe
<1>5. done \subseteq Callers
  BY <1>3 DEF Settled
<1> HIDE DEF done, k
<1>6. /\ queue' \in Seq(Callers) /\ NoTwice(queue')
      /\ \A p : In(queue', p) <=> In(queue, p) /\ p \notin done
  BY <1>1, <1>2, <1>3, WithoutFacts
<1>7. ASSUME NEW p \in Callers
      PROVE  /\ msg'[p] \in MsgType
             /\ p \in done => msg'[p].st = "answered"
             /\ p \notin done => msg'[p] = msg[p]
  <2>1. [msg[p] EXCEPT !.st = "answered", !.word = word] \in MsgType
    BY <1>3 DEF MsgType
  <2>2. [msg[p] EXCEPT !.st = "answered", !.word = word].st = "answered"
    BY <1>3 DEF MsgType
  <2> QED
    BY <1>2, <1>3, <2>1, <2>2
<1>8. msg' \in [Callers -> MsgType]
  <2>1. msg' = [p \in Callers |-> msg'[p]]
    BY <1>2
  <2> QED
    BY <1>7, <2>1
<1>9. dialog \in done
  BY DEF done
<1>10. ASSUME NEW p \in Callers PROVE HasPlace(p)'
  <2>1. dialog' # p
    BY <1>2, PasswordsAssumption
  <2>2. CASE p \in done
    BY <1>6, <1>7, <2>1, <2>2 DEF HasPlace, Waits
  <2>3. CASE p \notin done
    BY <1>1, <1>6, <1>7, <1>9, <2>1, <2>3 DEF HasPlace, Waits
  <2> QED
    BY <2>2, <2>3
<1>11. KeysKnown'
  BY <1>1, <1>7 DEF KeysKnown
<1>12. TypeOK'
  BY <1>1, <1>2, <1>4, <1>6, <1>8 DEF TypeOK, MsgType
<1> QED
  BY <1>6, <1>10, <1>11, <1>12, PlaceWhole

LEMMA ReturnPlaces ==
  ASSUME PlaceInv, NEW r \in Callers, msg[r].st = "answered",
         msg' = [msg EXCEPT ![r] = Idle], stack' \in Seq(MainCalls),
         UNCHANGED <<queue, idleId, sources, drain, dialog, cache, keyring, calls>>
  PROVE  PlaceInv'
<1>1. TypeOK /\ NoTwice(queue) /\ KeysKnown /\ \A p \in Callers : HasPlace(p)
  BY PlaceParts
<1>2. msg \in [Callers -> MsgType]
  BY <1>1 DEF TypeOK, MsgType
<1>3. /\ msg' \in [Callers -> MsgType] /\ msg'[r].st = "idle"
      /\ \A p \in Callers \ {r} : msg'[p] = msg[p]
  BY <1>2, IdleType DEF Idle
<1>4. TypeOK'
  BY <1>1, <1>3 DEF TypeOK, MsgType
<1>5. ASSUME NEW p \in Callers PROVE HasPlace(p)'
  BY <1>1, <1>3 DEF HasPlace, Waits
<1>6. KeysKnown' /\ NoTwice(queue)'
  BY <1>1, <1>3 DEF KeysKnown
<1> QED
  BY <1>4, <1>5, <1>6, PlaceWhole

LEMMA OtherPlaces ==
  ASSUME PlaceInv, UNCHANGED <<msg, queue, stack, dialog, cache, keyring, calls>>,
         idleId' \in BOOLEAN, sources' \in Nat, drain' \in BOOLEAN
  PROVE  PlaceInv'
BY DEF PlaceInv, TypeOK, WaiterHasPlace, InQueue, NoTwice, KeysKnown

LEMMA PlaceNext == PlaceInv /\ [Next]_vars => PlaceInv'
<1> SUFFICES ASSUME PlaceInv, [Next]_vars PROVE PlaceInv'
  OBVIOUS
<1>0. idleId \in BOOLEAN /\ sources \in Nat /\ drain \in BOOLEAN /\ stack \in Seq(MainCalls)
  BY PlaceParts DEF TypeOK
<1>1. ASSUME NEW r \in Callers, Send(r) \/ SendMain(r)
      PROVE  PlaceInv'
  BY <1>1, SendPlaces
<1>2. ASSUME NEW r \in Callers, Return(r)
      PROVE  PlaceInv'
  BY <1>0, <1>2, ReturnPlaces DEF Return
<1>3. CASE IdleDispatch \/ DrainEnd
  <2>1. /\ UNCHANGED <<msg, queue, stack, dialog, cache, keyring, calls>>
        /\ idleId' \in BOOLEAN /\ sources' \in Nat /\ drain' \in BOOLEAN
    <3>1. CASE IdleDispatch
      <4>1. sources > 0 /\ sources' = sources - 1 /\ drain' = TRUE
        BY <3>1 DEF IdleDispatch
      <4>2. sources' \in Nat
        BY <1>0, <4>1
      <4> QED BY <1>0, <3>1, <4>1, <4>2 DEF IdleDispatch
    <3>2. CASE DrainEnd
      BY <1>0, <3>2 DEF DrainEnd
    <3> QED BY <1>3, <3>1, <3>2
  <2> QED BY <2>1, OtherPlaces
<1>4. CASE Drain
  BY <1>4, DrainPlaces
<1>5. CASE UserAnswers
  BY <1>5, ResponsePlaces DEF UserAnswers
<1>6. CASE ReturnMain
  <2>1. Len(stack) \in 1..Len(stack) /\ stack[Len(stack)] \in MainCalls
    BY <1>0, <1>6 DEF ReturnMain
  <2>2. SubSeq(stack, 1, Len(stack) - 1) \in Seq(MainCalls)
    BY <1>0, <2>1
  <2> QED
    BY <1>6, <2>1, <2>2, ReturnPlaces DEF ReturnMain, Callers
<1>7. CASE UNCHANGED vars \/ Finished
  BY <1>0, <1>7, OtherPlaces DEF vars, Finished
<1> QED
  BY <1>1, <1>2, <1>3, <1>4, <1>5, <1>6, <1>7 DEF Next, MainLoop

\* Queue, dialog, stack and caches keep the forms of e-passwords.c.
THEOREM TypeCorrect == Spec => []TypeOK
<1>1. PlaceInv => TypeOK
  BY DEF PlaceInv
<1> QED
  BY <1>1, PlaceInit, PlaceNext, PTL DEF Spec

\* A caller in ep_msg_send whose flag is not set is in message_queue or has the
\* dialog, and is there once: nobody waits for an answer that is not to come,
\* and no message is in the queue whose caller may have freed it.
THEOREM WaitersHavePlaces == Spec => []WaiterHasPlace
<1>1. PlaceInv => WaiterHasPlace
  BY DEF PlaceInv
<1> QED
  BY <1>1, PlaceInit, PlaceNext, PTL DEF Spec
=============================================================================
