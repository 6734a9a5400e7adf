-------------------------- MODULE SendRecv_proofs --------------------------
(***************************************************************************)
(* For any accounts, messages and clients: a callback of an operation      *)
(* finds its info in the table (InfoIsInTable) and no message is in two    *)
(* passes (PassIsUnsent).  The two are inductive together with the types:  *)
(* that a pass alone takes its messages from the Outbox rests on the table *)
(* holding the only info of a key.                                         *)
(***************************************************************************)
EXTENDS SendRecv, TLAPS

Inv == TypeOK /\ InfoIsInTable /\ PassIsUnsent

\* What a step does to the table and the heap keeps the invariant of both.
TableOK ==
  /\ sendData \in BOOLEAN
  /\ active \in [Keys -> {0} \cup Slots]
  /\ heap \in [Keys -> [Slots -> Infos \cup {Freed}]]
  /\ InfoIsInTable

LEMMA NewInfoType ==
  ASSUME NEW phase \in Phases, NEW session \in BOOLEAN
  PROVE  /\ NewInfo(phase, session) \in Infos
         /\ NewInfo(phase, session).pass = {}
  BY DEF NewInfo, Freed, Infos

LEMMA InfosAreNotFreed == Freed \notin Infos
  BY DEF Freed, Infos, Phases

\* A key without entry has no info, and the slot of its next one is free.
LEMMA FreshSlot ==
  ASSUME TableOK, NEW k \in Keys, active[k] = 0
  PROVE  /\ \A n \in Slots : heap[k][n] = Freed
         /\ Fresh(k) \in Slots
<1>1. \A n \in Slots : heap[k][n] = Freed
  BY DEF TableOK, InfoIsInTable, Slots
<1>2. Live(k) = {}
  BY <1>1 DEF Live
<1>3. 1 \in Slots /\ 1 \notin Live(k)
  BY <1>2 DEF Slots
<1>4. Fresh(k) \in Slots
  BY <1>3 DEF Fresh
<1> QED
  BY <1>1, <1>4

\* An info of which something is known is the entry of its key.
LEMMA InfoOf ==
  ASSUME TableOK, NEW k \in Keys, NEW n \in Slots, heap[k][n].phase \in Phases
  PROVE  /\ heap[k][n] \in Infos /\ active[k] = n /\ sendData
         /\ \A j \in Slots \ {n} : heap[k][j] = Freed
<1>1. heap[k][n] \in Infos
  BY DEF TableOK, Freed, Phases
<1>2. heap[k][n] # Freed
  BY <1>1, InfosAreNotFreed
<1> QED
  BY <1>1, <1>2 DEF TableOK, InfoIsInTable, Slots

\* Changing the fields of the info in the table.
LEMMA SetInfo ==
  ASSUME TableOK, NEW k \in Keys, NEW n \in Slots, active[k] = n, sendData,
         NEW r \in Infos, heap' = [heap EXCEPT ![k][n] = r],
         active' = active, sendData' = sendData
  PROVE  TableOK'
<1>1. heap' \in [Keys -> [Slots -> Infos \cup {Freed}]]
  BY DEF TableOK
<1>2. heap'[k][n] = r /\ r # Freed
  BY InfosAreNotFreed DEF TableOK
<1>3. \A j \in Keys, l \in Slots : j # k \/ l # n => heap'[j][l] = heap[j][l]
  BY DEF TableOK
<1>4. ASSUME NEW j \in Keys
      PROVE  /\ \A l \in Slots : heap'[j][l] # Freed => active'[j] = l
             /\ active'[j] # 0 => heap'[j][active'[j]] # Freed /\ sendData'
  <2>1. CASE j = k
    BY <1>2, <1>3, <2>1 DEF TableOK, InfoIsInTable
  <2>2. CASE j # k
    BY <1>3, <2>2 DEF TableOK, InfoIsInTable
  <2> QED
    BY <2>1, <2>2
<1> QED
  BY <1>1, <1>4 DEF TableOK, InfoIsInTable

\* A new entry.
LEMMA InsertInfo ==
  ASSUME TableOK, NEW k \in Keys, active[k] = 0, NEW phase \in Phases,
         Insert(k, phase), sendData' = TRUE
  PROVE  /\ TableOK'
         /\ heap' = [heap EXCEPT ![k][Fresh(k)] = NewInfo(phase, TRUE)]
<1> DEFINE n == Fresh(k)
           r == NewInfo(phase, TRUE)
<1>1. n \in Slots /\ \A l \in Slots : heap[k][l] = Freed
  BY FreshSlot
<1>2. r \in Infos
  BY NewInfoType
<1>3. heap' = [heap EXCEPT ![k][n] = r] /\ active' = [active EXCEPT ![k] = n]
  BY DEF Insert
<1> HIDE DEF n, r
<1>4. /\ heap' \in [Keys -> [Slots -> Infos \cup {Freed}]]
      /\ active' \in [Keys -> {0} \cup Slots]
  BY <1>1, <1>2, <1>3 DEF TableOK
<1>5. heap'[k][n] = r /\ r # Freed /\ active'[k] = n
  BY <1>1, <1>2, <1>3, InfosAreNotFreed DEF TableOK
<1>6. \A j \in Keys, l \in Slots : j # k \/ l # n => heap'[j][l] = heap[j][l]
  BY <1>3 DEF TableOK
<1>7. \A j \in Keys : j # k => active'[j] = active[j]
  BY <1>3 DEF TableOK
<1>8. ASSUME NEW j \in Keys
      PROVE  /\ \A l \in Slots : heap'[j][l] # Freed => active'[j] = l
             /\ active'[j] # 0 => heap'[j][active'[j]] # Freed /\ sendData'
  <2>1. CASE j = k
    BY <1>1, <1>5, <1>6, <2>1
  <2>2. CASE j # k
    BY <1>6, <1>7, <2>2 DEF TableOK, InfoIsInTable
  <2> QED
    BY <2>1, <2>2
<1>9. TableOK'
  BY <1>4, <1>8 DEF TableOK, InfoIsInTable
<1> QED
  BY <1>9, <1>3 DEF n, r

\* An entry that leaves, and send_data with the last one.
LEMMA ReleaseInfo ==
  ASSUME TableOK, NEW k \in Keys, NEW n \in Slots, heap[k][n].phase \in Phases,
         Release(k, n)
  PROVE  /\ TableOK'
         /\ heap' = [heap EXCEPT ![k][n] = Freed]
<1>1. /\ active[k] = n
      /\ \A j \in Slots \ {n} : heap[k][j] = Freed
  BY InfoOf
<1>2. /\ heap' = [heap EXCEPT ![k][n] = Freed]
      /\ active' = [active EXCEPT ![k] = 0]
      /\ sendData' = (\E j \in Keys : active'[j] # 0)
  BY DEF Release
<1>3. /\ heap' \in [Keys -> [Slots -> Infos \cup {Freed}]]
      /\ active' \in [Keys -> {0} \cup Slots]
      /\ sendData' \in BOOLEAN
  BY <1>2 DEF TableOK
<1>4. \A l \in Slots : heap'[k][l] = Freed
  BY <1>1, <1>2 DEF TableOK
<1>5. active'[k] = 0
  BY <1>2 DEF TableOK
<1>6. \A j \in Keys : j # k => heap'[j] = heap[j] /\ active'[j] = active[j]
  BY <1>2 DEF TableOK
<1>7. ASSUME NEW j \in Keys
      PROVE  /\ \A l \in Slots : heap'[j][l] # Freed => active'[j] = l
             /\ active'[j] # 0 => heap'[j][active'[j]] # Freed /\ sendData'
  <2>1. CASE j = k
    BY <1>4, <1>5, <2>1
  <2>2. CASE j # k
    BY <1>2, <1>6, <2>2 DEF TableOK, InfoIsInTable
  <2> QED
    BY <2>1, <2>2
<1>8. TableOK'
  BY <1>3, <1>7 DEF TableOK, InfoIsInTable
<1> QED
  BY <1>8, <1>2

LEMMA InitInv == Init => Inv
<1> SUFFICES ASSUME Init PROVE Inv
  OBVIOUS
<1>1. TypeOK
  BY DEF Init, TypeOK
<1>2. InfoIsInTable
  BY DEF Init, InfoIsInTable
<1>3. SendTask \in Keys
  BY DEF Keys
<1>4. PassIsUnsent
  BY <1>3 DEF Init, PassIsUnsent, Freed
<1> QED
  BY <1>1, <1>2, <1>4 DEF Inv

\* What every step does to the Outbox and the requests.
OutboxOK ==
  /\ outbox \in SUBSET Messages /\ asked \in SUBSET outbox /\ online \in BOOLEAN

LEMMA InvParts == Inv <=> TableOK /\ OutboxOK /\ PassIsUnsent
  BY DEF Inv, TypeOK, TableOK, OutboxOK

\* Passes that only shrink, while the Outbox only grows.
LEMMA PassKept ==
  ASSUME PassIsUnsent, outbox \subseteq outbox',
         \A n \in Slots : heap'[SendTask][n].pass \subseteq heap[SendTask][n].pass
  PROVE  PassIsUnsent'
  BY DEF PassIsUnsent

\* An info of an account changes: the passes are those of the send task.
LEMMA AccountStep ==
  ASSUME PassIsUnsent, TableOK, NEW a \in Accounts, outbox' = outbox,
         NEW n \in Slots, NEW r, heap' = [heap EXCEPT ![a][n] = r]
  PROVE  PassIsUnsent'
<1>1. SendTask \in Keys /\ a # SendTask /\ a \in Keys
  BY SendRecvAssumption DEF Keys
<1>2. heap'[SendTask] = heap[SendTask]
  BY <1>1 DEF TableOK
<1> QED
  BY <1>2 DEF PassIsUnsent

LEMMA FirstPhase ==
  ASSUME NEW a \in Accounts
  PROVE  FirstPhases(a) \subseteq Phases
  BY DEF FirstPhases, Phases

LEMMA SendReceiveInv ==
  ASSUME Inv, NEW allow \in BOOLEAN, NEW t \in Transport, SendReceive(allow, t)
  PROVE  Inv'
<1> DEFINE kinds == {a \in Accounts : Kind[a] # "invalid"}
           sends == allow /\ t = "ready" /\ outbox # {}
           keys == kinds \cup (IF sends THEN {SendTask} ELSE {})
<1>1. TableOK /\ OutboxOK /\ PassIsUnsent
  BY InvParts
<1>2. /\ ~sendData /\ sendData' = TRUE
      /\ active' = [k \in Keys |-> IF k \in keys THEN Fresh(k) ELSE active[k]]
      /\ asked' = IF sends THEN outbox ELSE asked
      /\ outbox' = outbox /\ online' = online
  BY DEF SendReceive
<1>3. PICK phase \in [kinds -> Phases] :
        heap' = [k \in Keys |->
          IF k \in kinds THEN [heap[k] EXCEPT ![Fresh(k)] = NewInfo(phase[k], TRUE)]
          ELSE IF k \in keys THEN [heap[k] EXCEPT ![Fresh(k)] = NewInfo("queued", FALSE)]
          ELSE heap[k]]
  BY DEF SendReceive
<1>4. kinds \subseteq Keys /\ keys \subseteq Keys /\ SendTask \in Keys /\ SendTask \notin kinds
  BY SendRecvAssumption DEF Keys
<1>5. \A k \in Keys : active[k] = 0
  BY <1>1, <1>2 DEF TableOK, InfoIsInTable
<1>6. \A k \in Keys : Fresh(k) \in Slots /\ \A n \in Slots : heap[k][n] = Freed
  BY <1>1, <1>5, FreshSlot
<1>7. \A k \in kinds : NewInfo(phase[k], TRUE) \in Infos /\ NewInfo(phase[k], TRUE).pass = {}
  BY NewInfoType
<1>8. NewInfo("queued", FALSE) \in Infos /\ NewInfo("queued", FALSE).pass = {}
  BY NewInfoType DEF Phases
<1> HIDE DEF kinds, sends, keys
<1>9. \A k \in Keys :
        /\ k \in keys \cup kinds => \E r \in Infos :
             r.pass = {} /\ heap'[k] = [heap[k] EXCEPT ![Fresh(k)] = r]
        /\ k \notin keys \cup kinds => heap'[k] = heap[k]
  BY <1>3, <1>7, <1>8
<1>10. kinds \subseteq keys
  BY DEF keys
<1>11. \A k \in Keys : heap[k] \in [Slots -> Infos \cup {Freed}]
  BY <1>1 DEF TableOK
<1>12. ASSUME NEW k \in Keys
       PROVE  /\ heap'[k] \in [Slots -> Infos \cup {Freed}]
              /\ \A n \in Slots : heap'[k][n].pass = {}
  <2>1. Freed.pass = {}
    BY DEF Freed
  <2>2. CASE k \in keys \cup kinds
    <3>1. PICK r \in Infos : r.pass = {} /\ heap'[k] = [heap[k] EXCEPT ![Fresh(k)] = r]
      BY <1>9, <2>2
    <3>2. Fresh(k) \in Slots /\ heap[k] \in [Slots -> Infos \cup {Freed}]
      BY <1>6, <1>11
    <3>3. \A n \in Slots : heap'[k][n] = IF n = Fresh(k) THEN r ELSE Freed
      BY <1>6, <3>1, <3>2
    <3> QED
      BY <2>1, <3>1, <3>2, <3>3
  <2>3. CASE k \notin keys \cup kinds
    BY <1>6, <1>9, <1>11, <2>1, <2>3
  <2> QED
    BY <2>2, <2>3
<1>13. heap' = [k \in Keys |-> heap'[k]]
  BY <1>3
<1>14. heap' \in [Keys -> [Slots -> Infos \cup {Freed}]]
  BY <1>12, <1>13
<1>15. active' \in [Keys -> {0} \cup Slots]
  BY <1>1, <1>2, <1>6 DEF TableOK
<1>16. ASSUME NEW k \in Keys
       PROVE  /\ \A n \in Slots : heap'[k][n] # Freed => active'[k] = n
              /\ active'[k] # 0 => heap'[k][active'[k]] # Freed /\ sendData'
  <2>1. CASE k \in keys
    <3>1. PICK r \in Infos : heap'[k] = [heap[k] EXCEPT ![Fresh(k)] = r]
      BY <1>9, <2>1
    <3>2. active'[k] = Fresh(k)
      BY <1>2, <2>1
    <3>3. heap'[k][Fresh(k)] = r /\ r # Freed
      BY <1>6, <1>11, <3>1, InfosAreNotFreed
    <3>4. \A n \in Slots : n # Fresh(k) => heap'[k][n] = Freed
      BY <1>6, <1>11, <3>1
    <3> QED
      BY <1>2, <3>2, <3>3, <3>4
  <2>2. CASE k \notin keys
    BY <1>2, <1>5, <1>6, <1>9, <1>10, <2>2
  <2> QED
    BY <2>1, <2>2
<1>17. TableOK'
  BY <1>2, <1>14, <1>15, <1>16 DEF TableOK, InfoIsInTable
<1>18. OutboxOK'
  BY <1>1, <1>2 DEF OutboxOK
<1>19. \A n \in Slots : heap'[SendTask][n].pass = {}
  BY <1>4, <1>12
<1>20. PassIsUnsent'
  BY <1>19 DEF PassIsUnsent
<1> QED
  BY <1>17, <1>18, <1>20 DEF Inv, TypeOK, TableOK, OutboxOK

LEMMA ReceiveServiceInv ==
  ASSUME Inv, NEW a \in Accounts, ReceiveService(a)
  PROVE  Inv'
<1>1. TableOK /\ OutboxOK /\ PassIsUnsent /\ a \in Keys
  BY InvParts DEF Keys
<1>2. sendData' = TRUE /\ outbox' = outbox /\ asked' = asked /\ online' = online
  BY DEF ReceiveService
<1>3. OutboxOK'
  BY <1>1, <1>2 DEF OutboxOK
<1>4. CASE active[a] # 0 \/ Kind[a] = "invalid"
  <2>1. active' = active /\ heap' = heap
    BY <1>4 DEF ReceiveService
  <2> QED
    BY <1>1, <1>2, <1>3, <2>1 DEF Inv, TypeOK, TableOK, OutboxOK, InfoIsInTable, PassIsUnsent
<1>5. CASE ~(active[a] # 0 \/ Kind[a] = "invalid")
  <2>1. PICK phase \in FirstPhases(a) : Insert(a, phase)
    BY <1>5 DEF ReceiveService
  <2>2. phase \in Phases /\ active[a] = 0
    BY <1>5, FirstPhase
  <2>3. TableOK' /\ heap' = [heap EXCEPT ![a][Fresh(a)] = NewInfo(phase, TRUE)]
    BY <1>1, <1>2, <2>1, <2>2, InsertInfo
  <2>4. Fresh(a) \in Slots
    BY <1>1, <2>2, FreshSlot
  <2>5. PassIsUnsent'
    BY <1>1, <1>2, <2>3, <2>4, AccountStep
  <2> QED
    BY <1>3, <2>3, <2>5 DEF Inv, TypeOK, TableOK, OutboxOK
<1> QED
  BY <1>4, <1>5

LEMMA MailSendInv ==
  ASSUME Inv, NEW t \in Transport, MailSend(t)
  PROVE  Inv'
<1> DEFINE n == active[SendTask]
<1>1. TableOK /\ OutboxOK /\ PassIsUnsent /\ SendTask \in Keys
  BY InvParts DEF Keys
<1>2. sendData' = TRUE /\ outbox' = outbox /\ online' = online
  BY DEF MailSend
<1>3. CASE /\ n # 0 /\ heap' = [heap EXCEPT ![SendTask][n].again = TRUE]
           /\ asked' \in {outbox, asked} /\ active' = active
  <2>1. n \in Slots /\ heap[SendTask][n] \in Infos /\ sendData
    BY <1>1, <1>3 DEF TableOK, InfoIsInTable
  <2>2. [heap[SendTask][n] EXCEPT !.again = TRUE] \in Infos
    BY <2>1 DEF Infos
  <2>3. heap' = [heap EXCEPT ![SendTask][n] = [heap[SendTask][n] EXCEPT !.again = TRUE]]
    BY <1>1, <1>3, <2>1 DEF TableOK
  <2>4. TableOK'
    BY <1>1, <1>2, <1>3, <2>1, <2>2, <2>3, SetInfo DEF TableOK
  <2>5. \A j \in Slots : heap'[SendTask][j].pass = heap[SendTask][j].pass
    BY <1>1, <2>1, <2>3 DEF TableOK, Infos
  <2>6. PassIsUnsent'
    BY <1>1, <1>2, <2>5 DEF PassIsUnsent
  <2> QED
    BY <1>1, <1>2, <1>3, <2>4, <2>6 DEF Inv, TypeOK, TableOK, OutboxOK
<1>4. CASE n = 0 /\ Insert(SendTask, "queued") /\ asked' = outbox
  <2>1. "queued" \in Phases
    BY DEF Phases
  <2>2. TableOK' /\ heap' = [heap EXCEPT ![SendTask][Fresh(SendTask)] = NewInfo("queued", TRUE)]
    BY <1>1, <1>2, <1>4, <2>1, InsertInfo
  <2>3. Fresh(SendTask) \in Slots
    BY <1>1, <1>4, FreshSlot
  <2>4. NewInfo("queued", TRUE).pass = {}
    BY <2>1, NewInfoType
  <2>5. \A j \in Slots : heap'[SendTask][j].pass \subseteq heap[SendTask][j].pass
    BY <1>1, <2>2, <2>3, <2>4 DEF TableOK
  <2>6. PassIsUnsent'
    BY <1>1, <1>2, <2>5, PassKept
  <2> QED
    BY <1>1, <1>2, <1>4, <2>2, <2>6 DEF Inv, TypeOK, TableOK, OutboxOK
<1>5. CASE active' = active /\ heap' = heap /\ asked' = asked
  BY <1>1, <1>2, <1>5 DEF Inv, TypeOK, TableOK, OutboxOK, InfoIsInTable, PassIsUnsent
<1> QED
  BY <1>3, <1>4, <1>5 DEF MailSend

\* One info's phase is replaced.
LEMMA AdvanceInv ==
  ASSUME Inv, NEW k \in Keys, NEW n \in Slots, heap[k][n].phase \in Phases,
         NEW phase \in Phases, Advance(k, n, phase),
         UNCHANGED <<sendData, active, outbox, asked, online>>
  PROVE  Inv'
<1> DEFINE r == [heap[k][n] EXCEPT !.phase = phase]
<1>1. TableOK /\ OutboxOK /\ PassIsUnsent
  BY InvParts
<1>2. heap[k][n] \in Infos /\ active[k] = n /\ sendData
  BY <1>1, InfoOf
<1>3. r \in Infos /\ r.pass = heap[k][n].pass
  BY <1>2 DEF Infos
<1>4. heap' = [heap EXCEPT ![k][n] = r]
  BY <1>1 DEF Advance, TableOK
<1> HIDE DEF r
<1>5. TableOK'
  BY <1>1, <1>2, <1>3, <1>4, SetInfo
<1>6. SendTask \in Keys
  BY DEF Keys
<1>7. \A j \in Slots : heap'[SendTask][j].pass = heap[SendTask][j].pass
  BY <1>1, <1>3, <1>4, <1>6 DEF TableOK
<1>8. PassIsUnsent'
  BY <1>1, <1>7 DEF PassIsUnsent
<1> QED
  BY <1>1, <1>5, <1>8 DEF Inv, TypeOK, TableOK, OutboxOK

\* An info leaves the table.
LEMMA ReleaseInv ==
  ASSUME Inv, NEW k \in Keys, NEW n \in Slots, heap[k][n].phase \in Phases,
         Release(k, n)
  PROVE  Inv'
<1>1. TableOK /\ OutboxOK /\ PassIsUnsent
  BY InvParts
<1>2. TableOK' /\ heap' = [heap EXCEPT ![k][n] = Freed]
  BY <1>1, ReleaseInfo
<1>3. outbox' = outbox /\ asked' = asked /\ online' = online
  BY DEF Release
<1>4. SendTask \in Keys /\ Freed.pass = {}
  BY DEF Keys, Freed
<1>5. \A j \in Slots : heap'[SendTask][j].pass \subseteq heap[SendTask][j].pass
  BY <1>1, <1>2, <1>4 DEF TableOK
<1>6. PassIsUnsent'
  BY <1>1, <1>3, <1>5, PassKept
<1> QED
  BY <1>1, <1>2, <1>3, <1>6 DEF Inv, TypeOK, TableOK, OutboxOK

\* The record that two updates of its fields make.
LEMMA TwoFields ==
  ASSUME NEW i \in Infos, NEW phase, NEW pass
  PROVE  [i EXCEPT !.phase = phase, !.pass = pass] =
           [phase |-> phase, session |-> i.session, again |-> i.again,
            cancelled |-> i.cancelled, pass |-> pass]
<1> DEFINE j == [i EXCEPT !.phase = phase]
<1>1. j = [phase |-> phase, session |-> i.session, again |-> i.again,
           cancelled |-> i.cancelled, pass |-> i.pass]
  BY DEF Infos
<1> HIDE DEF j
<1>2. [j EXCEPT !.pass = pass] =
        [phase |-> phase, session |-> i.session, again |-> i.again,
         cancelled |-> i.cancelled, pass |-> pass]
  BY <1>1
<1> QED
  BY <1>2, Zenon DEF j

\* A send takes, tries or gives up messages.
LEMMA PassInv ==
  ASSUME Inv, NEW n \in Slots, heap[SendTask][n].phase \in Phases,
         NEW r \in Infos, r.pass \subseteq outbox',
         heap' = [heap EXCEPT ![SendTask][n] = r],
         outbox' \in SUBSET outbox, asked' \in SUBSET outbox',
         UNCHANGED <<sendData, active, online>>
  PROVE  Inv'
<1>1. TableOK /\ OutboxOK /\ PassIsUnsent /\ SendTask \in Keys
  BY InvParts DEF Keys
<1>2. /\ active[SendTask] = n /\ sendData
      /\ \A j \in Slots \ {n} : heap[SendTask][j] = Freed
  BY <1>1, InfoOf
<1>3. TableOK'
  BY <1>1, <1>2, SetInfo
<1>4. Freed.pass = {}
  BY DEF Freed
<1>5. \A j \in Slots : heap'[SendTask][j] = IF j = n THEN r ELSE Freed
  BY <1>1, <1>2 DEF TableOK
<1>6. PassIsUnsent'
  BY <1>4, <1>5 DEF PassIsUnsent
<1> QED
  BY <1>1, <1>3, <1>6 DEF Inv, TypeOK, TableOK, OutboxOK

LEMMA SendSteps ==
  ASSUME Inv, NEW n \in Slots,
         \/ ExecSend(n) \/ ExecSendEnd(n) \/ \E m \in Messages : SendOne(n, m)
  PROVE  Inv'
<1> DEFINE i == heap[SendTask][n]
           Phased(phase, pass) == [phase |-> phase, session |-> i.session,
             again |-> i.again, cancelled |-> i.cancelled, pass |-> pass]
<1>1. TableOK /\ OutboxOK /\ PassIsUnsent /\ SendTask \in Keys
  BY InvParts DEF Keys
<1>2. i.phase \in Phases
  BY DEF ExecSend, ExecSendEnd, SendOne, Phases
<1>3. i \in Infos
  BY <1>1, <1>2, InfoOf
<1>4. i.pass \subseteq outbox /\ outbox \subseteq Messages
  BY <1>1 DEF PassIsUnsent, OutboxOK
<1>5. ASSUME NEW phase \in Phases, NEW pass \in SUBSET outbox
      PROVE  Phased(phase, pass) \in Infos /\ Phased(phase, pass).pass = pass
  BY <1>3, <1>4 DEF Infos
<1>6. {"running", "ended"} \subseteq Phases
  BY DEF Phases
<1>7. CASE ExecSend(n)
  <2>1. heap' = [heap EXCEPT ![SendTask][n] = Phased("running", outbox)]
    <3>1. [i EXCEPT !.phase = "running", !.pass = outbox] = Phased("running", outbox)
      BY <1>3, TwoFields
    <3> HIDE DEF Phased
    <3> QED
      BY <1>7, <3>1 DEF ExecSend
  <2>2. UNCHANGED <<sendData, active, outbox, asked, online>>
    BY <1>7 DEF ExecSend
  <2>3. outbox' \in SUBSET outbox /\ asked' \in SUBSET outbox'
    BY <1>1, <2>2 DEF OutboxOK
  <2>4. Phased("running", outbox) \in Infos /\ Phased("running", outbox).pass \subseteq outbox'
    BY <1>5, <1>6, <2>2
  <2> HIDE DEF Phased
  <2> QED
    BY <1>2, <2>1, <2>2, <2>3, <2>4, PassInv
<1>8. CASE ExecSendEnd(n)
  <2>1. heap' = [heap EXCEPT ![SendTask][n] = Phased("ended", {})]
    <3>1. [i EXCEPT !.phase = "ended", !.pass = {}] = Phased("ended", {})
      BY <1>3, TwoFields
    <3> HIDE DEF Phased
    <3> QED
      BY <1>8, <3>1 DEF ExecSendEnd
  <2>2. UNCHANGED <<sendData, active, outbox, asked, online>>
    BY <1>8 DEF ExecSendEnd
  <2>3. outbox' \in SUBSET outbox /\ asked' \in SUBSET outbox'
    BY <1>1, <2>2 DEF OutboxOK
  <2>4. Phased("ended", {}) \in Infos /\ Phased("ended", {}).pass \subseteq outbox'
    BY <1>5, <1>6
  <2> HIDE DEF Phased
  <2> QED
    BY <1>2, <2>1, <2>2, <2>3, <2>4, PassInv
<1>9. ASSUME NEW m \in Messages, SendOne(n, m)
      PROVE  Inv'
  <2>1. /\ outbox' \in {outbox, outbox \ {m}} /\ asked' = asked \ {m}
        /\ UNCHANGED <<sendData, active, online>>
    BY <1>9 DEF SendOne
  <2>2. heap' = [heap EXCEPT ![SendTask][n] = Phased(i.phase, i.pass \ {m})]
    <3>1. [i EXCEPT !.pass = i.pass \ {m}] = Phased(i.phase, i.pass \ {m})
      BY <1>3 DEF Infos
    <3>2. heap' = [heap EXCEPT ![SendTask][n] = [i EXCEPT !.pass = i.pass \ {m}]]
      BY <1>1, <1>9 DEF SendOne, TableOK
    <3> HIDE DEF Phased
    <3> QED
      BY <3>1, <3>2
  <2>3. /\ i.pass \ {m} \subseteq outbox' /\ outbox' \in SUBSET outbox
        /\ asked' \in SUBSET outbox'
    BY <1>1, <1>4, <2>1 DEF OutboxOK
  <2>4. /\ Phased(i.phase, i.pass \ {m}) \in Infos
        /\ Phased(i.phase, i.pass \ {m}).pass \subseteq outbox'
    BY <1>2, <1>4, <1>5, <2>3
  <2> HIDE DEF Phased
  <2> QED
    BY <1>2, <2>1, <2>2, <2>3, <2>4, PassInv
<1> QED
  BY <1>7, <1>8, <1>9

LEMMA DoneInv ==
  ASSUME Inv, NEW k \in Keys, NEW n \in Slots, Done(k, n)
  PROVE  Inv'
<1>1. heap[k][n].phase \in Phases
  BY DEF Done, Phases
<1>2. TableOK /\ OutboxOK /\ PassIsUnsent
  BY InvParts
<1>3. CASE Release(k, n)
  BY <1>1, <1>3, ReleaseInv
<1>4. CASE ~Release(k, n)
  <2> DEFINE phase == IF heap[k][n].session THEN "queued" ELSE "idle"
             r == [heap[k][n] EXCEPT !.again = FALSE, !.phase = phase]
  <2>1. /\ heap' = [heap EXCEPT ![k][n].again = FALSE, ![k][n].phase = phase]
        /\ UNCHANGED <<sendData, active, outbox, asked, online>>
    BY <1>4 DEF Done
  <2>2. heap' = [heap EXCEPT ![k][n] = r]
    BY <1>2, <2>1 DEF TableOK
  <2>3. heap[k][n] \in Infos /\ active[k] = n /\ sendData
    BY <1>1, <1>2, InfoOf
  <2>4. r \in Infos /\ r.pass = heap[k][n].pass
    BY <2>3 DEF Infos, Phases
  <2> HIDE DEF r
  <2>5. TableOK'
    <3>1. TableOK /\ sendData' = sendData /\ active' = active
      BY <1>2, <2>1
    <3> QED
      BY <2>2, <2>3, <2>4, <3>1, SetInfo
  <2>6. \A j \in Slots : heap'[SendTask][j].pass = heap[SendTask][j].pass
    BY <1>2, <2>2, <2>4 DEF TableOK, Keys
  <2>7. PassIsUnsent'
    BY <1>2, <2>1, <2>6 DEF PassIsUnsent
  <2> QED
    BY <1>2, <2>1, <2>5, <2>7 DEF Inv, TypeOK, TableOK, OutboxOK
<1> QED
  BY <1>3, <1>4

LEMMA CancelInv ==
  ASSUME Inv, NEW S \in SUBSET Keys, Cancel(S)
  PROVE  Inv'
<1>1. TableOK /\ OutboxOK /\ PassIsUnsent /\ SendTask \in Keys
  BY InvParts DEF Keys
<1>2. /\ heap' = [k \in Keys |-> [n \in Slots |->
            IF k \in S /\ heap[k][n] # Freed
            THEN [heap[k][n] EXCEPT !.cancelled = TRUE] ELSE heap[k][n]]]
      /\ asked' \in {{}, asked}
      /\ UNCHANGED <<sendData, active, outbox, online>>
  BY DEF Cancel
<1>3. ASSUME NEW k \in Keys, NEW n \in Slots
      PROVE  /\ heap'[k][n] \in Infos \cup {Freed}
             /\ heap'[k][n] = Freed <=> heap[k][n] = Freed
             /\ heap'[k][n].pass = heap[k][n].pass
  <2>1. heap[k][n] \in Infos \cup {Freed}
    BY <1>1 DEF TableOK
  <2>2. CASE heap[k][n] = Freed
    BY <1>2, <2>2
  <2>3. CASE heap[k][n] \in Infos
    <3>1. /\ [heap[k][n] EXCEPT !.cancelled = TRUE] \in Infos
          /\ [heap[k][n] EXCEPT !.cancelled = TRUE].pass = heap[k][n].pass
      BY <2>3 DEF Infos
    <3>2. heap'[k][n] \in {heap[k][n], [heap[k][n] EXCEPT !.cancelled = TRUE]}
      BY <1>2
    <3> QED
      BY <2>3, <3>1, <3>2, InfosAreNotFreed
  <2> QED
    BY <2>1, <2>2, <2>3
<1>4. heap' \in [Keys -> [Slots -> Infos \cup {Freed}]]
  <2>1. \A k \in Keys : heap'[k] = [n \in Slots |-> heap'[k][n]]
    BY <1>2
  <2>2. \A k \in Keys : heap'[k] \in [Slots -> Infos \cup {Freed}]
    BY <1>3, <2>1
  <2>3. heap' = [k \in Keys |-> heap'[k]]
    BY <1>2
  <2> QED
    BY <2>2, <2>3
<1>5. InfoIsInTable'
  BY <1>1, <1>2, <1>3 DEF TableOK, InfoIsInTable
<1>6. PassIsUnsent'
  BY <1>1, <1>2, <1>3 DEF PassIsUnsent
<1> QED
  BY <1>1, <1>2, <1>4, <1>5, <1>6 DEF Inv, TypeOK, TableOK, OutboxOK

LEMMA NextInv == Inv /\ [Next]_vars => Inv'
<1> SUFFICES ASSUME Inv, [Next]_vars PROVE Inv'
  OBVIOUS
<1>1. CASE Clients
  <2>1. ASSUME NEW t \in Transport, NEW allow \in BOOLEAN, SendReceive(allow, t)
        PROVE  Inv'
    BY <2>1, SendReceiveInv
  <2>2. ASSUME NEW t \in Transport, MailSend(t)
        PROVE  Inv'
    BY <2>2, MailSendInv
  <2>3. ASSUME NEW a \in Accounts, ReceiveService(a) \/ AutoTimeout(a)
        PROVE  Inv'
    BY <2>3, ReceiveServiceInv DEF AutoTimeout
  <2>4. ASSUME NEW m \in Messages, AppendToOutbox(m)
        PROVE  Inv'
    BY <2>4 DEF AppendToOutbox, Inv, TypeOK, InfoIsInTable, PassIsUnsent
  <2>5. ASSUME NEW S \in {{k} : k \in Keys} \cup {Keys}, Cancel(S)
        PROVE  Inv'
    <3>1. S \in SUBSET Keys
      OBVIOUS
    <3> QED
      BY <2>5, <3>1, CancelInv
  <2>6. CASE SetOnline
    BY <2>6 DEF SetOnline, Inv, TypeOK, InfoIsInTable, PassIsUnsent
  <2> QED
    BY <1>1, <2>1, <2>2, <2>3, <2>4, <2>5, <2>6 DEF Clients
<1>2. ASSUME NEW k \in Keys, NEW n \in Slots, Operation(k, n)
      PROVE  Inv'
  <2>1. CASE WentOnline(k, n)
    <3>1. PICK phase \in {"idle", "list"} : Advance(k, n, phase)
      BY <2>1 DEF WentOnline
    <3>2. phase \in Phases /\ heap[k][n].phase \in Phases
      BY <2>1, <3>1 DEF WentOnline, Phases
    <3>3. UNCHANGED <<sendData, active, outbox, asked, online>>
      BY <2>1 DEF WentOnline
    <3> QED
      BY <3>1, <3>2, <3>3, AdvanceInv
  <2>2. CASE Listed(k, n)
    <3>1. heap[k][n].phase \in Phases /\ "queued" \in Phases
      BY <2>2 DEF Listed, Phases
    <3> QED
      BY <2>2, <3>1, AdvanceInv, ReleaseInv DEF Listed
  <2>3. CASE ExecReceive(k, n)
    <3>1. heap[k][n].phase \in Phases /\ "ended" \in Phases
      BY <2>3 DEF ExecReceive, Phases
    <3> QED
      BY <2>3, <3>1, AdvanceInv DEF ExecReceive
  <2>4. CASE ExecSend(n) \/ ExecSendEnd(n) \/ \E m \in Messages : SendOne(n, m)
    BY <2>4, SendSteps
  <2> QED
    BY <1>2, <2>1, <2>2, <2>3, <2>4 DEF Operation
<1>3. ASSUME NEW k \in Keys, NEW n \in Slots, Done(k, n)
      PROVE  Inv'
    BY <1>3, DoneInv
<1>4. CASE UNCHANGED vars
  BY <1>4 DEF vars, Inv, TypeOK, InfoIsInTable, PassIsUnsent
<1> QED
  BY <1>1, <1>2, <1>3, <1>4 DEF Next

\* The table, the infos and the Outbox keep the forms of mail-send-recv.c.
THEOREM TypeCorrect == Spec => []TypeOK
<1>1. Inv => TypeOK
  BY DEF Inv
<1> QED
  BY <1>1, InitInv, NextInv, PTL DEF Spec

\* The info an operation uses in its callbacks is the one in the table, and
\* send_data is there (receive_status, receive_done).
THEOREM CallbacksFindTheirInfo == Spec => []InfoIsInTable
<1>1. Inv => InfoIsInTable
  BY DEF Inv
<1> QED
  BY <1>1, InitInv, NextInv, PTL DEF Spec

\* No message is in a pass after another pass has sent it (send_queue_exec).
THEOREM NoMessageIsSentTwice == Spec => []PassIsUnsent
<1>1. Inv => PassIsUnsent
  BY DEF Inv
<1> QED
  BY <1>1, InitInv, NextInv, PTL DEF Spec

=============================================================================
