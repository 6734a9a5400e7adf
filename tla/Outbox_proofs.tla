--------------------------- MODULE Outbox_proofs ---------------------------
(***************************************************************************)
(* For any messages and any bounds: no message is sent twice without an    *)
(* interruption, and none leaves the Outbox unsent.  The two rest on what  *)
(* is known of the message in hand at each step of mail_send_message       *)
(* (InHand), of the messages that were handed over (OnRecord), and on the  *)
(* places a message can be in the open and in the saved Outbox (Places).   *)
(***************************************************************************)
EXTENDS Outbox, TLAPS

Sent(m) == m \in sent \/ m \notin Addressed

\* A message that is not in the Outbox yet is in no pass.
Places ==
  /\ \A m \in Messages : queue[m] = "new" <=> disk[m] = "new"
  /\ \A m \in Messages : queue[m] = "new" => m \notin sent \cup todo \cup dealt /\ m # cur
  /\ \A m \in Messages : Sent(m) \/ m \in drafts

\* The messages a pass has left are not done with, nor on record as sent.
Left == \A m \in todo : m \notin dealt /\ m \notin handed

\* What was handed over is marked, or about to be.
Marked(m) == queue[m] \in {"deleted", "gone"}
OnRecord ==
  \A m \in handed : Marked(m) \/ (m = cur /\ pc \in {"filter", "file", "mark"})

\* The message in hand.
InHand ==
  /\ pc = "send" => cur \notin handed
  /\ pc \in {"filter", "file", "mark", "save"} => Sent(cur)
  /\ pc = "save" => Marked(cur)

\* The invariant that is inductive: one lemma per action, one step per part of it.
Inv == TypeOK /\ Places /\ Left /\ OnRecord /\ InHand /\ NothingIsLost

LEMMA AppendInv ==
  ASSUME Inv, NEW m \in Messages, Append(m)
  PROVE  Inv'
<1>1. TypeOK'
  BY OutboxAssumption DEF Inv, TypeOK, States, Steps, Append, sends, pass, report, bounds
<1>2. Places'
  BY OutboxAssumption DEF Inv, Places, Sent, TypeOK, Append, sends, pass, report, bounds
<1>3. Left'
  BY OutboxAssumption DEF Inv, Left, TypeOK, Append, sends, pass, report, bounds
<1>4. OnRecord'
  BY OutboxAssumption DEF Inv, OnRecord, Marked, TypeOK, Places, Left, InHand, States, Append, sends, pass, report, bounds
<1>5. InHand'
  BY OutboxAssumption DEF Inv, InHand, Sent, Marked, TypeOK, Places, Left, States, Append, sends, pass, report, bounds
<1>6. NothingIsLost'
  BY OutboxAssumption DEF Inv, NothingIsLost, TypeOK, Places, Sent, InHand, Append, sends, pass, report, bounds
<1> QED
  BY <1>1, <1>2, <1>3, <1>4, <1>5, <1>6 DEF Inv

LEMMA DiscardInv ==
  ASSUME Inv, NEW m \in Messages, Discard(m)
  PROVE  Inv'
<1>1. TypeOK'
  BY OutboxAssumption DEF Inv, TypeOK, States, Steps, Discard, sends, pass, report, bounds
<1>2. Places'
  BY OutboxAssumption DEF Inv, Places, Sent, TypeOK, Discard, sends, pass, report, bounds
<1>3. Left'
  BY OutboxAssumption DEF Inv, Left, TypeOK, Discard, sends, pass, report, bounds
<1>4. OnRecord'
  BY OutboxAssumption DEF Inv, OnRecord, Marked, TypeOK, Places, Left, InHand, States, Discard, sends, pass, report, bounds
<1>5. InHand'
  BY OutboxAssumption DEF Inv, InHand, Sent, Marked, TypeOK, Places, Left, States, Discard, sends, pass, report, bounds
<1>6. NothingIsLost'
  BY OutboxAssumption DEF Inv, NothingIsLost, TypeOK, Places, Sent, InHand, Discard, sends, pass, report, bounds
<1> QED
  BY <1>1, <1>2, <1>3, <1>4, <1>5, <1>6 DEF Inv

LEMMA ClientSyncInv ==
  ASSUME Inv, ClientSync
  PROVE  Inv'
<1>1. TypeOK'
  BY OutboxAssumption DEF Inv, TypeOK, States, Steps, ClientSync, Expunged, sends, pass, report, bounds
<1>2. Places'
  BY OutboxAssumption DEF Inv, Places, Sent, TypeOK, ClientSync, Expunged, sends, pass, report, bounds
<1>3. Left'
  BY OutboxAssumption DEF Inv, Left, TypeOK, ClientSync, Expunged, sends, pass, report, bounds
<1>4. OnRecord'
  BY OutboxAssumption DEF Inv, OnRecord, Marked, TypeOK, Places, Left, InHand, States, ClientSync, Expunged, sends, pass, report, bounds
<1>5. InHand'
  BY OutboxAssumption DEF Inv, InHand, Sent, Marked, TypeOK, Places, Left, States, ClientSync, Expunged, sends, pass, report, bounds
<1>6. NothingIsLost'
  BY OutboxAssumption DEF Inv, NothingIsLost, TypeOK, Places, Sent, InHand, ClientSync, Expunged, sends, pass, report, bounds
<1> QED
  BY <1>1, <1>2, <1>3, <1>4, <1>5, <1>6 DEF Inv

LEMMA StartInv ==
  ASSUME Inv, Start
  PROVE  Inv'
<1>1. TypeOK'
  BY OutboxAssumption DEF Inv, TypeOK, States, Steps, Start, box, sends
<1>2. Places'
  BY OutboxAssumption DEF Inv, Places, Sent, TypeOK, Start, box, sends
<1>3. Left'
  BY DEF Inv, Left, OnRecord, Marked, TypeOK, Start, box, sends
<1>4. OnRecord'
  BY OutboxAssumption DEF Inv, OnRecord, Marked, TypeOK, Places, Left, InHand, States, Start, box, sends
<1>5. InHand'
  BY OutboxAssumption DEF Inv, InHand, Sent, Marked, TypeOK, Places, Left, States, Start, box, sends
<1>6. NothingIsLost'
  BY OutboxAssumption DEF Inv, NothingIsLost, TypeOK, Places, Sent, InHand, Start, box, sends
<1> QED
  BY <1>1, <1>2, <1>3, <1>4, <1>5, <1>6 DEF Inv

LEMMA CancelInv ==
  ASSUME Inv, Cancel
  PROVE  Inv'
<1>1. TypeOK'
  BY OutboxAssumption DEF Inv, TypeOK, States, Steps, Cancel, box, sends, report, bounds
<1>2. Places'
  BY OutboxAssumption DEF Inv, Places, Sent, TypeOK, Cancel, box, sends, report, bounds
<1>3. Left'
  BY OutboxAssumption DEF Inv, Left, TypeOK, Cancel, box, sends, report, bounds
<1>4. OnRecord'
  BY OutboxAssumption DEF Inv, OnRecord, Marked, TypeOK, Places, Left, InHand, States, Cancel, box, sends, report, bounds
<1>5. InHand'
  BY OutboxAssumption DEF Inv, InHand, Sent, Marked, TypeOK, Places, Left, States, Cancel, box, sends, report, bounds
<1>6. NothingIsLost'
  BY OutboxAssumption DEF Inv, NothingIsLost, TypeOK, Places, Sent, InHand, Cancel, box, sends, report, bounds
<1> QED
  BY <1>1, <1>2, <1>3, <1>4, <1>5, <1>6 DEF Inv

LEMMA GetInv ==
  ASSUME Inv, NEW m \in Messages, Get(m)
  PROVE  Inv'
<1>1. TypeOK'
  BY DEF Inv, TypeOK, Left, States, Steps, Get, Return, Outcomes, box, sends, bounds
<1>2. Places'
  BY OutboxAssumption DEF Inv, Places, Sent, TypeOK, Get, Return, Outcomes, box, sends, bounds
<1>3. Left'
  BY OutboxAssumption DEF Inv, Left, TypeOK, Get, Return, Outcomes, box, sends, bounds
<1>4. OnRecord'
  BY OutboxAssumption DEF Inv, OnRecord, Marked, TypeOK, Places, Left, InHand, States, Get, Return, Outcomes, box, sends, bounds
<1>5. InHand'
  BY OutboxAssumption DEF Inv, InHand, Sent, Marked, TypeOK, Places, Left, States, Get, Return, Outcomes, box, sends, bounds
<1>6. NothingIsLost'
  BY OutboxAssumption DEF Inv, NothingIsLost, TypeOK, Places, Sent, InHand, Get, Return, Outcomes, box, sends, bounds
<1> QED
  BY <1>1, <1>2, <1>3, <1>4, <1>5, <1>6 DEF Inv

LEMMA SendInv ==
  ASSUME Inv, Send
  PROVE  Inv'
<1>1. TypeOK'
  BY OutboxAssumption DEF Inv, TypeOK, States, Steps, Send, Return, Goto, Outcomes, box, sends, bounds
<1>2. Places'
  BY OutboxAssumption DEF Inv, Places, Sent, TypeOK, Send, Return, Goto, Outcomes, box, sends, bounds
<1>3. Left'
  BY OutboxAssumption DEF Inv, Left, TypeOK, Send, Return, Goto, Outcomes, box, sends, bounds
<1>4. OnRecord'
  BY OutboxAssumption DEF Inv, OnRecord, Marked, TypeOK, Places, Left, InHand, States, Send, Return, Goto, Outcomes, box, sends, bounds
<1>5. InHand'
  BY OutboxAssumption DEF Inv, InHand, Sent, Marked, TypeOK, Places, Left, States, Send, Return, Goto, Outcomes, box, sends, bounds
<1>6. NothingIsLost'
  BY OutboxAssumption DEF Inv, NothingIsLost, TypeOK, Places, Sent, InHand, Send, Return, Goto, Outcomes, box, sends, bounds
<1> QED
  BY <1>1, <1>2, <1>3, <1>4, <1>5, <1>6 DEF Inv

LEMMA FilterInv ==
  ASSUME Inv, Filter
  PROVE  Inv'
<1>1. TypeOK'
  BY OutboxAssumption DEF Inv, TypeOK, States, Steps, Filter, Return, Goto, Outcomes, box, bounds
<1>2. Places'
  BY OutboxAssumption DEF Inv, Places, Sent, TypeOK, Filter, Return, Goto, Outcomes, box, bounds
<1>3. Left'
  BY OutboxAssumption DEF Inv, Left, TypeOK, Filter, Return, Goto, Outcomes, box, bounds
<1>4. OnRecord'
  BY OutboxAssumption DEF Inv, OnRecord, Marked, TypeOK, Places, Left, InHand, States, Filter, Return, Goto, Outcomes, box, bounds
<1>5. InHand'
  BY OutboxAssumption DEF Inv, InHand, Sent, Marked, TypeOK, Places, Left, States, Filter, Return, Goto, Outcomes, box, bounds
<1>6. NothingIsLost'
  BY OutboxAssumption DEF Inv, NothingIsLost, TypeOK, Places, Sent, InHand, Filter, Return, Goto, Outcomes, box, bounds
<1> QED
  BY <1>1, <1>2, <1>3, <1>4, <1>5, <1>6 DEF Inv

LEMMA FileInv ==
  ASSUME Inv, File
  PROVE  Inv'
<1>1. TypeOK'
  BY OutboxAssumption DEF Inv, TypeOK, States, Steps, File, Filed, Shadowed, FileCancelled, Return, Goto, bounds
<1>2. Places'
  BY OutboxAssumption DEF Inv, Places, Sent, TypeOK, File, Filed, Shadowed, FileCancelled, Return, Goto, bounds
<1>3. Left'
  BY OutboxAssumption DEF Inv, Left, TypeOK, File, Filed, Shadowed, FileCancelled, Return, Goto, bounds
<1>4. OnRecord'
  <2>1. CASE pc' = "mark" /\ UNCHANGED <<handed, cur, queue>>
    BY <2>1 DEF Inv, OnRecord, Marked
  <2>2. CASE handed' = handed \ {cur} /\ UNCHANGED queue
    BY <2>2 DEF Inv, OnRecord, Marked
  <2> QED
    BY <2>1, <2>2 DEF File, Filed, Shadowed, FileCancelled, Goto
<1>5. InHand'
  BY OutboxAssumption DEF Inv, InHand, Sent, Marked, TypeOK, Places, Left, States, File, Filed, Shadowed, FileCancelled, Return, Goto, bounds
<1>6. NothingIsLost'
  BY OutboxAssumption DEF Inv, NothingIsLost, TypeOK, Places, Sent, InHand, File, Filed, Shadowed, FileCancelled, Return, Goto, bounds
<1> QED
  BY <1>1, <1>2, <1>3, <1>4, <1>5, <1>6 DEF Inv

LEMMA MarkInv ==
  ASSUME Inv, Mark
  PROVE  Inv'
<1>1. TypeOK'
  BY OutboxAssumption DEF Inv, TypeOK, States, Steps, Mark, Goto, sends, bounds
<1>2. Places'
  BY DEF Inv, Places, Sent, InHand, TypeOK, Mark, Goto, sends
<1>3. Left'
  BY OutboxAssumption DEF Inv, Left, TypeOK, Mark, Goto, sends, bounds
<1>4. OnRecord'
  BY OutboxAssumption DEF Inv, OnRecord, Marked, TypeOK, Places, Left, InHand, States, Mark, Goto, sends, bounds
<1>5. InHand'
  BY OutboxAssumption DEF Inv, InHand, Sent, Marked, TypeOK, Places, Left, States, Mark, Goto, sends, bounds
<1>6. NothingIsLost'
  BY OutboxAssumption DEF Inv, NothingIsLost, TypeOK, Places, Sent, InHand, Mark, Goto, sends, bounds
<1> QED
  BY <1>1, <1>2, <1>3, <1>4, <1>5, <1>6 DEF Inv

LEMMA SaveInv ==
  ASSUME Inv, Save
  PROVE  Inv'
<1>1. TypeOK'
  BY OutboxAssumption DEF Inv, TypeOK, States, Steps, Save, Return, sends, bounds
<1>2. Places'
  BY OutboxAssumption DEF Inv, Places, Sent, TypeOK, Save, Return, sends, bounds
<1>3. Left'
  BY OutboxAssumption DEF Inv, Left, TypeOK, Save, Return, sends, bounds
<1>4. OnRecord'
  BY OutboxAssumption DEF Inv, OnRecord, Marked, TypeOK, Places, Left, InHand, States, Save, Return, sends, bounds
<1>5. InHand'
  BY OutboxAssumption DEF Inv, InHand, Sent, Marked, TypeOK, Places, Left, States, Save, Return, sends, bounds
<1>6. NothingIsLost'
  BY OutboxAssumption DEF Inv, NothingIsLost, TypeOK, Places, Sent, InHand, Save, Return, sends, bounds
<1> QED
  BY <1>1, <1>2, <1>3, <1>4, <1>5, <1>6 DEF Inv

LEMMA EndInv ==
  ASSUME Inv, End
  PROVE  Inv'
<1>1. TypeOK'
  BY OutboxAssumption DEF Inv, TypeOK, States, Steps, End, Expunged, sends, report, bounds
<1>2. Places'
  BY OutboxAssumption DEF Inv, Places, Sent, TypeOK, End, Expunged, sends, report, bounds
<1>3. Left'
  BY OutboxAssumption DEF Inv, Left, TypeOK, End, Expunged, sends, report, bounds
<1>4. OnRecord'
  BY OutboxAssumption DEF Inv, OnRecord, Marked, TypeOK, Places, Left, InHand, States, End, Expunged, sends, report, bounds
<1>5. InHand'
  BY OutboxAssumption DEF Inv, InHand, Sent, Marked, TypeOK, Places, Left, States, End, Expunged, sends, report, bounds
<1>6. NothingIsLost'
  BY OutboxAssumption DEF Inv, NothingIsLost, TypeOK, Places, Sent, InHand, End, Expunged, sends, report, bounds
<1> QED
  BY <1>1, <1>2, <1>3, <1>4, <1>5, <1>6 DEF Inv

LEMMA CrashInv ==
  ASSUME Inv, Crash
  PROVE  Inv'
<1>1. TypeOK'
  <2>1. crashes' \in 0..MaxCrashes
    BY OutboxAssumption DEF Inv, TypeOK, Crash
  <2>2. handed' \subseteq sent' /\ discarded' \subseteq Messages
    BY DEF Inv, TypeOK, Crash
  <2> QED
    BY <2>1, <2>2 DEF Inv, TypeOK, Steps, Crash
<1>2. Places'
  BY OutboxAssumption DEF Inv, Places, Sent, TypeOK, Crash
<1>3. Left'
  BY OutboxAssumption DEF Inv, Left, TypeOK, Crash
<1>4. OnRecord'
  BY OutboxAssumption DEF Inv, OnRecord, Marked, TypeOK, Places, Left, InHand, States, Crash
<1>5. InHand'
  BY OutboxAssumption DEF Inv, InHand, Sent, Marked, TypeOK, Places, Left, States, Crash
<1>6. NothingIsLost'
  BY OutboxAssumption DEF Inv, NothingIsLost, TypeOK, Places, Sent, InHand, Crash
<1> QED
  BY <1>1, <1>2, <1>3, <1>4, <1>5, <1>6 DEF Inv

LEMMA StutterInv ==
  ASSUME Inv, UNCHANGED vars
  PROVE  Inv'
<1> USE DEF vars, box, sends, report, bounds
<1>1. TypeOK' /\ Places' /\ Left'
  BY DEF Inv, TypeOK, Places, Left, Sent
<1>2. OnRecord' /\ InHand'
  BY DEF Inv, OnRecord, InHand, Marked, Sent
<1>3. NothingIsLost'
  BY DEF Inv, NothingIsLost
<1> QED
  BY <1>1, <1>2, <1>3 DEF Inv

LEMMA InitInv == Init => Inv
<1> SUFFICES ASSUME Init PROVE Inv
  OBVIOUS
<1>1. TypeOK
  <2>1. queue \in [Messages -> States] /\ disk \in [Messages -> States]
    BY DEF Init, States
  <2>2. passes \in 0..MaxPasses /\ crashes \in 0..MaxCrashes
    BY OutboxAssumption DEF Init
  <2> QED
    BY <2>1, <2>2 DEF Init, TypeOK, Steps
<1>2. Places /\ Left /\ OnRecord /\ InHand
  BY OutboxAssumption DEF Init, Places, Left, OnRecord, InHand, Sent
<1>3. NothingIsLost
  BY OutboxAssumption DEF Init, NothingIsLost
<1> QED
  BY <1>1, <1>2, <1>3 DEF Inv

\* Every state of Outbox satisfies the invariant.
THEOREM Invariance == Spec => []Inv
<1>1. Inv /\ [Next]_vars => Inv'
  <2> SUFFICES ASSUME Inv, [Next]_vars PROVE Inv'
    OBVIOUS
  <2>1. ASSUME NEW m \in Messages, Append(m) PROVE Inv'
    BY <2>1, AppendInv
  <2>2. ASSUME NEW m \in Messages, Discard(m) PROVE Inv'
    BY <2>2, DiscardInv
  <2>3. CASE ClientSync
    BY <2>3, ClientSyncInv
  <2>4. CASE Start
    BY <2>4, StartInv
  <2>5. CASE Cancel
    BY <2>5, CancelInv
  <2>6. ASSUME NEW m \in Messages, Get(m) PROVE Inv'
    BY <2>6, GetInv
  <2>7. CASE Send
    BY <2>7, SendInv
  <2>8. CASE Filter
    BY <2>8, FilterInv
  <2>9. CASE File
    BY <2>9, FileInv
  <2>10. CASE Mark
    BY <2>10, MarkInv
  <2>11. CASE Save
    BY <2>11, SaveInv
  <2>12. CASE End
    BY <2>12, EndInv
  <2>13. CASE Crash
    BY <2>13, CrashInv
  <2>14. CASE UNCHANGED vars
    BY <2>14, StutterInv
  <2> QED
    BY <2>1, <2>2, <2>3, <2>4, <2>5, <2>6, <2>7, <2>8, <2>9, <2>10, <2>11, <2>12, <2>13, <2>14 DEF Next
<1> QED
  BY <1>1, InitInv, PTL DEF Spec

\* The types, for any messages and bounds.
THEOREM TypeCorrect == Spec => []TypeOK
  BY Invariance, PTL DEF Inv

\* mail_send_message does not hand a message over that an uninterrupted pass
\* has handed over before.
THEOREM NoResend == Spec => []SentOnce
<1>1. Inv => SentOnce
  BY DEF Inv, InHand, SentOnce
<1> QED
  BY <1>1, Invariance, PTL

\* What was not sent stays in the Outbox, on disk too, and so does its draft.
THEOREM UnsentStays == Spec => []NothingIsLost
  BY Invariance, PTL DEF Inv
=============================================================================
