----------------------------- MODULE SendRecv -----------------------------
(***************************************************************************)
(* mail-send-recv.c: the table of fetches, folder updates and sends in     *)
(* progress.  send_data exists while a round is on; its table `active'     *)
(* maps a service, or the send task, to a struct _send_info, which lives   *)
(* until the operation started for it calls receive_done in the main loop. *)
(* The operations themselves run in worker threads (fetch, refresh, send)  *)
(* or as asynchronous store calls (note_store).  All entry points are      *)
(* called in the main loop: D-Bus methods, timers and source signals.      *)
(***************************************************************************)
EXTENDS Naturals

CONSTANTS
  Accounts,    \* uids of the enabled mail accounts
  SendTask,    \* SEND_URI_KEY
  Kind,        \* get_receive_type of each account's service
  Messages

Keys == Accounts \cup {SendTask}

\* What the default identity leads to.  "none": there is no default identity
\* with a transport; "absent": its service is not a loaded transport; "ready".
Transport == {"none", "absent", "ready"}

ASSUME SendRecvAssumption ==
  /\ SendTask \notin Accounts
  /\ Kind \in [Accounts -> {"receive", "update", "invalid"}]

VARIABLES
  sendData, \* send_data # NULL
  active,   \* active[k]: which info of k is in the table, 0 for none
  heap,     \* heap[k][n]: an allocated struct _send_info, or Freed
  outbox,   \* messages of the Outbox not marked deleted
  asked,    \* messages of the Outbox at a request that a send serves, not
            \* tried since
  online    \* the session is online

vars == <<sendData, active, heap, outbox, asked, online>>

\* Two infos of one key could exist only if the table lost track of one.
Slots == 1..2
Freed == [phase |-> "freed", session |-> FALSE, again |-> FALSE,
          cancelled |-> FALSE, pass |-> {}]

\* What is under way for an info: "online" and "list" are the two waits of
\* mail_folder_cache_note_store, "queued" to "ended" the life of a MailMsg;
\* "idle": nothing that could end is.
Phases == {"online", "list", "queued", "running", "ended", "idle"}

Infos == [phase : Phases, session : BOOLEAN, again : BOOLEAN,
          cancelled : BOOLEAN, pass : SUBSET Messages]

NewInfo(phase, session) ==
  [Freed EXCEPT !.phase = phase, !.session = session]

Init ==
  /\ sendData = FALSE /\ active = [k \in Keys |-> 0]
  /\ heap = [k \in Keys |-> [n \in Slots |-> Freed]]
  /\ outbox \in SUBSET Messages /\ asked = {} /\ online \in BOOLEAN

Live(k) == {n \in Slots : heap[k][n] # Freed}
Fresh(k) == CHOOSE n \in Slots : n \notin Live(k)

\* Where the operation of an account begins.  A store that is offline in an
\* online session is put online before its folders are listed.
FirstPhases(a) ==
  IF Kind[a] = "receive" THEN {"queued"}
  ELSE {"list"} \cup (IF online THEN {"online"} ELSE {})

\* build_infra and the loop of send_receive: an info, with its operation, for
\* each account and for a non-empty Outbox.  The send info has no session.
SendReceive(allowSend, transport) ==
  LET kinds == {a \in Accounts : Kind[a] # "invalid"}
      sends == allowSend /\ transport = "ready" /\ outbox # {}
      keys == kinds \cup (IF sends THEN {SendTask} ELSE {})
  IN /\ ~sendData /\ online
     /\ sendData' = TRUE
     /\ active' = [k \in Keys |-> IF k \in keys THEN Fresh(k) ELSE active[k]]
     /\ \E phase \in [kinds -> Phases] :
          /\ \A a \in kinds : phase[a] \in FirstPhases(a)
          /\ heap' = [k \in Keys |->
               IF k \in kinds THEN [heap[k] EXCEPT ![Fresh(k)] = NewInfo(phase[k], TRUE)]
               ELSE IF k \in keys THEN [heap[k] EXCEPT ![Fresh(k)] = NewInfo("queued", FALSE)]
               ELSE heap[k]]
     /\ asked' = IF sends THEN outbox ELSE asked
     /\ UNCHANGED <<outbox, online>>

\* Insertion into the table of an info whose operation is in the given phase.
Insert(k, phase) ==
  /\ active' = [active EXCEPT ![k] = Fresh(k)]
  /\ heap' = [heap EXCEPT ![k][Fresh(k)] = NewInfo(phase, TRUE)]

\* mail_receive_service: one operation for an account at a time.
ReceiveService(a) ==
  /\ sendData' = TRUE
  /\ IF active[a] # 0 \/ Kind[a] = "invalid" THEN UNCHANGED <<active, heap>>
     ELSE \E phase \in FirstPhases(a) : Insert(a, phase)
  /\ UNCHANGED <<outbox, asked, online>>

\* auto_timeout: the account's timer only fetches while the session is online.
AutoTimeout(a) == online /\ ReceiveService(a)

\* Mutant: a second send is started next to the first.
MailSendBeside(transport) ==
  /\ transport = "ready" /\ Live(SendTask) # Slots
  /\ sendData' = TRUE /\ asked' = outbox /\ Insert(SendTask, "queued")
  /\ UNCHANGED <<outbox, online>>

\* Mutant: a request made while a send is on is forgotten.
MailSendOnce(transport) ==
  /\ transport = "ready"
  /\ sendData' = TRUE /\ asked' = outbox
  /\ IF active[SendTask] # 0 THEN UNCHANGED <<active, heap>>
     ELSE Insert(SendTask, "queued")
  /\ UNCHANGED <<outbox, online>>

\* A send that is on serves one more request if it can be queued again, and
\* if it is not cancelled, since it is queued with the same cancellable.
RunsAgain(info) == info.session /\ ~info.cancelled

\* mail_send: a send that is on is told to run again; send_data is set up
\* even if the transport turns out not to be there.
MailSend(transport) ==
  /\ transport # "none"
  /\ sendData' = TRUE
  /\ \/ /\ active[SendTask] # 0
        /\ heap' = [heap EXCEPT ![SendTask][active[SendTask]].again = TRUE]
        /\ asked' = IF RunsAgain(heap[SendTask][active[SendTask]])
                    THEN outbox ELSE asked
        /\ UNCHANGED active
     \/ /\ active[SendTask] = 0 /\ transport = "ready"
        /\ Insert(SendTask, "queued") /\ asked' = outbox
     \/ /\ active[SendTask] = 0 /\ transport = "absent"
        /\ UNCHANGED <<active, heap, asked>>
  /\ UNCHANGED <<outbox, online>>

Advance(k, n, phase) == heap' = [heap EXCEPT ![k][n].phase = phase]

\* store_go_online_cb.  If the store has left the cache, or the update was
\* cancelled, the request is dropped and its done function is not called.
WentOnline(a, n) ==
  /\ heap[a][n].phase = "online"
  /\ \E left \in BOOLEAN :
       Advance(a, n, IF left \/ heap[a][n].cancelled THEN "idle" ELSE "list")
  /\ UNCHANGED <<sendData, active, outbox, asked, online>>

\* The info leaves the table and is freed, send_data with the last one.
Release(k, n) ==
  /\ active' = [active EXCEPT ![k] = 0]
  /\ heap' = [heap EXCEPT ![k][n] = Freed]
  /\ sendData' = (\E j \in Keys : active'[j] # 0)
  /\ UNCHANGED <<outbox, asked, online>>

\* update_folders calls receive_update_got_folderinfo with the folders, which
\* are refreshed by a message of their own, or with NULL.
Listed(a, n) ==
  /\ heap[a][n].phase = "list"
  /\ \/ /\ Advance(a, n, "queued")
        /\ UNCHANGED <<sendData, active, outbox, asked, online>>
     \/ Release(a, n)

\* fetch_mail_exec or refresh_folders_exec in a worker.
ExecReceive(a, n) ==
  /\ heap[a][n].phase = "queued" /\ Advance(a, n, "ended")
  /\ UNCHANGED <<sendData, active, outbox, asked, online>>

\* send_queue_exec begins with the uids that are in the Outbox.
ExecSend(n) ==
  /\ heap[SendTask][n].phase = "queued"
  /\ heap' = [heap EXCEPT ![SendTask][n] =
                [@ EXCEPT !.phase = "running", !.pass = outbox]]
  /\ UNCHANGED <<sendData, active, outbox, asked, online>>

\* Mutant: a message that is sent still counts as one to be sent.
SendOneStillAsked(n, m) ==
  /\ heap[SendTask][n].phase = "running" /\ m \in heap[SendTask][n].pass
  /\ heap' = [heap EXCEPT ![SendTask][n].pass = @ \ {m}]
  /\ outbox' \in {outbox, outbox \ {m}}
  /\ UNCHANGED <<sendData, active, asked, online>>

\* One message of the pass is sent and marked deleted, or fails and stays.
SendOne(n, m) ==
  /\ heap[SendTask][n].phase = "running" /\ m \in heap[SendTask][n].pass
  /\ heap' = [heap EXCEPT ![SendTask][n].pass = @ \ {m}]
  /\ outbox' \in {outbox, outbox \ {m}}
  /\ asked' = asked \ {m}
  /\ UNCHANGED <<sendData, active, online>>

\* The pass is over, or a cancelled message has ended it.
ExecSendEnd(n) ==
  /\ heap[SendTask][n].phase = "running"
  /\ heap[SendTask][n].pass = {} \/ heap[SendTask][n].cancelled
  /\ heap' = [heap EXCEPT ![SendTask][n] =
                [@ EXCEPT !.phase = "ended", !.pass = {}]]
  /\ UNCHANGED <<sendData, active, outbox, asked, online>>

\* Mutant: the data goes with the first info that leaves.
DoneFreeingData(k, n) ==
  /\ heap[k][n].phase = "ended"
  /\ active' = [active EXCEPT ![k] = 0]
  /\ heap' = [heap EXCEPT ![k][n] = Freed]
  /\ sendData' = FALSE
  /\ UNCHANGED <<outbox, asked, online>>

\* receive_done.  A send asked to run again is queued again, with the same
\* info; mail_send_queue refuses a NULL session and nothing is under way then.
Done(k, n) ==
  /\ heap[k][n].phase = "ended"
  /\ \/ /\ k = SendTask /\ heap[k][n].again
        /\ heap' = [heap EXCEPT ![k][n].again = FALSE,
             ![k][n].phase = IF heap[k][n].session THEN "queued" ELSE "idle"]
        /\ UNCHANGED <<sendData, active, outbox, asked, online>>
     \/ /\ ~(k = SendTask /\ heap[k][n].again)
        /\ Release(k, n)

\* A client writes a message to the Outbox.
AppendToOutbox(m) ==
  /\ m \notin outbox /\ outbox' = outbox \cup {m}
  /\ UNCHANGED <<sendData, active, heap, asked, online>>

\* The operation handed to the client, or mail_cancel_all.  To cancel a send
\* withdraws the requests made until then.
Cancel(S) ==
  /\ heap' = [k \in Keys |-> [n \in Slots |->
       IF k \in S /\ heap[k][n] # Freed
       THEN [heap[k][n] EXCEPT !.cancelled = TRUE] ELSE heap[k][n]]]
  /\ asked' = IF SendTask \in S /\ active[SendTask] # 0 THEN {} ELSE asked
  /\ UNCHANGED <<sendData, active, outbox, online>>

SetOnline == online' = ~online /\ UNCHANGED <<sendData, active, heap, outbox, asked>>

Clients ==
  \/ \E t \in Transport :
       SendReceive(TRUE, t) \/ SendReceive(FALSE, t) \/ MailSend(t)
  \/ \E a \in Accounts : ReceiveService(a) \/ AutoTimeout(a)
  \/ \E m \in Messages : AppendToOutbox(m)
  \/ \E S \in {{k} : k \in Keys} \cup {Keys} : Cancel(S)
  \/ SetOnline

Operation(k, n) ==
  \/ k \in Accounts /\ (WentOnline(k, n) \/ Listed(k, n) \/ ExecReceive(k, n))
  \/ k = SendTask /\ (ExecSend(n) \/ ExecSendEnd(n) \/ \E m \in Messages : SendOne(n, m))

Next == Clients \/ \E k \in Keys, n \in Slots : Operation(k, n) \/ Done(k, n)

Spec == Init /\ [][Next]_vars

\* An operation that has begun goes on, and the main loop dispatches its end:
\* threads, store calls and timeouts of the transport make progress.
FairSpec ==
  /\ Spec
  /\ \A k \in Keys, n \in Slots : WF_vars(Operation(k, n)) /\ WF_vars(Done(k, n))
-----------------------------------------------------------------------------
TypeOK ==
  /\ sendData \in BOOLEAN /\ online \in BOOLEAN
  /\ active \in [Keys -> {0} \cup Slots]
  /\ heap \in [Keys -> [Slots -> Infos \cup {Freed}]]
  /\ outbox \in SUBSET Messages /\ asked \in SUBSET outbox

\* An operation under way refers to the info that is in the table under its
\* key, and to a send_data that exists: its callbacks (receive_status,
\* receive_done) use both without a check.
InfoIsInTable ==
  \A k \in Keys : /\ \A n \in Slots : heap[k][n] # Freed => active[k] = n
                  /\ active[k] # 0 => heap[k][active[k]] # Freed /\ sendData

\* What a pass has still to send is still unsent: no message goes out twice
\* because two passes took it from the Outbox.
PassIsUnsent == \A n \in Slots : heap[SendTask][n].pass \subseteq outbox

\* A message in the Outbox when a send is asked for is tried: by the pass that
\* is yet to begin, or by one more pass if the present one began before the
\* message came; whatever rounds, cancellations and lost updates go on beside.
\* Requests that find a send which cannot run again, or is cancelled, are not
\* promised anything.
EveryRequestIsServed == \A m \in Messages : m \in asked ~> m \notin asked

\* Two promises the code does not keep.  When send_receive is turned away
\* because it "is already in progress", something is in progress.
InProgress == sendData => \E k \in Keys : active[k] # 0

\* The info of an account leaves the table, so that the account can be fetched
\* again: no operation ends without receive_done.
AccountIsReleased == \A a \in Accounts : active[a] # 0 ~> active[a] = 0
=============================================================================
