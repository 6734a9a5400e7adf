----------------------------- MODULE Passwords -----------------------------
(***************************************************************************)
(* e-util/e-passwords.c: any thread asks for, adds, remembers or forgets a *)
(* password by queueing an EPassMsg and waiting for its EFlag; the main    *)
(* thread runs the messages one at a time and puts up at most one dialog.  *)
(* A caller in the main thread iterates the main loop while it waits, so a *)
(* second call may nest in the first.  The only caller of                  *)
(* e_passwords_ask_password in the tree passes no parent window, so the    *)
(* dialog is not modal and ep_ask_password returns at once.                *)
(***************************************************************************)
EXTENDS Integers, Sequences, FiniteSets

CONSTANTS
  Threads,   \* worker threads, one message each at a time
  MainCalls, \* calls the main thread may nest
  Keys,
  Words,     \* the passwords users type and callers add
  NoWord,    \* NULL
  MaxCalls   \* bound on the calls one thread makes

Callers == Threads \cup MainCalls

ASSUME PasswordsAssumption ==
  /\ NoWord \notin Words /\ NoWord \notin Callers
  /\ Threads \cap MainCalls = {}
  /\ MaxCalls \in Nat

VARIABLES
  msg,     \* msg[r]: the caller's EPassMsg
  queue,   \* message_queue
  idleId,  \* idle_id # 0
  sources, \* idle sources for ep_idle_dispatch attached
  drain,   \* the main thread is in the loop of ep_idle_dispatch
  stack,   \* main-thread calls waiting in ep_msg_send, outermost first
  dialog,  \* the message of password_dialog, or NoWord
  cache,   \* password_cache
  keyring, \* the secret service
  calls    \* calls[r]: calls made so far

vars == <<msg, queue, idleId, sources, drain, stack, dialog, cache, keyring, calls>>

Ops == {"get", "add", "remember", "forget", "ask"}
Idle == [st |-> "idle", op |-> "get", key |-> NoWord, word |-> NoWord]
Maybe == Words \cup {NoWord}

Init ==
  /\ msg = [r \in Callers |-> Idle] /\ queue = <<>>
  /\ idleId = FALSE /\ sources = 0 /\ drain = FALSE /\ stack = <<>>
  /\ dialog = NoWord
  /\ cache = [k \in Keys |-> NoWord] /\ keyring \in [Keys -> Maybe]
  /\ calls = [r \in Callers |-> 0]

\* ep_msg_new with the fields the e_passwords_ function fills in.
Message(r, m) ==
  /\ msg[r].st = "idle" /\ calls[r] < MaxCalls
  /\ m.st = "waiting" /\ m.op \in Ops /\ (m.op # "add" => m.word = NoWord)
  /\ m.op = "add" => m.word # NoWord
  /\ msg' = [msg EXCEPT ![r] = m]
  /\ calls' = [calls EXCEPT ![r] = @ + 1]
  /\ queue' = Append(queue, r)

Messages == [st : {"waiting"}, op : Ops, key : Keys, word : Maybe]

\* ep_msg_send in a worker thread.
Send(r) ==
  /\ r \in Threads
  /\ \E m \in Messages : Message(r, m)
  /\ idleId' = TRUE
  /\ sources' = IF idleId THEN sources ELSE sources + 1
  /\ UNCHANGED <<drain, stack, dialog, cache, keyring>>

\* ep_msg_send in the main thread: it runs the queue itself unless an idle
\* source is to do so, then iterates the main loop until its flag is set.
SendMain(r) ==
  /\ r \in MainCalls /\ ~drain
  /\ \E m \in Messages : Message(r, m)
  /\ stack' = Append(stack, r)
  /\ drain' = ~idleId
  /\ UNCHANGED <<idleId, sources, dialog, cache, keyring>>

\* The idle source is dispatched.
IdleDispatch ==
  /\ ~drain /\ sources > 0
  /\ sources' = sources - 1 /\ drain' = TRUE
  /\ UNCHANGED <<msg, queue, idleId, stack, dialog, cache, keyring, calls>>

Answer(r, word) == msg' = [msg EXCEPT ![r].st = "answered", ![r].word = word]

\* ep_get_password: the session's password, else the keyring's if it can be read.
Get(r, k) ==
  /\ \E found \in {keyring[k], NoWord} :
       Answer(r, IF cache[k] # NoWord THEN cache[k] ELSE found)
  /\ UNCHANGED <<dialog, cache, keyring>>

\* Mutant: key and password are swapped.
AddSwapped(r, k) ==
  /\ cache' = [cache EXCEPT ![k] = k] /\ Answer(r, NoWord)
  /\ UNCHANGED <<dialog, keyring>>

Add(r, k) ==
  /\ cache' = [cache EXCEPT ![k] = msg[r].word] /\ Answer(r, NoWord)
  /\ UNCHANGED <<dialog, keyring>>

\* ep_remember_password moves the password to the keyring, if that can be done.
Remember(r, k) ==
  /\ \/ /\ cache[k] # NoWord
        /\ keyring' = [keyring EXCEPT ![k] = cache[k]]
        /\ cache' = [cache EXCEPT ![k] = NoWord]
     \/ UNCHANGED <<cache, keyring>>
  /\ Answer(r, NoWord) /\ UNCHANGED dialog

Forget(r, k) ==
  /\ cache' = [cache EXCEPT ![k] = NoWord]
  /\ \E left \in {keyring[k], NoWord} : keyring' = [keyring EXCEPT ![k] = left]
  /\ Answer(r, NoWord) /\ UNCHANGED dialog

\* ep_ask_password puts the dialog up and leaves the caller waiting.
Ask(r) == dialog' = r /\ UNCHANGED <<msg, cache, keyring>>

Dispatch(r) ==
  LET k == msg[r].key IN
  CASE msg[r].op = "get"      -> Get(r, k)
    [] msg[r].op = "add"      -> Add(r, k)
    [] msg[r].op = "remember" -> Remember(r, k)
    [] msg[r].op = "forget"   -> Forget(r, k)
    [] msg[r].op = "ask"      -> Ask(r)

\* Mutant: the loop does not stop for a dialog.
DrainPastDialog ==
  /\ drain /\ queue # <<>>
  /\ queue' = Tail(queue)
  /\ Dispatch(Head(queue))
  /\ UNCHANGED <<idleId, sources, drain, stack, calls>>

\* One turn of the loop of ep_idle_dispatch.
Drain ==
  /\ drain /\ dialog = NoWord /\ queue # <<>>
  /\ queue' = Tail(queue)
  /\ Dispatch(Head(queue))
  /\ UNCHANGED <<idleId, sources, drain, stack, calls>>

\* Mutant: the id is left set.
DrainEndKeepingId ==
  /\ drain /\ (dialog # NoWord \/ queue = <<>>)
  /\ drain' = FALSE
  /\ UNCHANGED <<msg, queue, idleId, sources, stack, dialog, cache, keyring, calls>>

DrainEnd ==
  /\ drain /\ (dialog # NoWord \/ queue = <<>>)
  /\ idleId' = FALSE /\ drain' = FALSE
  /\ UNCHANGED <<msg, queue, sources, stack, dialog, cache, keyring, calls>>

\* The pending messages that the answer to a dialog for key k settles.
Settled(k) ==
  {r \in Callers : /\ \E i \in DOMAIN queue : queue[i] = r
                   /\ msg[r].op \in {"forget", "get", "ask"} /\ msg[r].key = k}

\* The list without the messages that are taken out of it.
Without(q, gone) ==
  LET left[i \in 0..Len(q)] ==
        IF i = 0 THEN <<>>
        ELSE IF q[i] \in gone THEN left[i - 1] ELSE Append(left[i - 1], q[i])
  IN  left[Len(q)]

\* What is kept of a typed word: nothing, the password of the session, or that
\* of the keyring (REMEMBER_FOREVER), if it can be stored there.
Keep(k, word) ==
  \/ UNCHANGED <<cache, keyring>>
  \/ /\ word # NoWord
     /\ cache' = [cache EXCEPT ![k] = word] /\ UNCHANGED keyring
  \/ /\ word # NoWord
     /\ keyring' = [keyring EXCEPT ![k] = word]
     /\ cache' = [cache EXCEPT ![k] = NoWord]

\* Mutant: the dialog's own caller is not told.
ResponseUnanswered(word) ==
  LET k == msg[dialog].key  done == Settled(k) IN
  /\ ~drain /\ dialog # NoWord
  /\ Keep(k, word)
  /\ msg' = [r \in Callers |-> IF r \in done
              THEN [msg[r] EXCEPT !.st = "answered", !.word = word] ELSE msg[r]]
  /\ queue' = Without(queue, done)
  /\ dialog' = NoWord /\ drain' = TRUE
  /\ UNCHANGED <<idleId, sources, stack, calls>>

\* pass_response: the user cancels (word = NoWord) or types a word, and may
\* let it be remembered.  Pending requests for the same key are given the same
\* answer and the queue is run again.
Response(word) ==
  LET k == msg[dialog].key  done == Settled(k) \cup {dialog} IN
  /\ ~drain /\ dialog # NoWord
  /\ Keep(k, word)
  /\ msg' = [r \in Callers |-> IF r \in done
              THEN [msg[r] EXCEPT !.st = "answered", !.word = word] ELSE msg[r]]
  /\ queue' = Without(queue, done)
  /\ dialog' = NoWord /\ drain' = TRUE
  /\ UNCHANGED <<idleId, sources, stack, calls>>

\* e_flag_wait returns in a worker; ep_msg_free.
Return(r) ==
  /\ r \in Threads /\ msg[r].st = "answered"
  /\ msg' = [msg EXCEPT ![r] = Idle]
  /\ UNCHANGED <<queue, idleId, sources, drain, stack, dialog, cache, keyring, calls>>

\* The innermost main-thread call finds its flag set.
ReturnMain ==
  /\ ~drain /\ stack # <<>>
  /\ LET r == stack[Len(stack)] IN
       /\ msg[r].st = "answered"
       /\ msg' = [msg EXCEPT ![r] = Idle]
  /\ stack' = SubSeq(stack, 1, Len(stack) - 1)
  /\ UNCHANGED <<queue, idleId, sources, drain, dialog, cache, keyring, calls>>

Finished ==
  /\ \A r \in Callers : calls[r] = MaxCalls /\ msg[r].st = "idle"
  /\ sources = 0 /\ ~drain
  /\ UNCHANGED vars

UserAnswers == \E word \in Maybe : Response(word)
MainLoop == IdleDispatch \/ Drain \/ DrainEnd

Next ==
  \/ \E r \in Callers : Send(r) \/ SendMain(r) \/ Return(r)
  \/ MainLoop \/ UserAnswers \/ ReturnMain
  \/ Finished

\* Threads run, the main loop turns, and the user deals with a dialog.
Fairness ==
  /\ WF_vars(MainLoop) /\ WF_vars(UserAnswers) /\ WF_vars(ReturnMain)
  /\ \A r \in Threads : WF_vars(Return(r))

Spec == Init /\ [][Next]_vars
FairSpec == Spec /\ Fairness

-----------------------------------------------------------------------------
TypeOK ==
  /\ msg \in [Callers -> [st : {"idle", "waiting", "answered"}, op : Ops,
                          key : Keys \cup {NoWord}, word : Maybe]]
  /\ queue \in Seq(Callers) /\ idleId \in BOOLEAN /\ sources \in Nat
  /\ drain \in BOOLEAN /\ stack \in Seq(MainCalls)
  /\ dialog \in Callers \cup {NoWord}
  /\ cache \in [Keys -> Maybe] /\ keyring \in [Keys -> Maybe]
  /\ calls \in [Callers -> 0..MaxCalls]

InQueue(r) == \E i \in DOMAIN queue : queue[i] = r

(* Every caller that waits is in exactly one place from which its flag     *)
(* will be set, the queue or the dialog, and neither holds a message whose *)
(* caller has been answered and may have freed it.                         *)
WaiterHasPlace ==
  \A r \in Callers :
    /\ msg[r].st = "waiting" <=> (InQueue(r) \/ dialog = r)
    /\ ~(InQueue(r) /\ dialog = r)
    /\ \A i, j \in DOMAIN queue : queue[i] = queue[j] => i = j

(* A queued message always has somebody coming for it: the dialog that is  *)
(* up (whose response runs the queue), an attached idle source, or the     *)
(* loop of ep_idle_dispatch.  Neither direct calls of ep_idle_dispatch,    *)
(* which clear the id of a source that is still attached, nor calls nested *)
(* in the main thread break this.                                          *)
QueueIsServed ==
  /\ queue # <<>> => dialog # NoWord \/ sources > 0 \/ drain
  /\ idleId => sources > 0 \/ drain

(* Every call of an e_passwords function returns, as long as the user      *)
(* deals with each dialog; also a call of the main thread that was nested  *)
(* in another.                                                             *)
EveryCallReturns == \A r \in Callers : msg[r].st # "idle" ~> msg[r].st = "idle"

(* e-passwords.c says of e_passwords_forget_password that it forgets the   *)
(* password associated with the key, in memory and on disk.  So when a     *)
(* dialog is cancelled and a pending forget is answered with it, the       *)
(* session must not go on remembering a word for that key.                 *)
ForgetForgets ==
  [][\A r \in Callers :
       /\ msg[r].op = "forget" /\ msg[r].st = "waiting"
       /\ msg'[r].st = "answered" /\ msg'[r].word = NoWord
       => cache'[msg[r].key] = NoWord]_vars
=============================================================================
