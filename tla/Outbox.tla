------------------------------- MODULE Outbox -------------------------------
(***************************************************************************)
(* libemail-engine/mail-ops.c: a pass over the Outbox.  send_queue_exec    *)
(* takes the messages that are not deleted and hands them one by one to    *)
(* mail_send_message, which sends the message, filters it, files a copy in *)
(* a Sent folder, marks it deleted and saves the Outbox.  The pass can be  *)
(* cancelled at any time, every call of it can fail, and the process can   *)
(* die.  One pass runs at a time (SendRecv, NoMessageIsSentTwice).         *)
(***************************************************************************)
EXTENDS Naturals

CONSTANTS
  Messages,
  Addressed,  \* those with a recipient
  Unfiled,    \* those whose provider keeps its own sent mail
  MaxPasses,  \* bound on the passes
  MaxCrashes, \* bound on the crashes
  None

ASSUME OutboxAssumption ==
  /\ Addressed \subseteq Messages /\ Unfiled \subseteq Messages
  /\ None \notin Messages /\ MaxPasses \in Nat /\ MaxCrashes \in Nat

VARIABLES
  queue,     \* queue[m]: in the open Outbox, or not yet there, or expunged
  disk,      \* the same, as saved
  drafts,    \* messages whose draft is not marked for deletion
  copies,    \* messages with a copy in a Sent folder
  sent,      \* messages that have been handed to a transport
  handed,    \* of these, the ones whose sending was not interrupted since
  discarded, \* messages a client has deleted
  pc,        \* the step the pass is at
  todo,      \* uids of the pass that are left
  cur,       \* the message being sent
  warned,    \* err->len > 0: a warning to report in the end
  cancelled, \* the cancellable of the pass
  failed,    \* messages counted as failed, or left by a cancellation
  errs,      \* messages whose error was merged into m->base.error
  dealt,     \* messages mail_send_message has returned from in this pass
  unserved,  \* ... without a transport
  passes, crashes

box == <<queue, disk, drafts, copies, discarded>>
sends == <<sent, handed>>
report == <<failed, errs, dealt, unserved>>
bounds == <<passes, crashes>>
vars == <<box, sends, report, pc, todo, cur, warned, cancelled, bounds>>

States == {"new", "queued", "deleted", "gone"}
Steps == {"idle", "next", "send", "filter", "file", "mark", "save", "end"}

Init ==
  /\ queue = [m \in Messages |-> "new"] /\ disk = queue
  /\ drafts = Messages /\ copies = {} /\ sent = {} /\ handed = {} /\ discarded = {}
  /\ pc = "idle" /\ todo = {} /\ cur = None /\ warned = FALSE /\ cancelled = FALSE
  /\ failed = {} /\ errs = {} /\ dealt = {} /\ unserved = {}
  /\ passes = 0 /\ crashes = 0

pass == <<report, pc, todo, cur, warned, cancelled>>

\* A client appends a message, which is saved with the folder.
Append(m) ==
  /\ queue[m] = "new"
  /\ queue' = [queue EXCEPT ![m] = "queued"]
  /\ disk' = [disk EXCEPT ![m] = "queued"]
  /\ UNCHANGED <<drafts, copies, discarded, sends, pass, bounds>>

\* A client sets the deleted flag.
Discard(m) ==
  /\ queue[m] = "queued"
  /\ queue' = [queue EXCEPT ![m] = "deleted"]
  /\ discarded' = discarded \cup {m}
  /\ UNCHANGED <<disk, drafts, copies, sends, pass, bounds>>

Expunged(q) == [m \in Messages |-> IF q[m] = "deleted" THEN "gone" ELSE q[m]]

\* A client saves the Outbox, or expunges it.
ClientSync ==
  /\ queue' \in {queue, Expunged(queue)} /\ disk' = queue'
  /\ UNCHANGED <<drafts, copies, discarded, sends, pass, bounds>>

\* The cancellable may be one that was cancelled before (receive_done).
Start ==
  /\ pc = "idle" /\ passes < MaxPasses
  /\ \E m \in Messages : queue[m] = "queued"
  /\ todo' = {m \in Messages : queue[m] = "queued"}
  /\ pc' = "next" /\ cancelled' \in BOOLEAN /\ passes' = passes + 1
  /\ failed' = {} /\ errs' = {} /\ dealt' = {} /\ unserved' = {}
  /\ UNCHANGED <<box, sends, cur, warned, crashes>>

Cancel ==
  /\ pc # "idle" /\ cancelled' = TRUE
  /\ UNCHANGED <<box, sends, report, pc, todo, cur, warned, bounds>>

\* How a call ends: G_IO_ERROR_CANCELLED is for a cancelled pass.
Outcomes == {"ok", "error"} \cup (IF cancelled THEN {"cancelled"} ELSE {})

\* mail_send_message returns: an error counts as a failure and is merged, a
\* cancellation ends the pass and leaves the rest, this message included.
Return(m, error) ==
  /\ cur' = None /\ warned' = FALSE /\ dealt' = dealt \cup {m}
  /\ \/ /\ error = "ok" /\ pc' = "next" /\ todo' = todo \ {m}
        /\ UNCHANGED <<failed, errs>>
     \/ /\ error = "error" /\ pc' = "next" /\ todo' = todo \ {m}
        /\ failed' = failed \cup {m} /\ errs' = errs \cup {m}
     \/ /\ error = "cancelled" /\ pc' = "end" /\ todo' = {}
        /\ failed' = failed \cup {m} \cup todo /\ errs' = errs \cup {m}

Goto(step) == pc' = step /\ UNCHANGED <<todo, cur, failed, errs, dealt>>

\* The next message is read, which fails if it has been expunged.
Get(m) ==
  /\ pc = "next" /\ m \in todo
  /\ \E out \in IF queue[m] = "gone" THEN {"error"} ELSE Outcomes :
       IF out = "ok"
       THEN /\ pc' = "send" /\ todo' = todo \ {m} /\ cur' = m
            /\ UNCHANGED <<warned, failed, errs, dealt>>
       ELSE Return(m, out)
  /\ UNCHANGED <<box, sends, unserved, cancelled, bounds>>

\* Mutant: a message without a transport is not held back.
SendUnserved ==
  /\ pc = "send"
  /\ \E out \in Outcomes :
       IF out = "ok"
       THEN Goto("filter") /\ warned' = FALSE
            /\ sent' \in {sent, sent \cup {cur}} /\ handed' = handed \cup (sent' \cap {cur})
       ELSE Return(cur, out) /\ UNCHANGED sends
  /\ UNCHANGED <<box, unserved, cancelled, bounds>>

\* The transport of the message is connected and takes it, or there is none,
\* which is no error.  Failures to post it to folders are ignored.
Send ==
  /\ pc = "send"
  /\ \/ /\ cur \notin Addressed
        /\ Goto("filter") /\ warned' = FALSE /\ UNCHANGED <<sends, unserved>>
     \/ /\ cur \in Addressed
        /\ Return(cur, "ok")
        /\ unserved' = unserved \cup {cur} /\ UNCHANGED sends
     \/ /\ cur \in Addressed
        /\ \E out \in Outcomes :
             IF out = "ok"
             THEN /\ Goto("filter") /\ warned' = FALSE
                  /\ sent' = sent \cup {cur} /\ handed' = handed \cup {cur}
             ELSE Return(cur, out) /\ UNCHANGED sends
        /\ UNCHANGED unserved
  /\ UNCHANGED <<box, cancelled, bounds>>

\* A filter that fails is a warning.
Filter ==
  /\ pc = "filter"
  /\ \E out \in Outcomes :
       IF out = "cancelled"
       THEN Return(cur, out) /\ handed' = handed \ {cur}
       ELSE Goto("file") /\ warned' = (out = "error") /\ UNCHANGED handed
  /\ UNCHANGED <<box, sent, unserved, cancelled, bounds>>

\* The copy is filed.
Filed == copies' = copies \cup {cur} /\ Goto("mark") /\ UNCHANGED handed

\* The errors of these calls are in an inner local_error, the one that is
\* returned is not set: an error of the local Sent folder,
Shadowed == copies' = copies /\ Goto("mark") /\ UNCHANGED handed

\* or a cancellation.
FileCancelled ==
  cancelled /\ Return(cur, "ok") /\ handed' = handed \ {cur} /\ UNCHANGED copies

\* Filing: into the message's own folder, which may be the local Sent folder;
\* if that fails and it is not, into the local one.
File ==
  /\ pc = "file"
  /\ \/ /\ cur \in Unfiled
        /\ Goto("mark") /\ UNCHANGED <<copies, handed, warned>>
     \/ /\ cur \notin Unfiled
        /\ \/ Filed /\ UNCHANGED warned
           \/ Shadowed /\ UNCHANGED warned
           \/ FileCancelled
           \* the own folder failed: a warning, unless it was not found
           \/ Filed /\ warned' \in {warned, TRUE}
           \* the local folder failed too
           \/ /\ copies' = copies /\ Goto("mark") /\ warned' = TRUE
              /\ UNCHANGED handed
  /\ UNCHANGED <<queue, disk, drafts, discarded, sent, unserved, cancelled, bounds>>

\* Mutant: a message with a warning stays in the queue.
MarkUnwarned ==
  /\ pc = "mark" /\ Goto("save")
  /\ drafts' \in {drafts, drafts \ {cur}}
  /\ queue' = IF queue[cur] = "gone" \/ warned THEN queue ELSE [queue EXCEPT ![cur] = "deleted"]
  /\ UNCHANGED <<disk, copies, discarded, sends, unserved, warned, cancelled, bounds>>

\* The draft is marked for deletion, if that works, and the message itself.
Mark ==
  /\ pc = "mark" /\ Goto("save")
  /\ drafts' \in {drafts, drafts \ {cur}}
  /\ queue' = IF queue[cur] = "gone" THEN queue ELSE [queue EXCEPT ![cur] = "deleted"]
  /\ UNCHANGED <<disk, copies, discarded, sends, unserved, warned, cancelled, bounds>>

\* The Outbox is saved, if that works; the warnings become the error.
Save ==
  /\ pc = "save" /\ Return(cur, IF warned THEN "error" ELSE "ok")
  /\ disk' \in {disk, queue}
  /\ UNCHANGED <<queue, drafts, copies, discarded, sends, unserved, cancelled, bounds>>

\* The end of send_queue_exec: without failures the Outbox is expunged.
End ==
  /\ pc = "end" \/ (pc = "next" /\ todo = {})
  /\ pc' = "idle"
  /\ IF failed = {} /\ errs = {}
     THEN queue' \in {queue, Expunged(queue)}
          /\ disk' = IF queue' = queue THEN disk ELSE queue'
     ELSE UNCHANGED <<queue, disk>>
  /\ UNCHANGED <<drafts, copies, discarded, sends, report, todo, cur, warned, cancelled, bounds>>

\* The process dies: what is left is what was saved.
Crash ==
  /\ crashes < MaxCrashes /\ crashes' = crashes + 1
  /\ queue' = disk
  /\ handed' = {m \in handed : disk[m] # "queued"}
  /\ discarded' = {m \in discarded : disk[m] # "queued"}
  /\ pc' = "idle" /\ todo' = {} /\ cur' = None /\ warned' = FALSE /\ cancelled' = FALSE
  /\ failed' = {} /\ errs' = {} /\ dealt' = {} /\ unserved' = {}
  /\ UNCHANGED <<disk, drafts, copies, sent, passes>>

Next ==
  \/ \E m \in Messages : Append(m) \/ Discard(m) \/ Get(m)
  \/ ClientSync \/ Start \/ Cancel \/ Crash
  \/ Send \/ Filter \/ File \/ Mark \/ Save \/ End

Spec == Init /\ [][Next]_vars
-----------------------------------------------------------------------------
TypeOK ==
  /\ queue \in [Messages -> States] /\ disk \in [Messages -> States]
  /\ drafts \subseteq Messages /\ copies \subseteq Messages
  /\ sent \subseteq Messages /\ handed \subseteq sent /\ discarded \subseteq Messages
  /\ pc \in Steps /\ todo \subseteq Messages
  /\ warned \in BOOLEAN /\ cancelled \in BOOLEAN
  /\ failed \subseteq Messages /\ errs \subseteq failed /\ dealt \subseteq Messages
  /\ unserved \subseteq dealt
  /\ passes \in 0..MaxPasses /\ crashes \in 0..MaxCrashes
  /\ IF pc \in {"idle", "next", "end"} THEN cur = None ELSE cur \in Messages \ (todo \cup dealt)

\* A message is not handed to a transport twice, unless a cancellation or a
\* crash came between its sending and the saving of its flag.
SentOnce == pc = "send" => cur \notin handed

\* A message goes from the Outbox, and its draft is marked for deletion, only
\* if it was sent, has nobody to be sent to, or was discarded by a client.
NothingIsLost ==
  \A m \in Addressed :
    m \notin sent \cup discarded =>
      queue[m] \in {"new", "queued"} /\ disk[m] = queue[m] /\ m \in drafts

\* A message the pass is done with is deleted and has a copy in a Sent folder.
Complete(m) == queue[m] # "queued" /\ (m \in copies \/ m \in Unfiled)

\* "it is also used as a mechanism to accumualte warning messages and present
\* them back to the user" (the comment of send_queue_exec): of every other one
\* there is an error, unless the pass was cancelled or the message has no
\* transport.
WarningsArePresented ==
  ~cancelled => \A m \in dealt : Complete(m) \/ m \in errs \cup unserved
=============================================================================
