------------------------------ MODULE MailMsg ------------------------------
(***************************************************************************)
(* The message engine of libemail-engine/mail-mt.c.  A MailMsg is a piece  *)
(* of work.  It is run either by a thread of one of the GThreadPools       *)
(* (mail_msg_proxy), after which its `done' callback runs in the main      *)
(* loop, or by the main loop itself (mail_msg_main_loop_push, and          *)
(* mail_call_main, which waits for the result).  Worker threads wake the   *)
(* main loop through one shared idle source guarded by idle_source_id.     *)
(* Messages are reference counted; their GCancellable is an object of its  *)
(* own, which any thread may cancel by message number while the message    *)
(* is being destroyed.                                                     *)
(*                                                                         *)
(* Every critical section of the code (mail_msg_lock, G_LOCK               *)
(* (idle_source_id), the lock inside a GAsyncQueue) is one atomic step.    *)
(***************************************************************************)
EXTENDS Integers, Sequences, FiniteSets

CONSTANTS
  Msgs,        \* the messages (mail_msg_seq numbers) the run may allocate
  Workers,     \* the thread slots of all pools together
  Pools,       \* the GThreadPools
  PoolOf,      \* PoolOf[w]: the pool whose slot w is
  Kind,        \* Kind[m]: a pool, or "main_loop" or "call"
  Priority,    \* Priority[m]: MailMsg.priority
  Cancellers,  \* threads that call mail_msg_cancel
  None         \* no message

ASSUME MsgAssumption ==
  /\ None \notin Msgs
  /\ IsFiniteSet(Workers) /\ "main_loop" \notin Pools /\ "call" \notin Pools
  /\ PoolOf \in [Workers -> Pools]
  /\ Kind \in [Msgs -> Pools \cup {"main_loop", "call"}]
  /\ Priority \in [Msgs -> Int]
  /\ "msg" \notin Cancellers /\ "submit" \notin Cancellers

VARIABLES
  mem,       \* mem[m]: the slice of the message: "none", "alloc", "freed"
  refs,      \* refs[m]: MailMsg.ref_count
  table,     \* mail_msg_active_table
  made,      \* messages created and filled in, not yet pushed
  waking,    \* main-loop messages pushed, whose pusher is yet to test the id
  poolq,     \* poolq[p]: the work waiting in pool p
  mainq,     \* main_loop_queue
  replyq,    \* msg_reply_queue
  idleId,    \* idle_source_id # 0
  sources,   \* idle sources for mail_msg_idle_cb attached to the main context
  main,      \* the main thread: where it is, and the message it handles
  worker,    \* worker[w]: where the thread is, its message, its mail_call_main
  flag,      \* flag[m]: the EFlag of a struct _call_msg is set
  freeIdle,  \* messages with a mail_msg_free idle callback pending
  held,      \* held[m]: who owns a reference to the message's GCancellable
  cancelled, \* cancelled[m]: g_cancellable_is_cancelled
  canceller, \* canceller[c]: a thread in mail_msg_cancel
  executed,  \* messages whose exec has returned                    (history)
  pushed,    \* the messages pushed to a pool, in that order        (history)
  completed  \* the messages whose done callback ran, in that order (history)

vars == <<mem, refs, table, made, waking, poolq, mainq, replyq, idleId,
          sources, main, worker, flag, freeIdle, held, cancelled, canceller,
          executed, pushed, completed>>

memVars  == <<mem, refs, table, freeIdle>>
wakeVars == <<idleId, sources>>
cancVars == <<held, cancelled, canceller>>
histVars == <<executed, pushed, completed>>

MainPC   == {"loop", "drain_main", "main_exec", "drain_reply", "direct",
             "unref", "retire"}
WorkerPC == {"idle", "exec", "wake", "call_push", "call_wake", "call_wait",
             "call_unref", "call_retire"}

MainState == [pc : MainPC, msg : Msgs \cup {None},
              back : {"loop", "drain_main", "drain_reply"}]
WorkerState == [pc : WorkerPC, msg : Msgs \cup {None}, call : Msgs \cup {None}]
CancellerState == [pc : {"idle", "fire", "drop"}, msg : Msgs \cup {None}]

AtLoop   == [pc |-> "loop", msg |-> None, back |-> "loop"]
AtRest   == [pc |-> "idle", msg |-> None, call |-> None]
Quiet    == [pc |-> "idle", msg |-> None]

Init ==
  /\ mem = [m \in Msgs |-> "none"] /\ refs = [m \in Msgs |-> 0]
  /\ table = {} /\ made = {} /\ waking = {}
  /\ poolq = [p \in Pools |-> <<>>] /\ mainq = <<>> /\ replyq = <<>>
  /\ idleId = FALSE /\ sources = 0
  /\ main = AtLoop /\ worker = [w \in Workers |-> AtRest]
  /\ flag = [m \in Msgs |-> FALSE] /\ freeIdle = {}
  /\ held = [m \in Msgs |-> {}] /\ cancelled = [m \in Msgs |-> FALSE]
  /\ canceller = [c \in Cancellers |-> Quiet]
  /\ executed = {} /\ pushed = <<>> /\ completed = <<>>

-----------------------------------------------------------------------------
(* Helpers: what the functions below have in common.                       *)

\* mail_msg_compare with g_async_queue_push_sorted: higher priorities first,
\* and after the messages of the same priority.
InsertSorted(q, m) ==
  LET k == Cardinality({i \in 1..Len(q) : Priority[q[i]] >= Priority[m]})
  IN  SubSeq(q, 1, k) \o <<m>> \o SubSeq(q, k + 1, Len(q))

\* mail_msg_new: allocation, one reference, a new cancellable, the table.
New(m, n) ==
  /\ mem[m] = "none"
  /\ mem' = [mem EXCEPT ![m] = "alloc"]
  /\ refs' = [refs EXCEPT ![m] = n]
  /\ table' = table \cup {m}
  /\ held' = [held EXCEPT ![m] = {"msg"}]
  /\ UNCHANGED freeIdle

\* The test that ends mail_msg_proxy and mail_msg_main_loop_push, one section
\* under G_LOCK (idle_source_id).
ScheduleIdle ==
  /\ idleId' = TRUE
  /\ sources' = IF idleId THEN sources ELSE sources + 1

-----------------------------------------------------------------------------
(* Submitting.                                                             *)

\* Some thread calls mail_msg_new and fills the message in.
Create(m) ==
  /\ Kind[m] # "call"
  /\ New(m, 1)
  /\ made' = made \cup {m}
  /\ UNCHANGED <<waking, poolq, mainq, replyq, wakeVars, main, worker, flag,
                 cancelled, canceller, histVars>>

\* mail_msg_unordered_push, mail_msg_fast_ordered_push, mail_msg_slow_ordered_push
PushPool(m) ==
  /\ m \in made /\ Kind[m] \in Pools
  /\ made' = made \ {m}
  /\ poolq' = [poolq EXCEPT ![Kind[m]] = InsertSorted(@, m)]
  /\ pushed' = Append(pushed, m)
  /\ UNCHANGED <<memVars, waking, mainq, replyq, wakeVars, main, worker, flag,
                 cancVars, executed, completed>>

\* mail_msg_main_loop_push, the queue; WakeMain is the rest of it.
PushMain(m) ==
  /\ m \in made /\ Kind[m] = "main_loop"
  /\ made' = made \ {m} /\ waking' = waking \cup {m}
  /\ mainq' = InsertSorted(mainq, m)
  /\ UNCHANGED <<memVars, poolq, replyq, wakeVars, main, worker, flag,
                 cancVars, histVars>>

WakeMain(m) ==
  /\ m \in waking
  /\ waking' = waking \ {m}
  /\ ScheduleIdle
  /\ UNCHANGED <<memVars, made, poolq, mainq, replyq, main, worker, flag,
                 cancVars, histVars>>

-----------------------------------------------------------------------------
(* The threads of the pools: mail_msg_proxy, and mail_call_main called by  *)
(* the exec function of a message.                                         *)

\* A free thread of the pool takes the first message; a submit callback that
\* owns a reference to the cancellable is queued in the main loop.
Take(w) ==
  LET p == PoolOf[w] IN
  /\ worker[w].pc = "idle" /\ poolq[p] # <<>>
  /\ poolq' = [poolq EXCEPT ![p] = Tail(@)]
  /\ worker' = [worker EXCEPT ![w] = [@ EXCEPT !.pc = "exec", !.msg = Head(poolq[p])]]
  /\ held' = [held EXCEPT ![Head(poolq[p])] = @ \cup {"submit"}]
  /\ UNCHANGED <<memVars, made, waking, mainq, replyq, wakeVars, main, flag,
                 cancelled, canceller, histVars>>

\* Mutant: the reply is put at the wrong end of the queue.
ReplyInFront(w) ==
  LET m == worker[w].msg IN
  /\ worker[w].pc = "exec"
  /\ executed' = executed \cup {m}
  /\ replyq' = <<m>> \o replyq
  /\ worker' = [worker EXCEPT ![w].pc = "wake"]
  /\ UNCHANGED <<memVars, made, waking, poolq, mainq, wakeVars, main, flag,
                 cancVars, pushed, completed>>

\* exec returns and the message goes to the reply queue.
Reply(w) ==
  LET m == worker[w].msg IN
  /\ worker[w].pc = "exec"
  /\ executed' = executed \cup {m}
  /\ replyq' = Append(replyq, m)
  /\ worker' = [worker EXCEPT ![w].pc = "wake"]
  /\ UNCHANGED <<memVars, made, waking, poolq, mainq, wakeVars, main, flag,
                 cancVars, pushed, completed>>

\* Mutant: mail_msg_proxy disposes of the message it has pushed.
WakeAndRelease(w) ==
  /\ worker[w].pc = "wake"
  /\ ScheduleIdle
  /\ table' = table \ {worker[w].msg} /\ freeIdle' = freeIdle \cup {worker[w].msg}
  /\ worker' = [worker EXCEPT ![w] = AtRest]
  /\ UNCHANGED <<mem, refs, made, waking, poolq, mainq, replyq, main, flag,
                 cancVars, histVars>>

Wake(w) ==
  /\ worker[w].pc = "wake"
  /\ ScheduleIdle
  /\ worker' = [worker EXCEPT ![w] = AtRest]
  /\ UNCHANGED <<memVars, made, waking, poolq, mainq, replyq, main, flag,
                 cancVars, histVars>>

\* Mutant: the caller forgets mail_msg_ref.
CallNewUnreferenced(w, m) ==
  /\ worker[w].pc = "exec" /\ Kind[m] = "call"
  /\ New(m, 1)
  /\ worker' = [worker EXCEPT ![w] = [@ EXCEPT !.pc = "call_push", !.call = m]]
  /\ UNCHANGED <<made, waking, poolq, mainq, replyq, wakeVars, main, flag,
                 cancelled, canceller, histVars>>

\* Mutant: mail_msg_main_loop_push takes a reference of its own.
CallNewTwice(w, m) ==
  /\ worker[w].pc = "exec" /\ Kind[m] = "call"
  /\ New(m, 3)
  /\ worker' = [worker EXCEPT ![w] = [@ EXCEPT !.pc = "call_push", !.call = m]]
  /\ UNCHANGED <<made, waking, poolq, mainq, replyq, wakeVars, main, flag,
                 cancelled, canceller, histVars>>

\* mail_call_main from a worker: one reference for the queue, one for the caller.
CallNew(w, m) ==
  /\ worker[w].pc = "exec" /\ Kind[m] = "call"
  /\ New(m, 2)
  /\ worker' = [worker EXCEPT ![w] = [@ EXCEPT !.pc = "call_push", !.call = m]]
  /\ UNCHANGED <<made, waking, poolq, mainq, replyq, wakeVars, main, flag,
                 cancelled, canceller, histVars>>

CallPush(w) ==
  /\ worker[w].pc = "call_push"
  /\ mainq' = InsertSorted(mainq, worker[w].call)
  /\ worker' = [worker EXCEPT ![w].pc = "call_wake"]
  /\ UNCHANGED <<memVars, made, waking, poolq, replyq, wakeVars, main, flag,
                 cancVars, histVars>>

CallWake(w) ==
  /\ worker[w].pc = "call_wake"
  /\ ScheduleIdle
  /\ worker' = [worker EXCEPT ![w].pc = "call_wait"]
  /\ UNCHANGED <<memVars, made, waking, poolq, mainq, replyq, main, flag,
                 cancVars, histVars>>

\* e_flag_wait returns; the flag is freed and the result read.
CallReturn(w) ==
  /\ worker[w].pc = "call_wait" /\ flag[worker[w].call]
  /\ worker' = [worker EXCEPT ![w].pc = "call_unref"]
  /\ UNCHANGED <<memVars, made, waking, poolq, mainq, replyq, wakeVars, main,
                 flag, cancVars, histVars>>

\* mail_msg_unref, the atomic decrement; CallRetire is what the last one does.
CallUnref(w) ==
  LET m == worker[w].call IN
  /\ worker[w].pc = "call_unref" /\ refs[m] > 0
  /\ refs' = [refs EXCEPT ![m] = @ - 1]
  /\ worker' = [worker EXCEPT ![w] =
                  IF refs[m] = 1 THEN [@ EXCEPT !.pc = "call_retire"]
                  ELSE [@ EXCEPT !.pc = "exec", !.call = None]]
  /\ UNCHANGED <<mem, table, freeIdle, made, waking, poolq, mainq, replyq,
                 wakeVars, main, flag, cancVars, histVars>>

CallRetire(w) ==
  LET m == worker[w].call IN
  /\ worker[w].pc = "call_retire"
  /\ table' = table \ {m} /\ freeIdle' = freeIdle \cup {m}
  /\ worker' = [worker EXCEPT ![w] = [@ EXCEPT !.pc = "exec", !.call = None]]
  /\ UNCHANGED <<mem, refs, made, waking, poolq, mainq, replyq, wakeVars, main,
                 flag, cancVars, histVars>>

-----------------------------------------------------------------------------
(* The main thread: mail_msg_idle_cb and the other idle callbacks.         *)

\* Mutant: the callback does not clear the id.
DispatchKeepingId ==
  /\ main.pc = "loop" /\ sources > 0
  /\ sources' = sources - 1
  /\ main' = [AtLoop EXCEPT !.pc = "drain_main"]
  /\ UNCHANGED <<memVars, made, waking, poolq, mainq, replyq, idleId, worker,
                 flag, cancVars, histVars>>

\* GLib dispatches the source; the id is cleared before the queues are read.
Dispatch ==
  /\ main.pc = "loop" /\ sources > 0
  /\ sources' = sources - 1 /\ idleId' = FALSE
  /\ main' = [AtLoop EXCEPT !.pc = "drain_main"]
  /\ UNCHANGED <<memVars, made, waking, poolq, mainq, replyq, worker, flag,
                 cancVars, histVars>>

PopMain ==
  /\ main.pc = "drain_main" /\ mainq # <<>>
  /\ mainq' = Tail(mainq)
  /\ held' = [held EXCEPT ![Head(mainq)] = @ \cup {"submit"}]
  /\ main' = [pc |-> "main_exec", msg |-> Head(mainq), back |-> "drain_main"]
  /\ UNCHANGED <<memVars, made, waking, poolq, replyq, wakeVars, worker, flag,
                 cancelled, canceller, histVars>>

\* Mutant: do_call does not set the flag.
ExecMainUnflagged ==
  LET m == main.msg IN
  /\ main.pc \in {"main_exec", "direct"}
  /\ executed' = executed \cup {m}
  /\ completed' = Append(completed, m)
  /\ main' = [main EXCEPT !.pc = "unref"]
  /\ UNCHANGED <<memVars, made, waking, poolq, mainq, replyq, wakeVars, worker,
                 flag, cancVars, pushed>>

\* exec and done of a main-loop message; do_call runs the function and, for a
\* caller in another thread, sets the flag.
ExecMain ==
  LET m == main.msg IN
  /\ main.pc \in {"main_exec", "direct"}
  /\ executed' = executed \cup {m}
  /\ completed' = Append(completed, m)
  /\ flag' = [flag EXCEPT ![m] = (Kind[m] = "call" /\ main.pc = "main_exec")]
  /\ main' = [main EXCEPT !.pc = "unref"]
  /\ UNCHANGED <<memVars, made, waking, poolq, mainq, replyq, wakeVars, worker,
                 cancVars, pushed>>

MainEmpty ==
  /\ main.pc = "drain_main" /\ mainq = <<>>
  /\ main' = [AtLoop EXCEPT !.pc = "drain_reply"]
  /\ UNCHANGED <<memVars, made, waking, poolq, mainq, replyq, wakeVars, worker,
                 flag, cancVars, histVars>>

\* done and mail_msg_check_error of a message a worker has run.
PopReply ==
  /\ main.pc = "drain_reply" /\ replyq # <<>>
  /\ replyq' = Tail(replyq)
  /\ completed' = Append(completed, Head(replyq))
  /\ main' = [pc |-> "unref", msg |-> Head(replyq), back |-> "drain_reply"]
  /\ UNCHANGED <<memVars, made, waking, poolq, mainq, wakeVars, worker, flag,
                 cancVars, executed, pushed>>

ReplyEmpty ==
  /\ main.pc = "drain_reply" /\ replyq = <<>>
  /\ main' = AtLoop
  /\ UNCHANGED <<memVars, made, waking, poolq, mainq, replyq, wakeVars, worker,
                 flag, cancVars, histVars>>

\* The callback, or the main loop, goes on after a message.
Return == [AtLoop EXCEPT !.pc = main.back]

Unref ==
  LET m == main.msg IN
  /\ main.pc = "unref" /\ refs[m] > 0
  /\ refs' = [refs EXCEPT ![m] = @ - 1]
  /\ main' = IF refs[m] = 1 THEN [main EXCEPT !.pc = "retire"]
             ELSE Return
  /\ UNCHANGED <<mem, table, freeIdle, made, waking, poolq, mainq, replyq,
                 wakeVars, worker, flag, cancVars, histVars>>

\* The last reference is gone: info->free, the table under mail_msg_lock, and
\* an idle callback for the rest.
Retire ==
  LET m == main.msg IN
  /\ main.pc = "retire"
  /\ table' = table \ {m} /\ freeIdle' = freeIdle \cup {m}
  /\ main' = Return
  /\ UNCHANGED <<mem, refs, made, waking, poolq, mainq, replyq, wakeVars,
                 worker, flag, cancVars, histVars>>

\* mail_call_main in the main thread: do_call without a flag, then unref.
CallDirect(m) ==
  /\ main.pc = "loop" /\ Kind[m] = "call"
  /\ New(m, 1)
  /\ main' = [pc |-> "direct", msg |-> m, back |-> "loop"]
  /\ UNCHANGED <<made, waking, poolq, mainq, replyq, wakeVars, worker, flag,
                 cancelled, canceller, histVars>>

\* mail_msg_free: drops the message's reference to the cancellable.
FreeMsg(m) ==
  /\ main.pc = "loop" /\ m \in freeIdle
  /\ freeIdle' = freeIdle \ {m}
  /\ mem' = [mem EXCEPT ![m] = "freed"]
  /\ held' = [held EXCEPT ![m] = @ \ {"msg"}]
  /\ UNCHANGED <<refs, table, made, waking, poolq, mainq, replyq, wakeVars,
                 main, worker, flag, cancelled, canceller, histVars>>

\* mail_msg_submit, and the g_object_unref that is its destroy notify.
Submitted(m) ==
  /\ main.pc = "loop" /\ "submit" \in held[m]
  /\ held' = [held EXCEPT ![m] = @ \ {"submit"}]
  /\ UNCHANGED <<memVars, made, waking, poolq, mainq, replyq, wakeVars, main,
                 worker, flag, cancelled, canceller, histVars>>

-----------------------------------------------------------------------------
(* Cancellation, from any thread and by message number.                    *)

\* Mutant: mail_msg_cancel keeps the pointer without a reference.
LookupUnreferenced(c, m) ==
  /\ canceller[c].pc = "idle" /\ m \in table /\ ~cancelled[m]
  /\ canceller' = [canceller EXCEPT ![c] = [pc |-> "fire", msg |-> m]]
  /\ UNCHANGED <<memVars, made, waking, poolq, mainq, replyq, wakeVars, main,
                 worker, flag, held, cancelled, histVars>>

\* mail_msg_cancel under mail_msg_lock: a message that is still in the table
\* and not cancelled has its cancellable referenced.
Lookup(c, m) ==
  /\ canceller[c].pc = "idle" /\ m \in table /\ ~cancelled[m]
  /\ held' = [held EXCEPT ![m] = @ \cup {c}]
  /\ canceller' = [canceller EXCEPT ![c] = [pc |-> "fire", msg |-> m]]
  /\ UNCHANGED <<memVars, made, waking, poolq, mainq, replyq, wakeVars, main,
                 worker, flag, cancelled, histVars>>

\* g_cancellable_cancel.  Its "cancelled" handler calls mail_msg_cancel again,
\* which finds the cancellable cancelled, or the message gone, and returns.
Fire(c) ==
  /\ canceller[c].pc = "fire"
  /\ cancelled' = [cancelled EXCEPT ![canceller[c].msg] = TRUE]
  /\ canceller' = [canceller EXCEPT ![c].pc = "drop"]
  /\ UNCHANGED <<memVars, made, waking, poolq, mainq, replyq, wakeVars, main,
                 worker, flag, held, histVars>>

Drop(c) ==
  /\ canceller[c].pc = "drop"
  /\ held' = [held EXCEPT ![canceller[c].msg] = @ \ {c}]
  /\ canceller' = [canceller EXCEPT ![c] = Quiet]
  /\ UNCHANGED <<memVars, made, waking, poolq, mainq, replyq, wakeVars, main,
                 worker, flag, cancelled, histVars>>

\* mail_cancel_all: camel_operation_cancel_all cancels every live operation.
CancelAll ==
  /\ \E m \in Msgs : held[m] # {} /\ ~cancelled[m]
  /\ cancelled' = [m \in Msgs |-> cancelled[m] \/ held[m] # {}]
  /\ UNCHANGED <<memVars, made, waking, poolq, mainq, replyq, wakeVars, main,
                 worker, flag, held, canceller, histVars>>

-----------------------------------------------------------------------------
Push(m) == Create(m) \/ PushPool(m) \/ PushMain(m) \/ WakeMain(m)

WorkerStep(w) == \/ Take(w) \/ Reply(w) \/ Wake(w) \/ CallPush(w) \/ CallWake(w)
                 \/ CallReturn(w) \/ CallUnref(w) \/ CallRetire(w)

MainStep == Dispatch \/ PopMain \/ ExecMain \/ MainEmpty \/ PopReply
            \/ ReplyEmpty \/ Unref \/ Retire

Cancel(c) == (\E m \in Msgs : Lookup(c, m)) \/ Fire(c) \/ Drop(c)

Done ==
  /\ \A m \in Msgs : mem[m] = "freed" /\ held[m] = {}
  /\ UNCHANGED vars

Next ==
  \/ \E m \in Msgs : Push(m) \/ CallDirect(m) \/ FreeMsg(m) \/ Submitted(m)
  \/ \E w \in Workers : WorkerStep(w) \/ \E m \in Msgs : CallNew(w, m)
  \/ MainStep
  \/ \E c \in Cancellers : Cancel(c)
  \/ CancelAll
  \/ Done

\* Threads are scheduled, the functions a message carries return, and a thread
\* that has created a message pushes it.
Fairness ==
  /\ \A m \in Msgs : /\ WF_vars(PushPool(m)) /\ WF_vars(PushMain(m))
                     /\ WF_vars(WakeMain(m)) /\ WF_vars(FreeMsg(m))
                     /\ WF_vars(Submitted(m))
  /\ \A w \in Workers : WF_vars(WorkerStep(w))
  /\ WF_vars(MainStep)

Spec == Init /\ [][Next]_vars
FairSpec == Spec /\ Fairness

-----------------------------------------------------------------------------
TypeOK ==
  /\ mem \in [Msgs -> {"none", "alloc", "freed"}] /\ refs \in [Msgs -> 0..2]
  /\ table \subseteq Msgs /\ made \subseteq Msgs /\ waking \subseteq Msgs
  /\ freeIdle \subseteq Msgs
  /\ poolq \in [Pools -> Seq(Msgs)] /\ mainq \in Seq(Msgs) /\ replyq \in Seq(Msgs)
  /\ idleId \in BOOLEAN /\ sources \in Nat
  /\ main \in MainState /\ worker \in [Workers -> WorkerState]
  /\ flag \in [Msgs -> BOOLEAN] /\ cancelled \in [Msgs -> BOOLEAN]
  /\ held \in [Msgs -> SUBSET ({"msg", "submit"} \cup Cancellers)]
  /\ canceller \in [Cancellers -> CancellerState]
  /\ executed \subseteq Msgs /\ pushed \in Seq(Msgs) /\ completed \in Seq(Msgs)

Elements(q) == {q[i] : i \in DOMAIN q}

\* The callback is running and has not yet found main_loop_queue empty.
DrainingMain == main.pc = "drain_main" \/ main.back = "drain_main"
\* The callback is running.
Draining == DrainingMain \/ main.pc = "drain_reply" \/ main.back = "drain_reply"

(* No lost wakeup.  Work in a queue of the main loop is never left without *)
(* somebody who will look: an idle source is attached, or mail_msg_idle_cb *)
(* is still going to read that queue, or the thread that pushed the work   *)
(* is about to test idle_source_id.  This is why mail_msg_idle_cb clears   *)
(* the id before it reads the queues and pushers test it after pushing.    *)
NoLostWakeup ==
  /\ mainq # <<>> => \/ sources > 0 \/ DrainingMain \/ waking # {}
                     \/ \E w \in Workers : worker[w].pc = "call_wake"
  /\ replyq # <<>> => \/ sources > 0 \/ Draining
                      \/ \E w \in Workers : worker[w].pc = "wake"

(* A cancellable is never touched after its last reference is gone: while  *)
(* a message can be found in mail_msg_active_table its own reference is    *)
(* there for mail_msg_cancel to build on, and a thread between the unlock  *)
(* and the end of mail_msg_cancel finds the object alive, whatever the     *)
(* main loop did to the message meanwhile.                                 *)
CancellableAlive ==
  /\ \A m \in table : "msg" \in held[m]
  /\ \A c \in Cancellers : canceller[c].pc # "idle" => held[canceller[c].msg] # {}

\* The messages some thread is going to dereference.
Reachable ==
  table \cup made \cup freeIdle \cup Elements(mainq) \cup Elements(replyq)
    \cup (UNION {Elements(poolq[p]) : p \in Pools})
    \cup ({main.msg} \ {None})
    \cup {worker[w].msg : w \in {v \in Workers : worker[v].pc \notin {"idle", "wake"}}}
    \cup ({worker[w].call : w \in Workers} \ {None})

(* A message is never used after mail_msg_free: a queue, the table, the    *)
(* thread that runs it, the main loop's callbacks and a mail_call_main     *)
(* that has not yet read its result all see live memory, though whoever    *)
(* drops the last reference is decided by a race.                          *)
MessageAlive == \A m \in Reachable : mem[m] = "alloc"

Before(s, x, y) ==
  \E i, j \in DOMAIN s : i < j /\ s[i] = x /\ s[j] = y

SingleThread(p) == Cardinality({w \in Workers : PoolOf[w] = p}) = 1

(* The ordered pools keep their promise to the main loop: if x was pushed  *)
(* before y to a pool of one thread, and y has no higher priority, then    *)
(* the done callback of y runs only after that of x.  No two done          *)
(* callbacks ever run for the same message.                                *)
OrderedCompletion ==
  /\ \A x, y \in Elements(pushed) :
       /\ Kind[x] = Kind[y] /\ SingleThread(Kind[x])
       /\ Priority[y] <= Priority[x] /\ Before(pushed, x, y)
       /\ y \in Elements(completed)
       => Before(completed, x, y)
  /\ \A i, j \in DOMAIN completed : completed[i] = completed[j] => i = j

(* Every message that was created is run, has its done callback called and *)
(* is destroyed, and every mail_call_main of a worker returns.             *)
EveryMessageEnds ==
  /\ \A m \in Msgs : m \in table ~> (mem[m] = "freed" /\ m \in Elements(completed))
  /\ \A w \in Workers : worker[w].pc = "call_wait" ~> worker[w].pc = "exec"

-----------------------------------------------------------------------------
(* What a caller of the engine relies on, stated in MsgLife: a message is  *)
(* executed once, completed once, in the main thread, and only then gone.  *)
Running(m) == \/ main.msg = m /\ main.pc \in {"main_exec", "direct"}
              \/ \E w \in Workers : worker[w].msg = m /\ worker[w].pc # "wake"

LifePhase == [m \in Msgs |->
  IF mem[m] = "none" THEN "new"
  ELSE IF mem[m] = "freed" THEN "gone"
  ELSE IF m \in Elements(completed) THEN "complete"
  ELSE IF m \in executed THEN "ran"
  ELSE IF Running(m) THEN "running"
  ELSE "waiting"]

Slots == [p \in Pools |-> Cardinality({w \in Workers : PoolOf[w] = p})]

Life == INSTANCE MsgLife WITH phase <- LifePhase, InMain <-
          {m \in Msgs : Kind[m] \notin Pools}

LifeSpec == Life!Spec

=============================================================================
