--------------------------- MODULE MailMsg_proofs ---------------------------
(***************************************************************************)
(* Proofs about MailMsg for every set of messages, workers, pools and      *)
(* cancelling threads: type correctness, no lost wakeup of the main loop,  *)
(* the lifetime of the cancellables and that of the messages, the order of *)
(* the done callbacks of an ordered pool, and that the engine implements   *)
(* MsgLife.                                                                *)
(***************************************************************************)
EXTENDS MailMsg, FiniteSetTheorems, TLAPS

\* Who has a message in hand, by program counter.
WorkerOk(r) ==
  /\ r.pc # "idle" => r.msg \in Msgs
  /\ r.pc \in {"call_push", "call_wake", "call_wait", "call_unref", "call_retire"}
       => r.call \in Msgs

InHand ==
  /\ main.pc \in {"main_exec", "direct", "unref", "retire"} => main.msg \in Msgs
  /\ \A w \in Workers : WorkerOk(worker[w])
  /\ \A c \in Cancellers : canceller[c].pc # "idle" => canceller[c].msg \in Msgs

TypeInv == TypeOK /\ InHand

\* Sorted insertion puts one message into the queue.
LEMMA InsertType ==
  ASSUME NEW X, NEW q \in Seq(X), NEW m \in X
  PROVE  InsertSorted(q, m) \in Seq(X)
<1> DEFINE S == {i \in 1..Len(q) : Priority[q[i]] >= Priority[m]}
<1>1. Cardinality(S) \in Nat /\ Cardinality(S) <= Len(q)
  <2>0. Len(q) \in Nat
    OBVIOUS
  <2>1. IsFiniteSet(1..Len(q)) /\ Cardinality(1..Len(q)) = Len(q)
    BY <2>0, FS_Interval
  <2>2. S \subseteq 1..Len(q) OBVIOUS
  <2>3. IsFiniteSet(S) /\ Cardinality(S) <= Cardinality(1..Len(q))
    BY <2>1, <2>2, FS_Subset
  <2> QED BY <2>1, <2>3, FS_CardinalityType
<1>2. ASSUME NEW k \in Nat, k <= Len(q)
      PROVE  SubSeq(q, 1, k) \o <<m>> \o SubSeq(q, k + 1, Len(q)) \in Seq(X)
  <2>1. SubSeq(q, 1, k) \in Seq(X)
    BY <1>2
  <2>2. SubSeq(q, k + 1, Len(q)) \in Seq(X)
    BY <1>2
  <2> QED BY <2>1, <2>2
<1> HIDE DEF S
<1>3. SubSeq(q, 1, Cardinality(S)) \o <<m>> \o SubSeq(q, Cardinality(S) + 1, Len(q))
        \in Seq(X)
  BY <1>1, <1>2
<1> QED BY <1>3 DEF InsertSorted, S

LEMMA TypeInit == Init => TypeInv
<1> SUFFICES ASSUME Init PROVE TypeInv
  OBVIOUS
<1> USE DEF Init, AtLoop, AtRest, Quiet, MainPC, WorkerPC, MainState, WorkerState,
                   CancellerState, WorkerOk
<1>1. main \in MainState
  OBVIOUS
<1>2. worker \in [Workers -> WorkerState]
  OBVIOUS
<1>3. canceller \in [Cancellers -> CancellerState]
  OBVIOUS
<1>4. TypeOK
  <2>1. /\ mem \in [Msgs -> {"none", "alloc", "freed"}] /\ refs \in [Msgs -> 0..2]
        /\ held \in [Msgs -> SUBSET ({"msg", "submit"} \cup Cancellers)]
        /\ flag \in [Msgs -> BOOLEAN] /\ cancelled \in [Msgs -> BOOLEAN]
    OBVIOUS
  <2>2. /\ poolq \in [Pools -> Seq(Msgs)] /\ mainq \in Seq(Msgs)
        /\ replyq \in Seq(Msgs) /\ pushed \in Seq(Msgs) /\ completed \in Seq(Msgs)
    OBVIOUS
  <2> QED BY <1>1, <1>2, <1>3, <2>1, <2>2 DEF TypeOK
<1>5. InHand
  BY DEF InHand
<1> QED BY <1>4, <1>5 DEF TypeInv

\* Handing a message to the engine.
LEMMA TypePush ==
  ASSUME TypeInv, NEW m \in Msgs, Push(m)
  PROVE  TypeInv'
<1> USE DEF TypeInv, TypeOK, InHand, memVars, wakeVars, cancVars, histVars
<1>1. CASE Create(m)
  BY <1>1 DEF Create, New
<1>2. CASE PushPool(m)
  <2>1. InsertSorted(poolq[Kind[m]], m) \in Seq(Msgs)
    BY <1>2, InsertType DEF PushPool
  <2>2. poolq' \in [Pools -> Seq(Msgs)]
    BY <1>2, <2>1 DEF PushPool
  <2>3. pushed' \in Seq(Msgs)
    BY <1>2 DEF PushPool
  <2> QED BY <1>2, <2>2, <2>3 DEF PushPool
<1>3. CASE PushMain(m)
  <2>1. mainq' \in Seq(Msgs)
    BY <1>3, InsertType DEF PushMain
  <2> QED BY <1>3, <2>1 DEF PushMain
<1>4. CASE WakeMain(m)
  BY <1>4 DEF WakeMain, ScheduleIdle
<1> QED BY <1>1, <1>2, <1>3, <1>4 DEF Push


\* Giving one thread of a pool a new state.
LEMMA SetWorker ==
  ASSUME TypeInv, NEW w \in Workers, NEW r \in WorkerState, WorkerOk(r),
         worker' = [worker EXCEPT ![w] = r]
  PROVE  worker' \in [Workers -> WorkerState] /\ \A v \in Workers : WorkerOk(worker'[v])
BY DEF TypeInv, TypeOK, InHand

\* A step of a worker thread.
LEMMA TypeWorker ==
  ASSUME TypeInv, NEW w \in Workers,
         WorkerStep(w) \/ \E m \in Msgs : CallNew(w, m)
  PROVE  TypeInv'
<1> USE DEF TypeInv, TypeOK, InHand, memVars, wakeVars, cancVars, histVars
<1> DEFINE At(pc) == [worker[w] EXCEPT !.pc = pc]
           Back == [worker[w] EXCEPT !.pc = "exec", !.call = None]
<1>0. worker[w] \in WorkerState /\ WorkerOk(worker[w])
  OBVIOUS
<1>a. ASSUME worker[w].pc # "idle"
      PROVE  /\ \A pc \in {"exec", "wake"} : At(pc) \in WorkerState /\ WorkerOk(At(pc))
             /\ Back \in WorkerState /\ WorkerOk(Back)
  BY <1>0, <1>a DEF WorkerState, WorkerOk, WorkerPC
<1>b. ASSUME worker[w].pc # "idle", worker[w].call \in Msgs
      PROVE  \A pc \in {"call_wake", "call_wait", "call_unref", "call_retire"} :
               At(pc) \in WorkerState /\ WorkerOk(At(pc))
  BY <1>0, <1>b DEF WorkerState, WorkerOk, WorkerPC
<1>c. worker[w].pc \in {"call_push", "call_wake", "call_wait", "call_unref", "call_retire"}
        => worker[w].call \in Msgs
  BY <1>0 DEF WorkerOk
<1> HIDE DEF At, Back
<1>1. CASE Take(w)
  <2> DEFINE r == [worker[w] EXCEPT !.pc = "exec", !.msg = Head(poolq[PoolOf[w]])]
  <2>1. Head(poolq[PoolOf[w]]) \in Msgs /\ Tail(poolq[PoolOf[w]]) \in Seq(Msgs)
    <3>1. PoolOf[w] \in Pools
      BY MsgAssumption
    <3>2. poolq[PoolOf[w]] \in Seq(Msgs) /\ poolq[PoolOf[w]] # <<>>
      BY <1>1, <3>1 DEF Take
    <3> HIDE DEF TypeInv, TypeOK, InHand
    <3> QED BY <3>2
  <2>2. r \in WorkerState /\ WorkerOk(r)
    BY <1>0, <2>1 DEF WorkerState, WorkerOk, WorkerPC
  <2>3. worker' \in [Workers -> WorkerState] /\ \A v \in Workers : WorkerOk(worker'[v])
    BY <1>1, <2>2, SetWorker DEF Take
  <2>4. held' \in [Msgs -> SUBSET ({"msg", "submit"} \cup Cancellers)]
    BY <1>1, <2>1 DEF Take
  <2>5. poolq' \in [Pools -> Seq(Msgs)]
    <3>1. PoolOf[w] \in Pools
      BY MsgAssumption
    <3>2. poolq' = [poolq EXCEPT ![PoolOf[w]] = Tail(poolq[PoolOf[w]])]
      BY <1>1 DEF Take
    <3> QED BY <2>1, <3>1, <3>2
  <2> QED BY <1>1, <2>3, <2>4, <2>5 DEF Take
<1>2. CASE Reply(w)
  <2>1. worker' \in [Workers -> WorkerState] /\ \A v \in Workers : WorkerOk(worker'[v])
    BY <1>2, <1>a, SetWorker DEF Reply, At
  <2>2. worker[w].msg \in Msgs
    BY <1>2, <1>0 DEF Reply, WorkerOk
  <2>3. replyq' \in Seq(Msgs) /\ executed' \subseteq Msgs
    BY <1>2, <2>2 DEF Reply
  <2> QED BY <1>2, <2>1, <2>3 DEF Reply
<1>3. CASE Wake(w)
  <2>1. AtRest \in WorkerState /\ WorkerOk(AtRest)
    BY DEF AtRest, WorkerState, WorkerOk, WorkerPC
  <2>2. worker' \in [Workers -> WorkerState] /\ \A v \in Workers : WorkerOk(worker'[v])
    BY <1>3, <2>1, SetWorker DEF Wake
  <2> QED BY <1>3, <2>2 DEF Wake, ScheduleIdle
<1>4. CASE CallPush(w)
  <2>1. worker[w].call \in Msgs
    BY <1>4, <1>c DEF CallPush
  <2>2. mainq' \in Seq(Msgs)
    BY <1>4, <2>1, InsertType DEF CallPush
  <2>3. worker' \in [Workers -> WorkerState] /\ \A v \in Workers : WorkerOk(worker'[v])
    BY <1>4, <1>b, <2>1, SetWorker DEF CallPush, At
  <2> QED BY <1>4, <2>2, <2>3 DEF CallPush
<1>5. CASE CallWake(w)
  <2>1. worker' \in [Workers -> WorkerState] /\ \A v \in Workers : WorkerOk(worker'[v])
    BY <1>5, <1>b, <1>c, SetWorker DEF CallWake, At
  <2>2. idleId' \in BOOLEAN /\ sources' \in Nat
    BY <1>5 DEF CallWake, ScheduleIdle
  <2> QED BY <1>5, <2>1, <2>2 DEF CallWake
<1>6. CASE CallReturn(w)
  <2>1. worker' \in [Workers -> WorkerState] /\ \A v \in Workers : WorkerOk(worker'[v])
    BY <1>6, <1>b, <1>c, SetWorker DEF CallReturn, At
  <2> QED BY <1>6, <2>1 DEF CallReturn
<1>7. CASE CallUnref(w)
  <2>1. worker[w].call \in Msgs
    BY <1>7, <1>c DEF CallUnref
  <2>2. refs' \in [Msgs -> 0..2]
    BY <1>7, <2>1 DEF CallUnref
  <2>3. worker' = [worker EXCEPT ![w] = At("call_retire")]
        \/ worker' = [worker EXCEPT ![w] = Back]
    BY <1>7 DEF CallUnref, At, Back
  <2>4. worker' \in [Workers -> WorkerState] /\ \A v \in Workers : WorkerOk(worker'[v])
    BY <1>7, <2>1, <2>3, <1>a, <1>b, SetWorker DEF CallUnref
  <2> QED BY <1>7, <2>2, <2>4 DEF CallUnref
<1>8. CASE CallRetire(w)
  <2>1. worker' \in [Workers -> WorkerState] /\ \A v \in Workers : WorkerOk(worker'[v])
    BY <1>8, <1>a, SetWorker DEF CallRetire, Back
  <2>2. worker[w].call \in Msgs
    BY <1>8, <1>c DEF CallRetire
  <2> QED BY <1>8, <2>1, <2>2 DEF CallRetire
<1>9. ASSUME NEW m \in Msgs, CallNew(w, m) PROVE TypeInv'
  <2> DEFINE r == [worker[w] EXCEPT !.pc = "call_push", !.call = m]
  <2>1. r \in WorkerState /\ WorkerOk(r)
    BY <1>0, <1>9 DEF WorkerState, WorkerOk, WorkerPC, CallNew
  <2>2. worker' \in [Workers -> WorkerState] /\ \A v \in Workers : WorkerOk(worker'[v])
    BY <1>9, <2>1, SetWorker DEF CallNew
  <2>3. /\ mem' \in [Msgs -> {"none", "alloc", "freed"}] /\ refs' \in [Msgs -> 0..2]
        /\ table' \subseteq Msgs /\ freeIdle' \subseteq Msgs
        /\ held' \in [Msgs -> SUBSET ({"msg", "submit"} \cup Cancellers)]
    <3>1. mem' \in [Msgs -> {"none", "alloc", "freed"}] /\ refs' \in [Msgs -> 0..2]
      <4>1. mem' = [mem EXCEPT ![m] = "alloc"] /\ refs' = [refs EXCEPT ![m] = 2]
        BY <1>9 DEF CallNew, New
      <4> QED BY <4>1
    <3>2. table' \subseteq Msgs /\ freeIdle' \subseteq Msgs
      BY <1>9 DEF CallNew, New
    <3>3. held' \in [Msgs -> SUBSET ({"msg", "submit"} \cup Cancellers)]
      <4>1. held' = [held EXCEPT ![m] = {"msg"}]
        BY <1>9 DEF CallNew, New
      <4>2. {"msg"} \in SUBSET ({"msg", "submit"} \cup Cancellers)
        OBVIOUS
      <4> QED BY <4>1, <4>2
    <3> QED BY <3>1, <3>2, <3>3
  <2> QED BY <1>9, <2>2, <2>3 DEF CallNew
<1> QED BY <1>1, <1>2, <1>3, <1>4, <1>5, <1>6, <1>7, <1>8, <1>9 DEF WorkerStep

\* A step of the main thread.
LEMMA TypeMain ==
  ASSUME TypeInv,
         \/ MainStep
         \/ \E m \in Msgs : CallDirect(m) \/ FreeMsg(m) \/ Submitted(m)
  PROVE  TypeInv'
<1> USE DEF TypeInv, TypeOK, InHand, memVars, wakeVars, cancVars, histVars, MainPC, MainState
<1>1. CASE Dispatch
  <2>1. main' \in MainState /\ main'.pc = "drain_main"
    BY <1>1 DEF Dispatch, AtLoop
  <2>2. sources' \in Nat
    BY <1>1 DEF Dispatch
  <2>3. idleId' \in BOOLEAN
    BY <1>1 DEF Dispatch
  <2> QED BY <1>1, <2>1, <2>2, <2>3 DEF Dispatch
<1>2. CASE PopMain
  <2>1. Head(mainq) \in Msgs /\ Tail(mainq) \in Seq(Msgs)
    BY <1>2 DEF PopMain
  <2> QED BY <1>2, <2>1 DEF PopMain
<1>3. CASE ExecMain
  <2>1. main.msg \in Msgs
    BY <1>3 DEF ExecMain
  <2>2. main' \in MainState /\ main'.msg = main.msg
    BY <1>3 DEF ExecMain
  <2>3. /\ executed' \subseteq Msgs /\ completed' \in Seq(Msgs)
        /\ flag' \in [Msgs -> BOOLEAN]
    BY <1>3, <2>1 DEF ExecMain
  <2> QED BY <1>3, <2>1, <2>2, <2>3 DEF ExecMain
<1>4. CASE MainEmpty
  BY <1>4 DEF MainEmpty, AtLoop
<1>5. CASE PopReply
  <2>1. Head(replyq) \in Msgs /\ Tail(replyq) \in Seq(Msgs)
    BY <1>5 DEF PopReply
  <2> QED BY <1>5, <2>1 DEF PopReply
<1>6. CASE ReplyEmpty
  BY <1>6 DEF ReplyEmpty, AtLoop
<1>r. Return \in MainState /\ Return.pc \notin {"main_exec", "direct", "unref", "retire"}
  BY DEF Return, AtLoop
<1>7. CASE Unref
  <2>1. refs' \in [Msgs -> 0..2]
    BY <1>7 DEF Unref
  <2>2. CASE main' = Return
    BY <1>7, <1>r, <2>1, <2>2 DEF Unref
  <2>3. CASE main' = [main EXCEPT !.pc = "retire"]
    BY <1>7, <2>1, <2>3 DEF Unref
  <2> QED BY <1>7, <2>2, <2>3 DEF Unref
<1>8. CASE Retire
  <2>1. main.msg \in Msgs
    BY <1>8 DEF Retire
  <2> QED BY <1>8, <1>r, <2>1 DEF Retire
<1>9. ASSUME NEW m \in Msgs, CallDirect(m) \/ FreeMsg(m) \/ Submitted(m)
      PROVE  TypeInv'
  <2>1. CASE CallDirect(m)
    BY <2>1 DEF CallDirect, New
  <2>2. CASE FreeMsg(m)
    BY <2>2 DEF FreeMsg
  <2>3. CASE Submitted(m)
    BY <2>3 DEF Submitted
  <2> QED BY <1>9, <2>1, <2>2, <2>3
<1> QED BY <1>1, <1>2, <1>3, <1>4, <1>5, <1>6, <1>7, <1>8, <1>9 DEF MainStep

\* A step of a cancelling thread.
LEMMA TypeCancel ==
  ASSUME TypeInv, CancelAll \/ \E c \in Cancellers : Cancel(c)
  PROVE  TypeInv'
<1> USE DEF TypeInv, TypeOK, InHand, memVars, wakeVars, histVars, CancellerState
<1>1. CASE CancelAll
  BY <1>1 DEF CancelAll
<1>2. ASSUME NEW c \in Cancellers, Cancel(c) PROVE TypeInv'
  <2>1. ASSUME NEW m \in Msgs, Lookup(c, m) PROVE TypeInv'
    BY <2>1 DEF Lookup
  <2>2. CASE Fire(c)
    BY <2>2 DEF Fire
  <2>3. CASE Drop(c)
    BY <2>3 DEF Drop, Quiet
  <2> QED BY <1>2, <2>1, <2>2, <2>3 DEF Cancel
<1> QED BY <1>1, <1>2

LEMMA TypeNext == TypeInv /\ [Next]_vars => TypeInv'
<1> SUFFICES ASSUME TypeInv, [Next]_vars PROVE TypeInv'
  OBVIOUS
<1>1. CASE UNCHANGED vars
  BY <1>1 DEF vars, TypeInv, TypeOK, InHand
<1>2. CASE Done
  BY <1>2 DEF Done, vars, TypeInv, TypeOK, InHand
<1>3. CASE Next /\ ~Done
  BY <1>3, TypePush, TypeWorker, TypeMain, TypeCancel DEF Next
<1> QED BY <1>1, <1>2, <1>3

(* Every variable of the engine keeps its type; in particular no reference *)
(* count of a message leaves 0..2.                                         *)
THEOREM TypeCorrect == Spec => []TypeOK
<1>1. TypeInv => TypeOK
  BY DEF TypeInv
<1> QED BY <1>1, TypeInit, TypeNext, PTL DEF Spec

-----------------------------------------------------------------------------
(* No lost wakeup.  NoLostWakeup is inductive once it is known that        *)
(* idle_source_id is set exactly while a source is attached: a push either *)
(* leaves its thread in front of ScheduleIdle, which finds or makes a      *)
(* source, and a source that is dispatched becomes a drain that ends only  *)
(* on an empty queue.                                                      *)
OneSource == sources \in {0, 1} /\ (idleId <=> sources = 1)
Nested == main.pc \in {"loop", "drain_main", "drain_reply"} => main.back = "loop"

WakeInv == TypeInv /\ OneSource /\ NoLostWakeup /\ Nested

Pushing == waking # {} \/ \E w \in Workers : worker[w].pc = "call_wake"
Replying == \E w \in Workers : worker[w].pc = "wake"

\* The steps that leave queues, sources and the drain alone.
LEMMA WakeFrame ==
  ASSUME WakeInv, TypeInv', UNCHANGED <<mainq, replyq, idleId, sources>>,
         DrainingMain => DrainingMain', Draining => Draining',
         Pushing => Pushing', Replying => Replying'
  PROVE  OneSource' /\ NoLostWakeup'
BY DEF WakeInv, OneSource, NoLostWakeup, Pushing, Replying

\* After ScheduleIdle a source is attached.
LEMMA WakeSchedule ==
  ASSUME WakeInv, TypeInv', ScheduleIdle
  PROVE  OneSource' /\ NoLostWakeup'
<1>1. idleId' /\ sources' = 1
  BY DEF ScheduleIdle, WakeInv, OneSource
<1> QED BY <1>1 DEF OneSource, NoLostWakeup

LEMMA WakeWorker ==
  ASSUME WakeInv, TypeInv', NEW w \in Workers,
         WorkerStep(w) \/ \E m \in Msgs : CallNew(w, m)
  PROVE  OneSource' /\ NoLostWakeup'
<1> USE DEF memVars, wakeVars, cancVars, histVars
<1>0. worker \in [Workers -> WorkerState] /\ worker' \in [Workers -> WorkerState]
  BY DEF WakeInv, TypeInv, TypeOK
\* A thread that goes from one program counter outside the wakeups to another.
<1>a. ASSUME worker[w].pc \notin {"wake", "call_wake"},
             \A v \in Workers : v # w => worker'[v] = worker[v],
             UNCHANGED <<mainq, replyq, idleId, sources, main, waking>>
      PROVE  OneSource' /\ NoLostWakeup'
  <2>1. (DrainingMain => DrainingMain') /\ (Draining => Draining')
    BY <1>a DEF DrainingMain, Draining
  <2>2. (Pushing => Pushing') /\ (Replying => Replying')
    BY <1>a DEF Pushing, Replying
  <2> QED BY <1>a, <2>1, <2>2, WakeFrame
<1>1. CASE Take(w)
  BY <1>0, <1>1, <1>a DEF Take
<1>2. CASE Reply(w)
  <2>1. worker'[w].pc = "wake"
    BY <1>0, <1>2 DEF Reply, WorkerState
  <2>2. \A v \in Workers : worker[v].pc = "call_wake" => worker'[v].pc = "call_wake"
    BY <1>0, <1>2 DEF Reply, WorkerState
  <2>3. UNCHANGED <<mainq, idleId, sources, main, waking>>
    BY <1>2 DEF Reply
  <2> QED BY <2>1, <2>2, <2>3 DEF WakeInv, OneSource, NoLostWakeup, DrainingMain
<1>3. CASE Wake(w)
  BY <1>3, WakeSchedule DEF Wake
<1>4. CASE CallPush(w)
  <2>1. worker'[w].pc = "call_wake"
    BY <1>0, <1>4 DEF CallPush, WorkerState
  <2>2. \A v \in Workers : worker[v].pc = "wake" => worker'[v].pc = "wake"
    BY <1>0, <1>4 DEF CallPush, WorkerState
  <2>3. UNCHANGED <<replyq, idleId, sources, main>>
    BY <1>4 DEF CallPush
  <2> QED BY <2>1, <2>2, <2>3 DEF WakeInv, OneSource, NoLostWakeup, Draining, DrainingMain
<1>5. CASE CallWake(w)
  BY <1>5, WakeSchedule DEF CallWake
<1>6. CASE CallReturn(w)
  BY <1>0, <1>6, <1>a DEF CallReturn
<1>7. CASE CallUnref(w)
  BY <1>0, <1>7, <1>a DEF CallUnref
<1>8. CASE CallRetire(w)
  BY <1>0, <1>8, <1>a DEF CallRetire
<1>9. ASSUME NEW m \in Msgs, CallNew(w, m) PROVE OneSource' /\ NoLostWakeup'
  BY <1>0, <1>9, <1>a DEF CallNew
<1> QED BY <1>1, <1>2, <1>3, <1>4, <1>5, <1>6, <1>7, <1>8, <1>9 DEF WorkerStep

LEMMA WakeMainThread ==
  ASSUME WakeInv, TypeInv',
         \/ MainStep
         \/ \E m \in Msgs : CallDirect(m) \/ FreeMsg(m) \/ Submitted(m)
  PROVE  OneSource' /\ NoLostWakeup' /\ Nested'
<1> USE DEF memVars, wakeVars, cancVars, histVars
<1>0. main \in MainState /\ main' \in MainState /\ sources \in Nat
  BY DEF WakeInv, TypeInv, TypeOK
\* The same drain goes on.
<1>a. ASSUME UNCHANGED <<mainq, replyq, idleId, sources, waking, worker>>,
             DrainingMain => DrainingMain', Draining => Draining'
      PROVE  OneSource' /\ NoLostWakeup'
  BY <1>a, WakeFrame DEF Pushing, Replying
<1>1. CASE Dispatch
  <2>1. DrainingMain' /\ Draining' /\ Nested'
    BY <1>1 DEF Dispatch, DrainingMain, Draining, Nested, AtLoop
  <2>2. ~idleId' /\ sources' = 0
    BY <1>1 DEF Dispatch, WakeInv, OneSource
  <2> QED BY <2>1, <2>2 DEF NoLostWakeup, OneSource
<1>2. CASE PopMain
  <2>1. DrainingMain' /\ Draining' /\ Nested'
    BY <1>2 DEF PopMain, DrainingMain, Draining, Nested
  <2>2. UNCHANGED <<idleId, sources>>
    BY <1>2 DEF PopMain
  <2> QED BY <2>1, <2>2 DEF WakeInv, NoLostWakeup, OneSource
<1>3. CASE ExecMain
  <2>1. main'.back = main.back /\ main.pc \notin {"drain_main", "drain_reply"}
        /\ main'.pc = "unref"
    BY <1>0, <1>3 DEF ExecMain, MainState
  <2>2. (DrainingMain => DrainingMain') /\ (Draining => Draining') /\ Nested'
    BY <2>1 DEF DrainingMain, Draining, Nested
  <2> QED BY <1>3, <1>a, <2>2 DEF ExecMain
<1>4. CASE MainEmpty
  <2>1. Draining' /\ Nested' /\ mainq = <<>>
    BY <1>4 DEF MainEmpty, DrainingMain, Draining, Nested, AtLoop
  <2>2. UNCHANGED <<mainq, replyq, idleId, sources, waking, worker>>
    BY <1>4 DEF MainEmpty
  <2> QED BY <2>1, <2>2 DEF WakeInv, NoLostWakeup, OneSource
<1>5. CASE PopReply
  <2>1. Draining' /\ Nested' /\ ~DrainingMain
    BY <1>5 DEF PopReply, DrainingMain, Draining, Nested, WakeInv
  <2>2. UNCHANGED <<mainq, idleId, sources, waking, worker>>
    BY <1>5 DEF PopReply
  <2> QED BY <2>1, <2>2 DEF WakeInv, NoLostWakeup, OneSource
<1>6. CASE ReplyEmpty
  <2>1. replyq = <<>> /\ ~DrainingMain /\ Nested'
    BY <1>6 DEF ReplyEmpty, DrainingMain, Nested, WakeInv, AtLoop
  <2>2. UNCHANGED <<mainq, replyq, idleId, sources, waking, worker>>
    BY <1>6 DEF ReplyEmpty
  <2> QED BY <2>1, <2>2 DEF WakeInv, NoLostWakeup, OneSource
<1>r. ASSUME main' = Return, main.pc \in {"unref", "retire"}
      PROVE  (DrainingMain => DrainingMain') /\ (Draining => Draining') /\ Nested'
  BY <1>r, <1>0 DEF Return, AtLoop, DrainingMain, Draining, Nested
<1>7. CASE Unref
  <2>1. CASE main' = Return
    BY <1>7, <1>a, <1>r, <2>1 DEF Unref
  <2>2. CASE main' = [main EXCEPT !.pc = "retire"]
    <3>1. main'.back = main.back /\ main.pc = "unref" /\ main'.pc = "retire"
      BY <1>0, <1>7, <2>2 DEF Unref, MainState
    <3>2. (DrainingMain => DrainingMain') /\ (Draining => Draining') /\ Nested'
      BY <3>1 DEF DrainingMain, Draining, Nested
    <3> QED BY <1>7, <1>a, <3>2 DEF Unref
  <2> QED BY <1>7, <2>1, <2>2 DEF Unref
<1>8. CASE Retire
  BY <1>8, <1>a, <1>r DEF Retire
<1>9. ASSUME NEW m \in Msgs, CallDirect(m) PROVE OneSource' /\ NoLostWakeup' /\ Nested'
  <2>1. ~DrainingMain /\ ~Draining /\ Nested'
    BY <1>9 DEF CallDirect, DrainingMain, Draining, Nested, WakeInv
  <2> QED BY <1>9, <1>a, <2>1 DEF CallDirect
<1>10. ASSUME NEW m \in Msgs, FreeMsg(m) \/ Submitted(m)
       PROVE  OneSource' /\ NoLostWakeup' /\ Nested'
  <2>1. UNCHANGED <<mainq, replyq, idleId, sources, waking, worker, main>>
    BY <1>10 DEF FreeMsg, Submitted
  <2> QED BY <1>a, <2>1 DEF DrainingMain, Draining, Nested, WakeInv
<1> QED BY <1>1, <1>2, <1>3, <1>4, <1>5, <1>6, <1>7, <1>8, <1>9, <1>10 DEF MainStep

LEMMA WakePush ==
  ASSUME WakeInv, TypeInv', NEW m \in Msgs, Push(m)
  PROVE  OneSource' /\ NoLostWakeup'
<1> USE DEF memVars, wakeVars, cancVars, histVars
<1>1. CASE Create(m) \/ PushPool(m)
  <2>1. UNCHANGED <<mainq, replyq, idleId, sources, waking, worker, main>>
    BY <1>1 DEF Create, PushPool
  <2> QED BY <2>1, WakeFrame DEF Pushing, Replying, DrainingMain, Draining
<1>2. CASE PushMain(m)
  <2>1. waking' # {}
    BY <1>2 DEF PushMain
  <2>2. UNCHANGED <<replyq, idleId, sources, worker, main>>
    BY <1>2 DEF PushMain
  <2> QED BY <2>1, <2>2 DEF WakeInv, NoLostWakeup, OneSource, Draining, DrainingMain
<1>3. CASE WakeMain(m)
  BY <1>3, WakeSchedule DEF WakeMain
<1> QED BY <1>1, <1>2, <1>3 DEF Push

LEMMA WakeNext == WakeInv /\ [Next]_vars => WakeInv'
<1> SUFFICES ASSUME WakeInv, [Next]_vars PROVE WakeInv'
  OBVIOUS
<1>t. TypeInv'
  BY TypeNext DEF WakeInv
<1>1. CASE UNCHANGED vars
  BY <1>1, <1>t DEF vars, WakeInv, OneSource, NoLostWakeup, Nested, DrainingMain, Draining
<1>2. ASSUME NEW m \in Msgs, Push(m) PROVE WakeInv'
  <2>1. main' = main
    BY <1>2 DEF Push, Create, PushPool, PushMain, WakeMain
  <2> QED BY <1>2, <1>t, <2>1, WakePush DEF WakeInv, Nested
<1>3. ASSUME NEW w \in Workers, WorkerStep(w) \/ \E m \in Msgs : CallNew(w, m)
      PROVE  WakeInv'
  <2>1. main' = main
    BY <1>3 DEF WorkerStep, Take, Reply, Wake, CallPush, CallWake, CallReturn,
                CallUnref, CallRetire, CallNew
  <2> QED BY <1>3, <1>t, <2>1, WakeWorker DEF WakeInv, Nested
<1>4. CASE \/ MainStep
           \/ \E m \in Msgs : CallDirect(m) \/ FreeMsg(m) \/ Submitted(m)
  BY <1>4, <1>t, WakeMainThread DEF WakeInv
<1>5. CASE CancelAll \/ \E c \in Cancellers : Cancel(c)
  <2>1. UNCHANGED <<mainq, replyq, idleId, sources, waking, worker, main>>
    BY <1>5 DEF CancelAll, Cancel, Lookup, Fire, Drop, memVars, wakeVars, histVars
  <2> QED BY <1>t, <2>1 DEF WakeInv, OneSource, NoLostWakeup, Nested, DrainingMain,
                            Draining
<1>6. CASE Done
  BY <1>1, <1>6 DEF Done
<1> QED BY <1>1, <1>2, <1>3, <1>4, <1>5, <1>6 DEF Next

(* Whatever the interleaving of pushing threads, workers and the main      *)
(* loop, work in main_loop_queue or msg_reply_queue always has somebody    *)
(* who will read it (mail_msg_idle_cb and idle_source_id).                 *)
THEOREM WakeupNeverLost == Spec => []NoLostWakeup
<1>1. Init => WakeInv
  <2>1. Init => TypeInv
    BY TypeInit
  <2> QED BY <2>1 DEF Init, WakeInv, OneSource, NoLostWakeup, Nested, AtLoop
<1>2. WakeInv => NoLostWakeup
  BY DEF WakeInv
<1> QED BY <1>1, <1>2, WakeNext, PTL DEF Spec

-----------------------------------------------------------------------------
(* The cancellables.  The message's own reference is dropped by            *)
(* mail_msg_free only after the message has left the table, and a          *)
(* cancelling thread owns a reference it took while the message was there. *)
(* That a number is never reused (a message in any queue or hand has been  *)
(* allocated) is what keeps mail_msg_new out of the argument.              *)
Born == {m \in Msgs : mem[m] # "none"}

BornInv ==
  /\ table \cup made \cup freeIdle \subseteq Born
  /\ poolq \in [Pools -> Seq(Born)] /\ mainq \in Seq(Born) /\ replyq \in Seq(Born)
  /\ main.pc \in {"main_exec", "direct", "unref", "retire"} => main.msg \in Born
  /\ \A w \in Workers :
       /\ worker[w].pc # "idle" => worker[w].msg \in Born
       /\ worker[w].pc \in {"call_push", "call_wake", "call_wait", "call_unref",
                            "call_retire"} => worker[w].call \in Born
  /\ \A c \in Cancellers : canceller[c].pc # "idle" => canceller[c].msg \in Born

CancInv ==
  /\ TypeInv /\ BornInv
  /\ freeIdle \cap table = {}
  /\ \A m \in table : "msg" \in held[m]
  /\ \A c \in Cancellers : canceller[c].pc # "idle" => c \in held[canceller[c].msg]

\* Messages are never unborn.
LEMMA BornGrows ==
  ASSUME TypeInv, [Next]_vars
  PROVE  Born \subseteq Born'
<1> USE DEF TypeInv, TypeOK, Born, memVars
<1>1. CASE UNCHANGED vars
  BY <1>1 DEF vars
<1>2. ASSUME NEW m \in Msgs,
             Push(m) \/ CallDirect(m) \/ FreeMsg(m) \/ Submitted(m)
      PROVE  Born \subseteq Born'
  <2>1. CASE Create(m) \/ CallDirect(m)
    <3>1. mem' = [mem EXCEPT ![m] = "alloc"]
      BY <2>1 DEF Create, CallDirect, New
    <3> QED BY <3>1
  <2>2. CASE PushPool(m) \/ PushMain(m) \/ WakeMain(m) \/ Submitted(m)
    <3>1. mem' = mem
      BY <2>2 DEF PushPool, PushMain, WakeMain, Submitted
    <3> QED BY <3>1
  <2>3. CASE FreeMsg(m)
    <3>1. mem' = [mem EXCEPT ![m] = "freed"]
      BY <2>3 DEF FreeMsg
    <3> QED BY <3>1
  <2> QED BY <1>2, <2>1, <2>2, <2>3 DEF Push
<1>3. ASSUME NEW w \in Workers, WorkerStep(w) PROVE Born \subseteq Born'
  <2>1. mem' = mem
    BY <1>3 DEF WorkerStep, Take, Reply, Wake, CallPush, CallWake, CallReturn,
                CallUnref, CallRetire
  <2> QED BY <2>1
<1>4. ASSUME NEW w \in Workers, NEW m \in Msgs, CallNew(w, m)
      PROVE  Born \subseteq Born'
  <2>1. mem' = [mem EXCEPT ![m] = "alloc"]
    BY <1>4 DEF CallNew, New
  <2> QED BY <2>1
<1>5. CASE MainStep
  <2>1. mem' = mem
    BY <1>5 DEF MainStep, Dispatch, PopMain, ExecMain, MainEmpty, PopReply,
                ReplyEmpty, Unref, Retire
  <2> QED BY <2>1
<1>6. CASE CancelAll \/ \E c \in Cancellers : Cancel(c)
  <2>1. mem' = mem
    BY <1>6 DEF CancelAll, Cancel, Lookup, Fire, Drop
  <2> QED BY <2>1
<1>7. CASE Done
  BY <1>1, <1>7 DEF Done
<1> QED BY <1>1, <1>2, <1>3, <1>4, <1>5, <1>6, <1>7 DEF Next

\* What is left as it was stays born.
LEMMA BornKept ==
  ASSUME BornInv, Born \subseteq Born'
  PROVE  /\ table \cup made \cup freeIdle \subseteq Born'
         /\ poolq \in [Pools -> Seq(Born')]
         /\ mainq \in Seq(Born') /\ replyq \in Seq(Born')
         /\ main.pc \in {"main_exec", "direct", "unref", "retire"} => main.msg \in Born'
         /\ \A w \in Workers :
              /\ worker[w].pc # "idle" => worker[w].msg \in Born'
              /\ worker[w].pc \in {"call_push", "call_wake", "call_wait", "call_unref",
                                   "call_retire"} => worker[w].call \in Born'
         /\ \A c \in Cancellers : canceller[c].pc # "idle" => canceller[c].msg \in Born'
<1> DEFINE B == Born'
<1>1. Born \subseteq B
  OBVIOUS
<1> HIDE DEF B
<1>2. Seq(Born) \subseteq Seq(B)
  BY <1>1
<1>3. [Pools -> Seq(Born)] \subseteq [Pools -> Seq(B)]
  BY <1>2
<1>4. /\ table \cup made \cup freeIdle \subseteq B
      /\ poolq \in [Pools -> Seq(B)] /\ mainq \in Seq(B) /\ replyq \in Seq(B)
  BY <1>1, <1>2, <1>3 DEF BornInv
<1>5. /\ main.pc \in {"main_exec", "direct", "unref", "retire"} => main.msg \in B
      /\ \A w \in Workers :
           /\ worker[w].pc # "idle" => worker[w].msg \in B
           /\ worker[w].pc \in {"call_push", "call_wake", "call_wait", "call_unref",
                                "call_retire"} => worker[w].call \in B
      /\ \A c \in Cancellers : canceller[c].pc # "idle" => canceller[c].msg \in B
  BY <1>1 DEF BornInv
<1> QED BY <1>4, <1>5 DEF B


Owned == /\ freeIdle \cap table = {}
         /\ \A m \in table : "msg" \in held[m]
         /\ \A c \in Cancellers : canceller[c].pc # "idle" => c \in held[canceller[c].msg]

\* References are only added, and no message changes hands with mail_msg_free.
LEMMA OwnedKept ==
  ASSUME Owned, UNCHANGED <<table, freeIdle, canceller>>,
         \A m \in Msgs : held[m] \subseteq held'[m], TypeInv
  PROVE  Owned'
BY DEF Owned, TypeInv, TypeOK, InHand

\* mail_msg_new, whoever calls it.
LEMMA OwnedNew ==
  ASSUME TypeInv, BornInv, Owned, NEW m \in Msgs, NEW n, New(m, n),
         UNCHANGED canceller
  PROVE  Owned' /\ table' \cup freeIdle' \subseteq Born' /\ m \in Born'
<1>1. m \notin Born /\ m \in Born' /\ Born \subseteq Born'
  BY DEF New, Born, TypeInv, TypeOK
<1>2. held' = [held EXCEPT ![m] = {"msg"}] /\ table' = table \cup {m}
        /\ freeIdle' = freeIdle
  BY DEF New
<1>3. \A x \in Msgs : held'[x] = IF x = m THEN {"msg"} ELSE held[x]
  BY <1>2 DEF TypeInv, TypeOK
<1>4. \A c \in Cancellers : canceller[c].pc # "idle" => canceller[c].msg \in Msgs \ {m}
  BY <1>1 DEF BornInv, Born
<1>5. freeIdle' \cap table' = {}
  BY <1>1, <1>2 DEF BornInv, Owned
<1>6. \A x \in table' : "msg" \in held'[x]
  BY <1>2, <1>3 DEF Owned, TypeInv, TypeOK
<1>7. \A c \in Cancellers : canceller'[c].pc # "idle" => c \in held'[canceller'[c].msg]
  BY <1>3, <1>4 DEF Owned
<1> QED BY <1>1, <1>2, <1>5, <1>6, <1>7 DEF Owned, BornInv

LEMMA CancPush ==
  ASSUME CancInv, NEW m \in Msgs, Push(m), Born \subseteq Born'
  PROVE  BornInv' /\ Owned'
<1> USE DEF memVars, wakeVars, cancVars, histVars
<1>0. TypeInv /\ BornInv /\ Owned
  BY DEF CancInv, Owned
<1>1. CASE Create(m)
  <2>1. Owned' /\ table' \cup freeIdle' \subseteq Born' /\ m \in Born'
    BY <1>0, <1>1, OwnedNew DEF Create
  <2>2. made' = made \cup {m} /\ UNCHANGED <<poolq, mainq, replyq, main, worker, canceller>>
    BY <1>1 DEF Create
  <2> QED BY <1>0, <2>1, <2>2, BornKept DEF BornInv
<1>2. CASE PushPool(m)
  <2>1. m \in Born /\ Kind[m] \in Pools
    BY <1>0, <1>2 DEF PushPool, BornInv
  <2>2. InsertSorted(poolq[Kind[m]], m) \in Seq(Born)
    BY <1>0, <2>1, InsertType DEF BornInv
  <2>3. poolq' = [poolq EXCEPT ![Kind[m]] = InsertSorted(poolq[Kind[m]], m)]
    BY <1>2 DEF PushPool
  <2>4. poolq' \in [Pools -> Seq(Born)]
    BY <1>0, <2>1, <2>2, <2>3 DEF BornInv
  <2>5. made' \subseteq made /\ UNCHANGED <<mem, table, freeIdle, mainq, replyq, main,
                                             worker, held, canceller>>
    BY <1>2 DEF PushPool
  <2>6. Born' = Born
    BY <2>5 DEF Born
  <2> QED BY <1>0, <2>4, <2>5, <2>6 DEF BornInv, Owned
<1>3. CASE PushMain(m)
  <2>1. m \in Born
    BY <1>0, <1>3 DEF PushMain, BornInv
  <2>2. mainq' \in Seq(Born)
    BY <1>0, <1>3, <2>1, InsertType DEF PushMain, BornInv
  <2>3. made' \subseteq made /\ UNCHANGED <<mem, table, freeIdle, poolq, replyq, main,
                                             worker, held, canceller>>
    BY <1>3 DEF PushMain
  <2>4. Born' = Born
    BY <2>3 DEF Born
  <2> QED BY <1>0, <2>2, <2>3, <2>4 DEF BornInv, Owned
<1>4. CASE WakeMain(m)
  <2>1. UNCHANGED <<mem, table, made, freeIdle, poolq, mainq, replyq, main, worker,
                    held, canceller>>
    BY <1>4 DEF WakeMain
  <2>2. Born' = Born
    BY <2>1 DEF Born
  <2> QED BY <1>0, <2>1, <2>2 DEF BornInv, Owned
<1> QED BY <1>1, <1>2, <1>3, <1>4 DEF Push

LEMMA CancWorker ==
  ASSUME CancInv, NEW w \in Workers,
         WorkerStep(w) \/ \E m \in Msgs : CallNew(w, m), Born \subseteq Born'
  PROVE  BornInv' /\ Owned'
<1> USE DEF memVars, wakeVars, cancVars, histVars
<1>0. TypeInv /\ BornInv /\ Owned /\ worker \in [Workers -> WorkerState]
  BY DEF CancInv, Owned, TypeInv, TypeOK
<1> DEFINE Ok(r) ==
      /\ r.pc # "idle" => r.msg \in Born'
      /\ r.pc \in {"call_push", "call_wake", "call_wait", "call_unref", "call_retire"}
           => r.call \in Born'
\* The thread changes its state, and the rest of what BornInv reads stays.
<1>a. ASSUME NEW r, worker' = [worker EXCEPT ![w] = r], Ok(r)
      PROVE  \A v \in Workers : Ok(worker'[v])
  BY <1>0, <1>a, BornKept
<1>1. CASE Take(w)
  <2> DEFINE p == PoolOf[w]
             m == Head(poolq[p])
             r == [worker[w] EXCEPT !.pc = "exec", !.msg = m]
  <2>1. p \in Pools
    BY MsgAssumption
  <2>2. poolq[p] \in Seq(Born) /\ poolq[p] # <<>>
    BY <1>0, <1>1, <2>1 DEF Take, BornInv
  <2>3. m \in Born /\ Tail(poolq[p]) \in Seq(Born)
    BY <2>2
  <2>4. poolq' = [poolq EXCEPT ![p] = Tail(poolq[p])]
    BY <1>1 DEF Take
  <2>5. poolq' \in [Pools -> Seq(Born)]
    BY <1>0, <2>1, <2>3, <2>4 DEF BornInv
  <2>6. worker' = [worker EXCEPT ![w] = r]
    BY <1>1 DEF Take
  <2>7. Ok(r)
    BY <1>0, <2>3 DEF WorkerState
  <2>8. UNCHANGED <<mem, table, made, freeIdle, mainq, replyq, main, canceller>>
    BY <1>1 DEF Take
  <2>9. Born' = Born
    BY <2>8 DEF Born
  <2>10. held' = [held EXCEPT ![m] = held[m] \cup {"submit"}]
    BY <1>1 DEF Take
  <2>11. \A x \in Msgs : held[x] \subseteq held'[x]
    BY <1>0, <2>10 DEF TypeInv, TypeOK
  <2>12. Owned'
    BY <1>0, <2>8, <2>11, OwnedKept
  <2> HIDE DEF r
  <2>13. \A v \in Workers : Ok(worker'[v])
    BY <1>a, <2>6, <2>7
  <2> QED BY <1>0, <2>5, <2>8, <2>9, <2>12, <2>13 DEF BornInv
<1>2. CASE Reply(w)
  <2> DEFINE r == [worker[w] EXCEPT !.pc = "wake"]
  <2>1. worker[w].msg \in Born
    BY <1>0, <1>2 DEF Reply, BornInv
  <2>2. replyq' \in Seq(Born)
    BY <1>0, <1>2, <2>1 DEF Reply, BornInv
  <2>3. worker' = [worker EXCEPT ![w] = r]
    BY <1>2 DEF Reply
  <2>4. UNCHANGED <<mem, table, made, freeIdle, mainq, poolq, main, held, canceller>>
    BY <1>2 DEF Reply
  <2>5. Born' = Born
    BY <2>4 DEF Born
  <2>6. Ok(r)
    BY <1>0, <2>1, <2>5 DEF WorkerState
  <2> HIDE DEF r
  <2>7. \A v \in Workers : Ok(worker'[v])
    BY <1>a, <2>3, <2>6
  <2> QED BY <1>0, <2>2, <2>4, <2>5, <2>7 DEF BornInv, Owned
\* The steps that leave the queues alone.
<1>b. ASSUME UNCHANGED <<mem, made, mainq, poolq, replyq, main, held, canceller>>,
             UNCHANGED <<table, freeIdle>>,
             NEW r, worker' = [worker EXCEPT ![w] = r], Ok(r)
      PROVE  BornInv' /\ Owned'
  <2>1. \A v \in Workers : Ok(worker'[v])
    BY <1>a, <1>b
  <2>2. Born' = Born
    BY <1>b DEF Born
  <2> QED BY <1>0, <1>b, <2>1, <2>2 DEF BornInv, Owned
<1>c. /\ worker[w].pc # "idle" => worker[w].msg \in Born'
      /\ worker[w].pc \in {"call_push", "call_wake", "call_wait", "call_unref", "call_retire"}
           => worker[w].call \in Born'
  BY <1>0, BornKept
<1>d. ASSUME NEW pc, worker[w].pc # "idle",
             worker[w].pc = "exec" => pc \notin {"call_push", "call_wake", "call_wait",
                                                 "call_unref", "call_retire"},
             worker[w].pc \in {"exec", "call_push", "call_wake", "call_wait",
                               "call_unref", "call_retire"}
      PROVE  Ok([worker[w] EXCEPT !.pc = pc])
  BY <1>0, <1>c, <1>d DEF WorkerState
<1>e. ASSUME worker[w].pc # "idle"
      PROVE  Ok([worker[w] EXCEPT !.pc = "exec", !.call = None])
  BY <1>0, <1>c, <1>e DEF WorkerState
<1> HIDE DEF Ok
<1>3. CASE Wake(w)
  <2>1. Ok(AtRest)
    BY DEF AtRest, Ok
  <2> QED BY <1>3, <1>b, <2>1 DEF Wake
<1>4. CASE CallPush(w)
  <2> DEFINE r == [worker[w] EXCEPT !.pc = "call_wake"]
  <2>1. worker[w].call \in Born
    BY <1>0, <1>4 DEF CallPush, BornInv
  <2>2. mainq' \in Seq(Born)
    BY <1>0, <1>4, <2>1, InsertType DEF CallPush, BornInv
  <2>3. worker' = [worker EXCEPT ![w] = r]
    BY <1>4 DEF CallPush
  <2>4. UNCHANGED <<mem, table, made, freeIdle, replyq, poolq, main, held, canceller>>
    BY <1>4 DEF CallPush
  <2>5. Born' = Born
    BY <2>4 DEF Born
  <2>6. Ok(r)
    BY <1>4, <1>d DEF CallPush
  <2> HIDE DEF r
  <2>7. \A v \in Workers : Ok(worker'[v])
    BY <1>a, <2>3, <2>6
  <2> QED BY <1>0, <2>2, <2>4, <2>5, <2>7 DEF BornInv, Owned, Ok
<1>5. CASE CallWake(w)
  <2>1. Ok([worker[w] EXCEPT !.pc = "call_wait"])
    BY <1>5, <1>d DEF CallWake
  <2> QED BY <1>5, <1>b, <2>1 DEF CallWake
<1>6. CASE CallReturn(w)
  <2>1. Ok([worker[w] EXCEPT !.pc = "call_unref"])
    BY <1>6, <1>d DEF CallReturn
  <2> QED BY <1>6, <1>b, <2>1 DEF CallReturn
<1>7. CASE CallUnref(w)
  <2>1. Ok([worker[w] EXCEPT !.pc = "call_retire"])
    BY <1>7, <1>d DEF CallUnref
  <2>2. Ok([worker[w] EXCEPT !.pc = "exec", !.call = None])
    BY <1>7, <1>e DEF CallUnref
  <2>3. UNCHANGED <<mem, made, mainq, poolq, replyq, main, held, canceller, table, freeIdle>>
    BY <1>7 DEF CallUnref
  <2>4. \/ worker' = [worker EXCEPT ![w] = [worker[w] EXCEPT !.pc = "call_retire"]]
        \/ worker' = [worker EXCEPT ![w] = [worker[w] EXCEPT !.pc = "exec", !.call = None]]
    BY <1>7 DEF CallUnref
  <2> QED BY <1>b, <2>1, <2>2, <2>3, <2>4
<1>8. CASE CallRetire(w)
  <2> DEFINE r == [worker[w] EXCEPT !.pc = "exec", !.call = None]
  <2>1. worker[w].call \in Born
    BY <1>0, <1>8 DEF CallRetire, BornInv
  <2>2. worker' = [worker EXCEPT ![w] = r]
    BY <1>8 DEF CallRetire
  <2>3. UNCHANGED <<mem, made, mainq, replyq, poolq, main, held, canceller>>
    BY <1>8 DEF CallRetire
  <2>4. Born' = Born
    BY <2>3 DEF Born
  <2>5. Ok(r)
    BY <1>8, <1>e DEF CallRetire
  <2> HIDE DEF r
  <2>6. \A v \in Workers : Ok(worker'[v])
    BY <1>a, <2>2, <2>5
  <2>7. table' = table \ {worker[w].call} /\ freeIdle' = freeIdle \cup {worker[w].call}
    BY <1>8 DEF CallRetire
  <2>8. Owned'
    BY <1>0, <2>3, <2>7 DEF Owned
  <2> QED BY <1>0, <2>1, <2>3, <2>4, <2>6, <2>7, <2>8 DEF BornInv, Ok
<1>9. ASSUME NEW m \in Msgs, CallNew(w, m) PROVE BornInv' /\ Owned'
  <2> DEFINE r == [worker[w] EXCEPT !.pc = "call_push", !.call = m]
  <2>1. Owned' /\ table' \cup freeIdle' \subseteq Born' /\ m \in Born'
    BY <1>0, <1>9, OwnedNew DEF CallNew
  <2>2. worker[w].pc # "idle" /\ worker' = [worker EXCEPT ![w] = r]
    BY <1>9 DEF CallNew
  <2>3. Ok(r)
    BY <1>0, <1>c, <2>1, <2>2 DEF WorkerState, Ok
  <2> HIDE DEF r
  <2>4. \A v \in Workers : Ok(worker'[v])
    BY <1>a, <2>2, <2>3
  <2>5. UNCHANGED <<made, mainq, replyq, poolq, main, canceller>>
    BY <1>9 DEF CallNew
  <2> QED BY <1>0, <2>1, <2>4, <2>5, BornKept DEF BornInv, Ok
<1> QED BY <1>1, <1>2, <1>3, <1>4, <1>5, <1>6, <1>7, <1>8, <1>9 DEF WorkerStep

LEMMA CancMain ==
  ASSUME CancInv, Born \subseteq Born',
         \/ MainStep
         \/ \E m \in Msgs : CallDirect(m) \/ FreeMsg(m) \/ Submitted(m)
  PROVE  BornInv' /\ Owned'
<1> USE DEF memVars, wakeVars, cancVars, histVars
<1>0. TypeInv /\ BornInv /\ Owned /\ main \in MainState
  BY DEF CancInv, Owned, TypeInv, TypeOK
<1> DEFINE Hand == {"main_exec", "direct", "unref", "retire"}
\* The main thread moves on and nothing else does.
<1>a. ASSUME UNCHANGED <<mem, table, made, freeIdle, poolq, mainq, replyq, worker,
                         held, canceller>>,
             main'.pc \in Hand => main.pc \in Hand /\ main'.msg = main.msg
      PROVE  BornInv' /\ Owned'
  <2>1. Born' = Born
    BY <1>a DEF Born
  <2> QED BY <1>0, <1>a, <2>1 DEF BornInv, Owned
<1>1. CASE Dispatch
  <2>1. main'.pc = "drain_main"
    BY <1>1 DEF Dispatch, AtLoop
  <2> QED BY <1>1, <1>a, <2>1 DEF Dispatch
<1>2. CASE PopMain
  <2> DEFINE m == Head(mainq)
  <2>1. m \in Born /\ mainq' \in Seq(Born)
    BY <1>0, <1>2 DEF PopMain, BornInv
  <2>2. UNCHANGED <<mem, table, made, freeIdle, poolq, replyq, worker, canceller>>
        /\ main'.msg = m
    BY <1>2 DEF PopMain
  <2>3. Born' = Born
    BY <2>2 DEF Born
  <2>4. held' = [held EXCEPT ![m] = held[m] \cup {"submit"}]
    BY <1>2 DEF PopMain
  <2>5. \A x \in Msgs : held[x] \subseteq held'[x]
    BY <1>0, <2>4 DEF TypeInv, TypeOK
  <2>6. Owned'
    BY <1>0, <2>2, <2>5, OwnedKept
  <2> HIDE DEF m
  <2> QED BY <1>0, <2>1, <2>2, <2>3, <2>6 DEF BornInv
<1>3. CASE ExecMain
  <2>1. main'.msg = main.msg /\ main.pc \in Hand
    BY <1>0, <1>3 DEF ExecMain, MainState
  <2> QED BY <1>3, <1>a, <2>1 DEF ExecMain
<1>4. CASE MainEmpty
  <2>1. main'.pc = "drain_reply"
    BY <1>4 DEF MainEmpty, AtLoop
  <2> QED BY <1>4, <1>a, <2>1 DEF MainEmpty
<1>5. CASE PopReply
  <2>1. Head(replyq) \in Born /\ replyq' \in Seq(Born)
    BY <1>0, <1>5 DEF PopReply, BornInv
  <2>2. UNCHANGED <<mem, table, made, freeIdle, poolq, mainq, worker, held, canceller>>
        /\ main'.msg = Head(replyq)
    BY <1>5 DEF PopReply
  <2>3. Born' = Born
    BY <2>2 DEF Born
  <2> QED BY <1>0, <2>1, <2>2, <2>3 DEF BornInv, Owned
<1>6. CASE ReplyEmpty
  <2>1. main'.pc = "loop"
    BY <1>6 DEF ReplyEmpty, AtLoop
  <2> QED BY <1>6, <1>a, <2>1 DEF ReplyEmpty
<1>r. Return.pc \notin Hand
  BY <1>0 DEF Return, AtLoop, MainState
<1>7. CASE Unref
  <2>1. CASE main' = Return
    BY <1>7, <1>a, <1>r, <2>1 DEF Unref
  <2>2. CASE main' = [main EXCEPT !.pc = "retire"]
    <3>1. main'.msg = main.msg /\ main.pc \in Hand
      BY <1>0, <1>7, <2>2 DEF Unref, MainState
    <3> QED BY <1>7, <1>a, <3>1 DEF Unref
  <2> QED BY <1>7, <2>1, <2>2 DEF Unref
<1>8. CASE Retire
  <2>1. main.msg \in Born
    BY <1>0, <1>8 DEF Retire, BornInv
  <2>2. UNCHANGED <<mem, made, poolq, mainq, replyq, worker, held, canceller>>
        /\ main' = Return /\ table' = table \ {main.msg}
        /\ freeIdle' = freeIdle \cup {main.msg}
    BY <1>8 DEF Retire
  <2>3. Born' = Born
    BY <2>2 DEF Born
  <2> QED BY <1>0, <1>r, <2>1, <2>2, <2>3 DEF BornInv, Owned
<1>9. ASSUME NEW m \in Msgs, CallDirect(m) PROVE BornInv' /\ Owned'
  <2>1. Owned' /\ table' \cup freeIdle' \subseteq Born' /\ m \in Born'
    BY <1>0, <1>9, OwnedNew DEF CallDirect
  <2>2. main'.msg = m /\ UNCHANGED <<made, poolq, mainq, replyq, worker, canceller>>
    BY <1>9 DEF CallDirect
  <2> QED BY <1>0, <2>1, <2>2, BornKept DEF BornInv
\* Dropping a reference that is not a canceller's.
<1>b. ASSUME NEW m \in Msgs, NEW h \in {"msg", "submit"},
             held' = [held EXCEPT ![m] = held[m] \ {h}],
             h = "msg" => m \notin table,
             freeIdle' \subseteq freeIdle,
             UNCHANGED <<table, canceller>>
      PROVE  Owned'
  <2>1. \A x \in Msgs : held'[x] = IF x = m THEN held[x] \ {h} ELSE held[x]
    BY <1>0, <1>b DEF TypeInv, TypeOK
  <2>2. \A c \in Cancellers : c # h
    BY MsgAssumption
  <2>3. \A x \in table : "msg" \in held'[x]
    BY <1>0, <1>b, <2>1 DEF Owned, TypeInv, TypeOK
  <2>4. \A c \in Cancellers : canceller[c].pc # "idle" => c \in held'[canceller[c].msg]
    BY <1>0, <2>1, <2>2 DEF Owned, TypeInv, InHand
  <2> QED BY <1>0, <1>b, <2>3, <2>4 DEF Owned
<1>10. ASSUME NEW m \in Msgs, FreeMsg(m) PROVE BornInv' /\ Owned'
  <2>1. Owned'
    BY <1>0, <1>10, <1>b DEF FreeMsg, Owned
  <2>2. freeIdle' \subseteq freeIdle /\ main'.pc \notin Hand
        /\ UNCHANGED <<table, made, poolq, mainq, replyq, worker, main, canceller>>
    BY <1>10 DEF FreeMsg
  <2> QED BY <1>0, <2>1, <2>2, BornKept DEF BornInv
<1>11. ASSUME NEW m \in Msgs, Submitted(m) PROVE BornInv' /\ Owned'
  <2>1. Owned'
    BY <1>11, <1>b DEF Submitted
  <2>2. UNCHANGED <<table, made, freeIdle, poolq, mainq, replyq, worker, main, canceller>>
    BY <1>11 DEF Submitted
  <2> QED BY <1>0, <2>1, <2>2, BornKept DEF BornInv
<1> QED BY <1>1, <1>2, <1>3, <1>4, <1>5, <1>6, <1>7, <1>8, <1>9, <1>10, <1>11 DEF MainStep

LEMMA CancCancel ==
  ASSUME CancInv, CancelAll \/ \E c \in Cancellers : Cancel(c)
  PROVE  BornInv' /\ Owned'
<1> USE DEF memVars, wakeVars, histVars
<1>0. TypeInv /\ BornInv /\ Owned
  BY DEF CancInv, Owned
<1>1. UNCHANGED <<mem, table, made, freeIdle, poolq, mainq, replyq, worker, main>>
  BY DEF CancelAll, Cancel, Lookup, Fire, Drop
<1>2. Born' = Born
  BY <1>1 DEF Born
<1>3. CASE CancelAll
  BY <1>0, <1>1, <1>2, <1>3 DEF CancelAll, BornInv, Owned
<1>4. ASSUME NEW c \in Cancellers, NEW m \in Msgs, Lookup(c, m) PROVE BornInv' /\ Owned'
  <2>1. m \in Born
    BY <1>0, <1>4 DEF Lookup, BornInv
  <2>2. \A x \in Msgs : held'[x] = IF x = m THEN held[x] \cup {c} ELSE held[x]
    BY <1>0, <1>4 DEF Lookup, TypeInv, TypeOK
  <2>3. \A d \in Cancellers :
          canceller'[d] = IF d = c THEN [pc |-> "fire", msg |-> m] ELSE canceller[d]
    BY <1>0, <1>4 DEF Lookup, TypeInv, TypeOK
  <2>4. BornInv'
    BY <1>0, <1>1, <1>2, <2>1, <2>3 DEF BornInv
  <2>5. \A x \in table : "msg" \in held'[x]
    BY <1>0, <2>2 DEF Owned, TypeInv, TypeOK
  <2>6. \A d \in Cancellers :
          canceller'[d].pc # "idle" => d \in held'[canceller'[d].msg]
    <3> SUFFICES ASSUME NEW d \in Cancellers, canceller'[d].pc # "idle"
                 PROVE  d \in held'[canceller'[d].msg]
      OBVIOUS
    <3>1. CASE d = c
      <4>1. canceller'[d].msg = m
        BY <2>3, <3>1
      <4>2. held'[m] = held[m] \cup {c}
        BY <2>2
      <4> QED BY <3>1, <4>1, <4>2
    <3>2. CASE d # c
      <4>1. canceller'[d] = canceller[d]
        BY <2>3, <3>2
      <4>2. canceller[d].msg \in Msgs /\ d \in held[canceller[d].msg]
        BY <1>0, <4>1 DEF Owned, TypeInv, InHand
      <4> QED BY <2>2, <4>1, <4>2
    <3> QED BY <3>1, <3>2
  <2>7. Owned'
    BY <1>0, <1>1, <2>5, <2>6 DEF Owned
  <2> QED BY <2>4, <2>7
<1>5. ASSUME NEW c \in Cancellers, Fire(c) PROVE BornInv' /\ Owned'
  <2>1. \A d \in Cancellers :
          canceller'[d].msg = canceller[d].msg
            /\ (canceller'[d].pc # "idle" => canceller[d].pc # "idle")
    BY <1>0, <1>5 DEF Fire, TypeInv, TypeOK, CancellerState
  <2>2. held' = held
    BY <1>5 DEF Fire
  <2> QED BY <1>0, <1>1, <1>2, <2>1, <2>2 DEF BornInv, Owned
<1>6. ASSUME NEW c \in Cancellers, Drop(c) PROVE BornInv' /\ Owned'
  <2>1. canceller[c].msg \in Msgs
    BY <1>0, <1>6 DEF Drop, TypeInv, InHand
  <2>2. \A x \in Msgs : held'[x] = IF x = canceller[c].msg THEN held[x] \ {c} ELSE held[x]
    BY <1>0, <1>6, <2>1 DEF Drop, TypeInv, TypeOK
  <2>3. \A d \in Cancellers : canceller'[d] = IF d = c THEN Quiet ELSE canceller[d]
    BY <1>0, <1>6 DEF Drop, TypeInv, TypeOK
  <2>4. BornInv'
    BY <1>0, <1>1, <1>2, <2>3 DEF BornInv, Quiet
  <2>5. "msg" # c
    BY MsgAssumption
  <2>6. \A x \in table : "msg" \in held'[x]
    BY <1>0, <2>2, <2>5 DEF Owned, TypeInv, TypeOK
  <2>7. \A d \in Cancellers :
          canceller'[d].pc # "idle" => d \in held'[canceller'[d].msg]
    <3> SUFFICES ASSUME NEW d \in Cancellers, canceller'[d].pc # "idle"
                 PROVE  d \in held'[canceller'[d].msg]
      OBVIOUS
    <3>1. d # c
      BY <2>3 DEF Quiet
    <3>2. canceller'[d] = canceller[d]
      BY <2>3, <3>1
    <3>3. canceller[d].msg \in Msgs /\ d \in held[canceller[d].msg]
      BY <1>0, <3>2 DEF Owned, TypeInv, InHand
    <3> QED BY <2>2, <3>1, <3>2, <3>3
  <2>8. Owned'
    BY <1>0, <1>1, <2>6, <2>7 DEF Owned
  <2> QED BY <2>4, <2>8
<1> QED BY <1>3, <1>4, <1>5, <1>6 DEF Cancel

LEMMA CancNext == CancInv /\ [Next]_vars => CancInv'
<1> SUFFICES ASSUME CancInv, [Next]_vars PROVE CancInv'
  OBVIOUS
<1>1. TypeInv' /\ Born \subseteq Born'
  BY TypeNext, BornGrows DEF CancInv
<1>2. CASE UNCHANGED vars
  BY <1>1, <1>2 DEF vars, CancInv, BornInv, Born
<1>3. CASE Next /\ ~Done
  <2>1. BornInv' /\ Owned'
    BY <1>1, <1>3, CancPush, CancWorker, CancMain, CancCancel DEF Next
  <2> QED BY <1>1, <2>1 DEF CancInv, Owned
<1> QED BY <1>2, <1>3 DEF Done

(* mail_msg_cancel never touches a finalised cancellable: the message it   *)
(* finds in the table still owns its reference, and a thread that has left *)
(* the lock owns one of its own, while mail_msg_free runs in the main loop.*)
THEOREM CancellableNeverDangles == Spec => []CancellableAlive
<1>1. Init => CancInv
  <2>1. Init => TypeInv
    BY TypeInit
  <2>2. Init => BornInv
    BY DEF Init, BornInv, Born, AtLoop, AtRest, Quiet
  <2>3. Init => Owned
    BY DEF Init, Owned, Quiet
  <2> QED BY <2>1, <2>2, <2>3 DEF CancInv, Owned
<1>2. CancInv => CancellableAlive
  BY DEF CancInv, CancellableAlive
<1> QED BY <1>1, <1>2, CancNext, PTL DEF Spec

-----------------------------------------------------------------------------
(***************************************************************************)
(* Proof that a MailMsg is never used after mail_msg_free, for every set   *)
(* of messages, workers, pools and cancelling threads.                     *)
(*                                                                         *)
(* A message that has not been disposed of is in one place: with the       *)
(* thread that made it, in one queue, or with the thread that runs or      *)
(* completes it.  That place owns a reference, a mail_call_main that has   *)
(* not returned owns another, and there are no more.  So whoever takes the *)
(* last reference, be it the main loop or the calling thread, is alone.    *)
(***************************************************************************)
Tags == {"made", "mainq", "replyq", "pool", "exec", "push", "main"}
Spots == Pools \cup Workers \cup {None}
Calling == {"call_push", "call_wake", "call_wait", "call_unref"}

OnMain(m) == main.pc \in {"main_exec", "direct", "unref"} /\ main.msg = m
Holds(w, m) == worker[w].pc \notin {"idle", "wake"} /\ worker[w].msg = m
Pushes(w, m) == worker[w].pc = "call_push" /\ worker[w].call = m
Calls(w, m) == worker[w].pc \in Calling /\ worker[w].call = m
Retires(w, m) == worker[w].pc = "call_retire" /\ worker[w].call = m
MainRetires(m) == main.pc = "retire" /\ main.msg = m

\* The places where a message can be.
At(m, t, y) ==
  \/ t = "made" /\ y = None /\ m \in made
  \/ t = "mainq" /\ y = None /\ m \in Elements(mainq)
  \/ t = "replyq" /\ y = None /\ m \in Elements(replyq)
  \/ t = "pool" /\ y \in Pools /\ m \in Elements(poolq[y])
  \/ t = "exec" /\ y \in Workers /\ Holds(y, m)
  \/ t = "push" /\ y \in Workers /\ Pushes(y, m)
  \/ t = "main" /\ y = None /\ OnMain(m)

Placed(m) == \E t \in Tags, y \in Spots : At(m, t, y)
Called(m) == \E w \in Workers : Calls(w, m)
Retiring(m) == MainRetires(m) \/ \E w \in Workers : Retires(w, m)

One(b) == IF b THEN 1 ELSE 0

Own(m) ==
  /\ \A t, u \in Tags : \A y, z \in Spots : At(m, t, y) /\ At(m, u, z) => t = u /\ y = z
  /\ \A v, w \in Workers : worker[v].call = m /\ worker[w].call = m => v = w
  /\ refs[m] = One(Placed(m)) + One(Called(m))
  /\ Retiring(m) => refs[m] = 0 /\ m \notin freeIdle
  /\ MainRetires(m) => \A w \in Workers : worker[w].call # m
  /\ m \in freeIdle => refs[m] = 0 /\ m \notin table
  /\ mem[m] # "alloc" => /\ refs[m] = 0 /\ ~Retiring(m)
                         /\ m \notin freeIdle /\ m \notin table

NoTwice(q) == \A i, j \in DOMAIN q : q[i] = q[j] => i = j

Queues == NoTwice(mainq) /\ NoTwice(replyq) /\ \A p \in Pools : NoTwice(poolq[p])

Hands ==
  /\ main.pc \in {"loop", "drain_main", "drain_reply"} => main.msg = None
  /\ \A w \in Workers : worker[w].pc \in Calling \cup {"call_retire"} \/ worker[w].call = None

MemInv == TypeInv /\ Queues /\ Hands /\ \A m \in Msgs : Own(m)
-----------------------------------------------------------------------------
(* What the queues do to the set of their elements.                        *)

LEMMA TailElements ==
  ASSUME NEW q \in Seq(Msgs), q # <<>>, NoTwice(q)
  PROVE  /\ Head(q) \in Elements(q) /\ Head(q) \in Msgs
         /\ Elements(Tail(q)) = Elements(q) \ {Head(q)}
         /\ NoTwice(Tail(q))
<1>1. /\ Len(q) \in Nat /\ Len(q) >= 1 /\ DOMAIN q = 1..Len(q)
      /\ Tail(q) \in Seq(Msgs) /\ Len(Tail(q)) = Len(q) - 1
      /\ Head(q) = q[1]
  OBVIOUS
<1>2. \A i \in 1..Len(q) - 1 : Tail(q)[i] = q[i + 1]
  OBVIOUS
<1>3. DOMAIN Tail(q) = 1..Len(q) - 1
  BY <1>1
<1>4. ASSUME NEW x PROVE x \in Elements(Tail(q)) <=> x \in Elements(q) \ {Head(q)}
  <2>1. ASSUME NEW i \in 1..Len(q) - 1, x = Tail(q)[i]
        PROVE  x \in Elements(q) /\ x # q[1]
    <3>1. i + 1 \in DOMAIN q /\ 1 \in DOMAIN q /\ i + 1 # 1 /\ x = q[i + 1]
      BY <1>1, <1>2, <2>1
    <3> QED BY <3>1 DEF NoTwice, Elements
  <2>2. ASSUME NEW i \in 1..Len(q), x = q[i], x # q[1]
        PROVE  \E j \in 1..Len(q) - 1 : x = Tail(q)[j]
    <3>1. i - 1 \in 1..Len(q) - 1 /\ x = Tail(q)[i - 1]
      BY <1>1, <1>2, <2>2
    <3> QED BY <3>1
  <2> QED BY <1>1, <1>3, <2>1, <2>2 DEF Elements
<1>5. NoTwice(Tail(q))
  <2>1. ASSUME NEW i \in 1..Len(q) - 1, NEW j \in 1..Len(q) - 1, Tail(q)[i] = Tail(q)[j]
        PROVE  i = j
    <3>1. i + 1 \in DOMAIN q /\ j + 1 \in DOMAIN q /\ q[i + 1] = q[j + 1]
      BY <1>1, <1>2, <2>1
    <3>2. i + 1 = j + 1
      BY <3>1 DEF NoTwice
    <3> QED BY <3>2
  <2> QED BY <1>3, <2>1 DEF NoTwice
<1>6. Head(q) \in Elements(q) /\ Head(q) \in Msgs
  BY <1>1 DEF Elements
<1> QED BY <1>4, <1>5, <1>6

LEMMA AppendSet ==
  ASSUME NEW q \in Seq(Msgs), NEW m \in Msgs
  PROVE  Elements(Append(q, m)) = Elements(q) \cup {m}
<1> DEFINE r == Append(q, m)
<1>1. /\ Len(q) \in Nat /\ DOMAIN q = 1..Len(q) /\ DOMAIN r = 1..Len(q) + 1
      /\ r[Len(q) + 1] = m /\ \A i \in 1..Len(q) : r[i] = q[i]
  OBVIOUS
<1>2. \A i \in 1..Len(q) + 1 : i \in 1..Len(q) \/ i = Len(q) + 1
  BY <1>1
<1>3. 1..Len(q) \subseteq 1..Len(q) + 1 /\ Len(q) + 1 \in 1..Len(q) + 1
  BY <1>1
<1> HIDE DEF r
<1>4. Elements(r) = Elements(q) \cup {m}
  BY <1>1, <1>2, <1>3 DEF Elements
<1> QED BY <1>4 DEF r

LEMMA AppendElements ==
  ASSUME NEW q \in Seq(Msgs), NEW m \in Msgs, NoTwice(q), m \notin Elements(q)
  PROVE  Elements(Append(q, m)) = Elements(q) \cup {m} /\ NoTwice(Append(q, m))
<1> DEFINE r == Append(q, m)
<1>1. /\ Len(q) \in Nat /\ DOMAIN q = 1..Len(q) /\ DOMAIN r = 1..Len(q) + 1
      /\ r[Len(q) + 1] = m /\ \A i \in 1..Len(q) : r[i] = q[i]
  OBVIOUS
<1>2. \A i \in 1..Len(q) + 1 : i \in 1..Len(q) \/ i = Len(q) + 1
  BY <1>1
<1>3. \A i \in 1..Len(q) : q[i] # m
  BY <1>1 DEF Elements
<1>4. NoTwice(r)
  <2> HIDE DEF r
  <2> QED BY <1>1, <1>2, <1>3 DEF NoTwice
<1> QED BY <1>4, AppendSet

LEMMA LengthFacts ==
  ASSUME NEW T, NEW q \in Seq(T)
  PROVE  Len(q) \in Nat /\ DOMAIN q = 1..Len(q)
OBVIOUS

LEMMA ConcatFacts ==
  ASSUME NEW T, NEW a \in Seq(T), NEW b \in Seq(T)
  PROVE  /\ a \o b \in Seq(T) /\ Len(a \o b) = Len(a) + Len(b)
         /\ \A i \in 1..Len(a) + Len(b) :
              (a \o b)[i] = IF i <= Len(a) THEN a[i] ELSE b[i - Len(a)]
<1>1. a \o b \in Seq(T) /\ Len(a \o b) = Len(a) + Len(b)
  OBVIOUS
<1>2. ASSUME NEW i \in 1..Len(a) + Len(b)
      PROVE  (a \o b)[i] = IF i <= Len(a) THEN a[i] ELSE b[i - Len(a)]
  OBVIOUS
<1> QED BY <1>1, <1>2

\* The place that mail_msg_compare gives a message.
Place(q, m) == Cardinality({i \in 1..Len(q) : Priority[q[i]] >= Priority[m]})

LEMMA InsertShape ==
  ASSUME NEW q \in Seq(Msgs), NEW m \in Msgs
  PROVE  LET k == Place(q, m)  r == InsertSorted(q, m) IN
         /\ k \in 0..Len(q) /\ r \in Seq(Msgs)
         /\ Len(q) \in Nat /\ DOMAIN q = 1..Len(q) /\ DOMAIN r = 1..Len(q) + 1
         /\ \A i \in 1..Len(q) + 1 :
              r[i] = IF i <= k THEN q[i] ELSE IF i = k + 1 THEN m ELSE q[i - 1]
<1> DEFINE S == {i \in 1..Len(q) : Priority[q[i]] >= Priority[m]}
           k == Place(q, m)
           r == InsertSorted(q, m)
<1>1. k \in 0..Len(q)
  <2>0. Len(q) \in Nat
    BY LengthFacts
  <2>1. IsFiniteSet(1..Len(q)) /\ Cardinality(1..Len(q)) = Len(q)
    BY <2>0, FS_Interval
  <2>2. S \subseteq 1..Len(q) /\ k = Cardinality(S)
    BY DEF Place
  <2> HIDE DEF S, k
  <2>3. IsFiniteSet(S) /\ Cardinality(S) <= Cardinality(1..Len(q))
    BY <2>1, <2>2, FS_Subset
  <2>4. Cardinality(S) \in Nat
    BY <2>3, FS_CardinalityType
  <2> QED BY <2>0, <2>1, <2>2, <2>3, <2>4
<1>2. r = SubSeq(q, 1, k) \o <<m>> \o SubSeq(q, k + 1, Len(q))
  BY DEF InsertSorted, Place
<1> HIDE DEF S, k, r
<1>3. /\ Len(q) \in Nat /\ DOMAIN q = 1..Len(q) /\ DOMAIN r = 1..Len(q) + 1
      /\ \A i \in 1..Len(q) + 1 :
           r[i] = IF i <= k THEN q[i] ELSE IF i = k + 1 THEN m ELSE q[i - 1]
  <2>1. SubSeq(q, 1, k) \in Seq(Msgs) /\ Len(SubSeq(q, 1, k)) = k
        /\ \A i \in 1..k : SubSeq(q, 1, k)[i] = q[i]
    BY <1>1
  <2>2. SubSeq(q, k + 1, Len(q)) \in Seq(Msgs)
        /\ Len(SubSeq(q, k + 1, Len(q))) = Len(q) - k
        /\ \A i \in 1..Len(q) - k : SubSeq(q, k + 1, Len(q))[i] = q[k + i]
    BY <1>1
  <2>3. Len(q) \in Nat /\ DOMAIN q = 1..Len(q)
    OBVIOUS
  <2> DEFINE a == SubSeq(q, 1, k)  b == SubSeq(q, k + 1, Len(q))
  <2> HIDE DEF a, b
  <2>4. a \o <<m>> \in Seq(Msgs) /\ Len(a \o <<m>>) = k + 1
        /\ \A i \in 1..k + 1 : (a \o <<m>>)[i] = IF i <= k THEN q[i] ELSE m
    BY <1>1, <2>1 DEF a
  <2> DEFINE c == a \o <<m>>
  <2> HIDE DEF c
  <2>5. r = c \o b
    BY <1>2 DEF a, b, c
  <2>6. /\ c \in Seq(Msgs) /\ b \in Seq(Msgs) /\ Len(c) = k + 1 /\ Len(b) = Len(q) - k
        /\ \A i \in 1..k + 1 : c[i] = IF i <= k THEN q[i] ELSE m
        /\ \A i \in 1..Len(q) - k : b[i] = q[k + i]
    BY <2>2, <2>4 DEF b, c
  <2>7. r \in Seq(Msgs) /\ Len(r) = Len(c) + Len(b)
        /\ \A i \in 1..Len(c) + Len(b) :
             r[i] = IF i <= Len(c) THEN c[i] ELSE b[i - Len(c)]
    BY <2>5, <2>6, ConcatFacts
  <2>8. ASSUME NEW i \in 1..Len(q) + 1
        PROVE  r[i] = IF i <= k THEN q[i] ELSE IF i = k + 1 THEN m ELSE q[i - 1]
    <3>1. CASE i <= k + 1
      <4>1. i \in 1..k + 1 /\ i \in 1..Len(c) + Len(b) /\ i <= Len(c)
        BY <3>1, <1>1, <2>3, <2>6
      <4>2. r[i] = c[i]
        BY <4>1, <2>7
      <4>3. c[i] = IF i <= k THEN q[i] ELSE m
        BY <4>1, <2>6
      <4>4. i <= k \/ i = k + 1
        BY <4>1, <1>1
      <4> QED BY <4>2, <4>3, <4>4
    <3>2. CASE i > k + 1
      <4>1. i - (k + 1) \in 1..Len(q) - k /\ k + (i - (k + 1)) = i - 1
        BY <3>2, <1>1, <2>3
      <4>2. r[i] = b[i - (k + 1)]
        BY <3>2, <1>1, <2>3, <2>6, <2>7
      <4> QED BY <3>2, <4>1, <4>2, <1>1, <2>3, <2>6
    <3> QED BY <3>1, <3>2, <1>1
  <2>9. DOMAIN r = 1..Len(q) + 1
    BY <1>1, <2>3, <2>6, <2>7
  <2> QED BY <2>3, <2>8, <2>9
<1>4. r \in Seq(Msgs)
  BY InsertType DEF r
<1> QED BY <1>1, <1>3, <1>4 DEF k, r

LEMMA InsertSet ==
  ASSUME NEW q \in Seq(Msgs), NEW m \in Msgs
  PROVE  Elements(InsertSorted(q, m)) = Elements(q) \cup {m}
<1> DEFINE k == Place(q, m)
           r == InsertSorted(q, m)
<1>1. k \in 0..Len(q)
  BY InsertShape
<1>3. /\ Len(q) \in Nat /\ DOMAIN q = 1..Len(q) /\ DOMAIN r = 1..Len(q) + 1
      /\ \A i \in 1..Len(q) + 1 :
           r[i] = IF i <= k THEN q[i] ELSE IF i = k + 1 THEN m ELSE q[i - 1]
  BY InsertShape
<1> HIDE DEF k, r
<1>4. ASSUME NEW x PROVE x \in Elements(r) <=> x \in Elements(q) \cup {m}
  <2>1. ASSUME NEW i \in 1..Len(q) + 1
        PROVE  r[i] = m \/ \E j \in 1..Len(q) : r[i] = q[j]
    <3>1. CASE i <= k
      <4>1. i \in 1..Len(q)
        BY <3>1, <1>1, <1>3
      <4> QED BY <3>1, <4>1, <1>3
    <3>2. CASE i > k + 1
      <4>1. i - 1 \in 1..Len(q) /\ ~(i <= k) /\ i # k + 1
        BY <3>2, <1>1, <1>3
      <4> QED BY <4>1, <1>3
    <3> QED BY <3>1, <3>2, <1>1, <1>3
  <2>2. ASSUME NEW j \in 1..Len(q) PROVE \E i \in 1..Len(q) + 1 : q[j] = r[i]
    <3>1. CASE j <= k
      <4>1. j \in 1..Len(q) + 1
        BY <1>3
      <4> QED BY <3>1, <4>1, <1>3
    <3>2. CASE j > k
      <4>1. j + 1 \in 1..Len(q) + 1 /\ ~(j + 1 <= k) /\ j + 1 # k + 1 /\ (j + 1) - 1 = j
        BY <3>2, <1>1, <1>3
      <4> QED BY <4>1, <1>3
    <3> QED BY <3>1, <3>2, <1>1
  <2>3. k + 1 \in 1..Len(q) + 1 /\ r[k + 1] = m
    BY <1>1, <1>3
  <2>4. x \in Elements(r) <=> \E i \in 1..Len(q) + 1 : x = r[i]
    BY <1>3 DEF Elements
  <2>5. x \in Elements(q) <=> \E j \in 1..Len(q) : x = q[j]
    BY <1>3 DEF Elements
  <2>6. ASSUME x \in Elements(r) PROVE x \in Elements(q) \cup {m}
    BY <2>1, <2>4, <2>5, <2>6
  <2>7. ASSUME x \in Elements(q) \cup {m} PROVE x \in Elements(r)
    BY <2>2, <2>3, <2>4, <2>5, <2>7
  <2> QED BY <2>6, <2>7
<1> QED BY <1>4 DEF r

LEMMA InsertElements ==
  ASSUME NEW q \in Seq(Msgs), NEW m \in Msgs, NoTwice(q), m \notin Elements(q)
  PROVE  /\ Elements(InsertSorted(q, m)) = Elements(q) \cup {m}
         /\ NoTwice(InsertSorted(q, m))
<1> DEFINE k == Place(q, m)
           r == InsertSorted(q, m)
<1>1. k \in 0..Len(q)
  BY InsertShape
<1>3. /\ Len(q) \in Nat /\ DOMAIN q = 1..Len(q) /\ DOMAIN r = 1..Len(q) + 1
      /\ \A i \in 1..Len(q) + 1 :
           r[i] = IF i <= k THEN q[i] ELSE IF i = k + 1 THEN m ELSE q[i - 1]
  BY InsertShape
<1> HIDE DEF k, r
<1>5. NoTwice(r)
  <2>1. \A i \in 1..Len(q) : q[i] # m
    BY <1>3 DEF Elements
  <2>2. ASSUME NEW i \in 1..Len(q) + 1, NEW j \in 1..Len(q) + 1, i < j, r[i] = r[j]
        PROVE  FALSE
    <3> DEFINE old(h) == IF h <= k THEN h ELSE h - 1
    <3>1. CASE i # k + 1 /\ j # k + 1
      <4>1. /\ old(i) \in 1..Len(q) /\ old(j) \in 1..Len(q) /\ old(i) # old(j)
            /\ r[i] = q[old(i)] /\ r[j] = q[old(j)]
        BY <3>1, <2>2, <1>1, <1>3
      <4> QED BY <4>1, <2>2, <1>3 DEF NoTwice
    <3>2. CASE i = k + 1
      <4>1. r[i] = m /\ j - 1 \in 1..Len(q) /\ r[j] = q[j - 1]
        BY <3>2, <2>2, <1>1, <1>3
      <4> QED BY <4>1, <2>1, <2>2
    <3>3. CASE j = k + 1
      <4>1. r[j] = m /\ i \in 1..Len(q) /\ r[i] = q[i]
        BY <3>3, <2>2, <1>1, <1>3
      <4> QED BY <4>1, <2>1, <2>2
    <3> QED BY <3>1, <3>2, <3>3
  <2>3. \A i, j \in 1..Len(q) + 1 : i < j \/ j < i \/ i = j
    BY <1>3
  <2> QED BY <1>3, <2>2, <2>3 DEF NoTwice
<1> QED BY <1>5, InsertSet DEF r

-----------------------------------------------------------------------------
(* A step is told by where it puts which message.                          *)

\* What a step leaves as it is of message m, apart from its places.
RestStays(m) ==
  /\ mem'[m] = mem[m] /\ refs'[m] = refs[m]
  /\ m \in table' <=> m \in table
  /\ m \in freeIdle' <=> m \in freeIdle
  /\ MainRetires(m)' <=> MainRetires(m)
  /\ \A w \in Workers : /\ worker'[w].call = m <=> worker[w].call = m
                        /\ Calls(w, m)' <=> Calls(w, m)
                        /\ Retires(w, m)' <=> Retires(w, m)

PlacesStay(m) == \A t \in Tags, y \in Spots : At(m, t, y)' <=> At(m, t, y)

Leaves(m0, t, y) ==
  \A m \in Msgs, a \in Tags, b \in Spots :
    At(m, a, b)' <=> At(m, a, b) /\ ~(m = m0 /\ a = t /\ b = y)

Comes(m0, u, z) ==
  \A m \in Msgs, a \in Tags, b \in Spots :
    At(m, a, b)' <=> At(m, a, b) \/ (m = m0 /\ a = u /\ b = z)

Moves(m0, t, y, u, z) ==
  \A m \in Msgs, a \in Tags, b \in Spots :
    At(m, a, b)' <=> \/ At(m, a, b) /\ ~(m = m0 /\ a = t /\ b = y)
                     \/ m = m0 /\ a = u /\ b = z

LEMMA OwnStays ==
  ASSUME NEW m \in Msgs, Own(m), RestStays(m), PlacesStay(m)
  PROVE  Own(m)'
<1>1. Placed(m)' <=> Placed(m)
  BY DEF PlacesStay, Placed
<1>2. Called(m)' <=> Called(m)
  BY DEF RestStays, Called
<1>3. Retiring(m)' <=> Retiring(m)
  BY DEF RestStays, Retiring
<1>4. One(Placed(m))' = One(Placed(m)) /\ One(Called(m))' = One(Called(m))
  BY <1>1, <1>2 DEF One
<1> QED BY <1>3, <1>4 DEF Own, RestStays, PlacesStay

\* A message that goes from one place to another keeps its references.
LEMMA OwnMoves ==
  ASSUME NEW m \in Msgs, Own(m), RestStays(m),
         NEW t \in Tags, NEW y \in Spots, At(m, t, y),
         NEW u \in Tags, NEW z \in Spots, Moves(m, t, y, u, z)
  PROVE  Own(m)'
<1>1. \A a \in Tags, b \in Spots : At(m, a, b)' <=> a = u /\ b = z
  BY DEF Own, Moves
<1>2. Placed(m)' /\ Placed(m)
  BY <1>1 DEF Placed
<1>3. (Called(m)' <=> Called(m)) /\ (Retiring(m)' <=> Retiring(m))
  BY DEF RestStays, Called, Retiring
<1>4. One(Placed(m))' = One(Placed(m)) /\ One(Called(m))' = One(Called(m))
  BY <1>2, <1>3 DEF One
<1>5. \A a, b \in Tags : \A c, d \in Spots :
        At(m, a, c)' /\ At(m, b, d)' => a = b /\ c = d
  BY <1>1
<1> QED BY <1>3, <1>4, <1>5 DEF Own, RestStays

LEMMA StayStep ==
  ASSUME \A m \in Msgs : Own(m), \A m \in Msgs : RestStays(m),
         \A m \in Msgs : PlacesStay(m)
  PROVE  \A m \in Msgs : Own(m)'
BY OwnStays

LEMMA MoveStep ==
  ASSUME \A m \in Msgs : Own(m), \A m \in Msgs : RestStays(m),
         NEW m0 \in Msgs, NEW t \in Tags, NEW y \in Spots, At(m0, t, y),
         NEW u \in Tags, NEW z \in Spots, Moves(m0, t, y, u, z)
  PROVE  \A m \in Msgs : Own(m)'
<1>1. Own(m0)'
  BY OwnMoves
<1>2. ASSUME NEW m \in Msgs, m # m0 PROVE Own(m)'
  <2>1. PlacesStay(m)
    BY <1>2 DEF Moves, PlacesStay
  <2> QED BY <2>1, OwnStays
<1> QED BY <1>1, <1>2

LEMMA TypesKnown ==
  ASSUME TypeInv
  PROVE  /\ mainq \in Seq(Msgs) /\ replyq \in Seq(Msgs)
         /\ \A p \in Pools : poolq[p] \in Seq(Msgs)
         /\ poolq \in [Pools -> Seq(Msgs)] /\ worker \in [Workers -> WorkerState]
         /\ main \in MainState /\ refs \in [Msgs -> 0..2]
         /\ mem \in [Msgs -> {"none", "alloc", "freed"}]
         /\ InHand /\ None \notin Msgs
BY MsgAssumption DEF TypeInv, TypeOK

\* Queues that a step does not touch.
LEMMA SamePlaces ==
  ASSUME UNCHANGED <<made, mainq, replyq, poolq, worker, main>>
  PROVE  /\ \A m \in Msgs : PlacesStay(m)
         /\ Queues => Queues'
         /\ Hands => Hands'
<1>1. \A m \in Msgs : PlacesStay(m)
  BY DEF PlacesStay, At, Holds, Pushes, OnMain, Elements
<1>2. Queues => Queues'
  BY DEF Queues, NoTwice
<1>3. Hands => Hands'
  BY DEF Hands
<1> QED BY <1>1, <1>2, <1>3

LEMMA SameRest ==
  ASSUME UNCHANGED <<memVars, worker, main>>
  PROVE  \A m \in Msgs : RestStays(m)
BY DEF memVars, RestStays, MainRetires, Calls, Retires

\* A message is nowhere else.
LEMMA Alone ==
  ASSUME NEW m \in Msgs, Own(m), NEW t \in Tags, NEW y \in Spots, At(m, t, y)
  PROVE  \A u \in Tags, z \in Spots : At(m, u, z) => u = t /\ z = y
BY DEF Own

LEMMA PushPoolMem ==
  ASSUME MemInv, NEW m \in Msgs, PushPool(m)
  PROVE  Queues' /\ Hands' /\ \A n \in Msgs : Own(n)'
<1> DEFINE p == Kind[m]
<1>1. /\ p \in Pools /\ m \in made /\ made' = made \ {m}
      /\ poolq' = [poolq EXCEPT ![p] = InsertSorted(@, m)]
      /\ UNCHANGED <<memVars, mainq, replyq, main, worker>>
  BY DEF PushPool
<1>2. Own(m) /\ poolq \in [Pools -> Seq(Msgs)] /\ NoTwice(poolq[p])
  BY <1>1, TypesKnown DEF MemInv, Queues
<1>3. At(m, "made", None) /\ "made" \in Tags /\ "pool" \in Tags /\ None \in Spots /\ p \in Spots
  BY <1>1 DEF At, Tags, Spots
<1>4. m \notin Elements(poolq[p])
  <2>1. ~At(m, "pool", p)
    BY <1>2, <1>3, Alone
  <2> QED BY <1>1, <2>1 DEF At
<1>5. /\ Elements(poolq'[p]) = Elements(poolq[p]) \cup {m} /\ NoTwice(poolq'[p])
      /\ \A q \in Pools : q # p => poolq'[q] = poolq[q]
  BY <1>1, <1>2, <1>4, InsertElements
<1>6. Moves(m, "made", None, "pool", p)
  <2>1. \A n \in Msgs : n \in made' <=> n \in made /\ n # m
    BY <1>1
  <2>2. \A n \in Msgs, q \in Pools :
          n \in Elements(poolq'[q]) <=> n \in Elements(poolq[q]) \/ (n = m /\ q = p)
    BY <1>5
  <2>3. Elements(mainq') = Elements(mainq) /\ Elements(replyq') = Elements(replyq)
    BY <1>1
  <2>4. \A n \in Msgs : /\ OnMain(n)' <=> OnMain(n)
                        /\ \A w \in Workers : /\ Holds(w, n)' <=> Holds(w, n)
                                              /\ Pushes(w, n)' <=> Pushes(w, n)
    BY <1>1 DEF OnMain, Holds, Pushes
  <2> HIDE DEF p
  <2> QED BY <1>1, <2>1, <2>2, <2>3, <2>4 DEF Moves, At, Tags, Elements
<1>7. \A n \in Msgs : RestStays(n)
  BY <1>1, SameRest
<1>8. Queues'
  BY <1>1, <1>5 DEF MemInv, Queues, NoTwice
<1>9. Hands'
  BY <1>1 DEF MemInv, Hands
<1> QED BY <1>3, <1>6, <1>7, <1>8, <1>9, MoveStep DEF MemInv

LEMMA PushMainMem ==
  ASSUME MemInv, NEW m \in Msgs, PushMain(m)
  PROVE  Queues' /\ Hands' /\ \A n \in Msgs : Own(n)'
<1>1. /\ m \in made /\ made' = made \ {m} /\ mainq' = InsertSorted(mainq, m)
      /\ UNCHANGED <<memVars, poolq, replyq, main, worker>>
  BY DEF PushMain
<1>2. Own(m) /\ mainq \in Seq(Msgs) /\ NoTwice(mainq)
  BY TypesKnown DEF MemInv, Queues
<1>3. At(m, "made", None) /\ "made" \in Tags /\ "mainq" \in Tags /\ None \in Spots
  BY <1>1 DEF At, Tags, Spots
<1>4. m \notin Elements(mainq)
  <2>1. ~At(m, "mainq", None)
    BY <1>2, <1>3, Alone
  <2> QED BY <2>1 DEF At
<1>5. Elements(mainq') = Elements(mainq) \cup {m} /\ NoTwice(mainq')
  BY <1>1, <1>2, <1>4, InsertElements
<1>6. Moves(m, "made", None, "mainq", None)
  <2>1. \A n \in Msgs : n \in made' <=> n \in made /\ n # m
    BY <1>1
  <2>2. \A n \in Msgs : n \in Elements(mainq') <=> n \in Elements(mainq) \/ n = m
    BY <1>5
  <2>3. \A n \in Msgs : /\ OnMain(n)' <=> OnMain(n)
                        /\ \A w \in Workers : /\ Holds(w, n)' <=> Holds(w, n)
                                              /\ Pushes(w, n)' <=> Pushes(w, n)
    BY <1>1 DEF OnMain, Holds, Pushes
  <2> QED BY <1>1, <2>1, <2>2, <2>3 DEF Moves, At, Tags, Elements
<1>7. \A n \in Msgs : RestStays(n)
  BY <1>1, SameRest
<1>8. Queues' /\ Hands'
  BY <1>1, <1>5 DEF MemInv, Queues, Hands, NoTwice
<1> QED BY <1>3, <1>6, <1>7, <1>8, MoveStep DEF MemInv

-----------------------------------------------------------------------------
(* The threads of the pools.                                               *)

\* A thread that goes on with what it has.
LEMMA GoesOn ==
  ASSUME TypeInv, NEW w \in Workers, NEW r \in WorkerState,
         worker' = [worker EXCEPT ![w] = r], r.msg = worker[w].msg, r.call = worker[w].call,
         r.pc \in {"idle", "wake"} <=> worker[w].pc \in {"idle", "wake"},
         r.pc \in Calling <=> worker[w].pc \in Calling,
         r.pc = "call_retire" <=> worker[w].pc = "call_retire"
  PROVE  /\ \A v \in Workers, m \in Msgs : /\ worker'[v].call = m <=> worker[v].call = m
                                           /\ Holds(v, m)' <=> Holds(v, m)
                                           /\ Calls(v, m)' <=> Calls(v, m)
                                           /\ Retires(v, m)' <=> Retires(v, m)
         /\ (\A v \in Workers : worker[v].pc \in Calling \cup {"call_retire"}
                                \/ worker[v].call = None)
            => \A v \in Workers : worker'[v].pc \in Calling \cup {"call_retire"}
                                  \/ worker'[v].call = None
<1>1. worker'[w] = r /\ \A v \in Workers : v # w => worker'[v] = worker[v]
  BY TypesKnown
<1>2. ASSUME NEW v \in Workers, NEW m \in Msgs
      PROVE  /\ worker'[v].call = m <=> worker[v].call = m
             /\ Holds(v, m)' <=> Holds(v, m)
             /\ Calls(v, m)' <=> Calls(v, m)
             /\ Retires(v, m)' <=> Retires(v, m)
  <2>1. CASE v = w
    BY <1>1, <2>1 DEF Holds, Calls, Retires
  <2>2. CASE v # w
    BY <1>1, <2>2 DEF Holds, Calls, Retires
  <2> QED BY <2>1, <2>2
<1>3. ASSUME \A v \in Workers : worker[v].pc \in Calling \cup {"call_retire"}
                                \/ worker[v].call = None,
             NEW v \in Workers
      PROVE  worker'[v].pc \in Calling \cup {"call_retire"} \/ worker'[v].call = None
  <2>1. CASE v = w
    BY <1>1, <1>3, <2>1
  <2>2. CASE v # w
    BY <1>1, <1>3, <2>2
  <2> QED BY <2>1, <2>2
<1> QED BY <1>2, <1>3

LEMMA TakeMem ==
  ASSUME MemInv, NEW w \in Workers, Take(w)
  PROVE  Queues' /\ Hands' /\ \A n \in Msgs : Own(n)'
<1> DEFINE p == PoolOf[w]
           m == Head(poolq[p])
<1>1. /\ p \in Pools /\ worker[w].pc = "idle" /\ poolq[p] # <<>>
      /\ poolq' = [poolq EXCEPT ![p] = Tail(@)]
      /\ worker' = [worker EXCEPT ![w] = [@ EXCEPT !.pc = "exec", !.msg = m]]
      /\ UNCHANGED <<memVars, made, mainq, replyq, main>>
  BY MsgAssumption DEF Take
<1>2. /\ poolq \in [Pools -> Seq(Msgs)] /\ poolq[p] \in Seq(Msgs) /\ NoTwice(poolq[p])
      /\ worker \in [Workers -> WorkerState]
  BY <1>1, TypesKnown DEF MemInv, Queues
<1>3. /\ m \in Elements(poolq[p]) /\ m \in Msgs
      /\ Elements(Tail(poolq[p])) = Elements(poolq[p]) \ {m} /\ NoTwice(Tail(poolq[p]))
  BY <1>1, <1>2, TailElements
<1> HIDE DEF p, m
<1>4. poolq'[p] = Tail(poolq[p]) /\ \A q \in Pools : q # p => poolq'[q] = poolq[q]
  BY <1>1, <1>2
<1>5. /\ worker'[w].pc = "exec" /\ worker'[w].msg = m /\ worker'[w].call = worker[w].call
      /\ \A v \in Workers : v # w => worker'[v] = worker[v]
  BY <1>1, <1>2 DEF WorkerState
<1>6. At(m, "pool", p) /\ "pool" \in Tags /\ "exec" \in Tags /\ p \in Spots /\ w \in Spots
  BY <1>1, <1>3 DEF At, Tags, Spots
<1>7. Moves(m, "pool", p, "exec", w)
  <2>1. \A n \in Msgs, q \in Pools :
          n \in Elements(poolq'[q]) <=> n \in Elements(poolq[q]) /\ ~(n = m /\ q = p)
    BY <1>3, <1>4
  <2>2. \A n \in Msgs, v \in Workers : Holds(v, n)' <=> Holds(v, n) \/ (v = w /\ n = m)
    BY <1>1, <1>5 DEF Holds
  <2>3. \A n \in Msgs, v \in Workers : Pushes(v, n)' <=> Pushes(v, n)
    BY <1>1, <1>5 DEF Pushes
  <2>4. \A n \in Msgs : OnMain(n)' <=> OnMain(n)
    BY <1>1 DEF OnMain
  <2>5. made' = made /\ Elements(mainq') = Elements(mainq)
        /\ Elements(replyq') = Elements(replyq)
    BY <1>1
  <2> QED BY <1>1, <2>1, <2>2, <2>3, <2>4, <2>5 DEF Moves, At, Tags, Elements
<1>8. ASSUME NEW n \in Msgs PROVE RestStays(n)
  <2>1. worker[w].call = None
    BY <1>1 DEF MemInv, Hands, Calling
  <2>2. \A v \in Workers : /\ worker'[v].call = worker[v].call
                           /\ Calls(v, n)' <=> Calls(v, n)
                           /\ Retires(v, n)' <=> Retires(v, n)
    BY <1>1, <1>5 DEF Calls, Retires, Calling
  <2>3. MainRetires(n)' <=> MainRetires(n)
    BY <1>1 DEF MainRetires
  <2> QED BY <1>1, <2>2, <2>3 DEF RestStays, memVars
<1>9. Queues'
  BY <1>1, <1>3, <1>4 DEF MemInv, Queues, NoTwice
<1>10. Hands'
  <2>1. worker[w].call = None
    BY <1>1 DEF MemInv, Hands, Calling
  <2>2. \A v \in Workers : worker'[v].call = None \/ worker'[v].pc \in Calling \cup {"call_retire"}
    BY <1>5, <2>1 DEF MemInv, Hands
  <2> QED BY <1>1, <2>2 DEF MemInv, Hands
<1> QED BY <1>3, <1>6, <1>7, <1>8, <1>9, <1>10, MoveStep DEF MemInv

LEMMA ReplyMem ==
  ASSUME MemInv, NEW w \in Workers, Reply(w)
  PROVE  Queues' /\ Hands' /\ \A n \in Msgs : Own(n)'
<1> DEFINE m == worker[w].msg
<1>1. /\ worker[w].pc = "exec" /\ replyq' = Append(replyq, m)
      /\ worker' = [worker EXCEPT ![w].pc = "wake"]
      /\ UNCHANGED <<memVars, made, mainq, poolq, main>>
  BY DEF Reply
<1>2. /\ m \in Msgs /\ replyq \in Seq(Msgs) /\ NoTwice(replyq)
      /\ worker \in [Workers -> WorkerState]
  BY <1>1, TypesKnown DEF MemInv, Queues, InHand, WorkerOk
<1> HIDE DEF m
<1>3. At(m, "exec", w) /\ "exec" \in Tags /\ "replyq" \in Tags /\ w \in Spots /\ None \in Spots
  BY <1>1 DEF At, Tags, Spots, Holds, m
<1>4. m \notin Elements(replyq)
  <2>1. Own(m)
    BY <1>2 DEF MemInv
  <2>2. ~At(m, "replyq", None)
    BY <1>2, <1>3, <2>1, Alone
  <2> QED BY <2>2 DEF At
<1>5. Elements(replyq') = Elements(replyq) \cup {m} /\ NoTwice(replyq')
  BY <1>1, <1>2, <1>4, AppendElements
<1>6. /\ worker'[w].pc = "wake" /\ worker'[w].call = worker[w].call
      /\ \A v \in Workers : v # w => worker'[v] = worker[v]
  BY <1>1, <1>2 DEF WorkerState
<1>7. Moves(m, "exec", w, "replyq", None)
  <2>1. \A n \in Msgs : n \in Elements(replyq') <=> n \in Elements(replyq) \/ n = m
    BY <1>5
  <2>2. \A n \in Msgs, v \in Workers : Holds(v, n)' <=> Holds(v, n) /\ ~(n = m /\ v = w)
    BY <1>1, <1>6 DEF Holds, m
  <2>3. \A n \in Msgs, v \in Workers : Pushes(v, n)' <=> Pushes(v, n)
    BY <1>1, <1>6 DEF Pushes
  <2>4. \A n \in Msgs : OnMain(n)' <=> OnMain(n)
    BY <1>1 DEF OnMain
  <2> QED BY <1>1, <2>1, <2>2, <2>3, <2>4 DEF Moves, At, Tags, Elements
<1>8. ASSUME NEW n \in Msgs PROVE RestStays(n)
  <2>1. \A v \in Workers : /\ worker'[v].call = worker[v].call
                           /\ Calls(v, n)' <=> Calls(v, n)
                           /\ Retires(v, n)' <=> Retires(v, n)
    BY <1>1, <1>6 DEF Calls, Retires, Calling
  <2>2. MainRetires(n)' <=> MainRetires(n)
    BY <1>1 DEF MainRetires
  <2> QED BY <1>1, <2>1, <2>2 DEF RestStays, memVars
<1>9. Queues'
  BY <1>1, <1>5 DEF MemInv, Queues, NoTwice
<1>10. Hands'
  <2>1. worker[w].call = None
    BY <1>1 DEF MemInv, Hands, Calling
  <2>2. \A v \in Workers : worker'[v].call = None \/ worker'[v].pc \in Calling \cup {"call_retire"}
    BY <1>6, <2>1 DEF MemInv, Hands
  <2> QED BY <1>1, <2>2 DEF MemInv, Hands
<1> QED BY <1>2, <1>3, <1>7, <1>8, <1>9, <1>10, MoveStep DEF MemInv

LEMMA WakeMem ==
  ASSUME MemInv, NEW w \in Workers, Wake(w)
  PROVE  Queues' /\ Hands' /\ \A n \in Msgs : Own(n)'
<1>1. /\ worker[w].pc = "wake" /\ worker' = [worker EXCEPT ![w] = AtRest]
      /\ UNCHANGED <<memVars, made, mainq, replyq, poolq, main>>
  BY DEF Wake
<1>2. worker \in [Workers -> WorkerState]
  BY TypesKnown DEF MemInv
<1>3. worker'[w] = AtRest /\ \A v \in Workers : v # w => worker'[v] = worker[v]
  BY <1>1, <1>2
<1>4. worker[w].call = None
  BY <1>1 DEF MemInv, Hands, Calling
<1>5. \A n \in Msgs, v \in Workers : /\ worker'[v].call = worker[v].call
                                     /\ Holds(v, n)' <=> Holds(v, n)
                                     /\ Pushes(v, n)' <=> Pushes(v, n)
                                     /\ Calls(v, n)' <=> Calls(v, n)
                                     /\ Retires(v, n)' <=> Retires(v, n)
  BY <1>1, <1>3, <1>4 DEF Holds, Pushes, Calls, Retires, AtRest, Calling
<1>6. \A n \in Msgs : (OnMain(n)' <=> OnMain(n)) /\ (MainRetires(n)' <=> MainRetires(n))
  BY <1>1 DEF OnMain, MainRetires
<1>7. \A n \in Msgs : PlacesStay(n)
  BY <1>1, <1>5, <1>6 DEF PlacesStay, At, Elements
<1>8. \A n \in Msgs : RestStays(n)
  BY <1>1, <1>5, <1>6 DEF RestStays, memVars
<1>9. Queues'
  BY <1>1 DEF MemInv, Queues, NoTwice
<1>10. Hands'
  <2>1. \A v \in Workers : worker'[v].call = None \/ worker'[v].pc \in Calling \cup {"call_retire"}
    BY <1>3 DEF MemInv, Hands, AtRest
  <2> QED BY <1>1, <2>1 DEF MemInv, Hands
<1> QED BY <1>7, <1>8, <1>9, <1>10, StayStep DEF MemInv

\* The caller has pushed and tested the idle id, or its flag is set.
LEMMA CallWaitMem ==
  ASSUME MemInv, NEW w \in Workers, CallWake(w) \/ CallReturn(w)
  PROVE  Queues' /\ Hands' /\ \A n \in Msgs : Own(n)'
<1>1. PICK pc \in {"call_wait", "call_unref"} :
        /\ worker[w].pc \in {"call_wake", "call_wait"}
        /\ worker' = [worker EXCEPT ![w].pc = pc]
        /\ UNCHANGED <<memVars, made, mainq, replyq, poolq, main>>
  BY DEF CallWake, CallReturn
<1> DEFINE r == [worker[w] EXCEPT !.pc = pc]
<1>2. worker[w] \in WorkerState /\ worker \in [Workers -> WorkerState]
  BY TypesKnown DEF MemInv
<1>3. r \in WorkerState /\ r.pc = pc /\ r.msg = worker[w].msg /\ r.call = worker[w].call
  BY <1>1, <1>2 DEF WorkerState, WorkerPC
<1>4. worker' = [worker EXCEPT ![w] = r]
  BY <1>1
<1> HIDE DEF r
<1>5. \A v \in Workers, n \in Msgs : /\ worker'[v].call = n <=> worker[v].call = n
                                     /\ Holds(v, n)' <=> Holds(v, n)
                                     /\ Calls(v, n)' <=> Calls(v, n)
                                     /\ Retires(v, n)' <=> Retires(v, n)
  BY <1>1, <1>3, <1>4, GoesOn DEF MemInv, Calling
<1>6. \A v \in Workers : worker'[v].call = None \/ worker'[v].pc \in Calling \cup {"call_retire"}
  BY <1>1, <1>3, <1>4, GoesOn DEF MemInv, Hands, Calling
<1>7. \A n \in Msgs, v \in Workers : Pushes(v, n)' <=> Pushes(v, n)
  <2>1. worker'[w] = r /\ \A v \in Workers : v # w => worker'[v] = worker[v]
    BY <1>2, <1>4
  <2> QED BY <1>1, <1>3, <2>1 DEF Pushes
<1>8. \A n \in Msgs : (OnMain(n)' <=> OnMain(n)) /\ (MainRetires(n)' <=> MainRetires(n))
  BY <1>1 DEF OnMain, MainRetires
<1>9. \A n \in Msgs : PlacesStay(n)
  BY <1>1, <1>5, <1>7, <1>8 DEF PlacesStay, At, Elements
<1>10. \A n \in Msgs : RestStays(n)
  BY <1>1, <1>5, <1>8 DEF RestStays, memVars
<1>11. Queues' /\ Hands'
  BY <1>1, <1>6 DEF MemInv, Queues, NoTwice, Hands
<1> QED BY <1>9, <1>10, <1>11, StayStep DEF MemInv

LEMMA CallPushMem ==
  ASSUME MemInv, NEW w \in Workers, CallPush(w)
  PROVE  Queues' /\ Hands' /\ \A n \in Msgs : Own(n)'
<1> DEFINE m == worker[w].call
           r == [worker[w] EXCEPT !.pc = "call_wake"]
<1>1. /\ worker[w].pc = "call_push" /\ mainq' = InsertSorted(mainq, m)
      /\ worker' = [worker EXCEPT ![w] = r]
      /\ UNCHANGED <<memVars, made, replyq, poolq, main>>
  BY DEF CallPush
<1>2. /\ m \in Msgs /\ mainq \in Seq(Msgs) /\ NoTwice(mainq)
      /\ worker \in [Workers -> WorkerState]
  BY <1>1, TypesKnown DEF MemInv, Queues, InHand, WorkerOk
<1>3. r \in WorkerState /\ r.pc = "call_wake" /\ r.msg = worker[w].msg /\ r.call = m
  BY <1>2 DEF WorkerState, WorkerPC
<1> HIDE DEF m, r
<1>4. At(m, "push", w) /\ "push" \in Tags /\ "mainq" \in Tags /\ w \in Spots /\ None \in Spots
  BY <1>1 DEF At, Tags, Spots, Pushes, m
<1>5. m \notin Elements(mainq)
  <2>1. Own(m)
    BY <1>2 DEF MemInv
  <2>2. ~At(m, "mainq", None)
    BY <1>2, <1>4, <2>1, Alone
  <2> QED BY <2>2 DEF At
<1>6. Elements(mainq') = Elements(mainq) \cup {m} /\ NoTwice(mainq')
  BY <1>1, <1>2, <1>5, InsertElements
<1>7. \A v \in Workers, n \in Msgs : /\ worker'[v].call = n <=> worker[v].call = n
                                     /\ Holds(v, n)' <=> Holds(v, n)
                                     /\ Calls(v, n)' <=> Calls(v, n)
                                     /\ Retires(v, n)' <=> Retires(v, n)
  BY <1>1, <1>3, GoesOn DEF MemInv, Calling, m
<1>8. \A v \in Workers : worker'[v].call = None \/ worker'[v].pc \in Calling \cup {"call_retire"}
  BY <1>1, <1>3, GoesOn DEF MemInv, Hands, Calling, m
<1>9. \A n \in Msgs, v \in Workers : Pushes(v, n)' <=> Pushes(v, n) /\ ~(n = m /\ v = w)
  <2>1. worker'[w] = r /\ \A v \in Workers : v # w => worker'[v] = worker[v]
    BY <1>1, <1>2
  <2> QED BY <1>1, <1>3, <2>1 DEF Pushes, m
<1>10. \A n \in Msgs : (OnMain(n)' <=> OnMain(n)) /\ (MainRetires(n)' <=> MainRetires(n))
  BY <1>1 DEF OnMain, MainRetires
<1>11. Moves(m, "push", w, "mainq", None)
  <2>1. \A n \in Msgs : n \in Elements(mainq') <=> n \in Elements(mainq) \/ n = m
    BY <1>6
  <2> QED BY <1>1, <2>1, <1>7, <1>9, <1>10 DEF Moves, At, Tags, Elements
<1>12. \A n \in Msgs : RestStays(n)
  BY <1>1, <1>7, <1>10 DEF RestStays, memVars
<1>13. Queues' /\ Hands'
  BY <1>1, <1>6, <1>8 DEF MemInv, Queues, NoTwice, Hands
<1> QED BY <1>2, <1>4, <1>11, <1>12, <1>13, MoveStep DEF MemInv

\* mail_call_main gives up its reference: the last one, or one of two.
LEMMA CallUnrefMem ==
  ASSUME MemInv, NEW w \in Workers, CallUnref(w)
  PROVE  Queues' /\ Hands' /\ \A n \in Msgs : Own(n)'
<1>0. PICK m \in Msgs : m = worker[w].call
  BY TypesKnown DEF MemInv, InHand, WorkerOk, CallUnref
<1>1. /\ worker[w].pc = "call_unref" /\ refs[m] > 0 /\ refs' = [refs EXCEPT ![m] = @ - 1]
      /\ worker' = [worker EXCEPT ![w] =
                      IF refs[m] = 1 THEN [@ EXCEPT !.pc = "call_retire"]
                      ELSE [@ EXCEPT !.pc = "exec", !.call = None]]
      /\ UNCHANGED <<mem, table, freeIdle, made, mainq, replyq, poolq, main>>
  BY <1>0 DEF CallUnref
<1>2. /\ m \in Msgs /\ worker \in [Workers -> WorkerState] /\ None \notin Msgs
      /\ refs \in [Msgs -> 0..2] /\ Own(m)
  BY TypesKnown DEF MemInv
<1>3. /\ \A v \in Workers : v # w => worker'[v] = worker[v]
      /\ worker'[w].msg = worker[w].msg
      /\ refs[m] = 1 => worker'[w].pc = "call_retire" /\ worker'[w].call = m
      /\ refs[m] # 1 => worker'[w].pc = "exec" /\ worker'[w].call = None
  <2>1. worker[w] \in WorkerState
    BY <1>2
  <2>2. /\ \A v \in Workers : v # w => worker'[v] = worker[v]
        /\ worker'[w] = IF refs[m] = 1 THEN [worker[w] EXCEPT !.pc = "call_retire"]
                        ELSE [worker[w] EXCEPT !.pc = "exec", !.call = None]
    BY <1>1, <1>2
  <2> QED BY <1>0, <2>1, <2>2 DEF WorkerState
<1>4. Calls(w, m)
  BY <1>0, <1>1 DEF Calls, Calling
<1>5. \A n \in Msgs, v \in Workers : (Holds(v, n)' <=> Holds(v, n)) /\ (Pushes(v, n)' <=> Pushes(v, n))
  BY <1>1, <1>3 DEF Holds, Pushes
<1>6. \A n \in Msgs : (OnMain(n)' <=> OnMain(n)) /\ (MainRetires(n)' <=> MainRetires(n))
  BY <1>1 DEF OnMain, MainRetires
<1>7. \A n \in Msgs : PlacesStay(n)
  BY <1>1, <1>5, <1>6 DEF PlacesStay, At, Elements
<1>8. Queues' /\ Hands'
  <2>1. \A v \in Workers : worker'[v].call = None \/ worker'[v].pc \in Calling \cup {"call_retire"}
    BY <1>3 DEF MemInv, Hands
  <2> QED BY <1>1, <2>1 DEF MemInv, Queues, NoTwice, Hands
<1>9. ASSUME NEW n \in Msgs, n # m PROVE Own(n)'
  <2>1. \A v \in Workers : /\ worker'[v].call = n <=> worker[v].call = n
                           /\ Calls(v, n)' <=> Calls(v, n)
                           /\ Retires(v, n)' <=> Retires(v, n)
    BY <1>0, <1>1, <1>2, <1>3, <1>9 DEF Calls, Retires, Calling
  <2>2. RestStays(n)
    BY <1>1, <1>2, <1>6, <1>9, <2>1 DEF RestStays
  <2> QED BY <1>7, <2>2, OwnStays DEF MemInv
<1>10. Own(m)'
  <2>1. Called(m) /\ One(Called(m)) = 1
    BY <1>4 DEF Called, One
  <2>2. \A v \in Workers : v # w => worker[v].call # m /\ worker'[v].call # m
    BY <1>0, <1>2, <1>3 DEF Own
  <2>3. ~Called(m)' /\ One(Called(m))' = 0
    BY <1>2, <1>3, <2>2 DEF Called, Calls, Calling, One
  <2>4. One(Placed(m))' = One(Placed(m)) /\ One(Placed(m)) \in {0, 1}
    BY <1>7, <1>2 DEF Placed, PlacesStay, One
  <2>5. refs'[m] = refs[m] - 1 /\ refs[m] \in 1..2 /\ refs[m] = One(Placed(m)) + 1
    <3>1. refs[m] = One(Placed(m)) + 1
      BY <1>2, <2>1 DEF Own
    <3>2. refs'[m] = refs[m] - 1 /\ refs[m] \in 1..2
      BY <1>1, <1>2
    <3> QED BY <3>1, <3>2
  <2>6. refs'[m] = One(Placed(m))' + One(Called(m))'
    BY <2>3, <2>4, <2>5
  <2>7. refs[m] # 0 /\ ~Retiring(m) /\ m \notin freeIdle /\ mem[m] = "alloc"
    BY <1>2, <2>5 DEF Own
  <2>8. ~MainRetires(m)'
    BY <1>6, <1>2, <2>7 DEF Retiring
  <2>9. Retiring(m)' => refs'[m] = 0
    <3>1. CASE refs[m] = 1
      BY <3>1, <2>5
    <3>2. CASE refs[m] # 1
      BY <3>2, <1>2, <1>3, <2>2, <2>8 DEF Retiring, Retires
    <3> QED BY <3>1, <3>2
  <2>10. \A u, v \in Workers : worker'[u].call = m /\ worker'[v].call = m => u = v
    BY <2>2
  <2>11. \A t, u \in Tags : \A y, z \in Spots : At(m, t, y)' /\ At(m, u, z)' => t = u /\ y = z
    BY <1>2, <1>7 DEF Own, PlacesStay
  <2> QED BY <1>1, <2>6, <2>7, <2>8, <2>9, <2>10, <2>11 DEF Own
<1> QED BY <1>8, <1>9, <1>10

\* The last reference was the caller's: nobody else can dispose of the message.
LEMMA CallRetireMem ==
  ASSUME MemInv, NEW w \in Workers, CallRetire(w)
  PROVE  Queues' /\ Hands' /\ \A n \in Msgs : Own(n)'
<1>0. PICK m \in Msgs : m = worker[w].call
  BY TypesKnown DEF MemInv, InHand, WorkerOk, CallRetire
<1>1. /\ worker[w].pc = "call_retire"
      /\ table' = table \ {m} /\ freeIdle' = freeIdle \cup {m}
      /\ worker' = [worker EXCEPT ![w] = [@ EXCEPT !.pc = "exec", !.call = None]]
      /\ UNCHANGED <<mem, refs, made, mainq, replyq, poolq, main>>
  BY <1>0 DEF CallRetire
<1>2. /\ m \in Msgs /\ worker \in [Workers -> WorkerState] /\ None \notin Msgs
      /\ refs \in [Msgs -> 0..2] /\ Own(m)
  BY TypesKnown DEF MemInv
<1>3. /\ \A v \in Workers : v # w => worker'[v] = worker[v]
      /\ worker'[w].msg = worker[w].msg /\ worker'[w].pc = "exec" /\ worker'[w].call = None
  BY <1>1, <1>2 DEF WorkerState
<1>4. Retiring(m) /\ Retires(w, m)
  BY <1>0, <1>1 DEF Retires, Retiring
<1>5. \A n \in Msgs, v \in Workers : (Holds(v, n)' <=> Holds(v, n)) /\ (Pushes(v, n)' <=> Pushes(v, n))
  BY <1>1, <1>3 DEF Holds, Pushes
<1>6. \A n \in Msgs : (OnMain(n)' <=> OnMain(n)) /\ (MainRetires(n)' <=> MainRetires(n))
  BY <1>1 DEF OnMain, MainRetires
<1>7. \A n \in Msgs : PlacesStay(n)
  BY <1>1, <1>5, <1>6 DEF PlacesStay, At, Elements
<1>8. Queues' /\ Hands'
  <2>1. \A v \in Workers : worker'[v].call = None \/ worker'[v].pc \in Calling \cup {"call_retire"}
    BY <1>3 DEF MemInv, Hands
  <2> QED BY <1>1, <2>1 DEF MemInv, Queues, NoTwice, Hands
<1>9. ASSUME NEW n \in Msgs, n # m PROVE Own(n)'
  <2>1. \A v \in Workers : /\ worker'[v].call = n <=> worker[v].call = n
                           /\ Calls(v, n)' <=> Calls(v, n)
                           /\ Retires(v, n)' <=> Retires(v, n)
    BY <1>0, <1>1, <1>2, <1>3, <1>9 DEF Calls, Retires, Calling
  <2>2. RestStays(n)
    BY <1>1, <1>2, <1>6, <1>9, <2>1 DEF RestStays
  <2> QED BY <1>7, <2>2, OwnStays DEF MemInv
<1>10. Own(m)'
  <2>1. refs[m] = 0 /\ mem[m] = "alloc" /\ m \notin freeIdle /\ ~MainRetires(m)
    BY <1>2, <1>4 DEF Own, Retires
  <2>2. \A v \in Workers : worker'[v].call # m
    BY <1>0, <1>2, <1>3 DEF Own
  <2>3. One(Placed(m))' = One(Placed(m)) /\ One(Placed(m)) \in {0, 1} /\ One(Called(m)) \in {0, 1}
    BY <1>7, <1>2 DEF Placed, PlacesStay, One
  <2>4. One(Called(m))' = 0
    BY <2>2 DEF Called, Calls, One
  <2>5. refs'[m] = 0 /\ refs'[m] = One(Placed(m))' + One(Called(m))'
    BY <1>1, <1>2, <2>1, <2>3, <2>4 DEF Own
  <2>6. ~Retiring(m)'
    BY <1>2, <1>6, <2>1, <2>2 DEF Retiring, Retires
  <2>7. \A t, u \in Tags : \A y, z \in Spots : At(m, t, y)' /\ At(m, u, z)' => t = u /\ y = z
    BY <1>2, <1>7 DEF Own, PlacesStay
  <2>8. ~MainRetires(m)' /\ m \notin table' /\ mem'[m] = "alloc"
    BY <1>1, <1>2, <1>6, <2>1
  <2> QED BY <2>2, <2>5, <2>6, <2>7, <2>8 DEF Own
<1> QED BY <1>8, <1>9, <1>10

-----------------------------------------------------------------------------
(* New messages.                                                           *)

LEMMA NothingYet ==
  ASSUME MemInv, NEW m \in Msgs, mem[m] = "none"
  PROVE  /\ ~Placed(m) /\ ~Retiring(m) /\ m \notin freeIdle
         /\ \A w \in Workers : worker[w].call # m
<1>1. Own(m) /\ None \notin Msgs
  BY TypesKnown DEF MemInv
<1>2. refs[m] = 0 /\ ~Retiring(m) /\ m \notin freeIdle
  BY <1>1 DEF Own
<1>3. One(Placed(m)) + One(Called(m)) = 0
  BY <1>1, <1>2 DEF Own
<1>4. ~Placed(m) /\ ~Called(m)
  BY <1>3 DEF One
<1>5. \A w \in Workers : worker[w].call # m
  BY <1>1, <1>2, <1>4 DEF MemInv, Hands, Called, Calls, Retiring, Retires
<1> QED BY <1>2, <1>4, <1>5

\* mail_msg_new, with the reference of the place where the message is put and
\* that of the caller, if it is called.
LEMMA NewMem ==
  ASSUME MemInv, NEW m \in Msgs, NEW n, New(m, n),
         NEW t \in Tags, NEW y \in Spots, Comes(m, t, y),
         \A k \in Msgs \ {m} : \A w \in Workers :
           /\ worker'[w].call = k <=> worker[w].call = k
           /\ Calls(w, k)' <=> Calls(w, k)
           /\ Retires(w, k)' <=> Retires(w, k),
         \A k \in Msgs : MainRetires(k)' <=> MainRetires(k),
         \/ n = 1 /\ \A w \in Workers : worker'[w].call = worker[w].call
         \/ /\ n = 2
            /\ \E w \in Workers : /\ Calls(w, m)' /\ worker'[w].pc # "call_retire"
                                  /\ \A v \in Workers : worker'[v].call = m <=> v = w
  PROVE  \A k \in Msgs : Own(k)'
<1>1. /\ mem[m] = "none" /\ mem' = [mem EXCEPT ![m] = "alloc"]
      /\ refs' = [refs EXCEPT ![m] = n] /\ table' = table \cup {m} /\ freeIdle' = freeIdle
  BY DEF New
<1>2. /\ ~Placed(m) /\ ~Retiring(m) /\ m \notin freeIdle
      /\ \A w \in Workers : worker[w].call # m
  BY <1>1, NothingYet
<1>3. /\ mem \in [Msgs -> {"none", "alloc", "freed"}] /\ refs \in [Msgs -> 0..2]
  BY TypesKnown DEF MemInv
<1>4. ASSUME NEW k \in Msgs, k # m PROVE Own(k)'
  <2>1. PlacesStay(k)
    BY <1>4 DEF PlacesStay, Comes
  <2>2. RestStays(k)
    BY <1>1, <1>3, <1>4 DEF RestStays
  <2> QED BY <2>1, <2>2, OwnStays DEF MemInv
<1>5. Own(m)'
  <2>1. \A a \in Tags, b \in Spots : At(m, a, b)' <=> a = t /\ b = y
    BY <1>2 DEF Comes, Placed
  <2>2. Placed(m)' /\ One(Placed(m))' = 1
    BY <2>1 DEF Placed, One
  <2>3. \A a, b \in Tags : \A c, d \in Spots : At(m, a, c)' /\ At(m, b, d)' => a = b /\ c = d
    BY <2>1
  <2>0. ~MainRetires(m)'
    BY <1>2 DEF Retiring
  <2>4. /\ \A v, w \in Workers : worker'[v].call = m /\ worker'[w].call = m => v = w
        /\ One(Called(m))' = n - 1 /\ ~Retiring(m)'
    <3>1. CASE n = 1 /\ \A w \in Workers : worker'[w].call = worker[w].call
      <4>1. \A w \in Workers : worker'[w].call # m
        BY <3>1, <1>2
      <4> QED BY <3>1, <4>1, <2>0 DEF Called, Calls, Retiring, Retires, One
    <3>2. CASE n = 2
      <4>1. PICK w \in Workers : /\ Calls(w, m)' /\ worker'[w].pc # "call_retire"
                                 /\ \A v \in Workers : worker'[v].call = m <=> v = w
        BY <3>2
      <4> QED BY <3>2, <4>1, <2>0 DEF Called, Retiring, Retires, One
    <3> QED BY <3>1, <3>2
  <2>5. refs'[m] = n /\ mem'[m] = "alloc" /\ m \notin freeIdle'
    BY <1>1, <1>2, <1>3
  <2>6. n = 1 + (n - 1)
    OBVIOUS
  <2> QED BY <2>0, <2>2, <2>3, <2>4, <2>5, <2>6 DEF Own
<1> QED BY <1>4, <1>5

LEMMA CreateMem ==
  ASSUME MemInv, NEW m \in Msgs, Create(m)
  PROVE  Queues' /\ Hands' /\ \A k \in Msgs : Own(k)'
<1>1. /\ New(m, 1) /\ made' = made \cup {m}
      /\ UNCHANGED <<poolq, mainq, replyq, main, worker>>
  BY DEF Create
<1>2. "made" \in Tags /\ None \in Spots
  BY DEF Tags, Spots
<1>3. \A k \in Msgs : /\ OnMain(k)' <=> OnMain(k)
                      /\ \A w \in Workers : /\ Holds(w, k)' <=> Holds(w, k)
                                            /\ Pushes(w, k)' <=> Pushes(w, k)
                                            /\ Calls(w, k)' <=> Calls(w, k)
                                            /\ Retires(w, k)' <=> Retires(w, k)
  BY <1>1 DEF OnMain, Holds, Pushes, Calls, Retires
<1>4. Comes(m, "made", None)
  BY <1>1, <1>3 DEF Comes, At, Tags, Elements
<1>5. Queues' /\ Hands'
  BY <1>1 DEF MemInv, Queues, Hands, NoTwice
<1>6. \A k \in Msgs : MainRetires(k)' <=> MainRetires(k)
  BY <1>1 DEF MainRetires
<1>7. \A w \in Workers : worker'[w].call = worker[w].call
  BY <1>1
<1>8. \A k \in Msgs : Own(k)'
  BY <1>1, <1>2, <1>3, <1>4, <1>6, <1>7, NewMem
<1> QED BY <1>5, <1>8

\* mail_call_main makes its message in the thread that runs another.
LEMMA CallNewMem ==
  ASSUME MemInv, NEW w \in Workers, NEW m \in Msgs, CallNew(w, m)
  PROVE  Queues' /\ Hands' /\ \A k \in Msgs : Own(k)'
<1>1. /\ worker[w].pc = "exec" /\ New(m, 2)
      /\ worker' = [worker EXCEPT ![w] = [@ EXCEPT !.pc = "call_push", !.call = m]]
      /\ UNCHANGED <<made, poolq, mainq, replyq, main>>
  BY DEF CallNew
<1>2. worker \in [Workers -> WorkerState] /\ None \notin Msgs
  BY TypesKnown DEF MemInv
<1>3. /\ \A v \in Workers : v # w => worker'[v] = worker[v]
      /\ worker'[w].pc = "call_push" /\ worker'[w].call = m
      /\ worker'[w].msg = worker[w].msg
  <2>1. worker[w] \in WorkerState
    BY <1>2
  <2>2. /\ \A v \in Workers : v # w => worker'[v] = worker[v]
        /\ worker'[w] = [worker[w] EXCEPT !.pc = "call_push", !.call = m]
    BY <1>1, <1>2
  <2> QED BY <2>1, <2>2 DEF WorkerState
<1>4. worker[w].call = None
  BY <1>1 DEF MemInv, Hands, Calling
<1>5. /\ mem[m] = "none"
      /\ \A v \in Workers : worker[v].call # m
  <2>1. mem[m] = "none"
    BY <1>1 DEF New
  <2> QED BY <2>1, NothingYet
<1>6. "push" \in Tags /\ w \in Spots
  BY DEF Tags, Spots
<1>7. \A k \in Msgs : /\ OnMain(k)' <=> OnMain(k)
                      /\ MainRetires(k)' <=> MainRetires(k)
                      /\ \A v \in Workers : /\ Holds(v, k)' <=> Holds(v, k)
                                            /\ Pushes(v, k)' <=> Pushes(v, k) \/ (k = m /\ v = w)
  BY <1>1, <1>2, <1>3, <1>4 DEF OnMain, MainRetires, Holds, Pushes
<1>8. Comes(m, "push", w)
  BY <1>1, <1>7 DEF Comes, At, Tags, Elements
<1>9. \A k \in Msgs \ {m} : \A v \in Workers :
        /\ worker'[v].call = k <=> worker[v].call = k
        /\ Calls(v, k)' <=> Calls(v, k)
        /\ Retires(v, k)' <=> Retires(v, k)
  BY <1>2, <1>3, <1>4 DEF Calls, Retires
<1>10. /\ Calls(w, m)' /\ worker'[w].pc # "call_retire"
       /\ \A v \in Workers : worker'[v].call = m <=> v = w
  BY <1>3, <1>5 DEF Calls, Calling
<1>11. \A k \in Msgs : Own(k)'
  <2>1. \A k \in Msgs : MainRetires(k)' <=> MainRetires(k)
    BY <1>7
  <2>2. \E u \in Workers : /\ Calls(u, m)' /\ worker'[u].pc # "call_retire"
                           /\ \A v \in Workers : worker'[v].call = m <=> v = u
    BY <1>10
  <2> QED BY <1>1, <1>6, <1>8, <1>9, <2>1, <2>2, NewMem
<1>12. Queues'
  BY <1>1 DEF MemInv, Queues, NoTwice
<1>13. Hands'
  <2>1. \A v \in Workers : worker'[v].call = None \/ worker'[v].pc \in Calling \cup {"call_retire"}
    BY <1>3 DEF MemInv, Hands, Calling
  <2> QED BY <1>1, <2>1 DEF MemInv, Hands
<1> QED BY <1>11, <1>12, <1>13

LEMMA CallDirectMem ==
  ASSUME MemInv, NEW m \in Msgs, CallDirect(m)
  PROVE  Queues' /\ Hands' /\ \A k \in Msgs : Own(k)'
<1>1. /\ main.pc = "loop" /\ New(m, 1)
      /\ main'.pc = "direct" /\ main'.msg = m
      /\ UNCHANGED <<made, poolq, mainq, replyq, worker>>
  BY DEF CallDirect
<1>2. "main" \in Tags /\ None \in Spots
  BY DEF Tags, Spots
<1>3. \A k \in Msgs : /\ OnMain(k)' <=> OnMain(k) \/ k = m
                      /\ MainRetires(k)' <=> MainRetires(k)
                      /\ \A w \in Workers : /\ Holds(w, k)' <=> Holds(w, k)
                                            /\ Pushes(w, k)' <=> Pushes(w, k)
                                            /\ Calls(w, k)' <=> Calls(w, k)
                                            /\ Retires(w, k)' <=> Retires(w, k)
  BY <1>1 DEF OnMain, MainRetires, Holds, Pushes, Calls, Retires
<1>4. Comes(m, "main", None)
  BY <1>1, <1>3 DEF Comes, At, Tags, Elements
<1>5. Queues' /\ Hands'
  BY <1>1 DEF MemInv, Queues, Hands, NoTwice
<1>6. \A w \in Workers : worker'[w].call = worker[w].call
  BY <1>1
<1>7. \A k \in Msgs : Own(k)'
  BY <1>1, <1>2, <1>3, <1>4, <1>6, NewMem
<1> QED BY <1>5, <1>7

-----------------------------------------------------------------------------
(* The main thread.                                                        *)

\* Steps of the loop between two messages.
LEMMA LoopMem ==
  ASSUME MemInv, Dispatch \/ MainEmpty \/ ReplyEmpty
  PROVE  Queues' /\ Hands' /\ \A n \in Msgs : Own(n)'
<1>1. /\ main.pc \in {"loop", "drain_main", "drain_reply"}
      /\ main'.pc \in {"loop", "drain_main", "drain_reply"} /\ main'.msg = None
      /\ UNCHANGED <<memVars, made, mainq, replyq, poolq, worker>>
  BY DEF Dispatch, MainEmpty, ReplyEmpty, AtLoop
<1>2. \A n \in Msgs : (OnMain(n)' <=> OnMain(n)) /\ (MainRetires(n)' <=> MainRetires(n))
  BY <1>1 DEF OnMain, MainRetires
<1>3. \A n \in Msgs : PlacesStay(n)
  BY <1>1, <1>2 DEF PlacesStay, At, Elements, Holds, Pushes
<1>4. \A n \in Msgs : RestStays(n)
  BY <1>1, <1>2 DEF RestStays, memVars, Calls, Retires
<1>5. Queues' /\ Hands'
  BY <1>1 DEF MemInv, Queues, NoTwice, Hands
<1> QED BY <1>3, <1>4, <1>5, StayStep DEF MemInv

LEMMA ExecMainMem ==
  ASSUME MemInv, ExecMain
  PROVE  Queues' /\ Hands' /\ \A n \in Msgs : Own(n)'
<1>1. /\ main.pc \in {"main_exec", "direct"} /\ main' = [main EXCEPT !.pc = "unref"]
      /\ UNCHANGED <<memVars, made, mainq, replyq, poolq, worker>>
  BY DEF ExecMain
<1>2. main'.pc = "unref" /\ main'.msg = main.msg
  BY <1>1, TypesKnown DEF MemInv, MainState
<1>3. \A n \in Msgs : (OnMain(n)' <=> OnMain(n)) /\ (MainRetires(n)' <=> MainRetires(n))
  BY <1>1, <1>2 DEF OnMain, MainRetires
<1>4. \A n \in Msgs : PlacesStay(n)
  BY <1>1, <1>3 DEF PlacesStay, At, Elements, Holds, Pushes
<1>5. \A n \in Msgs : RestStays(n)
  BY <1>1, <1>3 DEF RestStays, memVars, Calls, Retires
<1>6. Queues' /\ Hands'
  BY <1>1, <1>2 DEF MemInv, Queues, NoTwice, Hands
<1> QED BY <1>4, <1>5, <1>6, StayStep DEF MemInv

LEMMA PopMainMem ==
  ASSUME MemInv, PopMain
  PROVE  Queues' /\ Hands' /\ \A n \in Msgs : Own(n)'
<1>1. /\ main.pc = "drain_main" /\ mainq # <<>> /\ mainq' = Tail(mainq)
      /\ main'.pc = "main_exec" /\ main'.msg = Head(mainq)
      /\ UNCHANGED <<memVars, made, replyq, poolq, worker>>
  BY DEF PopMain
<1>2. mainq \in Seq(Msgs) /\ NoTwice(mainq)
  BY TypesKnown DEF MemInv, Queues
<1>3. PICK m \in Msgs : m = Head(mainq)
  BY <1>1, <1>2, TailElements
<1>4. m \in Elements(mainq) /\ Elements(mainq') = Elements(mainq) \ {m} /\ NoTwice(mainq')
  BY <1>1, <1>2, <1>3, TailElements
<1>5. At(m, "mainq", None) /\ "mainq" \in Tags /\ "main" \in Tags /\ None \in Spots
  BY <1>4 DEF At, Tags, Spots
<1>6. \A n \in Msgs : (OnMain(n)' <=> OnMain(n) \/ n = m) /\ (MainRetires(n)' <=> MainRetires(n))
  BY <1>1, <1>3 DEF OnMain, MainRetires
<1>7. Moves(m, "mainq", None, "main", None)
  <2>1. \A n \in Msgs : n \in Elements(mainq') <=> n \in Elements(mainq) /\ n # m
    BY <1>4
  <2>2. \A n \in Msgs, w \in Workers : (Holds(w, n)' <=> Holds(w, n)) /\ (Pushes(w, n)' <=> Pushes(w, n))
    BY <1>1 DEF Holds, Pushes
  <2> QED BY <1>1, <1>6, <2>1, <2>2 DEF Moves, At, Tags, Elements
<1>8. \A n \in Msgs : RestStays(n)
  BY <1>1, <1>6 DEF RestStays, memVars, Calls, Retires
<1>9. Queues' /\ Hands'
  BY <1>1, <1>4 DEF MemInv, Queues, NoTwice, Hands
<1> QED BY <1>5, <1>7, <1>8, <1>9, MoveStep DEF MemInv

LEMMA PopReplyMem ==
  ASSUME MemInv, PopReply
  PROVE  Queues' /\ Hands' /\ \A n \in Msgs : Own(n)'
<1>1. /\ main.pc = "drain_reply" /\ replyq # <<>> /\ replyq' = Tail(replyq)
      /\ main'.pc = "unref" /\ main'.msg = Head(replyq)
      /\ UNCHANGED <<memVars, made, mainq, poolq, worker>>
  BY DEF PopReply
<1>2. replyq \in Seq(Msgs) /\ NoTwice(replyq)
  BY TypesKnown DEF MemInv, Queues
<1>3. PICK m \in Msgs : m = Head(replyq)
  BY <1>1, <1>2, TailElements
<1>4. m \in Elements(replyq) /\ Elements(replyq') = Elements(replyq) \ {m} /\ NoTwice(replyq')
  BY <1>1, <1>2, <1>3, TailElements
<1>5. At(m, "replyq", None) /\ "replyq" \in Tags /\ "main" \in Tags /\ None \in Spots
  BY <1>4 DEF At, Tags, Spots
<1>6. \A n \in Msgs : (OnMain(n)' <=> OnMain(n) \/ n = m) /\ (MainRetires(n)' <=> MainRetires(n))
  BY <1>1, <1>3 DEF OnMain, MainRetires
<1>7. Moves(m, "replyq", None, "main", None)
  <2>1. \A n \in Msgs : n \in Elements(replyq') <=> n \in Elements(replyq) /\ n # m
    BY <1>4
  <2>2. \A n \in Msgs, w \in Workers : (Holds(w, n)' <=> Holds(w, n)) /\ (Pushes(w, n)' <=> Pushes(w, n))
    BY <1>1 DEF Holds, Pushes
  <2> QED BY <1>1, <1>6, <2>1, <2>2 DEF Moves, At, Tags, Elements
<1>8. \A n \in Msgs : RestStays(n)
  BY <1>1, <1>6 DEF RestStays, memVars, Calls, Retires
<1>9. Queues' /\ Hands'
  BY <1>1, <1>4 DEF MemInv, Queues, NoTwice, Hands
<1> QED BY <1>5, <1>7, <1>8, <1>9, MoveStep DEF MemInv

\* mail_msg_unref in the main loop: the last reference, or the caller of
\* mail_call_main still has one.
LEMMA UnrefMem ==
  ASSUME MemInv, Unref
  PROVE  Queues' /\ Hands' /\ \A n \in Msgs : Own(n)'
<1>0. PICK m \in Msgs : m = main.msg
  BY TypesKnown DEF MemInv, InHand, Unref
<1>1. /\ main.pc = "unref" /\ refs[m] > 0 /\ refs' = [refs EXCEPT ![m] = @ - 1]
      /\ main' = IF refs[m] = 1 THEN [main EXCEPT !.pc = "retire"] ELSE Return
      /\ UNCHANGED <<mem, table, freeIdle, made, mainq, replyq, poolq, worker>>
  BY <1>0 DEF Unref
<1>2. main \in MainState /\ refs \in [Msgs -> 0..2] /\ None \notin Msgs
  BY TypesKnown DEF MemInv
<1>3. /\ refs[m] = 1 => main'.pc = "retire" /\ main'.msg = m
      /\ refs[m] # 1 => main'.pc \in {"loop", "drain_main", "drain_reply"} /\ main'.msg = None
  BY <1>0, <1>1, <1>2 DEF MainState, Return, AtLoop
<1>4. /\ At(m, "main", None) /\ "main" \in Tags /\ None \in Spots
      /\ OnMain(m) /\ ~MainRetires(m)
  BY <1>0, <1>1 DEF At, Tags, Spots, OnMain, MainRetires
<1>5. \A n \in Msgs : /\ OnMain(n)' <=> OnMain(n) /\ n # m
                      /\ MainRetires(n)' <=> refs[m] = 1 /\ n = m
  BY <1>0, <1>1, <1>2, <1>3 DEF OnMain, MainRetires
<1>6. \A n \in Msgs, w \in Workers : /\ Holds(w, n)' <=> Holds(w, n)
                                     /\ Pushes(w, n)' <=> Pushes(w, n)
                                     /\ Calls(w, n)' <=> Calls(w, n)
                                     /\ Retires(w, n)' <=> Retires(w, n)
  BY <1>1 DEF Holds, Pushes, Calls, Retires
<1>7. Leaves(m, "main", None)
  BY <1>1, <1>5, <1>6 DEF Leaves, At, Tags, Elements
<1>8. Queues' /\ Hands'
  <2>1. main'.pc \in {"loop", "drain_main", "drain_reply"} => main'.msg = None
    BY <1>3
  <2> QED BY <1>1, <2>1 DEF MemInv, Queues, NoTwice, Hands
<1>9. ASSUME NEW n \in Msgs, n # m PROVE Own(n)'
  <2>1. PlacesStay(n)
    BY <1>7, <1>9 DEF PlacesStay, Leaves
  <2>2. MainRetires(n)' <=> MainRetires(n)
    BY <1>0, <1>1, <1>5, <1>9 DEF MainRetires
  <2>3. RestStays(n)
    BY <1>1, <1>2, <1>6, <1>9, <2>2 DEF RestStays
  <2> QED BY <2>1, <2>3, OwnStays DEF MemInv
<1>10. Own(m)'
  <2>1. Own(m)
    BY DEF MemInv
  <2>2. Placed(m) /\ One(Placed(m)) = 1
    BY <1>4 DEF Placed, One
  <2>3. \A t \in Tags, y \in Spots : ~At(m, t, y)'
    BY <1>4, <1>7, <2>1, Alone DEF Leaves
  <2>4. One(Placed(m))' = 0
    BY <2>3 DEF Placed, One
  <2>5. /\ Called(m)' <=> Called(m)
        /\ One(Called(m))' = One(Called(m)) /\ One(Called(m)) \in {0, 1}
    BY <1>6 DEF Called, One
  <2>6. refs[m] = 1 + One(Called(m))
    BY <2>1, <2>2 DEF Own
  <2>7. refs'[m] = refs[m] - 1
    BY <1>1, <1>2
  <2>8. refs'[m] = One(Placed(m))' + One(Called(m))'
    BY <2>4, <2>5, <2>6, <2>7
  <2>9. refs[m] # 0 /\ ~Retiring(m) /\ m \notin freeIdle /\ mem[m] = "alloc"
    BY <2>1, <1>1 DEF Own
  <2>10. \A w \in Workers : ~Retires(w, m)
    BY <2>9 DEF Retiring
  <2>11. refs[m] = 1 => ~Called(m)
    BY <2>5, <2>6 DEF One
  <2>12. MainRetires(m)' => \A w \in Workers : worker'[w].call # m
    BY <1>1, <1>2, <1>5, <2>10, <2>11 DEF MemInv, Hands, Called, Calls, Retires
  <2>13. Retiring(m)' => refs[m] = 1
    BY <1>5, <1>6, <2>10 DEF Retiring
  <2>14. \A v, w \in Workers : worker'[v].call = m /\ worker'[w].call = m => v = w
    BY <1>1, <2>1 DEF Own
  <2> QED BY <1>1, <2>3, <2>7, <2>8, <2>9, <2>12, <2>13, <2>14 DEF Own
<1> QED BY <1>8, <1>9, <1>10

LEMMA RetireMem ==
  ASSUME MemInv, Retire
  PROVE  Queues' /\ Hands' /\ \A n \in Msgs : Own(n)'
<1>0. PICK m \in Msgs : m = main.msg
  BY TypesKnown DEF MemInv, InHand, Retire
<1>1. /\ main.pc = "retire" /\ main' = Return
      /\ table' = table \ {m} /\ freeIdle' = freeIdle \cup {m}
      /\ UNCHANGED <<mem, refs, made, mainq, replyq, poolq, worker>>
  BY <1>0 DEF Retire
<1>2. main \in MainState /\ None \notin Msgs
  BY TypesKnown DEF MemInv
<1>3. main'.pc \in {"loop", "drain_main", "drain_reply"} /\ main'.msg = None
  BY <1>1, <1>2 DEF MainState, Return, AtLoop
<1>4. MainRetires(m) /\ Retiring(m)
  BY <1>0, <1>1 DEF MainRetires, Retiring
<1>5. \A n \in Msgs : (OnMain(n)' <=> OnMain(n)) /\ ~MainRetires(n)'
  BY <1>1, <1>3 DEF OnMain, MainRetires
<1>6. \A n \in Msgs, w \in Workers : /\ Holds(w, n)' <=> Holds(w, n)
                                     /\ Pushes(w, n)' <=> Pushes(w, n)
                                     /\ Calls(w, n)' <=> Calls(w, n)
                                     /\ Retires(w, n)' <=> Retires(w, n)
  BY <1>1 DEF Holds, Pushes, Calls, Retires
<1>7. \A n \in Msgs : PlacesStay(n)
  BY <1>1, <1>5, <1>6 DEF PlacesStay, At, Elements
<1>8. Queues' /\ Hands'
  BY <1>1, <1>3 DEF MemInv, Queues, NoTwice, Hands
<1>9. ASSUME NEW n \in Msgs, n # m PROVE Own(n)'
  <2>1. MainRetires(n)' <=> MainRetires(n)
    BY <1>0, <1>5, <1>9 DEF MainRetires
  <2>2. RestStays(n)
    BY <1>1, <1>6, <1>9, <2>1 DEF RestStays
  <2> QED BY <1>7, <2>2, OwnStays DEF MemInv
<1>10. Own(m)'
  <2>1. /\ Own(m) /\ refs[m] = 0 /\ mem[m] = "alloc"
        /\ \A w \in Workers : worker[w].call # m
    BY <1>4 DEF MemInv, Own
  <2>2. One(Placed(m))' = One(Placed(m)) /\ One(Called(m))' = One(Called(m))
    BY <1>6, <1>7 DEF Placed, PlacesStay, Called, One
  <2>3. refs'[m] = 0 /\ refs'[m] = One(Placed(m))' + One(Called(m))'
    BY <1>1, <2>1, <2>2 DEF Own
  <2>4. ~Retiring(m)'
    BY <1>1, <1>5, <2>1 DEF Retiring, Retires
  <2>5. \A t, u \in Tags : \A y, z \in Spots : At(m, t, y)' /\ At(m, u, z)' => t = u /\ y = z
    BY <1>7, <2>1 DEF Own, PlacesStay
  <2>6. /\ \A v, w \in Workers : worker'[v].call = m /\ worker'[w].call = m => v = w
        /\ ~MainRetires(m)' /\ m \notin table' /\ mem'[m] = "alloc"
    BY <1>1, <1>5, <2>1
  <2> QED BY <2>3, <2>4, <2>5, <2>6 DEF Own
<1> QED BY <1>8, <1>9, <1>10

\* mail_msg_free: nothing refers to the message any more.
LEMMA FreeMsgMem ==
  ASSUME MemInv, NEW m \in Msgs, FreeMsg(m)
  PROVE  Queues' /\ Hands' /\ \A n \in Msgs : Own(n)'
<1>1. /\ m \in freeIdle /\ freeIdle' = freeIdle \ {m} /\ mem' = [mem EXCEPT ![m] = "freed"]
      /\ UNCHANGED <<refs, table, made, mainq, replyq, poolq, main, worker>>
  BY DEF FreeMsg
<1>2. mem \in [Msgs -> {"none", "alloc", "freed"}]
  BY TypesKnown DEF MemInv
<1>3. (\A n \in Msgs : PlacesStay(n)) /\ Queues' /\ Hands'
  BY <1>1, SamePlaces DEF MemInv
<1>4. \A n \in Msgs : /\ MainRetires(n)' <=> MainRetires(n)
                      /\ \A w \in Workers : /\ Calls(w, n)' <=> Calls(w, n)
                                            /\ Retires(w, n)' <=> Retires(w, n)
  BY <1>1 DEF MainRetires, Calls, Retires
<1>5. ASSUME NEW n \in Msgs, n # m PROVE Own(n)'
  <2>1. RestStays(n)
    BY <1>1, <1>2, <1>4, <1>5 DEF RestStays
  <2> QED BY <1>3, <2>1, OwnStays DEF MemInv
<1>6. Own(m)'
  <2>1. Own(m) /\ refs[m] = 0 /\ m \notin table /\ ~Retiring(m)
    BY <1>1 DEF MemInv, Own
  <2>2. One(Placed(m))' = One(Placed(m)) /\ One(Called(m))' = One(Called(m))
        /\ (Retiring(m)' <=> Retiring(m))
    BY <1>3, <1>4 DEF Placed, PlacesStay, Called, Retiring, One
  <2>3. \A t, u \in Tags : \A y, z \in Spots : At(m, t, y)' /\ At(m, u, z)' => t = u /\ y = z
    BY <1>3, <2>1 DEF Own, PlacesStay
  <2>4. /\ refs'[m] = 0 /\ m \notin table' /\ m \notin freeIdle' /\ ~Retiring(m)'
        /\ refs'[m] = One(Placed(m))' + One(Called(m))'
    BY <1>1, <2>1, <2>2 DEF Own
  <2>5. /\ \A v, w \in Workers : worker'[v].call = m /\ worker'[w].call = m => v = w
        /\ MainRetires(m)' => \A w \in Workers : worker'[w].call # m
    BY <1>1, <1>4, <2>1 DEF Own
  <2> QED BY <2>3, <2>4, <2>5 DEF Own
<1> QED BY <1>3, <1>5, <1>6

-----------------------------------------------------------------------------
LEMMA MemInit == Init => MemInv
<1> SUFFICES ASSUME Init PROVE MemInv
  OBVIOUS
<1>1. TypeInv
  BY TypeInit
<1>2. Queues /\ Hands
  BY DEF Init, Queues, Hands, NoTwice, AtLoop, AtRest
<1>3. ASSUME NEW m \in Msgs PROVE Own(m)
  <2>1. \A t \in Tags, y \in Spots : ~At(m, t, y)
    BY DEF Init, At, Elements, Holds, Pushes, OnMain, AtLoop, AtRest
  <2>2. /\ \A w \in Workers : worker[w].call = None /\ worker[w].pc = "idle"
        /\ main.pc = "loop" /\ refs[m] = 0 /\ table = {} /\ freeIdle = {}
        /\ None \notin Msgs
    BY MsgAssumption DEF Init, AtLoop, AtRest
  <2>3. ~Placed(m) /\ ~Called(m) /\ ~Retiring(m) /\ ~MainRetires(m)
    BY <2>1, <2>2 DEF Placed, Called, Calls, Calling, Retiring, Retires, MainRetires
  <2>4. refs[m] = One(Placed(m)) + One(Called(m))
    BY <2>2, <2>3 DEF One
  <2> QED BY <2>1, <2>2, <2>3, <2>4 DEF Own
<1> QED BY <1>1, <1>2, <1>3 DEF MemInv

\* Steps that leave the messages where they are.
LEMMA OtherMem ==
  ASSUME MemInv, UNCHANGED <<memVars, made, mainq, replyq, poolq, worker, main>>
  PROVE  Queues' /\ Hands' /\ \A n \in Msgs : Own(n)'
BY SamePlaces, SameRest, StayStep DEF MemInv

LEMMA MemNext == MemInv /\ [Next]_vars => MemInv'
<1> SUFFICES ASSUME MemInv, [Next]_vars PROVE MemInv'
  OBVIOUS
<1>1. TypeInv'
  BY TypeNext DEF MemInv
<1>2. ASSUME NEW m \in Msgs, Push(m) \/ CallDirect(m) \/ FreeMsg(m) \/ Submitted(m)
      PROVE  Queues' /\ Hands' /\ \A n \in Msgs : Own(n)'
  <2>1. CASE WakeMain(m) \/ Submitted(m)
    BY <2>1, OtherMem DEF WakeMain, Submitted, memVars
  <2> QED BY <1>2, <2>1, CreateMem, PushPoolMem, PushMainMem, CallDirectMem, FreeMsgMem DEF Push
<1>3. ASSUME NEW w \in Workers, WorkerStep(w) \/ \E m \in Msgs : CallNew(w, m)
      PROVE  Queues' /\ Hands' /\ \A n \in Msgs : Own(n)'
  BY <1>3, TakeMem, ReplyMem, WakeMem, CallNewMem, CallPushMem, CallWaitMem, CallUnrefMem,
     CallRetireMem DEF WorkerStep
<1>4. ASSUME MainStep
      PROVE  Queues' /\ Hands' /\ \A n \in Msgs : Own(n)'
  BY <1>4, LoopMem, PopMainMem, ExecMainMem, PopReplyMem, UnrefMem, RetireMem DEF MainStep
<1>5. ASSUME CancelAll \/ \E c \in Cancellers : Cancel(c)
      PROVE  Queues' /\ Hands' /\ \A n \in Msgs : Own(n)'
  <2>1. UNCHANGED <<memVars, made, mainq, replyq, poolq, worker, main>>
    BY <1>5 DEF CancelAll, Cancel, Lookup, Fire, Drop
  <2> QED BY <2>1, OtherMem
<1>6. ASSUME UNCHANGED vars \/ Done
      PROVE  Queues' /\ Hands' /\ \A n \in Msgs : Own(n)'
  <2>1. UNCHANGED <<memVars, made, mainq, replyq, poolq, worker, main>>
    BY <1>6 DEF vars, memVars, Done
  <2> QED BY <2>1, OtherMem
<1> QED BY <1>1, <1>2, <1>3, <1>4, <1>5, <1>6 DEF Next, MemInv

\* Whatever some thread is going to dereference is in a place, or called, or
\* on its way to mail_msg_free, and so it is still allocated.
LEMMA ReachableLives == MemInv => MessageAlive
<1> SUFFICES ASSUME MemInv, NEW m \in Reachable PROVE mem[m] = "alloc"
  BY DEF MessageAlive
<1>0. TypeInv /\ InHand /\ None \notin Msgs /\ main \in MainState
      /\ worker \in [Workers -> WorkerState]
  BY TypesKnown DEF MemInv
<1>r. \/ m \in table \/ m \in made \/ m \in freeIdle
      \/ m \in Elements(mainq) \/ m \in Elements(replyq)
      \/ \E p \in Pools : m \in Elements(poolq[p])
      \/ main.msg = m /\ m # None
      \/ \E w \in Workers : worker[w].pc \notin {"idle", "wake"} /\ worker[w].msg = m
      \/ \E w \in Workers : worker[w].call = m /\ m # None
  <2>1. \/ m \in table \/ m \in made \/ m \in freeIdle
        \/ m \in Elements(mainq) \/ m \in Elements(replyq)
        \/ m \in UNION {Elements(poolq[p]) : p \in Pools}
        \/ m \in {main.msg} /\ m # None
        \/ m \in {worker[w].msg : w \in {v \in Workers : worker[v].pc \notin {"idle", "wake"}}}
        \/ m \in {worker[w].call : w \in Workers} /\ m # None
    BY Zenon DEF Reachable
  <2>2. ASSUME m \in UNION {Elements(poolq[p]) : p \in Pools}
        PROVE  \E p \in Pools : m \in Elements(poolq[p])
    BY <2>2, Zenon
  <2>3. ASSUME m \in {worker[w].msg : w \in {v \in Workers : worker[v].pc \notin {"idle", "wake"}}}
        PROVE  \E w \in Workers : worker[w].pc \notin {"idle", "wake"} /\ worker[w].msg = m
    BY <2>3, Zenon
  <2>4. ASSUME m \in {worker[w].call : w \in Workers}
        PROVE  \E w \in Workers : worker[w].call = m
    BY <2>4, Zenon
  <2>5. m \in {main.msg} => main.msg = m
    BY Zenon
  <2> QED BY <2>1, <2>2, <2>3, <2>4, <2>5
<1>1. m \in Msgs
  <2>1. /\ Elements(mainq) \subseteq Msgs /\ Elements(replyq) \subseteq Msgs
        /\ \A p \in Pools : Elements(poolq[p]) \subseteq Msgs
    <3>1. ASSUME NEW q \in Seq(Msgs) PROVE Elements(q) \subseteq Msgs
      BY DEF Elements
    <3> QED BY <1>0, <3>1, TypesKnown
  <2>2. table \subseteq Msgs /\ made \subseteq Msgs /\ freeIdle \subseteq Msgs
    BY <1>0 DEF TypeInv, TypeOK
  <2>3. main.msg \in Msgs \cup {None}
    BY <1>0 DEF MainState
  <2>4. \A w \in Workers : /\ worker[w].pc # "idle" => worker[w].msg \in Msgs
                           /\ worker[w].call \in Msgs \cup {None}
    BY <1>0 DEF InHand, WorkerOk, WorkerState
  <2> QED BY <1>r, <2>1, <2>2, <2>3, <2>4
<1>2. Own(m)
  BY <1>1 DEF MemInv
<1>3. \/ m \in table \cup freeIdle \/ Placed(m) \/ Called(m) \/ Retiring(m)
  <2>1. ASSUME NEW t \in Tags, NEW y \in Spots, At(m, t, y) PROVE Placed(m)
    BY <2>1 DEF Placed
  <2>2. CASE m \in made \/ m \in Elements(mainq) \/ m \in Elements(replyq)
    <3>1. \E t \in Tags : At(m, t, None)
      BY <2>2 DEF At, Tags
    <3> QED BY <2>1, <3>1 DEF Spots
  <2>3. ASSUME NEW p \in Pools, m \in Elements(poolq[p]) PROVE Placed(m)
    <3>1. At(m, "pool", p) /\ "pool" \in Tags /\ p \in Spots
      BY <2>3 DEF At, Tags, Spots
    <3> QED BY <2>1, <3>1
  <2>4. ASSUME NEW w \in Workers, worker[w].pc \notin {"idle", "wake"}, worker[w].msg = m
        PROVE  Placed(m)
    <3>1. At(m, "exec", w) /\ "exec" \in Tags /\ w \in Spots
      BY <2>4 DEF At, Tags, Spots, Holds
    <3> QED BY <2>1, <3>1
  <2>5. ASSUME NEW w \in Workers, worker[w].call = m PROVE Called(m) \/ Retiring(m)
    BY <1>0, <1>1, <2>5 DEF MemInv, Hands, Called, Calls, Retiring, Retires
  <2>6. CASE main.msg = m
    <3>1. main.pc \in {"main_exec", "direct", "unref", "retire"}
      BY <1>0, <1>1, <2>6 DEF MemInv, Hands, MainState, MainPC
    <3>2. CASE main.pc = "retire"
      BY <2>6, <3>2 DEF Retiring, MainRetires
    <3>3. CASE main.pc # "retire"
      <4>1. At(m, "main", None) /\ "main" \in Tags /\ None \in Spots
        BY <2>6, <3>1, <3>3 DEF At, Tags, Spots, OnMain
      <4> QED BY <2>1, <4>1
    <3> QED BY <3>2, <3>3
  <2> QED BY <1>r, <2>2, <2>3, <2>4, <2>5, <2>6
<1>4. refs[m] = 0 => ~Placed(m) /\ ~Called(m)
  BY <1>2 DEF Own, One
<1> QED BY <1>2, <1>3, <1>4 DEF Own

(* Whoever gives up the last reference, the main loop or the thread that   *)
(* waits in mail_call_main: when mail_msg_free runs, no queue, table or    *)
(* thread has the message any more.                                        *)
THEOREM NoUseAfterFree == Spec => []MessageAlive
<1> QED BY MemInit, MemNext, ReachableLives, PTL DEF Spec

-----------------------------------------------------------------------------
(* Order and life.                                                         *)
(*                                                                         *)
(* LifeInv says where a message may be once its exec has returned, and     *)
(* once its done callback has run.  OrderInv adds, for two messages pushed *)
(* one after the other to a pool of one thread, that the first is ahead of *)
(* the second wherever both are.                                           *)

(* Order in the queues.                                                    *)

Sorted(q) == \A i, j \in DOMAIN q : i < j => Priority[q[i]] >= Priority[q[j]]

LEMMA BeforeTail ==
  ASSUME NEW q \in Seq(Msgs), q # <<>>, NoTwice(q), NEW x, NEW y, Before(q, x, y)
  PROVE  y # Head(q) /\ (x = Head(q) \/ Before(Tail(q), x, y))
<1>1. PICK i \in DOMAIN q, j \in DOMAIN q : i < j /\ q[i] = x /\ q[j] = y
  BY DEF Before
<1>2. /\ Len(q) \in Nat /\ Len(q) >= 1 /\ DOMAIN q = 1..Len(q) /\ Head(q) = q[1]
      /\ DOMAIN Tail(q) = 1..Len(q) - 1
      /\ \A h \in 1..Len(q) - 1 : Tail(q)[h] = q[h + 1]
  OBVIOUS
<1>3. y # Head(q)
  <2>1. j # 1 /\ 1 \in DOMAIN q
    BY <1>1, <1>2
  <2> QED BY <1>1, <1>2, <2>1 DEF NoTwice
<1>4. ASSUME i # 1 PROVE Before(Tail(q), x, y)
  <2>1. /\ i - 1 \in 1..Len(q) - 1 /\ j - 1 \in 1..Len(q) - 1 /\ i - 1 < j - 1
        /\ Tail(q)[i - 1] = x /\ Tail(q)[j - 1] = y
    BY <1>1, <1>2, <1>4
  <2> QED BY <1>2, <2>1 DEF Before
<1> QED BY <1>1, <1>2, <1>3, <1>4

LEMMA BeforeAppend ==
  ASSUME NEW q \in Seq(Msgs), NEW m \in Msgs
  PROVE  /\ \A x, y : Before(q, x, y) => Before(Append(q, m), x, y)
         /\ \A x \in Elements(q) : Before(Append(q, m), x, m)
         /\ \A x, y : Before(Append(q, m), x, y)
                        => Before(q, x, y) \/ (y = m /\ x \in Elements(q))
<1> DEFINE r == Append(q, m)
<1>1. /\ Len(q) \in Nat /\ DOMAIN q = 1..Len(q) /\ DOMAIN r = 1..Len(q) + 1
      /\ r[Len(q) + 1] = m /\ \A i \in 1..Len(q) : r[i] = q[i]
  OBVIOUS
<1> HIDE DEF r
<1>2. ASSUME NEW x, NEW y, Before(q, x, y) PROVE Before(r, x, y)
  BY <1>1, <1>2 DEF Before
<1>3. ASSUME NEW x \in Elements(q) PROVE Before(r, x, m)
  BY <1>1 DEF Before, Elements
<1>4. ASSUME NEW x, NEW y, Before(r, x, y)
      PROVE  Before(q, x, y) \/ (y = m /\ x \in Elements(q))
  <2>1. PICK i \in 1..Len(q) + 1, j \in 1..Len(q) + 1 : i < j /\ r[i] = x /\ r[j] = y
    BY <1>1, <1>4 DEF Before
  <2>2. i \in 1..Len(q) /\ x = q[i]
    BY <1>1, <2>1
  <2>3. CASE j = Len(q) + 1
    BY <1>1, <2>1, <2>2, <2>3 DEF Elements
  <2>4. CASE j # Len(q) + 1
    <3>1. j \in 1..Len(q) /\ y = q[j]
      BY <1>1, <2>1, <2>4
    <3> QED BY <1>1, <2>1, <2>2, <3>1 DEF Before
  <2> QED BY <2>3, <2>4
<1> QED BY <1>2, <1>3, <1>4 DEF r

\* Sorted insertion keeps the order there is, and puts a message behind those
\* of no lower priority.
LEMMA BeforeInsert ==
  ASSUME NEW q \in Seq(Msgs), NEW m \in Msgs, NEW x, NEW y, Before(q, x, y)
  PROVE  Before(InsertSorted(q, m), x, y)
<1> DEFINE k == Place(q, m)
           r == InsertSorted(q, m)
           new(h) == IF h <= k THEN h ELSE h + 1
<1>1. /\ k \in 0..Len(q) /\ Len(q) \in Nat /\ DOMAIN q = 1..Len(q)
      /\ DOMAIN r = 1..Len(q) + 1
      /\ \A i \in 1..Len(q) + 1 :
           r[i] = IF i <= k THEN q[i] ELSE IF i = k + 1 THEN m ELSE q[i - 1]
  BY InsertShape
<1> HIDE DEF k, r
<1>2. PICK i \in 1..Len(q), j \in 1..Len(q) : i < j /\ q[i] = x /\ q[j] = y
  BY <1>1 DEF Before
<1>3. ASSUME NEW h \in 1..Len(q)
      PROVE  new(h) \in 1..Len(q) + 1 /\ r[new(h)] = q[h]
  <2>1. CASE h <= k
    BY <1>1, <2>1
  <2>2. CASE h > k
    <3>1. new(h) = h + 1 /\ ~(h + 1 <= k) /\ h + 1 # k + 1 /\ (h + 1) - 1 = h
          /\ h + 1 \in 1..Len(q) + 1
      BY <1>1, <2>2
    <3>2. r[h + 1] = q[(h + 1) - 1]
      BY <1>1, <3>1
    <3> QED BY <3>1, <3>2
  <2> QED BY <1>1, <2>1, <2>2
<1>4. new(i) < new(j)
  BY <1>1, <1>2
<1> HIDE DEF new
<1>5. Before(r, x, y)
  BY <1>1, <1>2, <1>3, <1>4 DEF Before
<1> QED BY <1>5 DEF r

LEMMA SortedInsert ==
  ASSUME NEW q \in Seq(Msgs), NEW m \in Msgs, Sorted(q)
  PROVE  /\ Sorted(InsertSorted(q, m))
         /\ \A x \in Elements(q) : Priority[x] >= Priority[m]
                                     => Before(InsertSorted(q, m), x, m)
<1> DEFINE k == Place(q, m)
           r == InsertSorted(q, m)
           S == {i \in 1..Len(q) : Priority[q[i]] >= Priority[m]}
<1>1. /\ k \in 0..Len(q) /\ Len(q) \in Nat /\ DOMAIN q = 1..Len(q)
      /\ DOMAIN r = 1..Len(q) + 1 /\ r \in Seq(Msgs)
      /\ \A i \in 1..Len(q) + 1 :
           r[i] = IF i <= k THEN q[i] ELSE IF i = k + 1 THEN m ELSE q[i - 1]
  BY InsertShape
<1>2. IsFiniteSet(S) /\ k = Cardinality(S)
  <2>1. IsFiniteSet(1..Len(q)) /\ S \subseteq 1..Len(q)
    BY <1>1, FS_Interval
  <2> QED BY <2>1, FS_Subset DEF Place
<1>3. \A i \in 1..Len(q) : Priority[q[i]] \in Int
  BY MsgAssumption
<1>4. Priority[m] \in Int
  BY MsgAssumption
<1>0. \A i, j \in 1..Len(q) : i < j => Priority[q[i]] >= Priority[q[j]]
  BY <1>1 DEF Sorted
<1> HIDE DEF k, r
\* The messages of no lower priority are the first k.
<1>5. ASSUME NEW i \in S PROVE i <= k
  <2>0. i \in 1..Len(q) /\ Priority[q[i]] >= Priority[m]
    OBVIOUS
  <2>1. ASSUME NEW j \in 1..i PROVE j \in S
    <3>1. j \in 1..Len(q) /\ (j = i \/ j < i)
      BY <1>1, <2>0
    <3>2. Priority[q[j]] \in Int /\ Priority[q[i]] \in Int
      BY <1>3, <2>0, <3>1
    <3>3. Priority[q[j]] >= Priority[q[i]]
      BY <1>0, <2>0, <3>1, <3>2
    <3>4. Priority[q[j]] >= Priority[m]
      <4> HIDE DEF S
      <4> QED BY <1>4, <2>0, <3>2, <3>3
    <3> QED BY <3>1, <3>4
  <2>2. i \in Nat /\ IsFiniteSet(1..i) /\ Cardinality(1..i) = i
    BY <1>1, <2>0, FS_Interval
  <2>3. Cardinality(1..i) <= Cardinality(S)
    BY <1>2, <2>1, FS_Subset
  <2> QED BY <1>2, <2>2, <2>3
<1>6. ASSUME NEW i \in 1..Len(q), i \notin S PROVE k < i
  <2>1. ASSUME NEW j \in S PROVE j \in 1..i - 1
    <3>1. j \in 1..Len(q) /\ j # i /\ Priority[q[j]] >= Priority[m]
      BY <1>6
    <3>2. ~(Priority[q[i]] >= Priority[m])
      BY <1>6
    <3>3. Priority[q[j]] \in Int /\ Priority[q[i]] \in Int
      BY <1>3, <1>6, <3>1
    <3>4. ~(i < j)
      BY <1>0, <1>4, <1>6, <3>1, <3>2, <3>3
    <3> QED BY <1>1, <1>6, <3>1, <3>4
  <2>2. i - 1 \in Nat /\ IsFiniteSet(1..i - 1) /\ Cardinality(1..i - 1) = i - 1
    BY <1>1, FS_Interval
  <2>3. Cardinality(S) <= Cardinality(1..i - 1)
    BY <2>1, <2>2, FS_Subset
  <2> QED BY <1>1, <1>2, <2>2, <2>3
<1>7. \A i \in 1..Len(q) : i <= k <=> Priority[q[i]] >= Priority[m]
  <2>1. ASSUME NEW i \in 1..Len(q) PROVE i <= k <=> i \in S
    BY <1>1, <1>5, <1>6
  <2> QED BY <2>1
<1> HIDE DEF S
<1>8. ASSUME NEW i \in 1..Len(q) + 1, NEW j \in 1..Len(q) + 1, i < j
      PROVE  Priority[r[i]] >= Priority[r[j]]
  <2>1. CASE j <= k
    <3>1. i \in 1..Len(q) /\ j \in 1..Len(q) /\ r[i] = q[i] /\ r[j] = q[j]
      BY <1>1, <1>8, <2>1
    <3> QED BY <1>1, <1>8, <3>1 DEF Sorted
  <2>2. CASE j = k + 1
    <3>1. i \in 1..Len(q) /\ i <= k /\ r[i] = q[i] /\ r[j] = m
      BY <1>1, <1>8, <2>2
    <3> QED BY <1>7, <3>1
  <2>3. CASE j > k + 1 /\ i = k + 1
    <3>1. j - 1 \in 1..Len(q) /\ ~(j - 1 <= k) /\ r[i] = m /\ r[j] = q[j - 1]
      BY <1>1, <2>3
    <3> QED BY <1>3, <1>4, <1>7, <3>1
  <2>4. CASE j > k + 1 /\ i # k + 1
    <3> DEFINE h == IF i <= k THEN i ELSE i - 1
    <3>1. j - 1 \in 1..Len(q) /\ r[j] = q[j - 1]
      BY <1>1, <2>4
    <3>2. h \in 1..Len(q) /\ r[i] = q[h] /\ h < j - 1
      BY <1>1, <1>8, <2>4
    <3> HIDE DEF h
    <3> QED BY <1>1, <3>1, <3>2 DEF Sorted
  <2> QED BY <1>1, <2>1, <2>2, <2>3, <2>4
<1>9. Sorted(r)
  BY <1>1, <1>8 DEF Sorted
<1>10. ASSUME NEW x \in Elements(q), Priority[x] >= Priority[m] PROVE Before(r, x, m)
  <2>1. PICK i \in 1..Len(q) : q[i] = x
    BY <1>1 DEF Elements
  <2>2. i <= k
    BY <1>7, <1>10, <2>1
  <2>3. i \in DOMAIN r /\ k + 1 \in DOMAIN r /\ i < k + 1 /\ r[i] = x /\ r[k + 1] = m
    BY <1>1, <2>1, <2>2
  <2> QED BY <2>3 DEF Before
<1> QED BY <1>9, <1>10 DEF r

LEMMA SortedTail ==
  ASSUME NEW q \in Seq(Msgs), q # <<>>, Sorted(q)
  PROVE  Sorted(Tail(q))
<1>1. /\ Len(q) \in Nat /\ DOMAIN q = 1..Len(q) /\ DOMAIN Tail(q) = 1..Len(q) - 1
      /\ \A h \in 1..Len(q) - 1 : Tail(q)[h] = q[h + 1]
  OBVIOUS
<1>2. \A h \in 1..Len(q) - 1 : h + 1 \in 1..Len(q)
  BY <1>1
<1> QED BY <1>1, <1>2 DEF Sorted

-----------------------------------------------------------------------------
(* How far a message is.  Once its exec has returned it is in no queue from *)
(* which it would be run again; the reply queue has those whose done        *)
(* callback is still to run; a flag, a disposal and mail_msg_free come      *)
(* after the done callback.                                                 *)

Runs(m) == main.pc \in {"main_exec", "direct"} /\ main.msg = m

ToRun(m) ==
  \/ m \in made \/ m \in Elements(mainq)
  \/ \E p \in Pools : m \in Elements(poolq[p])
  \/ \E w \in Workers : Holds(w, m) \/ Pushes(w, m)
  \/ Runs(m)

Ended(m) ==
  \/ main.pc \in {"unref", "retire"} /\ main.msg = m
  \/ \E w \in Workers : worker[w].call = m /\ worker[w].pc \in {"call_unref", "call_retire"}
  \/ flag[m] \/ m \in freeIdle \/ mem[m] = "freed"

Stage(m) ==
  /\ m \in executed => mem[m] # "none" /\ ~ToRun(m)
  /\ m \in Elements(replyq) => m \in executed /\ m \notin Elements(completed)
  /\ m \in Elements(completed) => m \in executed
  /\ Ended(m) => m \in Elements(completed)

\* A message is where its kind belongs.
KindOk(m) ==
  /\ \A p \in Pools : m \in Elements(poolq[p]) => Kind[m] = p
  /\ m \in Elements(mainq) => Kind[m] \notin Pools
  /\ m \in Elements(replyq) => Kind[m] \in Pools
  /\ Runs(m) => Kind[m] \notin Pools
  /\ \A w \in Workers : /\ Holds(w, m) => Kind[m] = PoolOf[w]
                        /\ worker[w].call = m => Kind[m] = "call"

Idlers == \A w \in Workers : worker[w].pc = "idle" => worker[w].msg = None

LifeInv == MemInv /\ Idlers /\ \A m \in Msgs : KindOk(m) /\ Stage(m)

\* Steps after which no exec has returned and no done callback has run.
LEMMA StageStays ==
  ASSUME LifeInv, UNCHANGED <<executed, completed, replyq>>, NEW m \in Msgs,
         mem[m] # "none" => mem'[m] # "none",
         ToRun(m)' => ToRun(m) \/ mem[m] = "none",
         Ended(m)' => Ended(m)
  PROVE  Stage(m)'
<1>1. Stage(m)
  BY DEF LifeInv
<1>2. Elements(replyq') = Elements(replyq) /\ Elements(completed') = Elements(completed)
  OBVIOUS
<1> QED BY <1>1, <1>2 DEF Stage, Elements

\* What a step of one worker does to the others.
LEMMA WorkerGoes ==
  ASSUME LifeInv, NEW w \in Workers, NEW r, worker' = [worker EXCEPT ![w] = r]
  PROVE  worker'[w] = r /\ \A v \in Workers : v # w => worker'[v] = worker[v]
BY TypesKnown DEF LifeInv, MemInv

LEMMA LifeTypes ==
  ASSUME LifeInv
  PROVE  /\ mainq \in Seq(Msgs) /\ replyq \in Seq(Msgs) /\ completed \in Seq(Msgs)
         /\ poolq \in [Pools -> Seq(Msgs)] /\ worker \in [Workers -> WorkerState]
         /\ main \in MainState /\ mem \in [Msgs -> {"none", "alloc", "freed"}]
         /\ flag \in [Msgs -> BOOLEAN] /\ pushed \in Seq(Msgs)
         /\ InHand /\ None \notin Msgs
         /\ NoTwice(mainq) /\ NoTwice(replyq) /\ \A p \in Pools : NoTwice(poolq[p])
BY TypesKnown DEF LifeInv, MemInv, TypeInv, TypeOK, Queues

\* mail_msg_new in the three places that call it.
LEMMA NewLife ==
  ASSUME NEW m \in Msgs, NEW n, New(m, n), LifeInv
  PROVE  /\ mem[m] = "none" /\ freeIdle' = freeIdle
         /\ \A k \in Msgs : /\ mem[k] # "none" => mem'[k] # "none"
                            /\ mem'[k] = "freed" => mem[k] = "freed"
BY LifeTypes DEF New

LEMMA PushLife ==
  ASSUME LifeInv, NEW m \in Msgs, Push(m)
  PROVE  Idlers' /\ \A n \in Msgs : KindOk(n)' /\ Stage(n)'
<1>1. /\ UNCHANGED <<replyq, main, worker, flag, executed, completed, freeIdle>>
      /\ \A n \in Msgs : /\ mem[n] # "none" => mem'[n] # "none"
                         /\ mem'[n] = "freed" => mem[n] = "freed"
  BY NewLife DEF Push, Create, PushPool, PushMain, WakeMain, memVars, histVars
<1>2. \A n \in Msgs : n \in made' => n \in made \/ mem[n] = "none"
  BY NewLife DEF Push, Create, PushPool, PushMain, WakeMain
<1>3. \A n \in Msgs : n \in Elements(mainq') =>
        n \in Elements(mainq) \/ (n \in made /\ Kind[n] = "main_loop")
  <2>1. CASE PushMain(m)
    BY <2>1, LifeTypes, InsertSet DEF PushMain
  <2>2. CASE ~PushMain(m)
    <3>1. mainq' = mainq
      BY <2>2 DEF Push, Create, PushPool, WakeMain
    <3> QED BY <3>1
  <2> QED BY <2>1, <2>2
<1>4. \A n \in Msgs, p \in Pools : n \in Elements(poolq'[p]) =>
        n \in Elements(poolq[p]) \/ (n \in made /\ Kind[n] = p)
  <2>1. CASE PushPool(m)
    <3>1. /\ m \in made /\ Kind[m] \in Pools
          /\ poolq' = [poolq EXCEPT ![Kind[m]] = InsertSorted(@, m)]
      BY <2>1 DEF PushPool
    <3>2. Elements(poolq'[Kind[m]]) = Elements(poolq[Kind[m]]) \cup {m}
      BY <3>1, LifeTypes, InsertSet
    <3>3. \A p \in Pools : p # Kind[m] => poolq'[p] = poolq[p]
      BY <3>1, LifeTypes
    <3> QED BY <3>1, <3>2, <3>3
  <2>2. CASE ~PushPool(m)
    <3>1. poolq' = poolq
      BY <2>2 DEF Push, Create, PushMain, WakeMain
    <3> QED BY <3>1
  <2> QED BY <2>1, <2>2
<1>5. Idlers'
  BY <1>1 DEF LifeInv, Idlers
<1>6. ASSUME NEW n \in Msgs PROVE KindOk(n)' /\ Stage(n)'
  <2>1. /\ Runs(n)' <=> Runs(n)
        /\ Ended(n)' => Ended(n)
        /\ \A w \in Workers : /\ Holds(w, n)' <=> Holds(w, n)
                              /\ Pushes(w, n)' <=> Pushes(w, n)
    BY <1>1 DEF Runs, Ended, Holds, Pushes
  <2>2. ToRun(n)' => ToRun(n) \/ mem[n] = "none"
    BY <1>2, <1>3, <1>4, <2>1 DEF ToRun, Elements
  <2>3. Stage(n)'
    BY <1>1, <2>1, <2>2, StageStays
  <2>4. KindOk(n) /\ Elements(replyq') = Elements(replyq)
    BY <1>1 DEF LifeInv
  <2>5. KindOk(n)'
    BY <1>1, <1>3, <1>4, <2>1, <2>4, MsgAssumption DEF KindOk, Elements
  <2> QED BY <2>3, <2>5
<1> QED BY <1>5, <1>6

LEMMA TakeLife ==
  ASSUME LifeInv, NEW w \in Workers, Take(w)
  PROVE  Idlers' /\ \A n \in Msgs : KindOk(n)' /\ Stage(n)'
<1> DEFINE p == PoolOf[w]
           r == [worker[w] EXCEPT !.pc = "exec", !.msg = Head(poolq[p])]
<1>1. /\ p \in Pools /\ worker[w].pc = "idle" /\ poolq[p] # <<>>
      /\ poolq' = [poolq EXCEPT ![p] = Tail(@)] /\ worker' = [worker EXCEPT ![w] = r]
      /\ UNCHANGED <<mem, freeIdle, made, mainq, replyq, main, flag, executed, completed>>
  BY MsgAssumption DEF Take, memVars, histVars
<1>2. PICK m \in Msgs : m = Head(poolq[p]) /\ m \in Elements(poolq[p])
                        /\ Elements(Tail(poolq[p])) = Elements(poolq[p]) \ {m}
  BY <1>1, LifeTypes, TailElements
<1>3. /\ worker'[w].pc = "exec" /\ worker'[w].msg = m /\ worker'[w].call = worker[w].call
      /\ \A v \in Workers : v # w => worker'[v] = worker[v]
  BY <1>1, <1>2, LifeTypes DEF WorkerState
<1>4. \A q \in Pools, n \in Msgs : n \in Elements(poolq'[q]) => n \in Elements(poolq[q])
  BY <1>1, <1>2, LifeTypes
<1> HIDE DEF p, r
<1>5. Idlers'
  BY <1>3 DEF LifeInv, Idlers
<1>6. Kind[m] = p
  BY <1>1, <1>2 DEF LifeInv, KindOk
<1>7. ASSUME NEW n \in Msgs PROVE KindOk(n)' /\ Stage(n)'
  <2>1. \A v \in Workers : /\ Holds(v, n)' => Holds(v, n) \/ (n = m /\ v = w)
                           /\ Pushes(v, n)' => Pushes(v, n)
                           /\ worker'[v].call = worker[v].call
                           /\ worker'[v].pc \in {"call_unref", "call_retire"} =>
                                worker[v].pc \in {"call_unref", "call_retire"}
    BY <1>3 DEF Holds, Pushes
  <2>2. Runs(n)' <=> Runs(n)
    BY <1>1 DEF Runs
  <2>3. Ended(n)' => Ended(n)
    BY <1>1, <2>1 DEF Ended
  <2>4. ToRun(n)' => ToRun(n)
    BY <1>1, <1>2, <1>4, <2>1, <2>2 DEF ToRun, Elements
  <2>5. KindOk(n)
    BY DEF LifeInv
  <2>6. KindOk(n)'
    BY <1>1, <1>4, <1>6, <2>1, <2>2, <2>5 DEF KindOk, Elements, p
  <2> QED BY <1>1, <2>3, <2>4, <2>6, StageStays
<1> QED BY <1>5, <1>7

LEMMA Elsewhere ==
  ASSUME LifeInv, NEW m \in Msgs, NEW t \in Tags, NEW y \in Spots, At(m, t, y)
  PROVE  /\ m \in made => t = "made"
         /\ m \in Elements(mainq) => t = "mainq"
         /\ m \in Elements(replyq) => t = "replyq"
         /\ \A p \in Pools : m \in Elements(poolq[p]) => t = "pool" /\ y = p
         /\ \A w \in Workers : /\ Holds(w, m) => t = "exec" /\ y = w
                               /\ Pushes(w, m) => t = "push" /\ y = w
         /\ OnMain(m) => t = "main"
         /\ mem[m] # "none"
<1>1. Own(m)
  BY DEF LifeInv, MemInv
<1>2. Pools \subseteq Spots /\ Workers \subseteq Spots /\ None \in Spots
      /\ Tags = {"made", "mainq", "replyq", "pool", "exec", "push", "main"}
  BY DEF Spots, Tags
<1>3. \A u \in Tags, z \in Spots : At(m, u, z) => u = t /\ z = y
  BY <1>1, Alone
<1>4. mem[m] # "none"
  <2>1. Placed(m)
    BY DEF Placed
  <2> QED BY <2>1, NothingYet DEF LifeInv
<1> QED BY <1>2, <1>3, <1>4 DEF At

\* exec returns in a worker.
LEMMA ReplyLife ==
  ASSUME LifeInv, NEW w \in Workers, Reply(w)
  PROVE  Idlers' /\ \A n \in Msgs : KindOk(n)' /\ Stage(n)'
<1>1. PICK m \in Msgs : m = worker[w].msg
  BY LifeTypes DEF InHand, WorkerOk, Reply
<1> DEFINE r == [worker[w] EXCEPT !.pc = "wake"]
<1>2. /\ worker[w].pc = "exec" /\ worker' = [worker EXCEPT ![w] = r]
      /\ executed' = executed \cup {m} /\ replyq' = Append(replyq, m)
      /\ UNCHANGED <<mem, freeIdle, made, mainq, poolq, main, flag, completed>>
  BY <1>1 DEF Reply, memVars
<1>3. /\ worker'[w].pc = "wake" /\ worker'[w].msg = m /\ worker'[w].call = worker[w].call
      /\ \A v \in Workers : v # w => worker'[v] = worker[v]
  BY <1>1, <1>2, LifeTypes DEF WorkerState
<1> HIDE DEF r
<1>4. Holds(w, m) /\ At(m, "exec", w) /\ "exec" \in Tags /\ w \in Spots
  BY <1>1, <1>2 DEF Holds, At, Tags, Spots
<1>5. /\ m \notin executed /\ m \notin Elements(completed) /\ Kind[m] \in Pools
  BY <1>4, MsgAssumption DEF LifeInv, Stage, ToRun, KindOk
<1>6. Elements(replyq') = Elements(replyq) \cup {m}
  BY <1>2, LifeTypes, AppendSet
<1>7. Idlers'
  BY <1>3 DEF LifeInv, Idlers
<1>8. ASSUME NEW n \in Msgs PROVE KindOk(n)' /\ Stage(n)'
  <2>1. \A v \in Workers : /\ Holds(v, n)' <=> Holds(v, n) /\ v # w
                           /\ Pushes(v, n)' <=> Pushes(v, n)
                           /\ worker'[v].call = worker[v].call
                           /\ worker'[v].pc \in {"call_unref", "call_retire"} =>
                                worker[v].pc \in {"call_unref", "call_retire"}
    BY <1>2, <1>3 DEF Holds, Pushes
  <2>2. Runs(n)' <=> Runs(n)
    BY <1>2 DEF Runs
  <2>3. Ended(n)' => Ended(n)
    BY <1>2, <2>1 DEF Ended
  <2>4. ToRun(n)' => ToRun(n)
    BY <1>2, <2>1, <2>2 DEF ToRun, Elements
  <2>5. KindOk(n) /\ Stage(n)
    BY DEF LifeInv
  <2>6. KindOk(n)'
    BY <1>2, <1>5, <1>6, <2>1, <2>2, <2>5 DEF KindOk, Elements
  <2>7. n = m => mem[n] # "none" /\ ~ToRun(n)'
    <3>1. n = m => /\ m \notin made /\ m \notin Elements(mainq) /\ mem[m] # "none"
                   /\ \A p \in Pools : m \notin Elements(poolq[p])
                   /\ \A v \in Workers : ~Pushes(v, m) /\ (Holds(v, m) => v = w)
                   /\ ~Runs(m)
      BY <1>4, Elsewhere DEF OnMain, Runs
    <3> QED BY <1>2, <2>1, <2>2, <3>1 DEF ToRun, Elements
  <2>8. Stage(n)'
    BY <1>2, <1>5, <1>6, <2>3, <2>4, <2>5, <2>7 DEF Stage, Elements
  <2> QED BY <2>6, <2>8
<1> QED BY <1>7, <1>8

\* The steps of a worker that hold what they held and push nothing.
LEMMA WorkerStays ==
  ASSUME LifeInv, NEW w \in Workers,
         \A v \in Workers : v # w => worker'[v] = worker[v],
         UNCHANGED <<mem, made, mainq, replyq, poolq, main, flag, executed, completed>>,
         worker'[w].pc = "idle" => worker'[w].msg = None,
         \A n \in Msgs : /\ Holds(w, n)' => Holds(w, n)
                         /\ ~Pushes(w, n)'
                         /\ worker'[w].call = n => worker[w].call = n
                         /\ worker'[w].pc \in {"call_unref", "call_retire"}
                              /\ worker'[w].call = n => Ended(n)
                         /\ n \in freeIdle' => Ended(n)
  PROVE  Idlers' /\ \A n \in Msgs : KindOk(n)' /\ Stage(n)'
<1>1. Idlers'
  BY DEF LifeInv, Idlers
<1>2. ASSUME NEW n \in Msgs PROVE KindOk(n)' /\ Stage(n)'
  <2>1. \A v \in Workers : /\ Holds(v, n)' => Holds(v, n)
                           /\ Pushes(v, n)' => Pushes(v, n)
                           /\ worker'[v].call = n => worker[v].call = n
    BY DEF Holds, Pushes
  <2>2. Runs(n)' <=> Runs(n)
    BY DEF Runs
  <2>3. Ended(n)' => Ended(n)
    BY DEF Ended
  <2>4. ToRun(n)' => ToRun(n)
    BY <2>1, <2>2 DEF ToRun, Elements
  <2>5. KindOk(n)
    BY DEF LifeInv
  <2>6. KindOk(n)'
    BY <2>1, <2>2, <2>5 DEF KindOk, Elements
  <2> QED BY <2>3, <2>4, <2>6, StageStays
<1> QED BY <1>1, <1>2

LEMMA CallLife ==
  ASSUME LifeInv, NEW w \in Workers,
         Wake(w) \/ CallWake(w) \/ CallReturn(w) \/ CallUnref(w) \/ CallRetire(w)
  PROVE  Idlers' /\ \A n \in Msgs : KindOk(n)' /\ Stage(n)'
<1>0. worker[w] \in WorkerState /\ None \notin Msgs
  BY LifeTypes
<1>1. CASE Wake(w)
  <2>1. /\ UNCHANGED <<mem, freeIdle, made, mainq, replyq, poolq, main, flag, executed, completed>>
        /\ worker' = [worker EXCEPT ![w] = AtRest]
    BY <1>1 DEF Wake, memVars, histVars
  <2>2. worker'[w] = AtRest /\ \A v \in Workers : v # w => worker'[v] = worker[v]
    BY <2>1, WorkerGoes
  <2>3. \A n \in Msgs : ~Holds(w, n)' /\ ~Pushes(w, n)' /\ worker'[w].call # n
    BY <1>0, <2>2 DEF Holds, Pushes, AtRest
  <2>4. worker'[w].pc = "idle" /\ worker'[w].msg = None
    BY <2>2 DEF AtRest
  <2>5. \A n \in Msgs : n \in freeIdle' => Ended(n)
    BY <2>1 DEF Ended
  <2> QED BY <2>1, <2>2, <2>3, <2>4, <2>5, WorkerStays
<1>2. CASE CallWake(w) \/ CallReturn(w)
  <2>1. PICK pc \in {"call_wait", "call_unref"} :
          /\ worker[w].pc \in {"call_wake", "call_wait"}
          /\ pc = "call_unref" => flag[worker[w].call]
          /\ worker' = [worker EXCEPT ![w] = [worker[w] EXCEPT !.pc = pc]]
          /\ UNCHANGED <<mem, freeIdle, made, mainq, replyq, poolq, main, flag, executed, completed>>
    BY <1>2 DEF CallWake, CallReturn, memVars, histVars
  <2>2. /\ worker'[w].pc = pc /\ worker'[w].msg = worker[w].msg
        /\ worker'[w].call = worker[w].call
        /\ \A v \in Workers : v # w => worker'[v] = worker[v]
    BY <1>0, <2>1, LifeTypes DEF WorkerState
  <2>3. \A n \in Msgs : (Holds(w, n)' => Holds(w, n)) /\ ~Pushes(w, n)'
    BY <2>1, <2>2 DEF Holds, Pushes
  <2>4. \A n \in Msgs : n \in freeIdle' \/ flag[n] => Ended(n)
    BY <2>1 DEF Ended
  <2>5. \A n \in Msgs : worker'[w].pc \in {"call_unref", "call_retire"}
                          /\ worker'[w].call = n => Ended(n)
    BY <2>1, <2>2, <2>4
  <2> QED BY <2>1, <2>2, <2>3, <2>4, <2>5, WorkerStays
<1>3. CASE CallUnref(w) \/ CallRetire(w)
  <2>1. PICK m \in Msgs : m = worker[w].call
    BY <1>3, LifeTypes DEF InHand, WorkerOk, CallUnref, CallRetire
  <2>2. PICK r \in {[worker[w] EXCEPT !.pc = "call_retire"],
                    [worker[w] EXCEPT !.pc = "exec", !.call = None]} :
          /\ worker[w].pc \in {"call_unref", "call_retire"}
          /\ worker' = [worker EXCEPT ![w] = r]
          /\ freeIdle' \subseteq freeIdle \cup {m}
          /\ UNCHANGED <<mem, made, mainq, replyq, poolq, main, flag, executed, completed>>
    BY <1>3, <2>1 DEF CallUnref, CallRetire, histVars
  <2>3. /\ worker'[w].msg = worker[w].msg /\ worker'[w].pc \in {"call_retire", "exec"}
        /\ worker'[w].call = worker[w].call \/ worker'[w].call = None
        /\ \A v \in Workers : v # w => worker'[v] = worker[v]
    <3>1. worker'[w] = r /\ \A v \in Workers : v # w => worker'[v] = worker[v]
      BY ONLY <2>2, LifeInv, w \in Workers, WorkerGoes
    <3>2. worker[w] \in WorkerState
      BY LifeTypes
    <3>3. CASE r = [worker[w] EXCEPT !.pc = "call_retire"]
      <4>1. r.msg = worker[w].msg /\ r.pc = "call_retire" /\ r.call = worker[w].call
        BY ONLY <3>2, <3>3 DEF WorkerState
      <4> QED BY ONLY <3>1, <4>1
    <3>4. CASE r = [worker[w] EXCEPT !.pc = "exec", !.call = None]
      <4>1. r.msg = worker[w].msg /\ r.pc = "exec" /\ r.call = None
        BY ONLY <3>2, <3>4 DEF WorkerState
      <4> QED BY ONLY <3>1, <4>1
    <3> QED BY ONLY <2>2, <3>3, <3>4
  <2>4. \A n \in Msgs : (Holds(w, n)' => Holds(w, n)) /\ ~Pushes(w, n)'
    BY <2>2, <2>3 DEF Holds, Pushes
  <2>5. Ended(m)
    BY <2>1, <2>2 DEF Ended
  <2>6. \A n \in Msgs : n \in freeIdle' => Ended(n)
    BY <2>2, <2>5 DEF Ended
  <2>7. \A n \in Msgs : worker'[w].call = n => worker[w].call = n /\ Ended(n)
    BY <1>0, <2>1, <2>3, <2>5
  <2> QED BY <2>2, <2>3, <2>4, <2>6, <2>7, WorkerStays
<1> QED BY <1>1, <1>2, <1>3

\* mail_call_main makes a message and pushes it.
LEMMA CallPushLife ==
  ASSUME LifeInv, NEW w \in Workers, CallPush(w) \/ \E m \in Msgs : CallNew(w, m)
  PROVE  Idlers' /\ \A n \in Msgs : KindOk(n)' /\ Stage(n)'
<1>1. PICK m \in Msgs : \/ CallPush(w) /\ m = worker[w].call
                        \/ CallNew(w, m)
  BY LifeTypes DEF InHand, WorkerOk, CallPush
<1>2. Kind[m] = "call" /\ (CallNew(w, m) => mem[m] = "none")
  <2>1. CASE CallPush(w) /\ m = worker[w].call /\ ~CallNew(w, m)
    BY <2>1 DEF LifeInv, KindOk
  <2>2. CASE CallNew(w, m)
    BY <2>2 DEF CallNew, New
  <2> QED BY <1>1, <2>1, <2>2
<1>3. PICK pc \in {"call_push", "call_wake"} :
        /\ worker[w].pc \in {"exec", "call_push"}
        /\ worker' = [worker EXCEPT ![w] = [worker[w] EXCEPT !.pc = pc, !.call = m]]
        /\ UNCHANGED <<made, poolq, replyq, main, flag, executed, completed, freeIdle>>
        /\ \A n \in Msgs : /\ mem[n] # "none" => mem'[n] # "none"
                           /\ mem'[n] = "freed" => mem[n] = "freed"
        /\ \/ mainq' = mainq /\ CallNew(w, m)
           \/ mainq' = InsertSorted(mainq, m) /\ Pushes(w, m)
  <2>1. CASE CallPush(w) /\ m = worker[w].call
    <3>1. worker[w] \in WorkerState
      BY LifeTypes
    <3>2. [worker[w] EXCEPT !.pc = "call_wake"] = [worker[w] EXCEPT !.pc = "call_wake", !.call = m]
      BY <2>1, <3>1 DEF WorkerState
    <3> QED BY <2>1, <3>2 DEF CallPush, Pushes, memVars, histVars
  <2>2. CASE CallNew(w, m)
    <3>1. New(m, 2)
      BY <2>2 DEF CallNew
    <3>2. freeIdle' = freeIdle
          /\ \A n \in Msgs : /\ mem[n] # "none" => mem'[n] # "none"
                             /\ mem'[n] = "freed" => mem[n] = "freed"
      BY <3>1, NewLife
    <3> QED BY <2>2, <3>2 DEF CallNew, histVars
  <2> QED BY <1>1, <2>1, <2>2
<1>4. /\ worker'[w].pc = pc /\ worker'[w].msg = worker[w].msg /\ worker'[w].call = m
      /\ \A v \in Workers : v # w => worker'[v] = worker[v]
  BY <1>3, WorkerGoes, LifeTypes DEF WorkerState
<1>5. \A n \in Msgs : n \in Elements(mainq') => n \in Elements(mainq) \/ (n = m /\ Pushes(w, m))
  BY <1>3, LifeTypes, InsertSet
<1>6. Idlers'
  BY <1>3, <1>4 DEF LifeInv, Idlers
<1>7. ASSUME NEW n \in Msgs PROVE KindOk(n)' /\ Stage(n)'
  <2>1. \A v \in Workers : /\ Holds(v, n)' => Holds(v, n)
                           /\ Pushes(v, n)' => Pushes(v, n) \/ (n = m /\ v = w)
                           /\ worker'[v].call = n => worker[v].call = n \/ n = m
                           /\ worker'[v].pc \in {"call_unref", "call_retire"}
                                => v # w
    BY <1>3, <1>4 DEF Holds, Pushes
  <2>2. Runs(n)' <=> Runs(n)
    BY <1>3 DEF Runs
  <2>3. Ended(n)' => Ended(n)
    BY <1>3, <1>4, <2>1 DEF Ended
  <2>0. n = m => Pushes(w, m) \/ mem[m] = "none"
    BY <1>2, <1>3
  <2>4. ToRun(n)' => ToRun(n) \/ mem[n] = "none"
    BY <2>0, <1>3, <1>5, <2>1, <2>2 DEF ToRun, Elements
  <2>5. KindOk(n)
    BY DEF LifeInv
  <2>6. KindOk(n)'
    BY <1>2, <1>3, <1>5, <2>1, <2>2, <2>5, MsgAssumption DEF KindOk, Elements
  <2> QED BY <1>3, <2>3, <2>4, <2>6, StageStays
<1> QED BY <1>6, <1>7

-----------------------------------------------------------------------------
(* The main thread.                                                        *)

\* Steps of the main thread that neither take nor complete a message.
LEMMA LoopLife ==
  ASSUME LifeInv, Dispatch \/ MainEmpty \/ ReplyEmpty \/ Unref \/ Retire
  PROVE  Idlers' /\ \A n \in Msgs : KindOk(n)' /\ Stage(n)'
<1>1. /\ UNCHANGED <<mem, made, mainq, replyq, poolq, worker, flag, executed, completed>>
      /\ main'.pc \notin {"main_exec", "direct"}
      /\ main'.pc \in {"unref", "retire"} =>
           main.pc \in {"unref", "retire"} /\ main'.msg = main.msg
      /\ \A n \in freeIdle' : n \in freeIdle \/ (main.pc = "retire" /\ n = main.msg)
  <2>1. CASE Dispatch \/ MainEmpty \/ ReplyEmpty
    BY <2>1 DEF Dispatch, MainEmpty, ReplyEmpty, AtLoop, memVars, histVars
  <2>2. CASE Unref
    BY <2>2, LifeTypes DEF Unref, Return, AtLoop, MainState, memVars, histVars
  <2>3. CASE Retire
    BY <2>3, LifeTypes DEF Retire, Return, AtLoop, MainState, histVars
  <2> QED BY <2>1, <2>2, <2>3
<1>2. Idlers'
  BY <1>1 DEF LifeInv, Idlers
<1>3. ASSUME NEW n \in Msgs PROVE KindOk(n)' /\ Stage(n)'
  <2>1. ~Runs(n)' /\ \A w \in Workers : /\ Holds(w, n)' <=> Holds(w, n)
                                        /\ Pushes(w, n)' <=> Pushes(w, n)
    BY <1>1 DEF Runs, Holds, Pushes
  <2>2. Ended(n)' => Ended(n)
    BY <1>1 DEF Ended
  <2>3. ToRun(n)' => ToRun(n)
    BY <1>1, <2>1 DEF ToRun, Elements
  <2>4. KindOk(n)
    BY DEF LifeInv
  <2>5. KindOk(n)'
    BY <1>1, <2>1, <2>4 DEF KindOk, Elements
  <2> QED BY <1>1, <2>2, <2>3, <2>5, StageStays
<1> QED BY <1>2, <1>3

\* The main thread starts with a message of main_loop_queue or a call of its own.
LEMMA StartLife ==
  ASSUME LifeInv, PopMain \/ \E m \in Msgs : CallDirect(m)
  PROVE  Idlers' /\ \A n \in Msgs : KindOk(n)' /\ Stage(n)'
<1>1. PICK m \in Msgs :
        /\ UNCHANGED <<made, replyq, poolq, worker, flag, freeIdle, executed, completed>>
        /\ main'.pc \in {"main_exec", "direct"} /\ main'.msg = m
        /\ mem[m] = "none" \/ m \in Elements(mainq)
        /\ Kind[m] \notin Pools
        /\ \A n \in Msgs : /\ mem[n] # "none" => mem'[n] # "none"
                           /\ mem'[n] = "freed" => mem[n] = "freed"
                           /\ n \in Elements(mainq') => n \in Elements(mainq)
  <2>1. CASE PopMain
    <3>1. PICK m \in Msgs : m = Head(mainq) /\ m \in Elements(mainq)
                            /\ Elements(Tail(mainq)) = Elements(mainq) \ {m}
      BY <2>1, LifeTypes, TailElements DEF PopMain
    <3>2. Kind[m] \notin Pools
      BY <3>1 DEF LifeInv, KindOk
    <3> QED BY <2>1, <3>1, <3>2 DEF PopMain, memVars, histVars
  <2>2. CASE \E m \in Msgs : CallDirect(m)
    <3>1. PICK m \in Msgs : CallDirect(m)
      BY <2>2
    <3>2. New(m, 1) /\ Kind[m] \notin Pools
      BY <3>1, MsgAssumption DEF CallDirect
    <3>3. /\ mem[m] = "none" /\ freeIdle' = freeIdle
          /\ \A n \in Msgs : /\ mem[n] # "none" => mem'[n] # "none"
                             /\ mem'[n] = "freed" => mem[n] = "freed"
      BY <3>2, NewLife
    <3> QED BY <3>1, <3>2, <3>3 DEF CallDirect, histVars
  <2> QED BY <2>1, <2>2
<1>2. Idlers'
  BY <1>1 DEF LifeInv, Idlers
<1>3. ASSUME NEW n \in Msgs PROVE KindOk(n)' /\ Stage(n)'
  <2>1. (Runs(n)' => n = m) /\ \A w \in Workers : /\ Holds(w, n)' <=> Holds(w, n)
                                                  /\ Pushes(w, n)' <=> Pushes(w, n)
    BY <1>1 DEF Runs, Holds, Pushes
  <2>2. Ended(n)' => Ended(n)
    BY <1>1 DEF Ended
  <2>3. ToRun(n)' => ToRun(n) \/ mem[n] = "none"
    BY <1>1, <2>1 DEF ToRun, Elements
  <2>4. KindOk(n)
    BY DEF LifeInv
  <2>5. KindOk(n)'
    BY <1>1, <2>1, <2>4 DEF KindOk, Elements
  <2> QED BY <1>1, <2>2, <2>3, <2>5, StageStays
<1> QED BY <1>2, <1>3

\* exec and done in the main loop.
LEMMA ExecMainLife ==
  ASSUME LifeInv, ExecMain
  PROVE  Idlers' /\ \A n \in Msgs : KindOk(n)' /\ Stage(n)'
<1>1. PICK m \in Msgs : m = main.msg
  BY LifeTypes DEF InHand, ExecMain
<1>2. /\ main.pc \in {"main_exec", "direct"} /\ main'.pc = "unref" /\ main'.msg = m
      /\ executed' = executed \cup {m} /\ completed' = Append(completed, m)
      /\ \A n \in Msgs : n # m => flag'[n] = flag[n]
      /\ UNCHANGED <<mem, freeIdle, made, mainq, poolq, replyq, worker>>
  BY <1>1, LifeTypes DEF ExecMain, MainState, memVars
<1>3. Runs(m) /\ At(m, "main", None) /\ "main" \in Tags /\ None \in Spots
  BY <1>1, <1>2 DEF Runs, OnMain, At, Tags, Spots
<1>4. Elements(completed') = Elements(completed) \cup {m}
  BY <1>2, LifeTypes, AppendSet
<1>5. Idlers'
  BY <1>2 DEF LifeInv, Idlers
<1>6. /\ m \notin made /\ m \notin Elements(mainq) /\ mem[m] # "none"
      /\ \A p \in Pools : m \notin Elements(poolq[p])
      /\ \A v \in Workers : ~Pushes(v, m) /\ ~Holds(v, m)
      /\ m \notin Elements(replyq)
  BY <1>3, Elsewhere
<1>7. ASSUME NEW n \in Msgs PROVE KindOk(n)' /\ Stage(n)'
  <2>1. ~Runs(n)' /\ \A w \in Workers : /\ Holds(w, n)' <=> Holds(w, n)
                                        /\ Pushes(w, n)' <=> Pushes(w, n)
    BY <1>2 DEF Runs, Holds, Pushes
  <2>2. Ended(n)' => Ended(n) \/ n = m
    BY <1>2 DEF Ended
  <2>3. ToRun(n)' => ToRun(n)
    BY <1>2, <2>1 DEF ToRun, Elements
  <2>4. KindOk(n) /\ Stage(n)
    BY DEF LifeInv
  <2>5. KindOk(n)'
    BY <1>2, <2>1, <2>4 DEF KindOk, Elements
  <2>6. n = m => ~ToRun(n)' /\ n \notin Elements(replyq')
    BY <1>2, <1>6, <2>1 DEF ToRun, Elements
  <2>7. Stage(n)'
    BY <1>2, <1>4, <1>6, <2>2, <2>3, <2>4, <2>6 DEF Stage, Elements
  <2> QED BY <2>5, <2>7
<1> QED BY <1>5, <1>7

\* done of a message a worker has run.
LEMMA PopReplyLife ==
  ASSUME LifeInv, PopReply
  PROVE  Idlers' /\ \A n \in Msgs : KindOk(n)' /\ Stage(n)'
<1>1. PICK m \in Msgs : m = Head(replyq) /\ m \in Elements(replyq)
                        /\ Elements(Tail(replyq)) = Elements(replyq) \ {m}
  BY LifeTypes, TailElements DEF PopReply
<1>2. /\ main'.pc = "unref" /\ main'.msg = m
      /\ replyq' = Tail(replyq) /\ completed' = Append(completed, m)
      /\ UNCHANGED <<mem, freeIdle, made, mainq, poolq, worker, flag, executed>>
  BY <1>1 DEF PopReply, memVars
<1>3. Elements(completed') = Elements(completed) \cup {m}
  BY <1>2, LifeTypes, AppendSet
<1>4. Idlers'
  BY <1>2 DEF LifeInv, Idlers
<1>5. ASSUME NEW n \in Msgs PROVE KindOk(n)' /\ Stage(n)'
  <2>1. ~Runs(n)' /\ \A w \in Workers : /\ Holds(w, n)' <=> Holds(w, n)
                                        /\ Pushes(w, n)' <=> Pushes(w, n)
    BY <1>2 DEF Runs, Holds, Pushes
  <2>2. Ended(n)' => Ended(n) \/ n = m
    BY <1>2 DEF Ended
  <2>3. ToRun(n)' => ToRun(n)
    BY <1>2, <2>1 DEF ToRun, Elements
  <2>4. KindOk(n) /\ Stage(n)
    BY DEF LifeInv
  <2>5. Elements(replyq') = Elements(replyq) \ {m}
    BY <1>1, <1>2
  <2>6. KindOk(n)'
    BY <1>2, <2>1, <2>4, <2>5 DEF KindOk, Elements
  <2>7. Stage(n)'
    BY <1>1, <1>2, <1>3, <2>2, <2>3, <2>4, <2>5 DEF Stage, Elements
  <2> QED BY <2>6, <2>7
<1> QED BY <1>4, <1>5

-----------------------------------------------------------------------------
LEMMA LifeInit == Init => LifeInv
<1> SUFFICES ASSUME Init PROVE LifeInv
  OBVIOUS
<1>1. MemInv
  BY MemInit
<1>2. Idlers
  BY DEF Init, Idlers, AtRest
<1>3. ASSUME NEW m \in Msgs PROVE KindOk(m) /\ Stage(m)
  <2>1. /\ executed = {} /\ main.pc = "loop" /\ mem[m] = "none" /\ ~flag[m]
        /\ m \notin freeIdle
        /\ \A w \in Workers : worker[w].call = None /\ worker[w].pc = "idle"
        /\ None # m
    BY MsgAssumption DEF Init, AtLoop, AtRest
  <2>2. /\ m \notin Elements(mainq) /\ m \notin Elements(replyq) /\ m \notin Elements(completed)
        /\ \A p \in Pools : m \notin Elements(poolq[p])
    BY DEF Init, Elements
  <2>3. ~Runs(m) /\ ~Ended(m) /\ \A w \in Workers : ~Holds(w, m)
    BY <2>1 DEF Runs, Ended, Holds
  <2> QED BY <2>1, <2>2, <2>3 DEF KindOk, Stage
<1> QED BY <1>1, <1>2, <1>3 DEF LifeInv

\* Steps of other threads, of the loop's other callbacks, and none.
LEMMA OtherLife ==
  ASSUME LifeInv,
         UNCHANGED <<made, mainq, replyq, poolq, worker, main, flag, executed, completed>>,
         \A n \in Msgs : /\ mem[n] # "none" => mem'[n] # "none"
                         /\ mem'[n] = "freed" => mem[n] = "freed" \/ n \in freeIdle
                         /\ n \in freeIdle' => n \in freeIdle
  PROVE  Idlers' /\ \A n \in Msgs : KindOk(n)' /\ Stage(n)'
<1>1. Idlers'
  BY DEF LifeInv, Idlers
<1>2. ASSUME NEW n \in Msgs PROVE KindOk(n)' /\ Stage(n)'
  <2>1. (Runs(n)' <=> Runs(n)) /\ \A w \in Workers : /\ Holds(w, n)' <=> Holds(w, n)
                                                     /\ Pushes(w, n)' <=> Pushes(w, n)
    BY DEF Runs, Holds, Pushes
  <2>2. Ended(n)' => Ended(n)
    BY DEF Ended
  <2>3. ToRun(n)' => ToRun(n)
    BY <2>1 DEF ToRun, Elements
  <2>4. KindOk(n)
    BY DEF LifeInv
  <2>5. KindOk(n)'
    BY <2>1, <2>4 DEF KindOk, Elements
  <2> QED BY <2>2, <2>3, <2>5, StageStays
<1> QED BY <1>1, <1>2

LEMMA LifeNext == LifeInv /\ [Next]_vars => LifeInv'
<1> SUFFICES ASSUME LifeInv, [Next]_vars PROVE LifeInv'
  OBVIOUS
<1> DEFINE Kept == Idlers' /\ \A n \in Msgs : KindOk(n)' /\ Stage(n)'
<1>1. MemInv'
  BY MemNext DEF LifeInv
<1>2. ASSUME NEW m \in Msgs, Push(m) \/ CallDirect(m) PROVE Kept
  BY <1>2, PushLife, StartLife
<1>3. ASSUME NEW w \in Workers, WorkerStep(w) \/ \E m \in Msgs : CallNew(w, m) PROVE Kept
  BY <1>3, TakeLife, ReplyLife, CallLife, CallPushLife DEF WorkerStep
<1>4. ASSUME MainStep PROVE Kept
  BY <1>4, LoopLife, StartLife, ExecMainLife, PopReplyLife DEF MainStep
<1>5. ASSUME NEW m \in Msgs, FreeMsg(m) PROVE Kept
  <2>1. /\ m \in freeIdle /\ freeIdle' = freeIdle \ {m} /\ mem' = [mem EXCEPT ![m] = "freed"]
        /\ UNCHANGED <<made, mainq, replyq, poolq, worker, main, flag, executed, completed>>
    BY <1>5 DEF FreeMsg, histVars
  <2>2. \A n \in Msgs : /\ mem[n] # "none" => mem'[n] # "none"
                        /\ mem'[n] = "freed" => mem[n] = "freed" \/ n \in freeIdle
                        /\ n \in freeIdle' => n \in freeIdle
    BY <2>1, LifeTypes
  <2> QED BY <2>1, <2>2, OtherLife
<1>6. ASSUME (\E m \in Msgs : Submitted(m)) \/ CancelAll
             \/ (\E c \in Cancellers : Cancel(c)) \/ Done \/ UNCHANGED vars
      PROVE  Kept
  <2>1. /\ UNCHANGED <<made, mainq, replyq, poolq, worker, main, flag, executed, completed>>
        /\ UNCHANGED <<mem, freeIdle>>
    BY <1>6 DEF Submitted, CancelAll, Cancel, Lookup, Fire, Drop, Done, vars, memVars, histVars
  <2> QED BY <2>1, OtherLife
<1>7. Kept
  BY <1>2, <1>3, <1>4, <1>5, <1>6 DEF Next
<1> QED BY <1>1, <1>7 DEF LifeInv

-----------------------------------------------------------------------------
(* The ordered pools.  A message that was pushed to a pool is in its queue, *)
(* with a thread, in the reply queue or completed; and where y is, x, which *)
(* was pushed before it, is ahead of it or already further.                 *)

Busy(m) == \E w \in Workers : Holds(w, m)
Away(m) == m \in Elements(replyq) \/ m \in Elements(completed)

PushedOk(m) == /\ Kind[m] \in Pools
               /\ m \in Elements(poolq[Kind[m]]) \/ Busy(m) \/ Away(m)

PushedBefore(x, y) ==
  /\ Kind[x] = Kind[y] /\ SingleThread(Kind[x])
  /\ Priority[y] <= Priority[x] /\ Before(pushed, x, y)

Follows(x, y) ==
  /\ y \in Elements(completed) => Before(completed, x, y)
  /\ y \in Elements(replyq) => x \in Elements(completed) \/ Before(replyq, x, y)
  /\ Busy(y) => Away(x)
  /\ y \in Elements(poolq[Kind[y]]) =>
       Away(x) \/ Busy(x) \/ Before(poolq[Kind[y]], x, y)

OrderInv ==
  /\ LifeInv
  /\ NoTwice(completed) /\ \A p \in Pools : Sorted(poolq[p])
  /\ \A m \in Elements(pushed) : PushedOk(m)
  /\ \A x, y \in Msgs : PushedBefore(x, y) => Follows(x, y)

\* What the steps below have to show; LifeInv is kept by every step.
InOrder ==
  /\ NoTwice(completed) /\ \A p \in Pools : Sorted(poolq[p])
  /\ \A m \in Elements(pushed) : PushedOk(m)
  /\ \A x, y \in Msgs : PushedBefore(x, y) => Follows(x, y)

LEMMA BeforeBoth ==
  ASSUME NEW q, NEW x, NEW y, Before(q, x, y)
  PROVE  x \in Elements(q) /\ y \in Elements(q)
BY DEF Before, Elements

LEMMA ElementsInMsgs ==
  ASSUME NEW q \in Seq(Msgs)
  PROVE  Elements(q) \subseteq Msgs
BY DEF Elements

LEMMA OrderStays ==
  ASSUME OrderInv, UNCHANGED <<poolq, replyq, completed, pushed>>,
         \A n \in Msgs : Busy(n)' <=> Busy(n)
  PROVE  InOrder'
<1>1. pushed \in Seq(Msgs)
  BY LifeTypes DEF OrderInv
<1>2. Elements(pushed) \subseteq Msgs
  BY <1>1, ElementsInMsgs
<1>3. NoTwice(completed') /\ \A p \in Pools : Sorted(poolq'[p])
  BY DEF OrderInv, NoTwice, Sorted
<1>4. \A m \in Elements(pushed) : PushedOk(m)'
  BY <1>2 DEF OrderInv, PushedOk, Away, Elements
<1>5. \A x, y \in Msgs : PushedBefore(x, y)' => Follows(x, y)'
  <2>1. ASSUME NEW x \in Msgs, NEW y \in Msgs, PushedBefore(x, y)' PROVE Follows(x, y)'
    <3>1. Follows(x, y)
      BY <2>1 DEF OrderInv, PushedBefore, Before
    <3> QED BY <3>1 DEF Follows, Away, Elements, Before
  <2> QED BY <2>1
<1> QED BY <1>3, <1>4, <1>5 DEF InOrder, Elements, NoTwice, Sorted

LEMMA PushPoolOrder ==
  ASSUME OrderInv, NEW m \in Msgs, PushPool(m)
  PROVE  InOrder'
<1> DEFINE p == Kind[m]
<1>1. /\ m \in made /\ p \in Pools /\ poolq' = [poolq EXCEPT ![p] = InsertSorted(@, m)]
      /\ pushed' = Append(pushed, m) /\ UNCHANGED <<replyq, worker, completed>>
  BY DEF PushPool
<1>2. LifeInv /\ poolq[p] \in Seq(Msgs) /\ pushed \in Seq(Msgs)
      /\ poolq'[p] = InsertSorted(poolq[p], m)
      /\ \A q \in Pools : q # p => poolq'[q] = poolq[q]
  BY <1>1, LifeTypes DEF OrderInv
<1>3. At(m, "made", None) /\ "made" \in Tags /\ None \in Spots
  BY <1>1 DEF At, Tags, Spots
<1>4. /\ m \notin Elements(replyq) /\ m \notin Elements(poolq[p]) /\ ~Busy(m)
      /\ m \notin Elements(completed)
  <2>1. m \notin Elements(replyq) /\ m \notin Elements(poolq[p]) /\ ~Busy(m)
    BY <1>1, <1>2, <1>3, Elsewhere DEF Busy
  <2>2. m \notin Elements(completed)
    BY <1>1, <1>2 DEF LifeInv, Stage, ToRun
  <2> QED BY <2>1, <2>2
<1>5. m \notin Elements(pushed)
  BY <1>4 DEF OrderInv, PushedOk, Away
<1>6. Elements(poolq'[p]) = Elements(poolq[p]) \cup {m}
      /\ Elements(pushed') = Elements(pushed) \cup {m}
  BY <1>1, <1>2, InsertSet, AppendSet
<1>7. /\ Sorted(poolq'[p])
      /\ \A x \in Elements(poolq[p]) : Priority[x] >= Priority[m] => Before(poolq'[p], x, m)
  BY <1>1, <1>2, SortedInsert DEF OrderInv
<1>8. \A x, y : Before(poolq[p], x, y) => Before(poolq'[p], x, y)
  BY <1>2, BeforeInsert
<1>9. \A x, y : Before(pushed', x, y) => Before(pushed, x, y) \/ (y = m /\ x \in Elements(pushed))
  BY <1>1, <1>2, BeforeAppend
<1> HIDE DEF p
<1>10. /\ \A n : (Busy(n)' <=> Busy(n)) /\ (Away(n)' <=> Away(n))
       /\ Elements(completed') = Elements(completed) /\ Elements(replyq') = Elements(replyq)
  BY <1>1 DEF Busy, Away, Holds, Elements
<1>11. Elements(pushed) \subseteq Msgs
  BY <1>2, ElementsInMsgs
<1>12. ASSUME NEW n \in Elements(pushed') PROVE PushedOk(n)'
  <2>1. CASE n = m
    <3>1. Kind[n] = p /\ n \in Elements(poolq'[p])
      BY <1>6, <2>1 DEF p
    <3> QED BY <1>1, <3>1 DEF PushedOk, Elements
  <2>2. CASE n # m
    <3>1. PushedOk(n) /\ Kind[n] \in Pools
      BY <1>6, <2>2 DEF OrderInv, PushedOk
    <3>2. n \in Elements(poolq[Kind[n]]) => n \in Elements(poolq'[Kind[n]])
      BY <1>2, <1>6, <3>1
    <3> QED BY <1>10, <3>1, <3>2 DEF PushedOk, Elements
  <2> QED BY <2>1, <2>2
<1>13. ASSUME NEW x \in Msgs, NEW y \in Msgs, PushedBefore(x, y)' PROVE Follows(x, y)'
  <2>1. Kind[x] = Kind[y] /\ Priority[y] <= Priority[x] /\ Before(pushed', x, y)
    BY <1>13 DEF PushedBefore, Before
  <2>2. CASE Before(pushed, x, y)
    <3>1. PushedBefore(x, y) /\ y # m
      BY <1>5, <1>13, <2>2, BeforeBoth DEF PushedBefore
    <3>2. Follows(x, y) /\ Kind[y] \in Pools
      <4>1. y \in Elements(pushed)
        BY <2>2, BeforeBoth
      <4> QED BY <3>1, <4>1 DEF OrderInv, PushedOk
    <3>3. y \in Elements(poolq'[Kind[y]]) => y \in Elements(poolq[Kind[y]])
      BY <1>2, <1>6, <3>1, <3>2
    <3>4. Before(poolq[Kind[y]], x, y) => Before(poolq'[Kind[y]], x, y)
      BY <1>2, <1>8, <3>2
    <3> QED BY <1>1, <1>10, <3>2, <3>3, <3>4 DEF Follows, Elements, Before
  <2>3. CASE y = m /\ x \in Elements(pushed)
    <3>1. PushedOk(x) /\ Kind[y] = p /\ Kind[x] = p
      BY <2>1, <2>3 DEF OrderInv, p
    <3>2. Priority[x] \in Int /\ Priority[y] \in Int
      BY MsgAssumption
    <3>3. x \in Elements(poolq[p]) => Before(poolq'[p], x, y)
      BY <1>7, <2>1, <2>3, <3>2
    <3> QED BY <1>4, <1>10, <2>3, <3>1, <3>3 DEF Follows, PushedOk, Elements, Before
  <2> QED BY <1>9, <2>1, <2>2, <2>3
<1>14. NoTwice(completed') /\ \A q \in Pools : Sorted(poolq'[q])
  BY <1>1, <1>2, <1>7 DEF OrderInv, NoTwice, Sorted
<1> QED BY <1>12, <1>13, <1>14 DEF InOrder, Elements, NoTwice, Sorted

LEMMA OneThread ==
  ASSUME NEW v \in Workers, NEW w \in Workers, PoolOf[v] = PoolOf[w], SingleThread(PoolOf[w])
  PROVE  v = w
<1> DEFINE S == {u \in Workers : PoolOf[u] = PoolOf[w]}
<1>1. IsFiniteSet(S) /\ Cardinality(S) = 1
  <2>1. IsFiniteSet(Workers) /\ S \subseteq Workers
    BY MsgAssumption
  <2> QED BY <2>1, FS_Subset DEF SingleThread
<1>2. v \in S /\ w \in S
  OBVIOUS
<1> HIDE DEF S
<1>3. PICK u : S = {u}
  BY <1>1, FS_Singleton
<1> QED BY <1>2, <1>3

\* A thread takes the first message: what was pushed before it is further on,
\* for nobody else runs messages of its pool.
LEMMA TakeOrder ==
  ASSUME OrderInv, NEW w \in Workers, Take(w)
  PROVE  InOrder'
<1> DEFINE p == PoolOf[w]
           r == [worker[w] EXCEPT !.pc = "exec", !.msg = Head(poolq[p])]
<1>1. /\ p \in Pools /\ worker[w].pc = "idle" /\ poolq[p] # <<>>
      /\ poolq' = [poolq EXCEPT ![p] = Tail(@)] /\ worker' = [worker EXCEPT ![w] = r]
      /\ UNCHANGED <<replyq, completed, pushed>>
  BY MsgAssumption DEF Take, histVars
<1>2. LifeInv /\ poolq[p] \in Seq(Msgs) /\ NoTwice(poolq[p]) /\ pushed \in Seq(Msgs)
      /\ poolq'[p] = Tail(poolq[p])
      /\ \A q \in Pools : q # p => poolq'[q] = poolq[q]
  BY <1>1, LifeTypes DEF OrderInv
<1>3. PICK m \in Msgs : m = Head(poolq[p]) /\ m \in Elements(poolq[p])
                        /\ Elements(Tail(poolq[p])) = Elements(poolq[p]) \ {m}
  BY <1>1, <1>2, TailElements
<1>4. /\ worker'[w].pc = "exec" /\ worker'[w].msg = m
      /\ \A v \in Workers : v # w => worker'[v] = worker[v]
  BY <1>1, <1>2, <1>3, LifeTypes DEF WorkerState
<1>5. \A x, y : Before(poolq[p], x, y) => y # m /\ (x = m \/ Before(poolq'[p], x, y))
  BY <1>1, <1>2, <1>3, BeforeTail
<1>6. Kind[m] = p
  BY <1>1, <1>2, <1>3 DEF LifeInv, KindOk
<1>7. Sorted(poolq'[p])
  BY <1>1, <1>2, SortedTail DEF OrderInv
<1> HIDE DEF p, r
<1>8. \A n \in Msgs : Busy(n)' <=> Busy(n) \/ n = m
  BY <1>1, <1>4 DEF Busy, Holds
<1>9. /\ \A n : Away(n)' <=> Away(n)
      /\ Elements(completed') = Elements(completed) /\ Elements(replyq') = Elements(replyq)
      /\ Elements(pushed') = Elements(pushed) /\ Elements(pushed) \subseteq Msgs
  BY <1>1, <1>2, ElementsInMsgs DEF Away, Elements
<1>10. ASSUME NEW n \in Elements(pushed') PROVE PushedOk(n)'
  <2>1. PushedOk(n) /\ Kind[n] \in Pools /\ n \in Msgs
    BY <1>9 DEF OrderInv, PushedOk
  <2>2. n \in Elements(poolq[Kind[n]]) => n = m \/ n \in Elements(poolq'[Kind[n]])
    BY <1>2, <1>3, <2>1
  <2> QED BY <1>8, <1>9, <2>1, <2>2 DEF PushedOk, Elements
\* Nobody else runs messages of a pool of one thread.
<1>11. ASSUME NEW x \in Msgs, SingleThread(p), Kind[x] = p PROVE ~Busy(x)
  <2>1. ASSUME NEW v \in Workers, Holds(v, x) PROVE FALSE
    <3>1. PoolOf[v] = PoolOf[w]
      BY <1>2, <1>11, <2>1 DEF LifeInv, KindOk, p
    <3>2. v = w
      BY <1>11, <3>1, OneThread DEF p
    <3> QED BY <1>1, <2>1, <3>2 DEF Holds
  <2> QED BY <2>1 DEF Busy
<1>12. ASSUME NEW x \in Msgs, NEW y \in Msgs, PushedBefore(x, y)' PROVE Follows(x, y)'
  <2>1. PushedBefore(x, y)
    BY <1>1, <1>12 DEF PushedBefore, Before
  <2>2. Follows(x, y) /\ Kind[x] = Kind[y] /\ SingleThread(Kind[x]) /\ Kind[y] \in Pools
    <3>1. y \in Elements(pushed)
      BY <2>1, BeforeBoth DEF PushedBefore
    <3> QED BY <2>1, <3>1 DEF OrderInv, PushedBefore, PushedOk
  <2>3. y = m => Away(x)
    BY <1>3, <1>5, <1>6, <1>11, <2>2 DEF Follows
  <2>4. Busy(y)' => Away(x)'
    BY <1>8, <1>9, <2>2, <2>3 DEF Follows
  <2>5. y \in Elements(poolq'[Kind[y]]) =>
          Away(x)' \/ Busy(x)' \/ Before(poolq'[Kind[y]], x, y)
    <3>1. CASE Kind[y] = p
      BY <1>2, <1>3, <1>5, <1>8, <1>9, <2>2, <3>1 DEF Follows
    <3>2. CASE Kind[y] # p
      BY <1>2, <1>8, <1>9, <2>2, <3>2 DEF Follows
    <3> QED BY <3>1, <3>2
  <2> QED BY <1>1, <1>9, <2>2, <2>4, <2>5 DEF Follows, Elements, Before
<1>13. NoTwice(completed') /\ \A q \in Pools : Sorted(poolq'[q])
  BY <1>1, <1>2, <1>7 DEF OrderInv, NoTwice, Sorted
<1> QED BY <1>10, <1>12, <1>13 DEF InOrder, Elements, NoTwice, Sorted

\* exec returns: the message is put behind those that wait for their done.
LEMMA ReplyOrder ==
  ASSUME OrderInv, NEW w \in Workers, Reply(w)
  PROVE  InOrder'
<1>1. PICK m \in Msgs : m = worker[w].msg
  BY LifeTypes DEF OrderInv, InHand, WorkerOk, Reply
<1> DEFINE r == [worker[w] EXCEPT !.pc = "wake"]
<1>2. /\ worker[w].pc = "exec" /\ worker' = [worker EXCEPT ![w] = r]
      /\ replyq' = Append(replyq, m) /\ UNCHANGED <<poolq, completed, pushed>>
  BY <1>1 DEF Reply
<1>3. /\ worker'[w].pc = "wake" /\ \A v \in Workers : v # w => worker'[v] = worker[v]
  BY <1>1, <1>2, LifeTypes DEF OrderInv, WorkerState
<1> HIDE DEF r
<1>4. LifeInv /\ replyq \in Seq(Msgs) /\ pushed \in Seq(Msgs)
  BY LifeTypes DEF OrderInv
<1>5. Holds(w, m) /\ At(m, "exec", w) /\ "exec" \in Tags /\ w \in Spots
  BY <1>1, <1>2 DEF Holds, At, Tags, Spots
<1>6. /\ m \notin Elements(completed)
      /\ \A v \in Workers : Holds(v, m) => v = w
      /\ \A p \in Pools : m \notin Elements(poolq[p])
  <2>1. m \notin Elements(completed)
    BY <1>4, <1>5 DEF LifeInv, Stage, ToRun
  <2> QED BY <1>4, <1>5, <2>1, Elsewhere
<1>7. \A n \in Msgs, v \in Workers : Holds(v, n)' <=> Holds(v, n) /\ v # w
  BY <1>2, <1>3 DEF Holds
<1>8. \A n \in Msgs : Busy(n)' <=> Busy(n) /\ n # m
  BY <1>1, <1>2, <1>6, <1>7 DEF Busy, Holds
<1>9. /\ Elements(replyq') = Elements(replyq) \cup {m}
      /\ \A x, y : Before(replyq, x, y) => Before(replyq', x, y)
      /\ \A x \in Elements(replyq) : Before(replyq', x, m)
  BY <1>2, <1>4, AppendSet, BeforeAppend
<1>10. \A n : Away(n)' <=> Away(n) \/ n = m
  BY <1>2, <1>9 DEF Away, Elements
<1>11. Elements(pushed) \subseteq Msgs
  BY <1>4, ElementsInMsgs
<1>12. ASSUME NEW n \in Elements(pushed) PROVE PushedOk(n)'
  BY <1>2, <1>8, <1>10, <1>11, <1>12 DEF OrderInv, PushedOk, Elements
<1>13. ASSUME NEW x \in Msgs, NEW y \in Msgs, PushedBefore(x, y)' PROVE Follows(x, y)'
  <2>1. Follows(x, y) /\ Kind[y] \in Pools
    <3>1. PushedBefore(x, y)
      BY <1>2, <1>13 DEF PushedBefore, Before
    <3>2. y \in Elements(pushed)
      BY <3>1, BeforeBoth DEF PushedBefore
    <3> QED BY <3>1, <3>2 DEF OrderInv, PushedOk
  <2>2. y \in Elements(replyq') => x \in Elements(completed) \/ Before(replyq', x, y)
    <3>1. CASE y = m
      <4>1. Busy(y)
        BY <1>5, <3>1 DEF Busy
      <4>2. x \in Elements(replyq) \/ x \in Elements(completed)
        BY <2>1, <4>1 DEF Follows, Away
      <4> QED BY <1>9, <3>1, <4>2
    <3>2. CASE y # m
      BY <1>9, <2>1, <3>2 DEF Follows
    <3> QED BY <3>1, <3>2
  <2>3. Busy(y)' => Away(x)'
    BY <1>8, <1>10, <2>1 DEF Follows
  <2>4. y \in Elements(poolq[Kind[y]]) =>
          Away(x)' \/ Busy(x)' \/ Before(poolq[Kind[y]], x, y)
    BY <1>8, <1>10, <2>1 DEF Follows
  <2> QED BY <1>2, <2>1, <2>2, <2>3, <2>4 DEF Follows, Elements, Before
<1>14. NoTwice(completed') /\ \A q \in Pools : Sorted(poolq'[q])
  BY <1>2 DEF OrderInv, NoTwice, Sorted
<1> QED BY <1>2, <1>12, <1>13, <1>14 DEF InOrder, Elements, NoTwice, Sorted

\* The done callback of the first message of the reply queue.
LEMMA PopReplyOrder ==
  ASSUME OrderInv, PopReply
  PROVE  InOrder'
<1>1. /\ replyq # <<>> /\ replyq' = Tail(replyq) /\ completed' = Append(completed, Head(replyq))
      /\ UNCHANGED <<poolq, worker, pushed>>
  BY DEF PopReply
<1>2. LifeInv /\ replyq \in Seq(Msgs) /\ NoTwice(replyq) /\ pushed \in Seq(Msgs)
      /\ completed \in Seq(Msgs)
  BY LifeTypes DEF OrderInv
<1>3. PICK m \in Msgs : m = Head(replyq) /\ m \in Elements(replyq)
                        /\ Elements(Tail(replyq)) = Elements(replyq) \ {m}
  BY <1>1, <1>2, TailElements
<1>4. m \notin Elements(completed)
  BY <1>2, <1>3 DEF LifeInv, Stage
<1>5. \A x, y : Before(replyq, x, y) => y # m /\ (x = m \/ Before(replyq', x, y))
  BY <1>1, <1>2, <1>3, BeforeTail
<1>6. /\ Elements(completed') = Elements(completed) \cup {m} /\ NoTwice(completed')
      /\ \A x, y : Before(completed, x, y) => Before(completed', x, y)
      /\ \A x \in Elements(completed) : Before(completed', x, m)
  BY <1>1, <1>2, <1>3, <1>4, AppendElements, BeforeAppend DEF OrderInv
<1>7. Elements(replyq') = Elements(replyq) \ {m} /\ m \in Elements(replyq)
  BY <1>1, <1>3
<1>8. \A n : (Away(n)' <=> Away(n)) /\ (Busy(n)' <=> Busy(n))
  BY <1>1, <1>6, <1>7 DEF Away, Busy, Holds, Elements
<1>9. ASSUME NEW n \in Elements(pushed) PROVE PushedOk(n)'
  BY <1>1, <1>8, <1>9 DEF OrderInv, PushedOk, Elements
<1>10. ASSUME NEW x \in Msgs, NEW y \in Msgs, PushedBefore(x, y)' PROVE Follows(x, y)'
  <2>1. Follows(x, y)
    BY <1>1, <1>10 DEF OrderInv, PushedBefore, Before
  <2>2. y \in Elements(completed') => Before(completed', x, y)
    <3>1. CASE y = m
      BY <1>3, <1>5, <1>6, <2>1, <3>1 DEF Follows
    <3>2. CASE y # m
      BY <1>6, <2>1, <3>2 DEF Follows
    <3> QED BY <3>1, <3>2
  <2>3. y \in Elements(replyq') => x \in Elements(completed') \/ Before(replyq', x, y)
    BY <1>5, <1>6, <1>7, <2>1 DEF Follows
  <2>4. Busy(y)' => Away(x)'
    BY <1>8, <2>1 DEF Follows
  <2>5. y \in Elements(poolq[Kind[y]]) =>
          Away(x)' \/ Busy(x)' \/ Before(poolq[Kind[y]], x, y)
    BY <1>8, <2>1 DEF Follows
  <2> QED BY <1>1, <2>2, <2>3, <2>4, <2>5 DEF Follows, Elements, Before
<1>11. \A q \in Pools : Sorted(poolq'[q])
  BY <1>1 DEF OrderInv, Sorted
<1> QED BY <1>1, <1>6, <1>9, <1>10, <1>11 DEF InOrder, Elements, NoTwice, Sorted

\* A message of the main loop is completed: it was not pushed to a pool.
LEMMA ExecMainOrder ==
  ASSUME OrderInv, ExecMain
  PROVE  InOrder'
<1>1. PICK m \in Msgs : m = main.msg
  BY LifeTypes DEF OrderInv, InHand, ExecMain
<1>2. /\ Runs(m) /\ completed' = Append(completed, m)
      /\ UNCHANGED <<poolq, replyq, worker, pushed>>
  BY <1>1 DEF ExecMain, Runs
<1>3. LifeInv /\ pushed \in Seq(Msgs) /\ completed \in Seq(Msgs)
  BY LifeTypes DEF OrderInv
<1>4. m \notin Elements(completed) /\ Kind[m] \notin Pools
  BY <1>2, <1>3 DEF LifeInv, Stage, ToRun, KindOk
<1>5. /\ Elements(completed') = Elements(completed) \cup {m} /\ NoTwice(completed')
      /\ \A x, y : Before(completed, x, y) => Before(completed', x, y)
  BY <1>2, <1>3, <1>4, AppendElements, BeforeAppend DEF OrderInv
<1>6. \A n : Away(n) => Away(n)'
  BY <1>2, <1>5 DEF Away, Elements
<1>7. \A n : Busy(n)' <=> Busy(n)
  BY <1>2 DEF Busy, Holds
<1>8. ASSUME NEW n \in Elements(pushed) PROVE PushedOk(n)'
  BY <1>2, <1>6, <1>7, <1>8 DEF OrderInv, PushedOk, Elements
<1>9. ASSUME NEW x \in Msgs, NEW y \in Msgs, PushedBefore(x, y)' PROVE Follows(x, y)'
  <2>1. Follows(x, y) /\ y # m
    <3>1. PushedBefore(x, y)
      BY <1>2, <1>9 DEF PushedBefore, Before
    <3>2. y \in Elements(pushed)
      BY <3>1, BeforeBoth DEF PushedBefore
    <3> QED BY <1>4, <3>1, <3>2 DEF OrderInv, PushedOk
  <2>2. y \in Elements(completed') => Before(completed', x, y)
    BY <1>5, <2>1 DEF Follows
  <2>3. y \in Elements(replyq) => x \in Elements(completed') \/ Before(replyq, x, y)
    BY <1>5, <2>1 DEF Follows
  <2>4. Busy(y)' => Away(x)'
    BY <1>6, <1>7, <2>1 DEF Follows
  <2>5. y \in Elements(poolq[Kind[y]]) =>
          Away(x)' \/ Busy(x)' \/ Before(poolq[Kind[y]], x, y)
    BY <1>6, <1>7, <2>1 DEF Follows
  <2> QED BY <1>2, <2>2, <2>3, <2>4, <2>5 DEF Follows, Elements, Before
<1>10. \A q \in Pools : Sorted(poolq'[q])
  BY <1>2 DEF OrderInv, Sorted
<1> QED BY <1>2, <1>5, <1>8, <1>9, <1>10 DEF InOrder, Elements, NoTwice, Sorted

\* The steps of a worker besides these keep its message.
LEMMA CallKeeps ==
  ASSUME LifeInv, NEW w \in Workers,
         \/ Wake(w) \/ CallPush(w) \/ CallWake(w) \/ CallReturn(w) \/ CallUnref(w)
         \/ CallRetire(w) \/ \E m \in Msgs : CallNew(w, m)
  PROVE  /\ UNCHANGED <<poolq, replyq, executed, completed, pushed, main>>
         /\ \A n \in Msgs, v \in Workers : Holds(v, n)' <=> Holds(v, n)
<1>1. UNCHANGED <<poolq, replyq, executed, completed, pushed, main>>
  BY DEF Wake, CallPush, CallWake, CallReturn, CallUnref, CallRetire, CallNew, histVars
<1>2. worker[w] \in WorkerState /\ worker \in [Workers -> WorkerState]
  BY LifeTypes
<1>3. PICK r : worker' = [worker EXCEPT ![w] = r]
  BY DEF Wake, CallPush, CallWake, CallReturn, CallUnref, CallRetire, CallNew
<1>4. worker'[w] = r /\ \A v \in Workers : v # w => worker'[v] = worker[v]
  BY <1>2, <1>3
<1>5. \/ worker[w].pc = "wake" /\ worker'[w].pc = "idle"
      \/ /\ worker[w].pc \notin {"idle", "wake"} /\ worker'[w].pc \notin {"idle", "wake"}
         /\ worker'[w].msg = worker[w].msg
  <2>1. CASE Wake(w)
    BY <1>2, <2>1 DEF Wake, AtRest
  <2>2. CASE CallPush(w) \/ CallWake(w) \/ CallReturn(w)
    BY <1>2, <2>2 DEF CallPush, CallWake, CallReturn, WorkerState
  <2>3. CASE CallUnref(w)
    <3>1. /\ worker[w].pc = "call_unref"
          /\ worker'[w] = IF refs[worker[w].call] = 1 THEN [worker[w] EXCEPT !.pc = "call_retire"]
                          ELSE [worker[w] EXCEPT !.pc = "exec", !.call = None]
      BY <1>2, <2>3 DEF CallUnref
    <3> QED BY <1>2, <3>1 DEF WorkerState
  <2>4. CASE CallRetire(w)
    BY <1>2, <2>4 DEF CallRetire, WorkerState
  <2>5. CASE \E m \in Msgs : CallNew(w, m)
    <3>1. PICK m \in Msgs : CallNew(w, m)
      BY <2>5
    <3>2. worker[w].pc = "exec" /\ worker'[w] = [worker[w] EXCEPT !.pc = "call_push", !.call = m]
      BY <1>2, <3>1 DEF CallNew
    <3> QED BY <1>2, <3>2 DEF WorkerState
  <2> QED BY <2>1, <2>2, <2>3, <2>4, <2>5
<1>6. \A n \in Msgs, v \in Workers : Holds(v, n)' <=> Holds(v, n)
  BY <1>4, <1>5 DEF Holds
<1> QED BY <1>1, <1>6

LEMMA OrderInit == Init => OrderInv
<1> SUFFICES ASSUME Init PROVE OrderInv
  OBVIOUS
<1>1. LifeInv
  BY LifeInit
<1>2. NoTwice(completed) /\ \A p \in Pools : Sorted(poolq[p])
  BY DEF Init, NoTwice, Sorted
<1>3. Elements(pushed) = {} /\ \A x, y : ~Before(pushed, x, y)
  BY DEF Init, Elements, Before
<1> QED BY <1>1, <1>2, <1>3 DEF OrderInv, PushedBefore

LEMMA OrderNext == OrderInv /\ [Next]_vars => OrderInv'
<1> SUFFICES ASSUME OrderInv, [Next]_vars PROVE OrderInv'
  OBVIOUS
<1>1. LifeInv'
  BY LifeNext DEF OrderInv
<1>2. ASSUME NEW m \in Msgs, Push(m) \/ CallDirect(m) \/ FreeMsg(m) \/ Submitted(m)
      PROVE  InOrder'
  <2>1. CASE PushPool(m)
    BY <2>1, PushPoolOrder
  <2>2. CASE ~PushPool(m)
    <3>1. UNCHANGED <<poolq, replyq, completed, pushed, worker>>
      BY <1>2, <2>2 DEF Push, Create, PushMain, WakeMain, CallDirect, FreeMsg, Submitted, histVars
    <3> QED BY <3>1, OrderStays DEF Busy, Holds
  <2> QED BY <2>1, <2>2
<1>3. ASSUME NEW w \in Workers, WorkerStep(w) \/ \E m \in Msgs : CallNew(w, m)
      PROVE  InOrder'
  <2>1. CASE Take(w) \/ Reply(w)
    BY <2>1, TakeOrder, ReplyOrder
  <2>2. CASE ~Take(w) /\ ~Reply(w)
    <3>1. /\ UNCHANGED <<poolq, replyq, completed, pushed>>
          /\ \A n \in Msgs, v \in Workers : Holds(v, n)' <=> Holds(v, n)
      BY <1>3, <2>2, CallKeeps DEF OrderInv, WorkerStep
    <3>2. \A n \in Msgs : Busy(n)' <=> Busy(n)
      BY <3>1 DEF Busy
    <3> QED BY <3>1, <3>2, OrderStays
  <2> QED BY <2>1, <2>2
<1>4. ASSUME MainStep PROVE InOrder'
  <2>1. CASE PopReply \/ ExecMain
    BY <2>1, PopReplyOrder, ExecMainOrder
  <2>2. CASE ~PopReply /\ ~ExecMain
    <3>1. UNCHANGED <<poolq, replyq, completed, pushed, worker>>
      BY <1>4, <2>2 DEF MainStep, Dispatch, PopMain, MainEmpty, ReplyEmpty, Unref, Retire, histVars
    <3> QED BY <3>1, OrderStays DEF Busy, Holds
  <2> QED BY <2>1, <2>2
<1>5. ASSUME CancelAll \/ (\E c \in Cancellers : Cancel(c)) \/ Done \/ UNCHANGED vars
      PROVE  InOrder'
  <2>1. UNCHANGED <<poolq, replyq, completed, pushed, worker>>
    BY <1>5 DEF CancelAll, Cancel, Lookup, Fire, Drop, Done, vars, histVars
  <2> QED BY <2>1, OrderStays DEF Busy, Holds
<1>6. InOrder'
  BY <1>2, <1>3, <1>4, <1>5 DEF Next
<1> QED BY <1>1, <1>6 DEF OrderInv, InOrder

\* The done callbacks of an ordered pool run in the order of the pushes, unless
\* the later message has the higher priority, and none runs twice.
THEOREM DoneInOrder == Spec => []OrderedCompletion
<1>1. OrderInv => OrderedCompletion
  <2> SUFFICES ASSUME OrderInv PROVE OrderedCompletion
    OBVIOUS
  <2>1. Elements(pushed) \subseteq Msgs
    BY LifeTypes, ElementsInMsgs DEF OrderInv
  <2> QED BY <2>1 DEF OrderInv, OrderedCompletion, NoTwice, PushedBefore, Follows
<1> QED BY <1>1, OrderInit, OrderNext, PTL DEF Spec

-----------------------------------------------------------------------------
(* The engine implements MsgLife: every step is one step of the life of one *)
(* message, or none.                                                        *)

PhaseOf(m) ==
  IF mem[m] = "none" THEN "new"
  ELSE IF mem[m] = "freed" THEN "gone"
  ELSE IF m \in Elements(completed) THEN "complete"
  ELSE IF m \in executed THEN "ran"
  ELSE IF Running(m) THEN "running"
  ELSE "waiting"

LEMMA PhaseIs ==
  /\ LifePhase = [m \in Msgs |-> PhaseOf(m)]
  /\ LifePhase' = [m \in Msgs |-> PhaseOf(m)']
BY DEF LifePhase, PhaseOf

LEMMA PhaseStays ==
  ASSUME \A n \in Msgs : PhaseOf(n)' = PhaseOf(n)
  PROVE  LifePhase' = LifePhase
BY PhaseIs

LEMMA PhaseStep ==
  ASSUME NEW m \in Msgs, NEW from, NEW to, PhaseOf(m) = from, PhaseOf(m)' = to,
         \A n \in Msgs : n # m => PhaseOf(n)' = PhaseOf(n)
  PROVE  Life!Step(m, from, to)
<1>1. LifePhase[m] = from
  BY PhaseIs
<1>2. LifePhase' = [LifePhase EXCEPT ![m] = to]
  BY PhaseIs
<1> QED BY <1>1, <1>2 DEF Life!Step

\* Who runs a message.
LEMMA RunningIs ==
  ASSUME LifeInv, NEW m \in Msgs
  PROVE  Running(m) <=> Runs(m) \/ Busy(m)
<1>1. \A w \in Workers : worker[w].pc = "idle" => worker[w].msg # m
  BY LifeTypes DEF LifeInv, Idlers
<1> QED BY <1>1 DEF Running, Runs, Busy, Holds

LEMMA PhaseSame ==
  ASSUME LifeInv, LifeInv', NEW m \in Msgs, mem'[m] = mem[m],
         m \in Elements(completed') <=> m \in Elements(completed),
         m \in executed' <=> m \in executed,
         Runs(m)' \/ Busy(m)' <=> Runs(m) \/ Busy(m)
  PROVE  PhaseOf(m)' = PhaseOf(m)
<1>1. Running(m)' <=> Running(m)
  <2>1. Running(m)' <=> Runs(m)' \/ Busy(m)'
    BY RunningIs, PTL
  <2> QED BY <2>1, RunningIs
<1>2. Elements(completed)' = Elements(completed')
  BY DEF Elements
<1> QED BY <1>1, <1>2 DEF PhaseOf

LEMMA AllSame ==
  ASSUME LifeInv, LifeInv', UNCHANGED <<mem, completed, executed>>,
         \A n \in Msgs : (Runs(n)' <=> Runs(n)) /\ (Busy(n)' <=> Busy(n))
  PROVE  LifePhase' = LifePhase
<1>1. ASSUME NEW n \in Msgs PROVE PhaseOf(n)' = PhaseOf(n)
  BY PhaseSame
<1> QED BY <1>1, PhaseStays

\* A message that is somewhere and whose exec has not returned.
LEMMA NotYetRun ==
  ASSUME LifeInv, NEW m \in Msgs, NEW t \in Tags, NEW y \in Spots, At(m, t, y),
         ToRun(m)
  PROVE  /\ mem[m] = "alloc" /\ m \notin executed /\ m \notin Elements(completed)
         /\ PhaseOf(m) = IF Runs(m) \/ Busy(m) THEN "running" ELSE "waiting"
<1>1. mem[m] # "none"
  BY Elsewhere
<1>2. m \notin executed /\ m \notin Elements(completed) /\ ~Ended(m)
  BY DEF LifeInv, Stage
<1>3. mem[m] = "alloc"
  BY <1>1, <1>2, LifeTypes DEF Ended
<1> QED BY <1>2, <1>3, RunningIs DEF PhaseOf

\* A message that has not been allocated.
LEMMA Unborn ==
  ASSUME LifeInv, NEW m \in Msgs, mem[m] = "none"
  PROVE  /\ PhaseOf(m) = "new" /\ ~Runs(m) /\ ~Busy(m)
         /\ m \notin executed /\ m \notin Elements(completed)
<1>1. ~Placed(m)
  BY NothingYet DEF LifeInv
<1>2. ~Runs(m) /\ ~Busy(m)
  <2>1. ~At(m, "main", None) /\ \A w \in Workers : ~At(m, "exec", w)
    BY <1>1 DEF Placed, Tags, Spots
  <2> QED BY <2>1 DEF At, Runs, OnMain, Busy
<1> QED BY <1>2 DEF LifeInv, Stage, PhaseOf

\* The allocation of a message that is not run at once.
LEMMA SubmitStep ==
  ASSUME LifeInv, LifeInv', NEW m \in Msgs, NEW k, New(m, k),
         UNCHANGED <<executed, completed>>,
         \A n \in Msgs : (Runs(n)' <=> Runs(n)) /\ (Busy(n)' <=> Busy(n))
  PROVE  Life!Submit(m)
<1>1. /\ mem[m] = "none" /\ mem'[m] = "alloc" /\ \A n \in Msgs : n # m => mem'[n] = mem[n]
  BY LifeTypes DEF New
<1>2. /\ PhaseOf(m) = "new" /\ ~Runs(m)' /\ ~Busy(m)'
      /\ m \notin executed /\ m \notin Elements(completed)
  BY <1>1, Unborn
<1>3. ~Running(m)'
  BY <1>2, RunningIs, PTL
<1>4. PhaseOf(m)' = "waiting"
  BY <1>1, <1>2, <1>3 DEF PhaseOf, Elements
<1>5. \A n \in Msgs : n # m => PhaseOf(n)' = PhaseOf(n)
  BY <1>1, PhaseSame
<1> QED BY <1>2, <1>4, <1>5, PhaseStep DEF Life!Submit

\* Nobody but the main thread runs what belongs to the main loop.
LEMMA MainRunsAlone ==
  ASSUME LifeInv, main.pc \notin {"main_exec", "direct"},
         NEW n \in Msgs, Kind[n] \notin Pools
  PROVE  LifePhase[n] # "running"
<1>1. ~Runs(n)
  BY DEF Runs
<1>2. ~Busy(n)
  <2>1. ASSUME NEW w \in Workers, Holds(w, n) PROVE FALSE
    BY <2>1, MsgAssumption DEF LifeInv, KindOk
  <2> QED BY <2>1 DEF Busy
<1> QED BY <1>1, <1>2, PhaseIs, RunningIs DEF PhaseOf

LEMMA CreateStep ==
  ASSUME LifeInv, LifeInv', NEW m \in Msgs, Create(m)
  PROVE  Life!Submit(m)
<1>1. New(m, 1) /\ UNCHANGED <<executed, completed, main, worker>>
  BY DEF Create, histVars
<1>2. \A n \in Msgs : (Runs(n)' <=> Runs(n)) /\ (Busy(n)' <=> Busy(n))
  BY <1>1 DEF Runs, Busy, Holds
<1> QED BY <1>1, <1>2, SubmitStep

LEMMA CallNewStep ==
  ASSUME LifeInv, LifeInv', NEW w \in Workers, NEW m \in Msgs, CallNew(w, m)
  PROVE  Life!Submit(m)
<1>1. New(m, 2)
  BY DEF CallNew
<1>2. /\ UNCHANGED <<executed, completed, main>>
      /\ \A n \in Msgs, v \in Workers : Holds(v, n)' <=> Holds(v, n)
  BY CallKeeps
<1>3. \A n \in Msgs : (Runs(n)' <=> Runs(n)) /\ (Busy(n)' <=> Busy(n))
  BY <1>2 DEF Runs, Busy
<1> QED BY <1>1, <1>2, <1>3, SubmitStep

\* mail_call_main in the main thread runs its message at once.
LEMMA CallDirectStep ==
  ASSUME LifeInv, LifeInv', NEW m \in Msgs, CallDirect(m)
  PROVE  Life!StartAtOnce(m)
<1>1. /\ New(m, 1) /\ main.pc = "loop" /\ Kind[m] \notin Pools
      /\ main'.pc = "direct" /\ main'.msg = m
      /\ UNCHANGED <<executed, completed, worker>>
  BY MsgAssumption DEF CallDirect, histVars
<1>2. /\ mem[m] = "none" /\ mem'[m] = "alloc" /\ \A n \in Msgs : n # m => mem'[n] = mem[n]
  BY <1>1, LifeTypes DEF New
<1>3. /\ PhaseOf(m) = "new" /\ m \notin executed /\ m \notin Elements(completed)
  BY <1>2, Unborn
<1>4. Runs(m)' /\ \A n \in Msgs : n # m => (Runs(n)' <=> Runs(n))
  BY <1>1 DEF Runs
<1>5. \A n \in Msgs : Busy(n)' <=> Busy(n)
  BY <1>1 DEF Busy, Holds
<1>6. Running(m)'
  BY <1>4, RunningIs, PTL
<1>7. PhaseOf(m)' = "running"
  BY <1>1, <1>2, <1>3, <1>6 DEF PhaseOf, Elements
<1>8. \A n \in Msgs : n # m => PhaseOf(n)' = PhaseOf(n)
  BY <1>1, <1>2, <1>4, <1>5, PhaseSame
<1>9. \A n \in {k \in Msgs : Kind[k] \notin Pools} : LifePhase[n] # "running"
  BY <1>1, MainRunsAlone
<1>10. Life!Step(m, "new", "running")
  BY <1>3, <1>7, <1>8, PhaseStep
<1> QED BY <1>1, <1>9, <1>10 DEF Life!StartAtOnce

\* The main loop takes a message: it runs no other.
LEMMA PopMainStep ==
  ASSUME LifeInv, LifeInv', PopMain
  PROVE  \E m \in Msgs : Life!Start(m)
<1>1. PICK m \in Msgs : m = Head(mainq) /\ m \in Elements(mainq)
  BY LifeTypes, TailElements DEF PopMain
<1>2. /\ main.pc = "drain_main" /\ main'.pc = "main_exec" /\ main'.msg = m
      /\ UNCHANGED <<mem, executed, completed, worker>>
  BY <1>1 DEF PopMain, memVars, histVars
<1>3. At(m, "mainq", None) /\ "mainq" \in Tags /\ None \in Spots /\ ToRun(m)
  BY <1>1 DEF At, Tags, Spots, ToRun
<1>4. ~Runs(m) /\ ~Busy(m)
  BY <1>2, <1>3, Elsewhere DEF Runs, Busy
<1>5. /\ mem[m] = "alloc" /\ m \notin executed /\ m \notin Elements(completed)
      /\ PhaseOf(m) = "waiting"
  BY <1>3, <1>4, NotYetRun
<1>6. Runs(m)' /\ \A n \in Msgs : n # m => (Runs(n)' <=> Runs(n))
  BY <1>2 DEF Runs
<1>7. \A n \in Msgs : Busy(n)' <=> Busy(n)
  BY <1>2 DEF Busy, Holds
<1>8. Running(m)'
  BY <1>6, RunningIs, PTL
<1>9. PhaseOf(m)' = "running"
  BY <1>2, <1>5, <1>8 DEF PhaseOf, Elements
<1>10. \A n \in Msgs : n # m => PhaseOf(n)' = PhaseOf(n)
  BY <1>2, <1>6, <1>7, PhaseSame
<1>11. Kind[m] \notin Pools
  BY <1>1 DEF LifeInv, KindOk
<1>12. \A n \in {k \in Msgs : Kind[k] \notin Pools} : LifePhase[n] # "running"
  BY <1>2, MainRunsAlone
<1>13. Life!Step(m, "waiting", "running")
  BY <1>5, <1>9, <1>10, PhaseStep
<1> QED BY <1>11, <1>12, <1>13 DEF Life!Start

\* A pool with an idle thread runs fewer messages than it has threads.
LEMMA FreeSlot ==
  ASSUME LifeInv, NEW w \in Workers, worker[w].pc = "idle"
  PROVE  Cardinality(Life!RunningIn(PoolOf[w])) < Slots[PoolOf[w]]
<1> DEFINE p == PoolOf[w]
           R == Life!RunningIn(p)
           W == {v \in Workers : PoolOf[v] = p}
           T == {v \in Workers : \E n \in R : Holds(v, n)}
           f == [v \in T |-> worker[v].msg]
<1>1. R \subseteq Msgs /\ \A n \in R : Kind[n] = p /\ \E v \in Workers : Holds(v, n)
  <2>1. R = {n \in Msgs : LifePhase[n] = "running" /\ Kind[n] = p}
    BY DEF Life!RunningIn
  <2>2. p \in Pools
    BY MsgAssumption
  <2>3. ASSUME NEW n \in R PROVE \E v \in Workers : Holds(v, n)
    <3>1. n \in Msgs /\ PhaseOf(n) = "running" /\ Kind[n] = p
      BY <2>1, PhaseIs
    <3>2. Running(n)
      BY <3>1 DEF PhaseOf
    <3>3. ~Runs(n)
      BY <2>2, <3>1 DEF LifeInv, KindOk
    <3> QED BY <3>1, <3>2, <3>3, RunningIs DEF Busy
  <2> QED BY <2>1, <2>3
<1>2. T \subseteq W \ {w}
  <2>1. ASSUME NEW v \in T PROVE v \in W \ {w}
    <3>1. PICK n \in R : Holds(v, n)
      OBVIOUS
    <3>2. PoolOf[v] = p
      BY <1>1, <3>1 DEF LifeInv, KindOk
    <3>3. v # w
      BY <3>1 DEF Holds
    <3> QED BY <3>2, <3>3
  <2> QED BY <2>1
<1> HIDE DEF p, R
<1>3. f \in Surjection(T, R)
  <2>1. \A v \in T : worker[v].msg \in R
    BY DEF Holds
  <2>2. \A n \in R : \E v \in T : worker[v].msg = n
    BY <1>1 DEF Holds
  <2> QED BY <2>1, <2>2 DEF Surjection
<1>4. w \in W /\ IsFiniteSet(W) /\ Slots[p] = Cardinality(W)
  <2>1. IsFiniteSet(Workers) /\ W \subseteq Workers /\ p \in Pools
    BY MsgAssumption DEF p
  <2>2. w \in W
    BY DEF p
  <2> QED BY <2>1, <2>2, FS_Subset DEF Slots
<1> HIDE DEF W, T, f
<1>5. IsFiniteSet(W \ {w}) /\ Cardinality(W \ {w}) = Cardinality(W) - 1
  BY <1>4, FS_RemoveElement
<1>6. IsFiniteSet(T) /\ Cardinality(T) <= Cardinality(W) - 1
  BY <1>2, <1>5, FS_Subset
<1>7. IsFiniteSet(R) /\ Cardinality(R) <= Cardinality(T)
  BY <1>3, <1>6, FS_Surjection
<1>8. Cardinality(R) \in Nat /\ Cardinality(T) \in Nat /\ Cardinality(W) \in Nat
  BY <1>4, <1>6, <1>7, FS_CardinalityType
<1>9. Cardinality(R) < Slots[p]
  BY <1>4, <1>6, <1>7, <1>8
<1> QED BY <1>9 DEF p, R

\* MsgLife's Cardinality is that of FiniteSets.
LEMMA SameCardinality == \A S : Life!Cardinality(S) = Cardinality(S)
BY DEF Life!Cardinality, Cardinality

LEMMA TakeStep ==
  ASSUME LifeInv, LifeInv', NEW w \in Workers, Take(w)
  PROVE  \E m \in Msgs : Life!Start(m)
<1> DEFINE p == PoolOf[w]
<1>1. PICK m \in Msgs : m = Head(poolq[p]) /\ m \in Elements(poolq[p])
  BY LifeTypes, TailElements, MsgAssumption DEF Take
<1>2. /\ p \in Pools /\ worker[w].pc = "idle"
      /\ worker' = [worker EXCEPT ![w] = [@ EXCEPT !.pc = "exec", !.msg = m]]
      /\ UNCHANGED <<mem, executed, completed, main>>
  BY <1>1, MsgAssumption DEF Take, memVars, histVars
<1>3. /\ worker'[w].pc = "exec" /\ worker'[w].msg = m
      /\ \A v \in Workers : v # w => worker'[v] = worker[v]
  BY <1>2, LifeTypes DEF WorkerState
<1>4. At(m, "pool", p) /\ "pool" \in Tags /\ p \in Spots /\ ToRun(m)
  BY <1>1, <1>2 DEF At, Tags, Spots, ToRun
<1>5. ~Runs(m) /\ ~Busy(m)
  BY <1>4, Elsewhere DEF Runs, Busy, OnMain
<1>6. /\ mem[m] = "alloc" /\ m \notin executed /\ m \notin Elements(completed)
      /\ PhaseOf(m) = "waiting"
  BY <1>4, <1>5, NotYetRun
<1>7. Busy(m)' /\ \A n \in Msgs : n # m => (Busy(n)' <=> Busy(n))
  BY <1>2, <1>3 DEF Busy, Holds
<1>8. \A n \in Msgs : Runs(n)' <=> Runs(n)
  BY <1>2 DEF Runs
<1>9. Running(m)'
  BY <1>7, RunningIs, PTL
<1>10. PhaseOf(m)' = "running"
  BY <1>2, <1>6, <1>9 DEF PhaseOf, Elements
<1>11. \A n \in Msgs : n # m => PhaseOf(n)' = PhaseOf(n)
  BY <1>2, <1>7, <1>8, PhaseSame
<1>12. Kind[m] = p
  BY <1>1, <1>2 DEF LifeInv, KindOk
<1>13. Life!Cardinality(Life!RunningIn(Kind[m])) < Slots[Kind[m]]
  BY <1>2, <1>12, FreeSlot, SameCardinality
<1>14. Life!Step(m, "waiting", "running")
  BY <1>6, <1>10, <1>11, PhaseStep
<1>15. m \notin {k \in Msgs : Kind[k] \notin Pools}
  BY <1>2, <1>12
<1> QED BY <1>13, <1>14, <1>15 DEF Life!Start

\* exec returns in a worker.
LEMMA ReplyStep ==
  ASSUME LifeInv, LifeInv', NEW w \in Workers, Reply(w)
  PROVE  \E m \in Msgs : Life!Finish(m)
<1>1. PICK m \in Msgs : m = worker[w].msg
  BY LifeTypes DEF InHand, WorkerOk, Reply
<1>2. /\ worker[w].pc = "exec" /\ worker' = [worker EXCEPT ![w].pc = "wake"]
      /\ executed' = executed \cup {m} /\ UNCHANGED <<mem, main, completed>>
  BY <1>1 DEF Reply, memVars
<1>3. worker'[w].pc = "wake" /\ \A v \in Workers : v # w => worker'[v] = worker[v]
  BY <1>1, <1>2, LifeTypes DEF WorkerState
<1>4. Holds(w, m) /\ At(m, "exec", w) /\ "exec" \in Tags /\ w \in Spots /\ ToRun(m)
  BY <1>1, <1>2 DEF Holds, At, Tags, Spots, ToRun
<1>5. /\ mem[m] = "alloc" /\ m \notin executed /\ m \notin Elements(completed)
      /\ PhaseOf(m) = "running" /\ Kind[m] \in Pools
  <2>1. Busy(m)
    BY <1>4 DEF Busy
  <2>2. Kind[m] \in Pools
    BY <1>4, MsgAssumption DEF LifeInv, KindOk
  <2> QED BY <1>4, <2>1, <2>2, NotYetRun
<1>6. PhaseOf(m)' = "ran"
  BY <1>2, <1>5 DEF PhaseOf, Elements
<1>7. \A n \in Msgs : n # m => (Runs(n)' <=> Runs(n)) /\ (Busy(n)' <=> Busy(n))
  BY <1>1, <1>2, <1>3 DEF Runs, Busy, Holds
<1>8. \A n \in Msgs : n # m => PhaseOf(n)' = PhaseOf(n)
  BY <1>2, <1>7, PhaseSame
<1>9. Life!Step(m, "running", "ran")
  BY <1>5, <1>6, <1>8, PhaseStep
<1>10. m \notin {k \in Msgs : Kind[k] \notin Pools}
  BY <1>5
<1> QED BY <1>9, <1>10 DEF Life!Finish

\* exec and done in the main loop.
LEMMA ExecMainStep ==
  ASSUME LifeInv, LifeInv', ExecMain
  PROVE  \E m \in Msgs : Life!Complete(m)
<1>1. PICK m \in Msgs : m = main.msg
  BY LifeTypes DEF InHand, ExecMain
<1>2. /\ main.pc \in {"main_exec", "direct"} /\ main'.pc = "unref"
      /\ executed' = executed \cup {m} /\ completed' = Append(completed, m)
      /\ UNCHANGED <<mem, worker>>
  BY <1>1, LifeTypes DEF ExecMain, MainState, memVars
<1>3. Runs(m) /\ ToRun(m) /\ At(m, "main", None) /\ "main" \in Tags /\ None \in Spots
  BY <1>1, <1>2 DEF Runs, ToRun, OnMain, At, Tags, Spots
<1>4. mem[m] = "alloc" /\ PhaseOf(m) = "running" /\ Kind[m] \notin Pools
  <2>1. Kind[m] \notin Pools
    BY <1>3 DEF LifeInv, KindOk
  <2> QED BY <1>3, <2>1, NotYetRun
<1>5. Elements(completed') = Elements(completed) \cup {m}
  BY <1>2, LifeTypes, AppendSet
<1>6. PhaseOf(m)' = "complete"
  BY <1>2, <1>4, <1>5 DEF PhaseOf, Elements
<1>7. \A n \in Msgs : n # m => (Runs(n)' <=> Runs(n)) /\ (Busy(n)' <=> Busy(n))
  BY <1>1, <1>2 DEF Runs, Busy, Holds
<1>8. \A n \in Msgs : n # m => PhaseOf(n)' = PhaseOf(n)
  BY <1>2, <1>5, <1>7, PhaseSame
<1>9. Life!Step(m, "running", "complete")
  BY <1>4, <1>6, <1>8, PhaseStep
<1>10. m \in {k \in Msgs : Kind[k] \notin Pools}
  BY <1>4
<1> QED BY <1>9, <1>10 DEF Life!Complete

\* done of a message a worker has run.
LEMMA PopReplyStep ==
  ASSUME LifeInv, LifeInv', PopReply
  PROVE  \E m \in Msgs : Life!Complete(m)
<1>1. PICK m \in Msgs : m = Head(replyq) /\ m \in Elements(replyq)
  BY LifeTypes, TailElements DEF PopReply
<1>2. /\ main.pc = "drain_reply" /\ main'.pc = "unref"
      /\ completed' = Append(completed, m) /\ UNCHANGED <<mem, worker, executed>>
  BY <1>1 DEF PopReply, memVars
<1>3. m \in executed /\ m \notin Elements(completed) /\ Kind[m] \in Pools
  BY <1>1 DEF LifeInv, Stage, KindOk
<1>4. mem[m] = "alloc"
  <2>1. mem[m] # "none" /\ ~Ended(m)
    BY <1>3 DEF LifeInv, Stage
  <2> QED BY <2>1, LifeTypes DEF Ended
<1>5. PhaseOf(m) = "ran"
  BY <1>3, <1>4 DEF PhaseOf
<1>6. Elements(completed') = Elements(completed) \cup {m}
  BY <1>2, LifeTypes, AppendSet
<1>7. PhaseOf(m)' = "complete"
  BY <1>2, <1>4, <1>6 DEF PhaseOf, Elements
<1>8. \A n \in Msgs : (Runs(n)' <=> Runs(n)) /\ (Busy(n)' <=> Busy(n))
  BY <1>2 DEF Runs, Busy, Holds
<1>9. \A n \in Msgs : n # m => PhaseOf(n)' = PhaseOf(n)
  BY <1>2, <1>6, <1>8, PhaseSame
<1>10. Life!Step(m, "ran", "complete")
  BY <1>5, <1>7, <1>9, PhaseStep
<1>11. m \notin {k \in Msgs : Kind[k] \notin Pools}
  BY <1>3
<1> QED BY <1>10, <1>11 DEF Life!Complete

\* mail_msg_free.
LEMMA FreeMsgStep ==
  ASSUME LifeInv, LifeInv', NEW m \in Msgs, FreeMsg(m)
  PROVE  Life!Release(m)
<1>1. /\ m \in freeIdle /\ mem' = [mem EXCEPT ![m] = "freed"]
      /\ UNCHANGED <<executed, completed, main, worker>>
  BY DEF FreeMsg, histVars
<1>2. mem'[m] = "freed" /\ \A n \in Msgs : n # m => mem'[n] = mem[n]
  BY <1>1, LifeTypes
<1>3. mem[m] = "alloc" /\ m \in Elements(completed)
  BY <1>1 DEF LifeInv, MemInv, Own, Stage, Ended
<1>4. PhaseOf(m) = "complete" /\ PhaseOf(m)' = "gone"
  BY <1>2, <1>3 DEF PhaseOf
<1>5. \A n \in Msgs : (Runs(n)' <=> Runs(n)) /\ (Busy(n)' <=> Busy(n))
  BY <1>1 DEF Runs, Busy, Holds
<1>6. \A n \in Msgs : n # m => PhaseOf(n)' = PhaseOf(n)
  BY <1>1, <1>2, <1>5, PhaseSame
<1> QED BY <1>4, <1>6, PhaseStep DEF Life!Release

LEMMA LifeStep ==
  ASSUME LifeInv, LifeInv', [Next]_vars
  PROVE  [Life!Next]_LifePhase
<1>1. ASSUME NEW m \in Msgs, Push(m) \/ CallDirect(m) \/ FreeMsg(m) \/ Submitted(m)
      PROVE  [Life!Next]_LifePhase
  <2>1. CASE Create(m) \/ CallDirect(m) \/ FreeMsg(m)
    BY <2>1, CreateStep, CallDirectStep, FreeMsgStep DEF Life!Next
  <2>2. CASE PushPool(m) \/ PushMain(m) \/ WakeMain(m) \/ Submitted(m)
    <3>1. UNCHANGED <<mem, completed, executed, main, worker>>
      BY <2>2 DEF PushPool, PushMain, WakeMain, Submitted, memVars, histVars
    <3> QED BY <3>1, AllSame DEF Runs, Busy, Holds
  <2> QED BY <1>1, <2>1, <2>2 DEF Push
<1>2. ASSUME NEW w \in Workers, WorkerStep(w) \/ \E m \in Msgs : CallNew(w, m)
      PROVE  [Life!Next]_LifePhase
  <2>1. CASE Take(w) \/ Reply(w) \/ \E m \in Msgs : CallNew(w, m)
    BY <2>1, TakeStep, ReplyStep, CallNewStep DEF Life!Next
  <2>2. CASE \/ Wake(w) \/ CallPush(w) \/ CallWake(w) \/ CallReturn(w) \/ CallUnref(w)
             \/ CallRetire(w)
    <3>1. /\ UNCHANGED <<executed, completed, main>>
          /\ \A n \in Msgs, v \in Workers : Holds(v, n)' <=> Holds(v, n)
      BY <2>2, CallKeeps
    <3>2. mem' = mem
      BY <2>2 DEF Wake, CallPush, CallWake, CallReturn, CallUnref, CallRetire, memVars
    <3> QED BY <3>1, <3>2, AllSame DEF Runs, Busy
  <2> QED BY <1>2, <2>1, <2>2 DEF WorkerStep
<1>3. ASSUME MainStep PROVE [Life!Next]_LifePhase
  <2>1. CASE PopMain \/ ExecMain \/ PopReply
    BY <2>1, PopMainStep, ExecMainStep, PopReplyStep DEF Life!Next
  <2>2. CASE Dispatch \/ MainEmpty \/ ReplyEmpty \/ Unref \/ Retire
    <3>1. UNCHANGED <<mem, completed, executed, worker>>
      BY <2>2 DEF Dispatch, MainEmpty, ReplyEmpty, Unref, Retire, memVars, histVars
    <3>2. main.pc \notin {"main_exec", "direct"} /\ main'.pc \notin {"main_exec", "direct"}
      <4>1. CASE Dispatch \/ MainEmpty \/ ReplyEmpty
        BY <4>1 DEF Dispatch, MainEmpty, ReplyEmpty, AtLoop
      <4>2. CASE Unref \/ Retire
        BY <4>2, LifeTypes DEF Unref, Retire, Return, AtLoop, MainState
      <4> QED BY <2>2, <4>1, <4>2
    <3> QED BY <3>1, <3>2, AllSame DEF Runs, Busy, Holds
  <2> QED BY <1>3, <2>1, <2>2 DEF MainStep
<1>4. ASSUME CancelAll \/ (\E c \in Cancellers : Cancel(c)) \/ Done \/ UNCHANGED vars
      PROVE  [Life!Next]_LifePhase
  <2>1. UNCHANGED <<mem, completed, executed, main, worker>>
    BY <1>4 DEF CancelAll, Cancel, Lookup, Fire, Drop, Done, vars, memVars, histVars
  <2> QED BY <2>1, AllSame DEF Runs, Busy, Holds
<1> QED BY <1>1, <1>2, <1>3, <1>4 DEF Next

LEMMA LifeStarts == Init => Life!Init
BY PhaseIs DEF Init, PhaseOf, Life!Init

\* The engine is an implementation of MsgLife: exec once, in a thread of the
\* message's pool or in the main loop, done once and later, mail_msg_free last.
THEOREM EngineImplementsLife == Spec => LifeSpec
<1>1. LifeInv /\ LifeInv' /\ [Next]_vars => [Life!Next]_LifePhase
  BY LifeStep
<1> QED BY <1>1, LifeInit, LifeNext, LifeStarts, PTL DEF Spec, LifeSpec, Life!Spec
=============================================================================
