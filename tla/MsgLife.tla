------------------------------ MODULE MsgLife ------------------------------
(***************************************************************************)
(* What the message engine of libemail-engine/mail-mt.c promises to the    *)
(* code that submits work: the life of a message as its callbacks see it.  *)
(* exec runs once, in a thread of the message's pool (of which there are   *)
(* Slots) or in the main loop; done runs once, later and in the main loop; *)
(* the message is freed last.                                              *)
(***************************************************************************)
EXTENDS Integers, FiniteSets

CONSTANTS Msgs, Pools, Kind, Slots,
          InMain   \* the messages whose exec runs in the main loop

VARIABLE phase   \* phase[m]: how far message m is

Init == phase = [m \in Msgs |-> "new"]

Step(m, from, to) == phase[m] = from /\ phase' = [phase EXCEPT ![m] = to]

RunningIn(p) == {m \in Msgs : phase[m] = "running" /\ Kind[m] = p}

\* mail_msg_new and a push
Submit(m) == Step(m, "new", "waiting")

\* A message starts when its pool has a free thread; the main loop, and a
\* mail_call_main in the main thread, run one at a time.
Start(m) ==
  /\ IF m \in InMain THEN \A n \in InMain : phase[n] # "running"
     ELSE Cardinality(RunningIn(Kind[m])) < Slots[Kind[m]]
  /\ Step(m, "waiting", "running")

StartAtOnce(m) ==
  /\ m \in InMain /\ \A n \in InMain : phase[n] # "running"
  /\ Step(m, "new", "running")

\* exec returns: in a worker the done callback is still to come.
Finish(m) == m \notin InMain /\ Step(m, "running", "ran")

Complete(m) == \/ m \notin InMain /\ Step(m, "ran", "complete")
               \/ m \in InMain /\ Step(m, "running", "complete")

\* mail_msg_free
Release(m) == Step(m, "complete", "gone")

Next == \E m \in Msgs : \/ Submit(m) \/ Start(m) \/ StartAtOnce(m) \/ Finish(m)
                        \/ Complete(m) \/ Release(m)

Spec == Init /\ [][Next]_phase
=============================================================================
