--------------------------- MODULE FolderSignals ---------------------------
(***************************************************************************)
(* What mail-folder-cache.c promises to those who connect to its signals:  *)
(* the signals are a log of the changes of its table.  Each one tells of a *)
(* change that the folders known so far can undergo, none is left out, and *)
(* they come in order, though late.  Of a name that a rename has involved  *)
(* it promises no more than the order: the table takes whatever the store  *)
(* says of it.  The folder cache implements this; the search folders rely  *)
(* on it.                                                                  *)
(***************************************************************************)
EXTENDS Naturals, Sequences, FiniteSets, SequencesExt

CONSTANTS Stores, Names

VARIABLES
  known,    \* known[s]: the folders of the table that can be opened
  heard,    \* heard[s]: those the listeners have been told of
  signals,  \* changes they have not been told of yet
  renamed   \* renamed[s]: the names that renames have involved

signalVars == <<known, heard, signals, renamed>>

Signal(kind, s, name, old) == [kind |-> kind, store |-> s, name |-> name, old |-> old]

\* The folders after a change.
After(v, u) ==
  [v EXCEPT ![u.store] =
     CASE u.kind = "available" -> @ \cup {u.name}
       [] u.kind \in {"unavailable", "deleted"} -> @ \ {u.name}
       [] u.kind = "renamed" -> (@ \ {u.old}) \cup {u.name}]

\* A change that folders v can undergo; names in "free" may undergo any, and
\* only they are renamed.
Fits(v, u, free) ==
  IF u.kind = "renamed" THEN {u.old, u.name} \subseteq free[u.store]
  ELSE \/ u.name \in free[u.store]
       \/ u.name \in v[u.store] <=> u.kind # "available"

AfterAll(v, us) ==
  LET after[i \in 0..Len(us)] == IF i = 0 THEN v ELSE After(after[i - 1], us[i])
  IN  after[Len(us)]

IsLogFrom(v, us, free) ==
  \A i \in DOMAIN us : Fits(AfterAll(v, SubSeq(us, 1, i - 1)), us[i], free)

SignalsInit ==
  /\ known = [s \in Stores |-> {}] /\ heard = known /\ renamed = known
  /\ signals = <<>>

\* The table changes, under its mutex.
Record(batch) ==
  /\ \A s \in Stores : renamed[s] \subseteq renamed'[s]
  /\ IsLogFrom(known, batch, renamed')
  /\ signals' = signals \o batch
  /\ \A s \in Stores : known'[s] \ renamed'[s] = AfterAll(known, batch)[s] \ renamed'[s]
  /\ UNCHANGED heard

Change ==
  /\ IsPrefix(signals, signals')
  /\ Record(SubSeq(signals', Len(signals) + 1, Len(signals')))

\* The oldest signal is emitted, in the main loop.
Tell ==
  /\ signals # <<>>
  /\ heard' = After(heard, Head(signals))
  /\ signals' = Tail(signals)
  /\ UNCHANGED <<known, renamed>>

SignalsSpec == SignalsInit /\ [][Change \/ Tell]_signalVars
=============================================================================
