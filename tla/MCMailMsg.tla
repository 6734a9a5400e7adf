----------------------------- MODULE MCMailMsg -----------------------------
(* Instances of MailMsg: an ordered pool of one thread and the unordered   *)
(* pool, with messages of each kind.                                       *)
EXTENDS MailMsg, TLC

CONSTANTS a, b, c, w1, w2

\* Two messages compete for the single thread of the ordered pool, and the
\* first may call the main thread while they do.
OrderedKind == (a :> "slow") @@ (b :> "slow") @@ (c :> "call")
\* A worker, the main loop queue and a call are active together.
MixedKind == (a :> "fast") @@ (b :> "main_loop") @@ (c :> "call")

SlowOnly == w1 :> "slow"
FastTwice == (w1 :> "fast") @@ (w2 :> "fast")
SamePriority == [m \in Msgs |-> 0]
HighC == [m \in Msgs |-> IF m = c THEN 1 ELSE 0]
=============================================================================
