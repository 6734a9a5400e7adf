------------------------------ MODULE MCFetch ------------------------------
(* Overlapping fetches of one account with two messages.                    *)
EXTENDS Fetch
CONSTANTS m1, m2, f1, f2
=============================================================================
