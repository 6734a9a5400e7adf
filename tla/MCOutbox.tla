------------------------------ MODULE MCOutbox ------------------------------
(* A message with recipients, and one without whose provider files it.      *)
EXTENDS Outbox
CONSTANTS m1, m2
=============================================================================
