---------------------------- MODULE MCSendRecv ----------------------------
(* A mailbox that is fetched, a store whose folders are updated, an account *)
(* that is neither, and two messages.                                       *)
EXTENDS SendRecv, TLC
CONSTANTS pop, imap, local, send, m1, m2
ThreeKinds ==
  (pop :> "receive") @@ (imap :> "update") @@ (local :> "invalid")
=============================================================================
