----------------------------- MODULE MCDataServer -----------------------------
(* A small daemon: an account with a folder and one that is created later,   *)
(* the local store with the Outbox, the search folder store with two folders *)
(* that searches make, two names, and one mail operation.                    *)
EXTENDS DataServer, TLC

CONSTANTS account, local, vee, inbox, late, outbox, found, found2, n1, n2, k1

MCServices == {account, local, vee}
MCShared   == {local, vee}
MCFolders  == {inbox, late, outbox, found, found2}
MCLate     == {late}
MCSearches == {found, found2}
MCHome     == inbox :> account @@ late :> account @@ outbox :> local
                  @@ found :> vee @@ found2 :> vee
MCNames    == {n1, n2}
MCGiven    == inbox :> n1 @@ late :> n1 @@ outbox :> n1
                  @@ found :> n1 @@ found2 :> n2
MCOps      == {k1}
==============================================================================
