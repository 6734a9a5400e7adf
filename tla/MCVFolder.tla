----------------------------- MODULE MCVFolder -----------------------------
(* A local store with two folders, a rule for local folders and one that   *)
(* names a folder.                                                          *)
EXTENDS VFolder
CONSTANTS st, f1, f2, byKind, byName
KindAndName == (byKind :> "local") @@ (byName :> "specific")
AToB == {<<f1, f2>>}
NamesF1 == (byKind :> {}) @@ (byName :> {<<st, f1>>})
=============================================================================
