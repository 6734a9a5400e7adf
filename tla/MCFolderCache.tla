-------------------------- MODULE MCFolderCache --------------------------
(* One store whose two folders come, go and are renamed while two requests *)
(* for its list are outstanding.                                          *)
EXTENDS FolderCache, TLC
CONSTANTS st1, f1, f2, r1, r2
Info(n, state) == [name |-> n, state |-> state]
SomeLists == {<<>>, <<Info(f1, "select"), Info(f2, "noselect")>>,
              <<Info(f1, "select"), Info(f2, "select")>>}
AToB == {<< <<f1, f2>> >>}

\* Requests differ by name only.
Symmetry == Permutations({r1, r2})

\* Bound: once a folder was renamed, at most one request is outstanding.
Fewer ==
  (\E s \in Stores : renamed[s] # {}) =>
    Cardinality({r \in Requests : request[r] # None}) <= 1
=============================================================================
