---------------------------- MODULE MCTaskStore ----------------------------
(***************************************************************************)
(* TaskStore on small sets: two instances, one after or beside the other.  *)
(***************************************************************************)
EXTENDS TaskStore, TLC

CONSTANTS p1, p2, t1, t2, c1, c2, c3

Plugins == {p1, p2}
Tasks == {t1, t2}
Calls == {c1, c2, c3}
TwoCalls == {c1, c2}
OneCreate == {c1}
TwoCreates == {c1, c2}

Symmetric == Permutations(Plugins) \cup Permutations(Tasks)
=============================================================================
