---------------------------- MODULE MCTaskQueue ----------------------------
(***************************************************************************)
(* Instances of TaskQueue for TLC.                                         *)
(***************************************************************************)
EXTENDS TaskQueue

CONSTANTS t1, t2, r1

OneTask == <<t1>>
TwoTasks == <<t1, t2>>
OneRepo == [t \in Task |-> r1]
=============================================================================
