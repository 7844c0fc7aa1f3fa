---------------------------- MODULE MCAgentMerge ----------------------------
(* Merging on small sets of tasks and windows. *)
EXTENDS AgentMerge, TLC

CONSTANTS t1, t2, w1, w2

TwoTasks == {t1, t2}
OneTask == {t1}
TwoWindows == {w1, w2}
OneWindow == {w1}
Symmetric == Permutations(TwoTasks) \cup Permutations(TwoWindows)
=============================================================================
