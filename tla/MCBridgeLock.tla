---------------------------- MODULE MCBridgeLock ----------------------------
(* The lock of the bridge on small sets of processes. *)
EXTENDS BridgeLock, TLC

CONSTANTS p1, p2, p3, g1

Processes == {p1, p2, p3}
Ghosts == {g1}
Symmetric == Permutations(Processes)
=============================================================================
