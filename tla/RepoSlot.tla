------------------------------ MODULE RepoSlot ------------------------------
(***************************************************************************)
(* What the queue of TaskQueue promises: every repository has one slot.  A *)
(* task asks for the slot and waits, holds it alone, and leaves it.  A     *)
(* holder may be told to stop; so may a task that is out, when its old     *)
(* session is to be stopped.  One that is stopping holds the slot again    *)
(* only if nobody has taken it.                                            *)
(***************************************************************************)
CONSTANTS Task, repoOf

VARIABLE phase   \* of each task: "out", "waiting", "holding" or "stopping"

Init == phase = [t \in Task |-> "out"]

Moves(t, from, to) == phase[t] \in from /\ phase' = [phase EXCEPT ![t] = to]

SlotFree(t) == \A u \in Task \ {t} : repoOf[u] = repoOf[t] => phase[u] # "holding"

Ask(t) == Moves(t, {"out"}, "waiting")

Withdraw(t) == Moves(t, {"waiting"}, "out")

Take(t) == SlotFree(t) /\ Moves(t, {"waiting", "stopping"}, "holding")

Stop(t) == Moves(t, {"out", "holding"}, "stopping")

Leave(t) == Moves(t, {"holding", "stopping"}, "out")

Next == \E t \in Task : Ask(t) \/ Withdraw(t) \/ Take(t) \/ Stop(t) \/ Leave(t)

Spec == Init /\ [][Next]_phase
=============================================================================
