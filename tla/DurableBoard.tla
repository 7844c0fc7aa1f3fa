---------------------------- MODULE DurableBoard ----------------------------
(***************************************************************************)
(* What the todo plugin promises about saving: the board is one durable    *)
(* map.  A call changes at most one task of it, in one step, at most once, *)
(* and is told that it saved only after the change is there.  A board that *)
(* does not parse never changes.                                           *)
(***************************************************************************)
CONSTANTS Task, Call, Absent, Corrupt

VARIABLES
    board,         \* the saved tasks, or Corrupt
    applied,       \* calls whose change is on the board
    acknowledged   \* calls that were told so

vars == <<board, applied, acknowledged>>

Init ==
    /\ board \in {[t \in Task |-> Absent], Corrupt}
    /\ applied = {}
    /\ acknowledged = {}

Save(c, t) ==
    /\ board # Corrupt
    /\ c \notin applied
    /\ \E v \in {c, Absent} : board' = [board EXCEPT ![t] = v]
    /\ applied' = applied \cup {c}
    /\ UNCHANGED acknowledged

Acknowledge(c) ==
    /\ c \in applied
    /\ acknowledged' = acknowledged \cup {c}
    /\ UNCHANGED <<board, applied>>

Next == \E c \in Call : Acknowledge(c) \/ \E t \in Task : Save(c, t)

Spec == Init /\ [][Next]_vars
=============================================================================
