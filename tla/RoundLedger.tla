---------------------------- MODULE RoundLedger ----------------------------
(* What the bridge promises about the work it hands to Dot: the rounds of a *)
(* task follow one another, each is handed out once, at most `limit` of     *)
(* them are out when another one is handed out, and a round that is over is *)
(* never handed out or resumed again.                                       *)
EXTENDS Naturals, Sequences, FiniteSets

CONSTANT Tasks

VARIABLES
  ledger,   \* ledger[t] is the sequence of the phases of the rounds of task t
  limit     \* how many rounds may be out

vars == <<ledger, limit>>

Phases == {"waiting", "out", "over"}

IsOver(t) == \A r \in DOMAIN ledger[t] : ledger[t][r] = "over"
Out == {t \in Tasks : \E r \in DOMAIN ledger[t] : ledger[t][r] = "out"}

Init == /\ ledger \in [Tasks -> {<<>>, <<"waiting">>}]
        /\ limit \in Nat \ {0}

Open(t) == /\ IsOver(t)
           /\ ledger' = [ledger EXCEPT ![t] = Append(@, "waiting")]
           /\ UNCHANGED limit

(* One decision may hand out several rounds. *)
HandOut == \E S \in SUBSET Tasks :
             /\ S # {} /\ S \cap Out = {}
             /\ \A t \in S : ledger[t] # <<>> /\ ledger[t][Len(ledger[t])] = "waiting"
             /\ Cardinality(Out) + Cardinality(S) <= limit
             /\ ledger' = [t \in Tasks |-> IF t \in S THEN [ledger[t] EXCEPT ![Len(ledger[t])] = "out"]
                                           ELSE ledger[t]]
             /\ UNCHANGED limit

End(t) == \E r \in DOMAIN ledger[t] :
            /\ ledger[t][r] # "over"
            /\ ledger' = [ledger EXCEPT ![t][r] = "over"]
            /\ UNCHANGED limit

SetLimit == limit' \in Nat \ {0} /\ UNCHANGED ledger

Next == HandOut \/ SetLimit \/ \E t \in Tasks : Open(t) \/ End(t)

Spec == Init /\ [][Next]_vars
=============================================================================
