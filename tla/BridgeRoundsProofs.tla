------------------------- MODULE BridgeRoundsProofs -------------------------
(***************************************************************************)
(* Proofs about BridgeRounds, for any number of tasks, rounds, messages    *)
(* and any limit: the tasks stay well-formed, a fenced round keeps its     *)
(* status, and the rounds implement RoundLedger.                           *)
(***************************************************************************)
EXTENDS BridgeRounds, FiniteSetTheorems, FunctionTheorems, TLAPS

TaskRow == [rounds : Seq(RoundType), status : Statuses, messages : 0 .. MaxMessages, canceled : BOOLEAN]

\* A task as every handler leaves it: its status is that of its current round, the
\* older rounds are over, a round closed here is stopped, and one that Dot has
\* claimed was handed out.
WellFormed(task) ==
    /\ task \in TaskRow
    /\ task.rounds # <<>> => task.status = Current(task).status
    /\ \A r \in 1 .. Len(task.rounds) : r # Newest(task) => task.rounds[r].status \in Terminal
    /\ \A r \in 1 .. Len(task.rounds) :
         /\ task.rounds[r].closed => task.rounds[r].status = "stopped"
         /\ task.rounds[r].claimed => task.rounds[r].status \in Working \cup Terminal
\* The coverage of a result is that of the latest input.
Covered(task) ==
    task.rounds # <<>> /\ Current(task).result.given =>
      (Current(task).result.covers <=> Current(task).result.read >= task.messages)
Sound(task) == WellFormed(task) /\ Covered(task)

TasksInv ==
    /\ tasks \in [Tasks -> TaskRow]
    /\ \A t \in Tasks : Sound(tasks[t])

Phase(task, r) == PhaseOf(task.rounds[r])

\* What a step may make of the rounds of a task: their phases stay, or the current
\* round is over, or a new one is opened when all are over.
Keeps(old, new) ==
    /\ Len(new.rounds) = Len(old.rounds)
    /\ \A r \in 1 .. Len(old.rounds) : Phase(new, r) = Phase(old, r)
Ends(old, new) ==
    /\ old.rounds # <<>>
    /\ Len(new.rounds) = Len(old.rounds)
    /\ \A r \in 1 .. Len(old.rounds) : r # Newest(old) => Phase(new, r) = Phase(old, r)
    /\ Phase(old, Newest(old)) # "over" /\ Phase(new, Newest(old)) = "over"
Opens(old, new) ==
    /\ Len(new.rounds) = Len(old.rounds) + 1
    /\ \A r \in 1 .. Len(old.rounds) : Phase(new, r) = Phase(old, r) /\ Phase(old, r) = "over"
    /\ Phase(new, Len(new.rounds)) = "waiting"
Fences(old, new) ==
    \A r \in 1 .. Len(old.rounds) : Fenced(old, r) => new.rounds[r].status = old.rounds[r].status
Moves(old, new) == (Keeps(old, new) \/ Ends(old, new) \/ Opens(old, new)) /\ Fences(old, new)

-----------------------------------------------------------------------------
(* What the operators on a task return *)

LEMMA RoundRow ==
  ASSUME NEW task \in TaskRow, NEW r \in 1 .. Len(task.rounds), NEW round \in RoundType
  PROVE  LET new == WithRound(task, r, round) IN
         /\ new \in TaskRow /\ new.rounds = [task.rounds EXCEPT ![r] = round]
         /\ Len(new.rounds) = Len(task.rounds)
         /\ new.rounds[r] = round /\ \A q \in 1 .. Len(task.rounds) : q # r => new.rounds[q] = task.rounds[q]
         /\ new.status = task.status /\ new.messages = task.messages /\ new.canceled = task.canceled
<1> DEFINE new == WithRound(task, r, round)
<1>1. new = [task EXCEPT !.rounds = [task.rounds EXCEPT ![r] = round]]
  BY DEF WithRound, TaskRow
<1>2. [task.rounds EXCEPT ![r] = round] \in Seq(RoundType) /\ Len([task.rounds EXCEPT ![r] = round]) = Len(task.rounds)
  BY DEF TaskRow
<1>3. /\ new \in TaskRow /\ new.rounds = [task.rounds EXCEPT ![r] = round]
      /\ new.status = task.status /\ new.messages = task.messages /\ new.canceled = task.canceled
  BY <1>1, <1>2 DEF TaskRow
<1>4. task.rounds \in Seq(RoundType)
  BY DEF TaskRow
<1> HIDE DEF new
<1> QED BY <1>2, <1>3, <1>4 DEF new

\* The current round is replaced; only its reminders may differ from what is given.
LEMMA StatusRow ==
  ASSUME NEW task \in TaskRow, task.rounds # <<>>, NEW round \in RoundType
  PROVE  LET new == WithStatus(task, round)  k == Newest(task) IN
         /\ new \in TaskRow /\ Len(new.rounds) = Len(task.rounds)
         /\ \A q \in 1 .. Len(task.rounds) : q # k => new.rounds[q] = task.rounds[q]
         /\ new.rounds[k] \in RoundType
         /\ new.rounds[k].status = round.status /\ new.rounds[k].claimed = round.claimed
         /\ new.rounds[k].closed = round.closed /\ new.rounds[k].result = round.result
         /\ new.status = round.status /\ new.messages = task.messages
<1> DEFINE new == WithStatus(task, round)
           k == Newest(task)
           given == [round EXCEPT !.wait = IF round.status = "dispatched" THEN @ ELSE NoWait]
           kept == WithRound(task, k, given)
<1>1. k \in 1 .. Len(task.rounds)
  BY DEF TaskRow, Newest
<1>2. given \in RoundType /\ given.status = round.status /\ given.claimed = round.claimed
      /\ given.closed = round.closed /\ given.result = round.result
  BY DEF RoundType, NoWait
<1>3. new = [kept EXCEPT !.status = round.status]
  BY DEF WithStatus
<1> HIDE DEF given
<1>4. /\ kept \in TaskRow /\ Len(kept.rounds) = Len(task.rounds) /\ kept.rounds[k] = given
      /\ \A q \in 1 .. Len(task.rounds) : q # k => kept.rounds[q] = task.rounds[q]
      /\ kept.messages = task.messages
  BY ZenonT(40), <1>1, <1>2, RoundRow
<1> HIDE DEF kept
<1>5. round.status \in Statuses
  BY DEF RoundType
<1>6. new \in TaskRow /\ new.rounds = kept.rounds /\ new.status = round.status /\ new.messages = kept.messages
  BY <1>3, <1>4, <1>5 DEF TaskRow
<1> HIDE DEF new, k
<1> QED BY <1>2, <1>4, <1>6 DEF new, k

LEMMA RecomputeRow ==
  ASSUME NEW task \in TaskRow, task.rounds # <<>>
  PROVE  LET new == Recompute(task)  k == Newest(task) IN
         /\ new \in TaskRow /\ Len(new.rounds) = Len(task.rounds)
         /\ \A q \in 1 .. Len(task.rounds) :
              /\ new.rounds[q].status = task.rounds[q].status
              /\ new.rounds[q].closed = task.rounds[q].closed
              /\ new.rounds[q].claimed = task.rounds[q].claimed
         /\ new.status = task.status /\ new.messages = task.messages
         /\ new.rounds[k].result.given => (new.rounds[k].result.covers <=> new.rounds[k].result.read >= new.messages)
<1> DEFINE new == Recompute(task)
           k == Newest(task)
           result == Current(task).result
           covers == result.read >= task.messages
           judged == [task.rounds[k] EXCEPT !.result = [result EXCEPT !.covers = covers]]
<1>1. k \in 1 .. Len(task.rounds) /\ task.rounds \in Seq(RoundType)
  BY DEF TaskRow, Newest
<1>2. task.rounds[k] \in RoundType /\ result = task.rounds[k].result
  BY <1>1 DEF Current, Newest
<1>3. CASE result.given
  <2>1. judged \in RoundType /\ judged.status = task.rounds[k].status /\ judged.closed = task.rounds[k].closed
        /\ judged.claimed = task.rounds[k].claimed /\ judged.result.covers = covers /\ judged.result.read = result.read
    <3>1. covers \in BOOLEAN
      OBVIOUS
    <3> HIDE DEF covers, result
    <3>2. [result EXCEPT !.covers = covers] \in [read : 0 .. MaxMessages, covers : BOOLEAN, given : BOOLEAN]
      BY <1>2, <3>1 DEF RoundType
    <3>3. result.read = [result EXCEPT !.covers = covers].read /\ [result EXCEPT !.covers = covers].covers = covers
      BY <1>2 DEF RoundType
    <3> QED BY <1>2, <3>2, <3>3 DEF RoundType
  <2>2. new = WithRound(task, k, judged)
    BY <1>2, <1>3 DEF Recompute, WithRound, TaskRow
  <2> HIDE DEF judged, k
  <2>3. /\ new \in TaskRow /\ Len(new.rounds) = Len(task.rounds) /\ new.rounds[k] = judged
        /\ \A q \in 1 .. Len(task.rounds) : q # k => new.rounds[q] = task.rounds[q]
        /\ new.status = task.status /\ new.messages = task.messages
    <3> DEFINE row == WithRound(task, k, judged)
    <3>1. /\ row \in TaskRow /\ Len(row.rounds) = Len(task.rounds) /\ row.rounds[k] = judged
          /\ \A q \in 1 .. Len(task.rounds) : q # k => row.rounds[q] = task.rounds[q]
          /\ row.status = task.status /\ row.messages = task.messages
      BY ZenonT(40), <1>1, <2>1, RoundRow
    <3>2. new = row
      BY <2>2
    <3> HIDE DEF row, new
    <3> QED BY <3>1, <3>2
  <2> QED BY <2>1, <2>3 DEF new, k
<1>4. CASE ~result.given
  <2>1. new = task
    BY <1>4 DEF Recompute
  <2> QED BY <1>2, <1>4, <2>1
<1> QED BY <1>3, <1>4

LEMMA OpenRow ==
  ASSUME NEW task \in TaskRow
  PROVE  LET new == OpenRound(task)  n == Len(task.rounds) IN
         /\ new \in TaskRow /\ Len(new.rounds) = n + 1
         /\ \A q \in 1 .. n : /\ new.rounds[q].status = task.rounds[q].status
                              /\ new.rounds[q].claimed = task.rounds[q].claimed
                              /\ ~new.rounds[q].closed
         /\ new.rounds[n + 1] = NewRound
         /\ new.status = "queued" /\ new.messages = task.messages
<1> DEFINE new == OpenRound(task)
           n == Len(task.rounds)
           past == [r \in DOMAIN task.rounds |-> Superseded(task.rounds[r])]
<1>1. task.rounds \in Seq(RoundType) /\ n \in Nat /\ DOMAIN task.rounds = 1 .. n
  BY DEF TaskRow
<1>2. NewRound \in RoundType
  BY RoundsAssumption DEF NewRound, RoundType, NoResult, NoWait, Statuses
<1>3. ASSUME NEW r \in 1 .. n
      PROVE  /\ Superseded(task.rounds[r]) \in RoundType /\ Superseded(task.rounds[r]).status = task.rounds[r].status
             /\ Superseded(task.rounds[r]).claimed = task.rounds[r].claimed /\ ~Superseded(task.rounds[r]).closed
  <2>1. task.rounds[r] \in RoundType
    BY <1>1
  <2>2. NoResult \in [read : 0 .. MaxMessages, covers : BOOLEAN, given : BOOLEAN] /\ 0 \in 0 .. MaxMessages
    BY RoundsAssumption DEF NoResult
  <2> QED BY <2>1, <2>2 DEF Superseded, RoundType
<1>4. past = [r \in 1 .. n |-> past[r]] /\ \A r \in 1 .. n : past[r] \in RoundType
  BY <1>1, <1>3
<1> HIDE DEF past
<1>5. past \in Seq(RoundType) /\ Len(past) = n
  BY <1>1, <1>4
<1>6. /\ Append(past, NewRound) \in Seq(RoundType) /\ Len(Append(past, NewRound)) = n + 1
      /\ \A r \in 1 .. n : Append(past, NewRound)[r] = past[r]
      /\ Append(past, NewRound)[n + 1] = NewRound
  BY <1>2, <1>5
<1>7. new = [task EXCEPT !.rounds = Append(past, NewRound), !.status = "queued"]
  BY DEF OpenRound, past, TaskRow
<1> HIDE DEF n
<1>8. new \in TaskRow /\ new.rounds = Append(past, NewRound) /\ new.status = "queued" /\ new.messages = task.messages
  BY <1>6, <1>7 DEF TaskRow, Statuses
<1>9. \A r \in 1 .. n : past[r] = Superseded(task.rounds[r])
  BY <1>1 DEF past
<1> HIDE DEF new
<1> QED BY <1>3, <1>6, <1>8, <1>9 DEF new, n

-----------------------------------------------------------------------------
(* What the handlers make of a task *)

\* The other fields of a task do not touch its rounds.
LEMMA FieldRow ==
  ASSUME NEW old, NEW task, WellFormed(task), Moves(old, task),
         NEW new \in TaskRow, new.rounds = task.rounds, new.status = task.status
  PROVE  WellFormed(new) /\ Moves(old, new)
<1>1. WellFormed(new)
  BY DEF WellFormed, Current, Newest
<1>2. Moves(old, new)
  BY DEF Moves, Keeps, Ends, Opens, Fences, Phase
<1> QED BY <1>1, <1>2

LEMMA MovesRefl ==
  ASSUME NEW task
  PROVE  Moves(task, task)
BY DEF Moves, Keeps, Fences

\* Saving judges the coverage again and moves no round.
LEMMA SavedRow ==
  ASSUME NEW old, NEW task, WellFormed(task), task.rounds # <<>>, Moves(old, task)
  PROVE  LET new == Recompute(task) IN
         Sound(new) /\ Moves(old, new) /\ new.rounds # <<>> /\ new.messages = task.messages
         /\ Len(new.rounds) = Len(task.rounds)
<1> DEFINE new == Recompute(task)
<1> task \in TaskRow /\ Len(task.rounds) \in Nat \ {0}
  BY DEF WellFormed, TaskRow
<1>1. /\ new \in TaskRow /\ Len(new.rounds) = Len(task.rounds)
      /\ \A q \in 1 .. Len(task.rounds) :
           /\ new.rounds[q].status = task.rounds[q].status
           /\ new.rounds[q].closed = task.rounds[q].closed
           /\ new.rounds[q].claimed = task.rounds[q].claimed
      /\ new.status = task.status /\ new.messages = task.messages
      /\ new.rounds[Newest(task)].result.given =>
           (new.rounds[Newest(task)].result.covers <=> new.rounds[Newest(task)].result.read >= new.messages)
  BY RecomputeRow
<1> HIDE DEF new
<1>2. WellFormed(new) /\ new.rounds # <<>>
  BY <1>1 DEF WellFormed, Current, Newest
<1>3. Covered(new)
  BY <1>1 DEF Covered, Current, Newest
<1>4. \A q \in 1 .. Len(task.rounds) : Phase(new, q) = Phase(task, q)
  BY <1>1 DEF Phase, PhaseOf
<1>5. Moves(old, new)
  <2>1. Fences(old, new)
    <3>1. \A r \in 1 .. Len(old.rounds) : r \in 1 .. Len(task.rounds)
      BY DEF Moves, Keeps, Ends, Opens
    <3> QED BY <1>1, <3>1 DEF Moves, Fences
  <2>2. CASE Keeps(old, task)
    BY <1>1, <1>4, <2>1, <2>2 DEF Moves, Keeps
  <2>3. CASE Ends(old, task)
    BY <1>1, <1>4, <2>1, <2>3 DEF Moves, Ends, Newest
  <2>4. CASE Opens(old, task)
    BY <1>1, <1>4, <2>1, <2>4 DEF Moves, Opens
  <2> QED BY <2>2, <2>3, <2>4 DEF Moves
<1> QED BY <1>1, <1>2, <1>3, <1>5 DEF Sound, new

\* What a replacement of the current round must satisfy: it is not resumed once
\* over, and not touched when it was closed here.
Replaces(old, new) ==
    /\ new \in RoundType
    /\ new.closed => new.status = "stopped"
    /\ new.claimed => new.status \in Working \cup Terminal
    /\ PhaseOf(new) = PhaseOf(old) \/ (PhaseOf(old) # "over" /\ PhaseOf(new) = "over")
    /\ old.closed => new.status = old.status

LEMMA StatusMoves ==
  ASSUME NEW old, WellFormed(old), old.rounds # <<>>, NEW round, Replaces(Current(old), round)
  PROVE  /\ WellFormed(WithStatus(old, round)) /\ Moves(old, WithStatus(old, round))
         /\ WithStatus(old, round).rounds # <<>> /\ Len(WithStatus(old, round).rounds) = Len(old.rounds)
<1> DEFINE new == WithStatus(old, round)
           k == Newest(old)
<1>1. old \in TaskRow /\ Len(old.rounds) \in Nat \ {0} /\ k = Len(old.rounds) /\ k \in 1 .. Len(old.rounds)
      /\ round \in RoundType /\ Current(old) = old.rounds[k]
  BY DEF WellFormed, TaskRow, Newest, Replaces, Current
<1>2. /\ new \in TaskRow /\ Len(new.rounds) = Len(old.rounds)
      /\ \A q \in 1 .. Len(old.rounds) : q # k => new.rounds[q] = old.rounds[q]
      /\ new.rounds[k].status = round.status /\ new.rounds[k].claimed = round.claimed
      /\ new.rounds[k].closed = round.closed /\ new.status = round.status
  BY <1>1, StatusRow
<1> HIDE DEF new
<1>3. WellFormed(new) /\ new.rounds # <<>>
  BY <1>1, <1>2 DEF WellFormed, Replaces, Current, Newest
<1>4. PhaseOf(new.rounds[k]) = PhaseOf(round)
  BY <1>2 DEF PhaseOf
<1>5. Fences(old, new)
  BY <1>1, <1>2 DEF Fences, Fenced, Replaces
<1> HIDE DEF k
<1>6. Keeps(old, new) \/ Ends(old, new)
  <2>1. CASE PhaseOf(round) = PhaseOf(old.rounds[k])
    BY <1>1, <1>2, <1>4, <2>1 DEF Keeps, Phase
  <2>2. CASE PhaseOf(old.rounds[k]) # "over" /\ PhaseOf(round) = "over"
    BY <1>1, <1>2, <1>4, <2>2 DEF Ends, Phase, k
  <2> QED BY <1>1, <2>1, <2>2 DEF Replaces
<1> QED BY <1>2, <1>3, <1>5, <1>6 DEF new, Moves

\* A new round is opened when the current one is over, or there is none.
LEMMA OpenMoves ==
  ASSUME NEW old, WellFormed(old), old.rounds # <<>> => old.status \in Terminal
  PROVE  WellFormed(OpenRound(old)) /\ Moves(old, OpenRound(old)) /\ OpenRound(old).rounds # <<>>
<1> DEFINE new == OpenRound(old)
           n == Len(old.rounds)
<1>1. old \in TaskRow /\ n \in Nat
  BY DEF WellFormed, TaskRow
<1>2. /\ new \in TaskRow /\ Len(new.rounds) = n + 1
      /\ \A q \in 1 .. n : /\ new.rounds[q].status = old.rounds[q].status
                           /\ new.rounds[q].claimed = old.rounds[q].claimed
                           /\ ~new.rounds[q].closed
      /\ new.rounds[n + 1] = NewRound
      /\ new.status = "queued" /\ new.messages = old.messages
  BY <1>1, OpenRow
<1> HIDE DEF new
<1>3. \A r \in 1 .. n : old.rounds[r].status \in Terminal
  BY <1>1 DEF WellFormed, Current, Newest
<1>4. NewRound.status = "queued" /\ ~NewRound.closed /\ ~NewRound.claimed
  BY DEF NewRound
<1>5. WellFormed(new) /\ new.rounds # <<>>
  <2>1. Current(new) = NewRound /\ Newest(new) = n + 1 /\ new.rounds # <<>>
    BY <1>1, <1>2 DEF Current, Newest
  <2>2. new.status = Current(new).status
    BY <1>2, <1>4, <2>1
  <2>3. \A r \in 1 .. n + 1 : r # n + 1 => r \in 1 .. n
    BY <1>1
  <2> QED BY <1>1, <1>2, <1>3, <1>4, <2>1, <2>2, <2>3 DEF WellFormed
<1>6. Fences(old, new)
  BY <1>2 DEF Fences
<1>7. Opens(old, new)
  <2>1. \A r \in 1 .. n : PhaseOf(old.rounds[r]) = "over"
    BY <1>3 DEF PhaseOf, Terminal, Occupying, Working
  <2>2. PhaseOf(new.rounds[n + 1]) = "waiting"
    BY <1>2, <1>4 DEF PhaseOf, Occupying, Working
  <2> QED BY <1>1, <1>2, <2>1, <2>2 DEF Opens, Phase, PhaseOf
<1> QED BY <1>5, <1>6, <1>7 DEF new, Moves

\* A round keeps its place among the older ones, with the status it had.
LEMMA RoundMoves ==
  ASSUME NEW old, WellFormed(old), NEW r \in 1 .. Len(old.rounds), NEW round \in RoundType,
         round.status = old.rounds[r].status, round.closed = old.rounds[r].closed, round.claimed = old.rounds[r].claimed
  PROVE  /\ WellFormed(WithRound(old, r, round)) /\ Moves(old, WithRound(old, r, round))
         /\ WithRound(old, r, round).rounds # <<>> /\ Len(WithRound(old, r, round).rounds) = Len(old.rounds)
<1> DEFINE new == WithRound(old, r, round)
<1>1. old \in TaskRow /\ Len(old.rounds) \in Nat
  BY DEF WellFormed, TaskRow
<1>2. /\ new \in TaskRow /\ Len(new.rounds) = Len(old.rounds)
      /\ new.rounds[r] = round /\ \A q \in 1 .. Len(old.rounds) : q # r => new.rounds[q] = old.rounds[q]
      /\ new.status = old.status
  BY ZenonT(40), <1>1, RoundRow
<1> HIDE DEF new
<1>3. WellFormed(new) /\ new.rounds # <<>>
  BY SMTT(30), <1>1, <1>2 DEF WellFormed, Current, Newest
<1>4. Keeps(old, new) /\ Fences(old, new)
  BY <1>1, <1>2 DEF Keeps, Fences, Phase, PhaseOf
<1> QED BY <1>2, <1>3, <1>4 DEF new, Moves

-----------------------------------------------------------------------------
(* The handlers *)

OneMoves(t) ==
    /\ Sound(tasks'[t]) /\ Moves(tasks[t], tasks'[t]) /\ tasks' \in [Tasks -> TaskRow]
    /\ MayOpen \/ Len(tasks'[t].rounds) = Len(tasks[t].rounds)
    /\ \A u \in Tasks : u # t => tasks'[u] = tasks[u]
    /\ UNCHANGED <<route, cap, plan>>

LEMMA SaveMoves ==
  ASSUME TasksInv, NEW t \in Tasks, NEW task, WellFormed(task), task.rounds # <<>>, Moves(tasks[t], task), Save(t, task),
         MayOpen \/ Len(task.rounds) = Len(tasks[t].rounds)
  PROVE  OneMoves(t)
<1>1. tasks' = [tasks EXCEPT ![t] = Recompute(task)] /\ UNCHANGED <<route, cap, plan>>
  BY DEF Save
<1>2. Sound(Recompute(task)) /\ Moves(tasks[t], Recompute(task)) /\ Len(Recompute(task).rounds) = Len(task.rounds)
  BY SavedRow
<1>3. Recompute(task) \in TaskRow
  BY <1>2 DEF Sound, WellFormed
<1> QED BY <1>1, <1>2, <1>3 DEF TasksInv, OneMoves

LEMMA HandlerMoves ==
  ASSUME TasksInv, NEW t \in Tasks, UserStep(t) \/ DotStep(t)
  PROVE  OneMoves(t)
<1> DEFINE old == tasks[t]
           k == Newest(old)
           round == Current(old)
<1>1. WellFormed(old) /\ old \in TaskRow
  BY DEF TasksInv, Sound
<1>2. Exists(t) => /\ old.rounds # <<>> /\ k \in 1 .. Len(old.rounds) /\ round = old.rounds[k] /\ round \in RoundType
                   /\ old.status = round.status
  BY <1>1 DEF Exists, Newest, Current, TaskRow, WellFormed
<1>3. Exists(t) => /\ round.closed => round.status = "stopped"
                   /\ round.claimed => round.status \in Working \cup Terminal
  BY <1>1, <1>2 DEF WellFormed
\* One message more, on the task or on the round that was opened for it.
<1>4. ASSUME NEW base, WellFormed(base), base.rounds # <<>>, Moves(old, base), base.messages < MaxMessages,
             MayOpen \/ Len(base.rounds) = Len(old.rounds), Save(t, AppendUserMessage(base))
      PROVE  OneMoves(t)
  <2> DEFINE more == [base EXCEPT !.messages = @ + 1]
  <2>1. base \in TaskRow /\ base.canceled \in BOOLEAN /\ base.messages + 1 \in 0 .. MaxMessages
    BY <1>4, RoundsAssumption DEF WellFormed, TaskRow
  <2>2. more \in TaskRow /\ more.rounds = base.rounds /\ more.status = base.status
    BY <2>1 DEF TaskRow
  <2> HIDE DEF more
  <2>3. WellFormed(more) /\ Moves(old, more) /\ more.rounds # <<>>
    BY <1>4, <2>1, <2>2, FieldRow
  <2>4. Sound(Recompute(more)) /\ Moves(old, Recompute(more)) /\ Recompute(more).rounds # <<>>
        /\ Len(Recompute(more).rounds) = Len(more.rounds)
    BY <2>3, SavedRow
  <2> QED BY <1>4, <2>2, <2>4, SaveMoves DEF AppendUserMessage, more, Sound
<1>5. ASSUME NEW b \in BOOLEAN, NEW task, WellFormed(task), task.rounds # <<>>, Moves(old, task)
      PROVE  LET new == [task EXCEPT !.canceled = b] IN
             WellFormed(new) /\ Moves(old, new) /\ new.rounds # <<>> /\ new.messages = task.messages
             /\ new.rounds = task.rounds
  <2>1. task \in TaskRow /\ task.messages \in 0 .. MaxMessages
    BY <1>5 DEF WellFormed, TaskRow
  <2> DEFINE new == [task EXCEPT !.canceled = b]
  <2>2. new \in TaskRow /\ new.rounds = task.rounds /\ new.status = task.status
    BY <2>1 DEF TaskRow
  <2>3. new.messages = task.messages
    BY <2>1 DEF TaskRow
  <2> HIDE DEF new
  <2>4. WellFormed(new) /\ Moves(old, new)
    BY <1>5, <2>1, <2>2, FieldRow
  <2> QED BY <1>5, <2>2, <2>3, <2>4 DEF new
<1>6. ASSUME NEW new, Replaces(round, new), Exists(t)
      PROVE  /\ WellFormed(WithStatus(old, new)) /\ Moves(old, WithStatus(old, new))
             /\ WithStatus(old, new).rounds # <<>> /\ Len(WithStatus(old, new).rounds) = Len(old.rounds)
  BY <1>1, <1>2, <1>6, StatusMoves
<1>7. old.status \in Terminal =>
        /\ WellFormed(OpenRound(old)) /\ Moves(old, OpenRound(old)) /\ OpenRound(old).rounds # <<>>
        /\ OpenRound(old).messages = old.messages
  BY <1>1, OpenMoves, OpenRow
<1>8. old.status \in Terminal =>
        /\ WellFormed(RetryRound(old)) /\ Moves(old, RetryRound(old)) /\ RetryRound(old).rounds # <<>>
        /\ RetryRound(old).messages = old.messages
  BY <1>5, <1>7 DEF RetryRound
<1>9. CASE CreateTask(t)
  <2> DEFINE new == OpenRound(NoTask)
             first == [new EXCEPT !.messages = 1]
  <2>1. NoTask \in TaskRow /\ WellFormed(NoTask) /\ NoTask.rounds = <<>>
    BY RoundsAssumption DEF NoTask, TaskRow, WellFormed, Statuses
  <2>2. WellFormed(new) /\ Moves(NoTask, new) /\ new.rounds # <<>>
    BY <2>1, OpenMoves
  <2>3. Moves(old, new)
    BY <1>9, <2>1, <2>2 DEF CreateTask, Exists, Moves, Keeps, Ends, Opens, Fences, Fenced, Phase, Newest
  <2> HIDE DEF new
  <2>4. new \in TaskRow /\ 1 \in 0 .. MaxMessages /\ new.canceled \in BOOLEAN
    BY <2>2, RoundsAssumption DEF WellFormed, TaskRow
  <2>5. first \in TaskRow /\ first.rounds = new.rounds /\ first.status = new.status
    BY <2>4 DEF TaskRow
  <2> HIDE DEF first
  <2>6. WellFormed(first) /\ Moves(old, first) /\ first.rounds # <<>>
    BY <2>2, <2>3, <2>4, <2>5, FieldRow
  <2> QED BY <1>9, <2>6, SaveMoves DEF CreateTask, first, new
<1>10. CASE AddMessage(t)
  <2>1. Exists(t) /\ old.messages < MaxMessages /\ Save(t, AppendUserMessage(old))
    BY <1>10 DEF AddMessage
  <2> QED BY <1>1, <1>2, <1>4, <2>1, MovesRefl
<1>11. ASSUME NEW steer \in BOOLEAN, Prompt(t, steer) PROVE OneMoves(t)
  <2>1. Exists(t) /\ old.messages < MaxMessages /\ (old.status \in Terminal => MayOpen)
    BY <1>11 DEF Prompt
  <2>2. CASE old.status \in Terminal
    <3>1. Save(t, AppendUserMessage(OpenRound(old))) \/ Save(t, AppendUserMessage(RetryRound(old)))
      BY <1>11, <2>2 DEF Prompt, Terminal
    <3> QED BY <1>4, <1>7, <1>8, <2>1, <2>2, <3>1
  <2>3. CASE old.status \notin Terminal
    <3>1. Save(t, AppendUserMessage(old))
      BY <1>11, <2>3 DEF Prompt, Terminal
    <3> QED BY <1>1, <1>2, <1>4, <2>1, <3>1, MovesRefl
  <2> QED BY <2>2, <2>3
<1>12. CASE CreateRound(t)
  <2>1. old.status \in Terminal /\ MayOpen /\ Save(t, OpenRound(old))
    BY <1>2, <1>12 DEF CreateRound, Terminal
  <2> QED BY <1>7, <2>1, SaveMoves
<1>13. CASE Retry(t)
  <2>1. old.status \in Terminal /\ MayOpen /\ Save(t, RetryRound(old))
    BY <1>2, <1>13 DEF Retry, Retryable, Terminal
  <2> QED BY <1>8, <2>1, SaveMoves
<1>14. CASE Cancel(t)
  <2> DEFINE asked == [round EXCEPT !.stop = TRUE]
             ended == [asked EXCEPT !.status = "stopped"]
  <2>1. Exists(t) /\ round \in RoundType
    BY <1>2, <1>14 DEF Cancel
  <2>2. CASE Unclaimed(round)
    <3>1. ended = [round EXCEPT !.stop = TRUE, !.status = "stopped"]
      BY <2>1 DEF RoundType
    <3>2. ended \in RoundType /\ ended.status = "stopped" /\ ended.closed = round.closed
      BY <2>1, <3>1 DEF RoundType, Statuses, Terminal
    <3>3. PhaseOf(ended) = "over"
      BY <3>2 DEF PhaseOf, Occupying, Working
    <3>4. PhaseOf(round) # "over"
      BY <2>2 DEF Unclaimed, PhaseOf, Occupying
    <3>5. ended.closed => ended.status = round.status
      BY <1>3, <2>1, <3>2
    <3>6. Replaces(round, ended)
      BY <3>2, <3>3, <3>4, <3>5 DEF Replaces, Terminal
    <3>7. Save(t, [WithStatus(old, ended) EXCEPT !.canceled = TRUE])
      BY <1>14, <2>2 DEF Cancel
    <3> HIDE DEF ended, asked
    <3>8. /\ WellFormed(WithStatus(old, ended)) /\ Moves(old, WithStatus(old, ended))
          /\ WithStatus(old, ended).rounds # <<>> /\ Len(WithStatus(old, ended).rounds) = Len(old.rounds)
      BY <1>6, <2>1, <3>6
    <3> QED BY <1>5, <3>7, <3>8, SaveMoves
  <2>3. CASE ~Unclaimed(round)
    <3>1. asked \in RoundType /\ asked.status = round.status /\ asked.closed = round.closed /\ asked.claimed = round.claimed
      BY <2>1 DEF RoundType
    <3>2. Replaces(round, asked)
      BY <1>3, <2>1, <3>1 DEF Replaces, PhaseOf
    <3>3. Save(t, WithStatus(old, asked))
      BY <1>14, <2>3 DEF Cancel
    <3> HIDE DEF asked
    <3> QED BY <1>6, <2>1, <3>2, <3>3, SaveMoves
  <2> QED BY <2>2, <2>3
<1>15. CASE CloseLocal(t)
  <2> DEFINE ended == [round EXCEPT !.status = "stopped", !.closed = TRUE]
  <2>1. Exists(t) /\ round \in RoundType /\ round.status \in Occupying /\ Save(t, WithStatus(old, ended))
    BY <1>2, <1>15 DEF CloseLocal
  <2>2. ended \in RoundType /\ ended.status = "stopped"
    BY <2>1 DEF RoundType, Statuses, Terminal
  <2>3. PhaseOf(ended) = "over" /\ PhaseOf(round) # "over"
    BY <2>1, <2>2 DEF PhaseOf, Occupying, Working
  <2>4. ~round.closed
    BY <1>3, <2>1 DEF Occupying, Working
  <2>5. Replaces(round, ended)
    BY <2>2, <2>3, <2>4 DEF Replaces, Terminal
  <2> HIDE DEF ended
  <2> QED BY <1>6, <2>1, <2>5, SaveMoves
<1>16. CASE Claim(t)
  <2> DEFINE claimed == [round EXCEPT !.status = "claimed", !.claimed = TRUE]
  <2>1. Exists(t) /\ round \in RoundType /\ round.status = "dispatched" /\ Save(t, WithStatus(old, claimed))
    BY <1>2, <1>16 DEF Claim
  <2>2. claimed \in RoundType /\ claimed.status = "claimed" /\ claimed.closed = round.closed
    BY <2>1 DEF RoundType, Statuses, Occupying, Working
  <2>3. PhaseOf(claimed) = PhaseOf(round)
    BY <2>1, <2>2 DEF PhaseOf, Occupying, Working
  <2>4. Replaces(round, claimed)
    BY <1>3, <2>1, <2>2, <2>3 DEF Replaces, Working
  <2> HIDE DEF claimed
  <2> QED BY <1>6, <2>1, <2>4, SaveMoves
<1>17. ASSUME NEW r \in DOMAIN old.rounds, NEW read \in 0 .. old.messages, NEW kind \in Reports,
              ReportProgress(t, r, kind, read)
       PROVE  OneMoves(t)
  <2> DEFINE seen == [old.rounds[r] EXCEPT !.read = IF r = Newest(old) /\ read > @ THEN read ELSE @,
                                           !.reported = @ \/ (kind = "stopped" /\ old.rounds[r].stop)]
             moved == [seen EXCEPT !.status = kind]
  <2>1. r \in 1 .. Len(old.rounds) /\ old.rounds[r] \in RoundType /\ Exists(t) /\ old.rounds[r].claimed
    BY <1>1, <1>17 DEF ReportProgress, Exists, TaskRow
  <2>2. old.messages \in 0 .. MaxMessages
    BY <1>1 DEF TaskRow
  <2>3. /\ seen \in RoundType /\ seen.status = old.rounds[r].status
        /\ seen.closed = old.rounds[r].closed /\ seen.claimed = old.rounds[r].claimed
    <3>1. read \in 0 .. MaxMessages
      BY <2>2, RoundsAssumption
    <3>2. (IF r = Newest(old) /\ read > old.rounds[r].read THEN read ELSE old.rounds[r].read) \in 0 .. MaxMessages
      BY <2>1, <3>1 DEF RoundType
    <3>3. (old.rounds[r].reported \/ (kind = "stopped" /\ old.rounds[r].stop)) \in BOOLEAN
      OBVIOUS
    <3> QED BY <2>1, <3>2, <3>3 DEF RoundType
  <2>4. CASE HistoryOnly(old, r, kind, read)
    <3>1. Save(t, WithRound(old, r, seen))
      BY <1>17, <2>4 DEF ReportProgress
    <3> HIDE DEF seen
    <3> QED BY <1>1, <2>1, <2>3, <3>1, RoundMoves, SaveMoves
  <2>5. CASE ~HistoryOnly(old, r, kind, read)
    <3>1. Save(t, WithStatus(old, moved)) /\ r = k /\ old.rounds[r].status \notin Terminal
      BY <1>17, <2>5 DEF ReportProgress, HistoryOnly
    <3> HIDE DEF seen
    <3>2. kind \in {"running", "failed", "stopped"}
      BY RoundsAssumption
    <3>3. moved \in RoundType /\ moved.status = kind /\ moved.closed = seen.closed /\ moved.claimed = seen.claimed
      BY <2>3, <3>2 DEF RoundType, Statuses, Occupying, Working, Terminal
    <3>4. old.rounds[r] = round /\ round.status \in Working
      BY <1>2, <1>3, <2>1, <3>1
    <3>5. PhaseOf(round) = "out" /\ PhaseOf(moved) \in {"out", "over"}
      BY <3>2, <3>3, <3>4 DEF PhaseOf, Occupying, Working
    <3>6. ~round.closed
      BY <1>3, <2>1, <3>4 DEF Working
    <3>7. Replaces(round, moved)
      BY <2>3, <3>2, <3>3, <3>4, <3>5, <3>6 DEF Replaces, Working, Terminal
    <3> HIDE DEF moved
    <3> QED BY <1>6, <2>1, <3>1, <3>7, SaveMoves
  <2> QED BY <2>4, <2>5
<1>18. ASSUME NEW r \in DOMAIN old.rounds, NEW read \in 0 .. old.messages, SubmitResult(t, r, read)
       PROVE  OneMoves(t)
  <2> DEFINE given == [old.rounds[r] EXCEPT !.result = [read |-> read, covers |-> read >= old.messages, given |-> TRUE],
                                            !.read = IF read > @ THEN read ELSE @]
             ended == [given EXCEPT !.status = "completed"]
  <2>1. r \in 1 .. Len(old.rounds) /\ old.rounds[r] \in RoundType /\ Exists(t) /\ old.rounds[r].claimed
    BY <1>1, <1>18 DEF SubmitResult, Exists, TaskRow
  <2>2. old.messages \in 0 .. MaxMessages
    BY <1>1 DEF TaskRow
  <2>3. /\ given \in RoundType /\ given.status = old.rounds[r].status
        /\ given.closed = old.rounds[r].closed /\ given.claimed = old.rounds[r].claimed
    <3>1. read \in 0 .. MaxMessages
      BY <2>2, RoundsAssumption
    <3>2. (IF read > old.rounds[r].read THEN read ELSE old.rounds[r].read) \in 0 .. MaxMessages
      BY <2>1, <3>1 DEF RoundType
    <3>3. [read |-> read, covers |-> read >= old.messages, given |-> TRUE]
            \in [read : 0 .. MaxMessages, covers : BOOLEAN, given : BOOLEAN]
      BY <3>1
    <3> QED BY <2>1, <3>2, <3>3 DEF RoundType
  <2>4. CASE Accepts(old, r)
    <3>1. Save(t, WithStatus(old, ended)) /\ r = k /\ ~old.rounds[r].closed
      BY <1>18, <2>4 DEF SubmitResult, Accepts
    <3> HIDE DEF given
    <3>2. ended \in RoundType /\ ended.status = "completed" /\ ended.closed = given.closed
      BY <2>3 DEF RoundType, Statuses, Terminal
    <3>3. PhaseOf(ended) = "over"
      BY <3>2 DEF PhaseOf, Occupying, Working
    <3>4. Replaces(round, ended)
      BY <1>2, <2>1, <2>3, <3>1, <3>2, <3>3 DEF Replaces, Terminal
    <3> HIDE DEF ended
    <3> QED BY <1>6, <2>1, <3>1, <3>4, SaveMoves
  <2>5. CASE ~Accepts(old, r) /\ r = k
    <3>1. Save(t, WithRound(old, r, given))
      BY <1>18, <2>5 DEF SubmitResult
    <3> HIDE DEF given
    <3> QED BY <1>1, <2>1, <2>3, <3>1, RoundMoves, SaveMoves
  <2>6. CASE ~Accepts(old, r) /\ r # k
    BY <1>18, <2>6 DEF SubmitResult
  <2> QED BY <2>4, <2>5, <2>6
<1> QED BY <1>9, <1>10, <1>11, <1>12, <1>13, <1>14, <1>15, <1>16, <1>17, <1>18 DEF UserStep, DotStep
-----------------------------------------------------------------------------
(* The dispatch *)

LEMMA TasksFinite ==
  /\ IsFiniteSet(Tasks) /\ Tasks \subseteq Nat
  /\ \A S \in SUBSET Tasks : IsFiniteSet(S) /\ Cardinality(S) \in Nat
<1>1. IsFiniteSet(Tasks) /\ Tasks \subseteq Nat
  BY SMTT(30), FS_Interval, RoundsAssumption DEF Tasks
<1> QED BY <1>1, FS_Subset, FS_CardinalityType

Before(S, t) == {x \in S : x < t}

\* The oldest n are at most n: how many are older tells them apart.
LEMMA OldestBound ==
  ASSUME NEW S \in SUBSET Tasks, NEW n \in Nat
  PROVE  Cardinality(Oldest(S, n)) <= n
<1> DEFINE f == [t \in Oldest(S, n) |-> Cardinality(Before(S, t)) + 1]
<1>1. \A t \in S : Before(S, t) \in SUBSET Tasks /\ IsFiniteSet(Before(S, t)) /\ Cardinality(Before(S, t)) \in Nat
  BY TasksFinite DEF Before
<1>2. \A t \in Oldest(S, n) : t \in S /\ Cardinality(Before(S, t)) < n
  BY DEF Oldest, Before
<1>3. f \in [Oldest(S, n) -> 1 .. n]
  BY <1>1, <1>2
<1>4. ASSUME NEW t \in S, NEW v \in S, t < v PROVE Cardinality(Before(S, t)) # Cardinality(Before(S, v))
  <2>1. S \subseteq Nat
    BY TasksFinite
  <2>2. ASSUME NEW x \in Before(S, t) PROVE x \in Before(S, v)
    BY <1>4, <2>1, <2>2 DEF Before
  <2>3. t \in Before(S, v) /\ t \notin Before(S, t)
    BY <1>4, <2>1 DEF Before
  <2>4. IsFiniteSet(Before(S, v))
    BY <1>1
  <2> QED BY <2>2, <2>3, <2>4, FS_Subset
<1>5. \A t, v \in Oldest(S, n) : f[t] = f[v] => t = v
  <2>1. ASSUME NEW t \in Oldest(S, n), NEW v \in Oldest(S, n), f[t] = f[v] PROVE t = v
    <3>1. t \in S /\ v \in S /\ t \in Nat /\ v \in Nat
      BY <1>2, TasksFinite
    <3> DEFINE a == Cardinality(Before(S, t))
               b == Cardinality(Before(S, v))
    <3>2. a \in Nat /\ b \in Nat /\ a + 1 = b + 1
      BY <1>1, <2>1, <3>1
    <3> HIDE DEF a, b
    <3>3. a = b
      BY <3>2
    <3> QED BY <1>4, <3>1, <3>3 DEF a, b
  <2> QED BY <2>1
<1>6. f \in Injection(Oldest(S, n), 1 .. n)
  BY <1>3, <1>5, Fun_IsInj
<1>7. IsFiniteSet(1 .. n) /\ Cardinality(1 .. n) = n
  BY FS_Interval
<1> HIDE DEF f
<1> QED BY <1>6, <1>7, FS_Injection

\* The current round is handed out.
HandsOut(old, new) ==
    /\ old.rounds # <<>>
    /\ Len(new.rounds) = Len(old.rounds)
    /\ \A r \in 1 .. Len(old.rounds) : r # Newest(old) => Phase(new, r) = Phase(old, r)
    /\ Phase(old, Newest(old)) = "waiting" /\ Phase(new, Newest(old)) = "out"

LEMMA SendMoves ==
  ASSUME TasksInv, NEW S \in SUBSET Queued, SendOut(S)
  PROVE  /\ TasksInv'
         /\ \A t \in S : HandsOut(tasks[t], tasks'[t]) /\ Fences(tasks[t], tasks'[t])
         /\ \A t \in Tasks \ S : tasks'[t] = tasks[t]
<1>1. ASSUME NEW t \in S
      PROVE  Sound(tasks'[t]) /\ tasks'[t] \in TaskRow /\ HandsOut(tasks[t], tasks'[t]) /\ Fences(tasks[t], tasks'[t])
  <2> DEFINE old == tasks[t]
             k == Newest(old)
             sent == [Current(old) EXCEPT !.status = "dispatched"]
             mid == WithStatus(old, sent)
             new == Recompute(mid)
  <2>1. t \in Tasks /\ old.rounds # <<>> /\ Current(old).status = "queued" /\ tasks'[t] = new
    BY DEF Queued, Exists, SendOut
  <2>2. WellFormed(old) /\ old \in TaskRow /\ Len(old.rounds) \in Nat \ {0} /\ k = Len(old.rounds) /\ k \in 1 .. Len(old.rounds)
        /\ Current(old) = old.rounds[k] /\ old.rounds[k] \in RoundType
    BY <2>1 DEF TasksInv, Sound, WellFormed, TaskRow, Newest, Current
  <2>3. ~old.rounds[k].closed /\ ~old.rounds[k].claimed
    BY <2>1, <2>2 DEF WellFormed, Working, Terminal
  <2>4. sent \in RoundType /\ sent.status = "dispatched" /\ ~sent.closed /\ ~sent.claimed
    BY <2>2, <2>3 DEF RoundType, Statuses, Occupying
  <2> HIDE DEF sent
  <2>5. /\ mid \in TaskRow /\ Len(mid.rounds) = Len(old.rounds)
        /\ \A q \in 1 .. Len(old.rounds) : q # k => mid.rounds[q] = old.rounds[q]
        /\ mid.rounds[k].status = "dispatched" /\ ~mid.rounds[k].claimed /\ ~mid.rounds[k].closed
        /\ mid.status = "dispatched" /\ mid.messages = old.messages
    BY <2>1, <2>2, <2>4, StatusRow
  <2> HIDE DEF mid
  <2>6. WellFormed(mid) /\ mid.rounds # <<>>
    <3>1. mid.rounds # <<>> /\ Newest(mid) = k /\ Current(mid) = mid.rounds[k]
      BY <2>2, <2>5 DEF Newest, Current
    <3> HIDE DEF k
    <3>2. \A r \in 1 .. Len(old.rounds) : r # k => old.rounds[r].status \in Terminal
      BY <2>2 DEF WellFormed, k
    <3> QED BY SMTT(30), <2>2, <2>5, <3>1, <3>2 DEF WellFormed
  <2>7. Moves(mid, new) /\ Sound(new) /\ Len(new.rounds) = Len(mid.rounds)
    BY <2>6, MovesRefl, SavedRow
  <2>8. new \in TaskRow
    BY <2>7 DEF Sound, WellFormed
  <2>9. /\ Len(new.rounds) = Len(old.rounds)
        /\ \A q \in 1 .. Len(old.rounds) : new.rounds[q].status = mid.rounds[q].status
    BY <2>5, <2>6, RecomputeRow
  <2> HIDE DEF new
  <2>10. Fences(old, new)
    BY <2>2, <2>3, <2>5, <2>9 DEF Fences, Fenced
  <2>11. HandsOut(old, new)
    <3>1. \A q \in 1 .. Len(old.rounds) : q # k => PhaseOf(new.rounds[q]) = PhaseOf(old.rounds[q])
      BY <2>5, <2>9 DEF PhaseOf
    <3>2. PhaseOf(old.rounds[k]) = "waiting"
      BY <2>1, <2>2 DEF PhaseOf, Occupying, Working
    <3>3. PhaseOf(new.rounds[k]) = "out"
      BY <2>2, <2>5, <2>9 DEF PhaseOf, Occupying, Working
    <3> QED BY <2>1, <2>9, <3>1, <3>2, <3>3 DEF HandsOut, Phase
  <2> QED BY <2>1, <2>7, <2>8, <2>10, <2>11
<1>2. ASSUME NEW t \in Tasks \ S PROVE tasks'[t] = tasks[t]
  BY DEF SendOut
<1>3. TasksInv'
  <2>1. tasks' = [t \in Tasks |-> tasks'[t]]
    BY DEF SendOut
  <2>2. \A t \in Tasks : tasks'[t] \in TaskRow /\ Sound(tasks'[t])
    BY <1>1, <1>2 DEF TasksInv
  <2> QED BY <2>1, <2>2 DEF TasksInv
<1> QED BY <1>1, <1>2, <1>3

\* A round is out exactly when its task occupies a slot.
LEMMA HoldsOut ==
  ASSUME TasksInv, NEW t \in Tasks
  PROVE  Holds(tasks[t]) <=> \E r \in 1 .. Len(tasks[t].rounds) : Phase(tasks[t], r) = "out"
<1> DEFINE task == tasks[t]
<1>1. WellFormed(task) /\ Len(task.rounds) \in Nat
  BY DEF TasksInv, Sound, TaskRow
<1>2. \A r \in 1 .. Len(task.rounds) : r # Len(task.rounds) => Phase(task, r) = "over"
  BY <1>1 DEF WellFormed, Phase, PhaseOf, Newest, Terminal, Occupying, Working
<1>3. ASSUME task.rounds # <<>>
      PROVE  Phase(task, Len(task.rounds)) = "out" <=> Current(task).status \in Occupying
  BY <1>1, <1>3 DEF Phase, PhaseOf, Current, Occupying, Working
<1>4. task.rounds # <<>> => Len(task.rounds) \in 1 .. Len(task.rounds)
  BY <1>1 DEF TasksInv, TaskRow
<1>5. task.rounds = <<>> => Len(task.rounds) = 0
  OBVIOUS
<1> HIDE DEF task
<1> QED BY <1>1, <1>2, <1>3, <1>4, <1>5 DEF Holds, task

\* What one decision hands out fits in the room the limit leaves.
LEMMA SentFits ==
  ASSUME TasksInv, NEW S, S \in SUBSET Queued, S = Sent(plan), S # {}, cap \in Nat
  PROVE  InFlight \in Nat /\ Cardinality(S) \in Nat /\ InFlight + Cardinality(S) <= cap
<1>1. InFlight \in Nat /\ Cardinality(S) \in Nat
  <2>1. {t \in Tasks : Holds(tasks[t])} \in SUBSET Tasks /\ S \in SUBSET Tasks
    BY DEF Queued
  <2> QED BY <2>1, TasksFinite DEF InFlight
<1>2. Free \in Nat
  BY <1>1 DEF Free
<1>3. StillQueued(plan) \in SUBSET Tasks
  BY DEF StillQueued, Queued
<1>4. S = Oldest(StillQueued(plan), Free)
  BY DEF Sent
<1>5. Cardinality(S) <= Free
  BY <1>2, <1>3, <1>4, OldestBound
<1>6. Free # 0
  <2>1. ASSUME Free = 0 PROVE FALSE
    <3>1. Cardinality(S) = 0
      BY <1>1, <1>5, <2>1
    <3>2. S \in SUBSET Tasks
      BY DEF Queued
    <3>3. IsFiniteSet(S)
      BY <3>2, TasksFinite
    <3> QED BY <3>1, <3>3, FS_EmptySet
  <2> QED BY <2>1
<1> QED BY <1>1, <1>5, <1>6 DEF Free
-----------------------------------------------------------------------------
(* The bounds *)

BoundsInv ==
    /\ \A t \in Tasks : Len(tasks[t].rounds) <= MaxRounds
    /\ route \in BOOLEAN /\ cap \in 1 .. MaxCap
    /\ plan \subseteq Tasks \X (1 .. MaxRounds)

\* Room for another round leaves room for one of any task.
LEMMA MayOpenBound ==
  ASSUME TasksInv, BoundsInv, MayOpen, NEW t \in Tasks
  PROVE  Len(tasks[t].rounds) < MaxRounds
<1> DEFINE U == UNION {{w} \X DOMAIN tasks[w].rounds : w \in Tasks}
           n == Len(tasks[t].rounds)
           f == [r \in 1 .. n |-> <<t, r>>]
<1>1. \A w \in Tasks : tasks[w].rounds \in Seq(RoundType) /\ Len(tasks[w].rounds) <= MaxRounds
  BY DEF TasksInv, TaskRow, BoundsInv
<1>2. n \in Nat /\ MaxRounds \in Nat
  BY <1>1, RoundsAssumption
<1>3. U \subseteq Tasks \X (1 .. MaxRounds)
  <2>1. ASSUME NEW w \in Tasks PROVE {w} \X DOMAIN tasks[w].rounds \subseteq Tasks \X (1 .. MaxRounds)
    BY <1>1, <1>2
  <2> QED BY <2>1
<1>4. IsFiniteSet(U) /\ Cardinality(U) \in Nat
  <2>1. IsFiniteSet(1 .. MaxRounds)
    BY <1>2, FS_Interval
  <2>2. IsFiniteSet(Tasks \X (1 .. MaxRounds))
    BY <2>1, TasksFinite, FS_Product
  <2> HIDE DEF U
  <2> QED BY <1>3, <2>2, FS_Subset, FS_CardinalityType
<1>5. f \in [1 .. n -> U]
  <2>1. ASSUME NEW r \in 1 .. n PROVE <<t, r>> \in U
    <3>1. r \in DOMAIN tasks[t].rounds
      BY <1>1
    <3>2. <<t, r>> \in {t} \X DOMAIN tasks[t].rounds
      BY <3>1
    <3> QED BY <3>2
  <2> HIDE DEF U, n
  <2> QED BY <2>1
<1>6. \A q, r \in 1 .. n : f[q] = f[r] => q = r
  OBVIOUS
<1>7. f \in Injection(1 .. n, U)
  <2> HIDE DEF f, U, n
  <2> QED BY <1>5, <1>6, Fun_IsInj
<1>8. Cardinality(1 .. n) = n
  BY <1>2, FS_Interval
<1>9. Cardinality(U) < MaxRounds
  BY DEF MayOpen
<1>10. n <= Cardinality(U)
  <2> HIDE DEF f, U, n
  <2> QED BY <1>4, <1>7, <1>8, FS_Injection
<1> HIDE DEF U, n
<1>11. n < MaxRounds
  BY <1>2, <1>4, <1>9, <1>10
<1> QED BY <1>11 DEF n

IInv == TasksInv /\ BoundsInv

LEMMA RoundsInit == Init => IInv
<1> SUFFICES ASSUME Init PROVE IInv
  OBVIOUS
<1>1. NoTask \in TaskRow /\ NoTask.rounds = <<>>
  BY RoundsAssumption DEF NoTask, TaskRow, Statuses
<1>2. Sound(NoTask)
  BY <1>1 DEF Sound, WellFormed, Covered
<1>3. \A t \in Tasks : tasks[t] = NoTask
  BY DEF Init
<1>4. Len(NoTask.rounds) = 0 /\ MaxRounds \in Nat
  BY <1>1, RoundsAssumption
<1> QED BY <1>1, <1>2, <1>3, <1>4 DEF Init, IInv, TasksInv, BoundsInv

\* The dispatcher, the settings and the subscription: only a commit touches tasks.
DispatchStep == \/ \E c \in 1 .. MaxCap : SetCap(c)
                \/ Subscribe \/ Unsubscribe \/ DispatchLook \/ Forget

LEMMA RoundsStep == IInv /\ [Next]_roundVars => IInv'
<1> SUFFICES ASSUME IInv, [Next]_roundVars PROVE IInv'
  OBVIOUS
<1> USE DEF IInv
<1> MaxRounds \in Nat \ {0}
  BY RoundsAssumption
<1>1. ASSUME NEW t \in Tasks, UserStep(t) \/ DotStep(t) PROVE IInv'
  <2>1. OneMoves(t)
    BY <1>1, HandlerMoves
  <2>2. TasksInv'
    BY <2>1 DEF OneMoves, TasksInv
  <2>3. Len(tasks[t].rounds) \in Nat /\ Len(tasks'[t].rounds) \in Nat
    BY <2>2 DEF TasksInv, TaskRow
  <2>4. Len(tasks'[t].rounds) <= Len(tasks[t].rounds) + 1
    BY <2>1, <2>3 DEF OneMoves, Moves, Keeps, Ends, Opens
  <2>5. Len(tasks'[t].rounds) <= MaxRounds
    <3>1. CASE MayOpen
      BY <2>3, <2>4, <3>1, MayOpenBound
    <3>2. CASE Len(tasks'[t].rounds) = Len(tasks[t].rounds)
      BY <3>2 DEF BoundsInv
    <3> QED BY <2>1, <3>1, <3>2 DEF OneMoves
  <2> QED BY <2>1, <2>2, <2>5 DEF OneMoves, BoundsInv
<1>2. CASE DispatchStep
  <2>1. UNCHANGED tasks /\ route' \in BOOLEAN /\ cap' \in 1 .. MaxCap
    BY <1>2 DEF DispatchStep, SetCap, Subscribe, Unsubscribe, DispatchLook, Forget, BoundsInv
  <2>2. plan' \subseteq Tasks \X (1 .. MaxRounds)
    <3>1. CASE plan' = plan \/ plan' = {}
      BY <3>1 DEF BoundsInv
    <3>2. CASE plan' = Candidates
      <4>1. ASSUME NEW t \in Queued PROVE Newest(tasks[t]) \in 1 .. MaxRounds /\ t \in Tasks
        <5>1. tasks[t].rounds \in Seq(RoundType) /\ tasks[t].rounds # <<>> /\ Len(tasks[t].rounds) <= MaxRounds
          BY DEF Queued, Exists, TasksInv, TaskRow, BoundsInv
        <5> QED BY <5>1 DEF Queued, Newest
      <4>2. \A x \in Candidates : \E t \in Queued : x = <<t, Newest(tasks[t])>>
        BY DEF Candidates, Oldest
      <4>3. ASSUME NEW x \in Candidates PROVE x \in Tasks \X (1 .. MaxRounds)
        BY <4>1, <4>2
      <4> QED BY <3>2, <4>3
    <3> QED BY <1>2, <3>1, <3>2 DEF DispatchStep, SetCap, Subscribe, Unsubscribe, DispatchLook, Forget
  <2> QED BY <2>1, <2>2 DEF TasksInv, BoundsInv
<1>3. CASE DispatchCommit
  <2>1. Sent(plan) \in SUBSET Queued /\ SendOut(Sent(plan)) /\ UNCHANGED <<route, cap>> /\ plan' = {}
    BY <1>3 DEF DispatchCommit, Sent, Oldest, StillQueued
  <2>2. TasksInv' /\ \A t \in Tasks : tasks'[t] = tasks[t] \/ HandsOut(tasks[t], tasks'[t])
    BY <2>1, SendMoves
  <2> QED BY <2>1, <2>2 DEF BoundsInv, HandsOut
<1>4. CASE UNCHANGED roundVars
  BY <1>4 DEF roundVars, TasksInv, BoundsInv
<1> QED BY <1>1, <1>2, <1>3, <1>4 DEF Next, DispatchStep

LEMMA RoundsInductive == Spec => []IInv
BY RoundsInit, RoundsStep, PTL DEF Spec

-----------------------------------------------------------------------------
(* Theorems *)

\* Every handler of the engine keeps every variable in its type and the bounds.
THEOREM RoundsTypeCorrect == Spec => []TypeOK
<1>1. IInv => TypeOK
  BY DEF IInv, TasksInv, TaskRow, BoundsInv, TypeOK
<1> QED BY <1>1, RoundsInductive, PTL

\* The status of a task is that of its current round, whichever handler saved
\* last (replaceRound, replaceRoundRaw).
THEOREM RoundsStatusMirrors == Spec => []StatusMirrors
<1>1. IInv => StatusMirrors
  BY DEF IInv, TasksInv, Sound, WellFormed, StatusMirrors, Exists
<1> QED BY <1>1, RoundsInductive, PTL

\* A result on show covers the latest input exactly when it says so
\* (recomputeCoverage), after late results and late messages.
THEOREM RoundsCoverageCurrent == Spec => []CoverageCurrent
<1>1. IInv => CoverageCurrent
  BY DEF IInv, TasksInv, Sound, Covered, CoverageCurrent, Exists
<1> QED BY <1>1, RoundsInductive, PTL

\* A round that was replaced or closed locally keeps its status, whatever
\* reports and results about it arrive later (reduceProgress, reduceResult).
THEOREM RoundsFencedStays == Spec => FencedStays
<1>1. IInv /\ [Next]_roundVars =>
        [\A t \in Tasks : \A r \in DOMAIN tasks[t].rounds :
           Fenced(tasks[t], r) => tasks'[t].rounds[r].status = tasks[t].rounds[r].status]_roundVars
  <2> SUFFICES ASSUME IInv, [Next]_roundVars, NEW t \in Tasks, NEW r \in DOMAIN tasks[t].rounds, Fenced(tasks[t], r)
               PROVE  tasks'[t].rounds[r].status = tasks[t].rounds[r].status
    OBVIOUS
  <2>1. r \in 1 .. Len(tasks[t].rounds)
    BY DEF IInv, TasksInv, TaskRow
  <2>2. ASSUME NEW v \in Tasks, UserStep(v) \/ DotStep(v) PROVE tasks'[t] = tasks[t] \/ Fences(tasks[t], tasks'[t])
    <3>1. OneMoves(v)
      BY <2>2, HandlerMoves DEF IInv
    <3> QED BY <3>1 DEF OneMoves, Moves
  <2>3. CASE DispatchStep \/ UNCHANGED roundVars
    BY <2>3 DEF DispatchStep, SetCap, Subscribe, Unsubscribe, DispatchLook, Forget, roundVars
  <2>4. CASE DispatchCommit
    <3>1. Sent(plan) \in SUBSET Queued /\ SendOut(Sent(plan))
      BY <2>4 DEF DispatchCommit, Sent, Oldest, StillQueued
    <3>2. tasks'[t] = tasks[t] \/ Fences(tasks[t], tasks'[t])
      BY <3>1, SendMoves DEF IInv
    <3> QED BY <2>1, <3>2 DEF Fences
  <2> QED BY <2>1, <2>2, <2>3, <2>4 DEF Next, DispatchStep, Fences
<1> QED BY <1>1, RoundsInductive, PTL DEF Spec, FencedStays

-----------------------------------------------------------------------------
(* The ledger *)

\* The phases of the rounds of a task, as the ledger shows them.
PhasesOf(task) == [r \in DOMAIN task.rounds |-> PhaseOf(task.rounds[r])]
Shown == [t \in Tasks |-> PhasesOf(tasks[t])]

LEMMA PhasesRow ==
  ASSUME NEW task, task \in TaskRow
  PROVE  /\ PhasesOf(task) \in Seq({"waiting", "out", "over"})
         /\ Len(PhasesOf(task)) = Len(task.rounds) /\ DOMAIN PhasesOf(task) = 1 .. Len(task.rounds)
         /\ Len(task.rounds) \in Nat
         /\ \A r \in 1 .. Len(task.rounds) : PhasesOf(task)[r] = Phase(task, r)
<1>1. task.rounds \in Seq(RoundType)
  BY DEF TaskRow
<1>2. \A r \in 1 .. Len(task.rounds) : PhaseOf(task.rounds[r]) \in {"waiting", "out", "over"}
  BY DEF PhaseOf
<1>3. PhasesOf(task) = [r \in 1 .. Len(task.rounds) |-> PhaseOf(task.rounds[r])]
  BY <1>1 DEF PhasesOf
<1>4. PhasesOf(task) \in Seq({"waiting", "out", "over"}) /\ Len(PhasesOf(task)) = Len(task.rounds)
  BY <1>1, <1>2, <1>3
<1> QED BY <1>1, <1>3, <1>4 DEF Phase

\* Two sequences of the same length and elements are the same.
LEMMA SamePhases ==
  ASSUME NEW S, NEW p \in Seq(S), NEW q \in Seq(S), Len(p) = Len(q),
         \A r \in 1 .. Len(p) : p[r] = q[r]
  PROVE  p = q
OBVIOUS

\* What each move of a task shows in the ledger.
LEMMA ShownMoves ==
  ASSUME NEW old \in TaskRow, NEW new \in TaskRow
  PROVE  /\ Keeps(old, new) => PhasesOf(new) = PhasesOf(old)
         /\ Ends(old, new) => \E r \in DOMAIN PhasesOf(old) :
              PhasesOf(old)[r] # "over" /\ PhasesOf(new) = [PhasesOf(old) EXCEPT ![r] = "over"]
         /\ Opens(old, new) => /\ \A r \in DOMAIN PhasesOf(old) : PhasesOf(old)[r] = "over"
                               /\ PhasesOf(new) = Append(PhasesOf(old), "waiting")
         /\ HandsOut(old, new) => /\ PhasesOf(old) # <<>> /\ PhasesOf(old)[Len(PhasesOf(old))] = "waiting"
                                  /\ PhasesOf(new) = [PhasesOf(old) EXCEPT ![Len(PhasesOf(old))] = "out"]
<1> DEFINE P == PhasesOf(old)
           Q == PhasesOf(new)
           S == {"waiting", "out", "over"}
<1>1. P \in Seq(S) /\ Len(P) = Len(old.rounds) /\ DOMAIN P = 1 .. Len(old.rounds) /\ Len(old.rounds) \in Nat
      /\ \A r \in 1 .. Len(old.rounds) : P[r] = Phase(old, r)
  BY PhasesRow
<1>2. Q \in Seq(S) /\ Len(Q) = Len(new.rounds) /\ DOMAIN Q = 1 .. Len(new.rounds) /\ Len(new.rounds) \in Nat
      /\ \A r \in 1 .. Len(new.rounds) : Q[r] = Phase(new, r)
  BY PhasesRow
<1>3. old.rounds # <<>> => Newest(old) \in 1 .. Len(old.rounds) /\ Newest(old) = Len(old.rounds)
  BY DEF Newest, TaskRow
<1> HIDE DEF P, Q, S
<1>4. Keeps(old, new) => Q = P
  BY <1>1, <1>2, SamePhases DEF Keeps
<1>5. ASSUME NEW k \in 1 .. Len(P), NEW x \in {"waiting", "out", "over"}, Len(Q) = Len(P), Q[k] = x,
             \A r \in 1 .. Len(P) : r # k => Q[r] = P[r]
      PROVE  Q = [P EXCEPT ![k] = x]
  <2>1. [P EXCEPT ![k] = x] \in Seq(S) /\ Len([P EXCEPT ![k] = x]) = Len(P)
    BY <1>1 DEF S
  <2>2. \A r \in 1 .. Len(P) : Q[r] = [P EXCEPT ![k] = x][r]
    BY <1>1, <1>5
  <2> QED BY <1>2, <1>5, <2>1, <2>2, SamePhases
<1>6. Ends(old, new) => \E r \in DOMAIN P : P[r] # "over" /\ Q = [P EXCEPT ![r] = "over"]
  <2> SUFFICES ASSUME Ends(old, new) PROVE \E r \in DOMAIN P : P[r] # "over" /\ Q = [P EXCEPT ![r] = "over"]
    OBVIOUS
  <2> DEFINE k == Newest(old)
  <2>1. k \in 1 .. Len(P) /\ k \in DOMAIN P /\ P[k] # "over" /\ Q[k] = "over" /\ Len(Q) = Len(P)
        /\ \A r \in 1 .. Len(P) : r # k => Q[r] = P[r]
    BY <1>1, <1>2, <1>3 DEF Ends
  <2> HIDE DEF k
  <2>2. Q = [P EXCEPT ![k] = "over"]
    BY <1>5, <2>1
  <2> QED BY <2>1, <2>2
<1>7. HandsOut(old, new) => /\ P # <<>> /\ P[Len(P)] = "waiting"
                            /\ Q = [P EXCEPT ![Len(P)] = "out"]
  <2> SUFFICES ASSUME HandsOut(old, new) PROVE P # <<>> /\ P[Len(P)] = "waiting" /\ Q = [P EXCEPT ![Len(P)] = "out"]
    OBVIOUS
  <2> DEFINE k == Len(P)
  <2>1. k \in 1 .. Len(P) /\ P[k] = "waiting" /\ Q[k] = "out" /\ Len(Q) = Len(P)
        /\ \A r \in 1 .. Len(P) : r # k => Q[r] = P[r]
    BY <1>1, <1>2, <1>3 DEF HandsOut
  <2>2. P # <<>>
    BY <2>1
  <2> HIDE DEF k
  <2>3. Q = [P EXCEPT ![k] = "out"]
    BY <1>5, <2>1
  <2> QED BY <2>1, <2>2, <2>3 DEF k
<1>8. Opens(old, new) => (\A r \in DOMAIN P : P[r] = "over") /\ Q = Append(P, "waiting")
  <2> SUFFICES ASSUME Opens(old, new) PROVE (\A r \in DOMAIN P : P[r] = "over") /\ Q = Append(P, "waiting")
    OBVIOUS
  <2>1. /\ Len(Q) = Len(P) + 1 /\ Q[Len(P) + 1] = "waiting"
        /\ \A r \in 1 .. Len(P) : Q[r] = P[r] /\ P[r] = "over"
    BY <1>1, <1>2 DEF Opens
  <2>2. Append(P, "waiting") \in Seq(S) /\ Len(Append(P, "waiting")) = Len(P) + 1
        /\ Append(P, "waiting")[Len(P) + 1] = "waiting" /\ \A r \in 1 .. Len(P) : Append(P, "waiting")[r] = P[r]
    BY <1>1 DEF S
  <2>3. \A r \in 1 .. Len(Q) : r = Len(P) + 1 \/ r \in 1 .. Len(P)
    BY <1>1, <2>1
  <2>4. Q = Append(P, "waiting")
    BY <1>2, <2>1, <2>2, <2>3, SamePhases
  <2> QED BY <1>1, <2>1, <2>4
<1> QED BY <1>4, <1>6, <1>7, <1>8 DEF P, Q

\* Every step of the rounds is a step of the ledger, or leaves it alone.
LEMMA LedgerStep ==
  ASSUME IInv, IInv', [Next]_roundVars
  PROVE  [Ledger!Next]_<<Shown, cap>>
<1> USE DEF IInv
<1>1. \A t \in Tasks : tasks[t] \in TaskRow /\ tasks'[t] \in TaskRow
  BY DEF TasksInv
<1>2. ASSUME UNCHANGED tasks PROVE UNCHANGED Shown
  BY <1>2 DEF Shown, PhasesOf
<1>3. ASSUME NEW t \in Tasks, UserStep(t) \/ DotStep(t)
      PROVE  UNCHANGED <<Shown, cap>> \/ Ledger!Open(t) \/ Ledger!End(t)
  <2>1. OneMoves(t)
    BY <1>3, HandlerMoves
  <2>2. Shown' = [Shown EXCEPT ![t] = PhasesOf(tasks'[t])] /\ UNCHANGED cap
    BY <2>1 DEF OneMoves, Shown, PhasesOf
  <2>3. CASE Keeps(tasks[t], tasks'[t])
    <3>1. PhasesOf(tasks'[t]) = PhasesOf(tasks[t])
      BY <1>1, <2>3, ShownMoves
    <3> QED BY <2>2, <3>1 DEF Shown
  <2>4. CASE Ends(tasks[t], tasks'[t])
    <3>1. PICK r \in DOMAIN PhasesOf(tasks[t]) :
            PhasesOf(tasks[t])[r] # "over" /\ PhasesOf(tasks'[t]) = [PhasesOf(tasks[t]) EXCEPT ![r] = "over"]
      BY <1>1, <2>4, ShownMoves
    <3>2. Shown[t] = PhasesOf(tasks[t])
      BY DEF Shown
    <3>3. Shown' = [Shown EXCEPT ![t][r] = "over"]
      BY <2>2, <3>1, <3>2
    <3> QED BY <2>2, <3>1, <3>2, <3>3 DEF Ledger!End, Shown, PhasesOf
  <2>5. CASE Opens(tasks[t], tasks'[t])
    <3>1. (\A r \in DOMAIN PhasesOf(tasks[t]) : PhasesOf(tasks[t])[r] = "over")
          /\ PhasesOf(tasks'[t]) = Append(PhasesOf(tasks[t]), "waiting")
      BY <1>1, <2>5, ShownMoves
    <3>2. Shown[t] = PhasesOf(tasks[t])
      BY DEF Shown
    <3>3. Shown' = [Shown EXCEPT ![t] = Append(Shown[t], "waiting")]
      BY <2>2, <3>1, <3>2
    <3> QED BY <2>2, <3>1, <3>2, <3>3 DEF Ledger!Open, Ledger!IsOver, Shown, PhasesOf
  <2> QED BY <2>1, <2>3, <2>4, <2>5 DEF OneMoves, Moves
<1>4. CASE DispatchCommit
  <2> DEFINE S == Sent(plan)
  <2>1. S \in SUBSET Queued /\ SendOut(S) /\ UNCHANGED cap /\ S \in SUBSET Tasks
    BY <1>4 DEF DispatchCommit, Sent, Oldest, StillQueued, Queued
  <2>2. (\A t \in S : HandsOut(tasks[t], tasks'[t])) /\ (\A t \in Tasks \ S : tasks'[t] = tasks[t])
    BY <2>1, SendMoves
  <2>3. CASE S = {}
    <3>1. UNCHANGED Shown
      BY <2>2, <2>3 DEF Shown, PhasesOf
    <3> QED BY <2>1, <3>1
  <2>4. CASE S # {}
    <3>1. InFlight \in Nat /\ Cardinality(S) \in Nat /\ InFlight + Cardinality(S) <= cap
      <4>1. cap \in Nat
        BY RoundsAssumption DEF BoundsInv
      <4> QED BY <2>1, <2>4, <4>1, SentFits
    <3>2. \A t \in Tasks : Shown[t] = PhasesOf(tasks[t]) /\ Shown'[t] = PhasesOf(tasks'[t])
      BY DEF Shown
    <3>3. \A t \in S : /\ Shown[t] # <<>> /\ Shown[t][Len(Shown[t])] = "waiting"
                       /\ Shown'[t] = [Shown[t] EXCEPT ![Len(Shown[t])] = "out"]
      BY <1>1, <2>1, <2>2, <3>2, ShownMoves
    <3>4. \A t \in Tasks \ S : Shown'[t] = Shown[t]
      BY <2>2, <3>2
    <3>5. Shown' = [t \in Tasks |-> IF t \in S THEN [Shown[t] EXCEPT ![Len(Shown[t])] = "out"] ELSE Shown[t]]
      BY <2>1, <3>3, <3>4 DEF Shown
    <3>6. {t \in Tasks : \E r \in DOMAIN Shown[t] : Shown[t][r] = "out"} = {t \in Tasks : Holds(tasks[t])}
      <4>1. ASSUME NEW t \in Tasks
            PROVE  (\E r \in DOMAIN Shown[t] : Shown[t][r] = "out") <=> Holds(tasks[t])
        BY SMTT(30), <1>1, <3>2, HoldsOut, PhasesRow
      <4> QED BY <4>1
    <3>7. Ledger!Out = {t \in Tasks : Holds(tasks[t])}
      BY <3>6 DEF Ledger!Out, Shown, PhasesOf
    <3>8. S \cap Ledger!Out = {}
      BY <2>1, <3>7 DEF Queued, Holds, Occupying, Working
    <3>9. Cardinality(Ledger!Out) + Cardinality(S) <= cap
      BY <3>1, <3>7 DEF InFlight
    <3> HIDE DEF S
    <3>10. \E X \in SUBSET Tasks :
            /\ X # {} /\ X \cap Ledger!Out = {}
            /\ \A t \in X : Shown[t] # <<>> /\ Shown[t][Len(Shown[t])] = "waiting"
            /\ Cardinality(Ledger!Out) + Cardinality(X) <= cap
            /\ Shown' = [t \in Tasks |-> IF t \in X THEN [Shown[t] EXCEPT ![Len(Shown[t])] = "out"]
                                         ELSE Shown[t]]
            /\ UNCHANGED cap
      <4>1. S \in SUBSET Tasks
        BY <2>1
      <4>2. S # {} /\ S \cap Ledger!Out = {} /\ Cardinality(Ledger!Out) + Cardinality(S) <= cap /\ UNCHANGED cap
        BY <2>1, <2>4, <3>8, <3>9
      <4>3. \A t \in S : Shown[t] # <<>> /\ Shown[t][Len(Shown[t])] = "waiting"
        BY <3>3
      <4> QED BY <4>1, <4>2, <4>3, <3>5, Zenon
    <3>11. Ledger!HandOut
      <4>1. \A X : Ledger!Cardinality(X) = Cardinality(X)
        BY DEF Ledger!Cardinality, Cardinality
      <4> QED BY <3>10, <4>1 DEF Ledger!HandOut, Shown, PhasesOf
    <3> QED BY <3>11 DEF Ledger!Next
  <2> QED BY <2>3, <2>4
<1>5. ASSUME NEW c \in 1 .. MaxCap, SetCap(c) PROVE Ledger!SetLimit
  <2>1. UNCHANGED Shown /\ cap' \in Nat \ {0}
    BY <1>2, <1>5, RoundsAssumption DEF SetCap
  <2> QED BY <2>1 DEF Ledger!SetLimit, Shown, PhasesOf
<1>6. CASE Subscribe \/ Unsubscribe \/ DispatchLook \/ Forget \/ UNCHANGED roundVars
  BY <1>2, <1>6 DEF Subscribe, Unsubscribe, DispatchLook, Forget, roundVars
<1> QED BY <1>3, <1>4, <1>5, <1>6 DEF Next, Ledger!Next

\* The rounds implement the ledger: one open round per task, never more out than
\* the limit when one is handed out, and no round resumed (dispatchTick and
\* every handler that opens, replaces or ends a round).
THEOREM RoundsImplementLedger == Spec => RefinesLedger
<1>1. Init => Ledger!Init
  <2> SUFFICES ASSUME Init PROVE Ledger!Init
    OBVIOUS
  <2>1. \A t \in Tasks : Shown[t] = <<>>
    <3>1. \A t \in Tasks : tasks[t].rounds = <<>>
      BY DEF Init, NoTask
    <3> QED BY <3>1 DEF Shown, PhasesOf
  <2>2. Shown \in [Tasks -> {<<>>, <<"waiting">>}]
    BY <2>1 DEF Shown
  <2>3. cap \in Nat \ {0}
    BY RoundsAssumption DEF Init
  <2> QED BY <2>2, <2>3 DEF Ledger!Init, Shown, PhasesOf
<1>2. IInv /\ IInv' /\ [Next]_roundVars => [Ledger!Next]_Ledger!vars
  BY LedgerStep DEF Ledger!vars, Shown, PhasesOf
<1> QED BY <1>1, <1>2, RoundsInductive, PTL DEF Spec, RefinesLedger, Ledger!Spec
=============================================================================
