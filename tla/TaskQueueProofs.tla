--------------------------- MODULE TaskQueueProofs ---------------------------
(***************************************************************************)
(* Proofs about TaskQueue, for any tasks, repositories, users, faults and  *)
(* crashes: the daemon is asked for a session at most once per operation,  *)
(* and never more often than users queued the task. And while the plugin   *)
(* lives, for any faults: a repository has one task at work, the queue     *)
(* implements RepoSlot, a session at work is that of its task's current    *)
(* round, and so is a review; where nobody cancels a task whose worktree   *)
(* is made and not yet on record, a deleted task leaves nothing.           *)
(***************************************************************************)
EXTENDS TaskQueue, FiniteSetTheorems, SequenceTheorems, TLAPS

Ops == {NoOp} \cup Op
SaveKinds == {"user", "quiet", "cancel", "begin", "fail", "found", "settle", "turn",
              "locate", "link", "recover"}
\* Saves asked for with the task's lock held, and by its job.
LockKinds == SaveKinds \ {"locate", "link", "recover"}
JobKinds == {"begin", "locate", "link", "fail", "found"}
\* Where a job is while its save waits.
SavePlace(by) == IF by = "found" THEN "fail" ELSE by
Saving == {"begin", "locate", "link", "fail"}

SaveRow == [task : Task, rec : Record, by : SaveKinds]
EventRow == [kind : {"ended"}, agent : Op, turn : 0..MaxTurns, outcome : TurnKind]
            \cup [kind : {"started", "ask", "answer"}, agent : Op, turn : 0..MaxTurns, outcome : {"none"}]
LockHolders == {"free", "user", "quiet", "cancel", "begin", "fail", "settle", "turn", "capture"}
LockRow == [by : LockHolders, op : Ops, event : Seq(EventRow)]
Places == {"off", "begin", "ensure", "locate", "create", "link", "failing", "fail", "hold"}
JobRow == [at : Places, op : Ops]
SettleRow == [step : {"off", "find", "stop", "mark", "saving"}, op : Ops, agent : Ops]
Looks == {"none", "busy", "permission", "idle", "gone"}
SessionRow == [state : Looks, turn : 0..MaxTurns]
RecoveryRow == [step : {"off", "visit", "settling", "decide", "saving"}, at : Nat, agent : Ops, seen : Looks \cup {"failed"}]

BoardTypes ==
    /\ task \in [Task -> Record]
    /\ saves \in Seq(SaveRow)
    /\ lock \in [Task -> LockRow]
    /\ \A t \in Task : lock[t].by = "capture" => lock[t].event # <<>>
EventTypes ==
    /\ inbox \in [Task -> Seq(EventRow)]
    /\ known \in [Op -> [turn : 0..MaxTurns, ask : BOOLEAN]]
    /\ turns \in SUBSET EventRow /\ IsFiniteSet(turns)
    /\ events \in Seq(EventRow)
RunTypes ==
    /\ pc \in [Task -> JobRow]
    /\ \A t \in Task : pc[t].at # "off" => pc[t].op \in Op
    /\ settle \in [Task -> SettleRow]
    /\ recovery \in RecoveryRow
    /\ recovery.step # "off" => recovery.at >= 1
    /\ recovery.step = "decide" => recovery.at <= Len(order)
    /\ session \in [Op -> SessionRow]
    /\ rounds \in Seq(Task)
    /\ created \in [Op -> Nat] /\ granted \in [Task -> Nat]
TypesInv == BoardTypes /\ EventTypes /\ RunTypes

\* A save that waits belongs to the section and the place that asked for it.
Waiting(i) ==
    LET s == saves[i] IN
    /\ s.by \in LockKinds => lock[s.task].by = SavePlace(s.by)
    /\ s.by \in JobKinds => pc[s.task].at = SavePlace(s.by)
    /\ s.by = "begin" => s.rec.status = "preparing" /\ s.rec.op = pc[s.task].op
    /\ s.by = "found" => s.rec.agent \in Op
    /\ s.rec.status = "queued" => s.by \in {"user", "quiet"}
\* No two of a lock or of a job wait.
Alone(i, j) ==
    saves[i].task = saves[j].task =>
        /\ ~(saves[i].by \in LockKinds /\ saves[j].by \in LockKinds)
        /\ ~(saves[i].by \in JobKinds /\ saves[j].by \in JobKinds)
SavesInv ==
    /\ \A i \in 1..Len(saves) : Waiting(i)
    /\ \A i, j \in 1..Len(saves) : i # j => Alone(i, j)
    /\ \A t \in Task : pc[t].at = "begin" => lock[t].by = "begin"

\* The job of a task has an operation for which no session was asked for yet.
Prepares(t) == pc[t].at \in {"begin", "ensure", "locate"}
\* The task is queued for a round that has not begun, or a save says so.
Queues(t) == \/ task[t].status = "queued" /\ pc[t].at # "begin"
             \/ \E i \in 1..Len(saves) : saves[i].task = t /\ saves[i].rec.status = "queued"
Made(t) == {o \in DOMAIN rounds : rounds[o] = t /\ created[o] > 0}

OnceInv ==
    /\ Len(rounds) \in 0..MaxOps
    /\ \A o \in Op : created[o] <= 1 /\ (o > Len(rounds) => created[o] = 0)
    /\ \A t \in Task : Prepares(t) =>
         pc[t].op \in 1..Len(rounds) /\ rounds[pc[t].op] = t /\ created[pc[t].op] = 0

\* Every session that was or may still be asked for was granted by a user.
Claims(t) == Cardinality(Made(t)) + (IF Prepares(t) THEN 1 ELSE 0) + (IF Queues(t) THEN 1 ELSE 0)
CreditInv == \A t \in Task : Claims(t) <= granted[t]

IInv == TypesInv /\ SavesInv /\ OnceInv /\ CreditInv

\* While recover() walks the board nobody has queued a task, and the one whose
\* session is looked at is none that waits.
ReviveInv ==
    /\ recovery.step # "off" => \A i \in 1..Len(saves) : saves[i].rec.status # "queued"
    /\ recovery.step = "decide" => task[At].status # "queued"


USE DEF Ops, NoOp
-----------------------------------------------------------------------------
(* The shapes of a step *)

\* A save is asked for: with the lock, which was free or held for a capture, or
\* without it; by the job, which had no save waiting, or not.
Adds(t, r, by) ==
    /\ saves' = Append(saves, Save(t, r, by))
    /\ \A u \in Task \ {t} : lock'[u] = lock[u] /\ pc'[u] = pc[u]
    /\ \/ by \in LockKinds /\ lock[t].by \in {"free", "capture"} /\ lock'[t].by = SavePlace(by)
       \/ by \notin LockKinds /\ lock'[t] = lock[t]
    /\ \/ by \in JobKinds /\ pc[t].at \notin Saving /\ pc'[t].at = SavePlace(by)
       \/ by \notin JobKinds /\ pc'[t] = pc[t]
    /\ by = "begin" => r.status = "preparing" /\ r.op = pc'[t].op
    /\ by = "found" => r.agent \in Op
    /\ r.status = "queued" =>
         /\ by \in {"user", "quiet"}
         /\ task[t].status = "queued" \/ granted'[t] > granted[t]

\* The oldest save lands.
Drops ==
    /\ saves # <<>> /\ saves' = Tail(saves) /\ task' = Memory
    /\ LET s == Head(saves) IN
       /\ \A u \in Task \ {s.task} : lock'[u] = lock[u] /\ pc'[u] = pc[u]
       /\ s.by \in LockKinds \/ lock'[s.task] = lock[s.task]
       /\ (s.by \in JobKinds /\ pc'[s.task].at # "begin") \/ (s.by \notin JobKinds /\ pc'[s.task] = pc[s.task])

\* No save is asked for and none lands.
Stays ==
    /\ UNCHANGED <<task, saves>>
    /\ \A t \in Task :
         /\ lock'[t] = lock[t] \/ lock[t].by \in {"free", "capture"}
         /\ pc'[t] = pc[t] \/ (pc[t].at \notin Saving /\ pc'[t].at # "begin")

Shape == \/ \E t \in Task, r \in Record, by \in SaveKinds : Adds(t, r, by) /\ UNCHANGED task
         \/ Drops \/ Stays

\* No operation begins, no session is asked for, and no claim comes without a grant.
Tame ==
    /\ Shape
    /\ UNCHANGED <<rounds, created>>
    /\ \A t \in Task : Prepares(t)' => Prepares(t) /\ pc'[t].op = pc[t].op
    /\ \A t \in Task : granted'[t] >= granted[t]

LEMMA RowFacts ==
  ASSUME NEW s \in Seq(SaveRow)
  PROVE  /\ Len(s) \in Nat
         /\ \A i \in 1..Len(s) : s[i] \in SaveRow /\ s[i].task \in Task /\ s[i].rec \in Record /\ s[i].by \in SaveKinds
         /\ s # <<>> => /\ Head(s) = s[1] /\ Head(s) \in SaveRow /\ Tail(s) \in Seq(SaveRow) /\ Len(Tail(s)) = Len(s) - 1
                        /\ Head(s).task \in Task /\ Head(s).rec \in Record /\ Head(s).by \in SaveKinds
                        /\ 1 \in 1..Len(s)
                        /\ \A i \in 1..Len(Tail(s)) : i + 1 \in 1..Len(s) /\ i + 1 # 1 /\ Tail(s)[i] = s[i + 1]
<1>1. Len(s) \in Nat /\ \A i \in 1..Len(s) : s[i] \in SaveRow
  OBVIOUS
<1>2. ASSUME NEW x \in SaveRow PROVE x.task \in Task /\ x.rec \in Record /\ x.by \in SaveKinds
  BY DEF SaveRow
<1>3. ASSUME s # <<>>
      PROVE  /\ Head(s) = s[1] /\ Tail(s) \in Seq(SaveRow) /\ Len(Tail(s)) = Len(s) - 1
             /\ 1 \in 1..Len(s) /\ \A i \in 1..Len(Tail(s)) : i + 1 \in 1..Len(s) /\ i + 1 # 1 /\ Tail(s)[i] = s[i + 1]
  BY <1>3
<1> QED BY <1>1, <1>2, <1>3

LEMMA AddsSaves ==
  ASSUME TypesInv, SavesInv, NEW t \in Task, NEW r \in Record, NEW by \in SaveKinds, Adds(t, r, by)
  PROVE  SavesInv'
<1> DEFINE n == Len(saves) + 1
           x == Save(t, r, by)
<1>1. saves \in Seq(SaveRow) /\ Len(saves) \in Nat
  BY DEF TypesInv, BoardTypes
<1>2. Len(saves') = n /\ n \in Nat /\ saves'[n] = x /\ \A i \in 1..n : i = n \/ (i \in 1..Len(saves) /\ saves'[i] = saves[i])
  BY <1>1 DEF Adds
<1>3. x.task = t /\ x.rec = r /\ x.by = by
  BY DEF Save
<1> HIDE DEF x, n
<1>4. ASSUME NEW i \in 1..n PROVE Waiting(i)'
  <2>1. CASE i = n
    BY <1>2, <1>3, <2>1 DEF Waiting, Adds, SavePlace, LockKinds, JobKinds, SaveKinds
  <2>2. CASE i # n
    <3>1. i \in 1..Len(saves) /\ saves'[i] = saves[i] /\ saves[i].task \in Task /\ saves[i].by \in SaveKinds
      BY <1>1, <1>2, <2>2, RowFacts
    <3>2. Waiting(i)
      BY <3>1 DEF SavesInv
    <3>3. saves[i].by \in LockKinds => lock[saves[i].task].by \notin {"free", "capture"}
      BY <3>1, <3>2 DEF Waiting, SavePlace, LockKinds, SaveKinds
    <3>4. saves[i].by \in JobKinds => pc[saves[i].task].at \in Saving
      BY <3>1, <3>2 DEF Waiting, SavePlace, JobKinds, Saving
    <3>5. saves[i].by \in LockKinds => lock'[saves[i].task] = lock[saves[i].task]
      BY <3>1, <3>3 DEF Adds
    <3>6. saves[i].by \in JobKinds => pc'[saves[i].task] = pc[saves[i].task]
      BY <3>1, <3>4 DEF Adds
    <3>7. saves[i].by = "begin" => saves[i].by \in JobKinds
      BY DEF JobKinds
    <3> QED BY <3>1, <3>2, <3>5, <3>6, <3>7 DEF Waiting
  <2> QED BY <2>1, <2>2
<1>5. ASSUME NEW i \in 1..Len(saves), saves[i].task = t
      PROVE  ~(saves[i].by \in LockKinds /\ by \in LockKinds) /\ ~(saves[i].by \in JobKinds /\ by \in JobKinds)
  <2>1. Waiting(i) /\ saves[i].by \in SaveKinds
    BY <1>1, RowFacts DEF SavesInv
  <2>2. saves[i].by \in LockKinds => lock[t].by \notin {"free", "capture"}
    BY <1>5, <2>1 DEF Waiting, SavePlace, LockKinds, SaveKinds
  <2>3. saves[i].by \in JobKinds => pc[t].at \in Saving
    BY <1>5, <2>1 DEF Waiting, SavePlace, JobKinds, Saving
  <2> QED BY <2>2, <2>3 DEF Adds
<1>6. ASSUME NEW i \in 1..n, NEW j \in 1..n, i # j PROVE Alone(i, j)'
  <2>1. CASE i = n
    BY <1>2, <1>3, <1>5, <1>6, <2>1 DEF Alone
  <2>2. CASE j = n
    BY <1>2, <1>3, <1>5, <1>6, <2>2 DEF Alone
  <2>3. CASE i # n /\ j # n
    <3>1. i \in 1..Len(saves) /\ j \in 1..Len(saves) /\ saves'[i] = saves[i] /\ saves'[j] = saves[j]
      BY <1>2, <2>3
    <3>2. Alone(i, j)
      BY <1>6, <3>1 DEF SavesInv
    <3> QED BY <3>1, <3>2 DEF Alone
  <2> QED BY <2>1, <2>2, <2>3
<1>7. ASSUME NEW u \in Task, pc'[u].at = "begin" PROVE lock'[u].by = "begin"
  <2>1. CASE u # t
    BY <1>7, <2>1 DEF Adds, SavesInv
  <2>2. CASE u = t /\ by \in JobKinds
    BY <1>7, <2>2 DEF Adds, SavePlace, LockKinds, JobKinds, SaveKinds
  <2>3. CASE u = t /\ by \notin JobKinds
    <3>1. pc[t].at = "begin" /\ lock[t].by = "begin"
      BY <1>7, <2>3 DEF Adds, SavesInv
    <3> QED BY <2>3, <3>1 DEF Adds
  <2> QED BY <2>1, <2>2, <2>3
<1> QED BY <1>2, <1>4, <1>6, <1>7 DEF SavesInv

LEMMA DropsSaves ==
  ASSUME TypesInv, SavesInv, Drops
  PROVE  SavesInv'
<1> DEFINE s == Head(saves)
<1>1. saves \in Seq(SaveRow) /\ Len(saves) \in Nat /\ saves # <<>> /\ saves' = Tail(saves)
  BY DEF TypesInv, BoardTypes, Drops
<1>2. /\ s = saves[1] /\ s.task \in Task /\ s.by \in SaveKinds /\ 1 \in 1..Len(saves)
      /\ \A i \in 1..Len(saves') : i + 1 \in 1..Len(saves) /\ i + 1 # 1 /\ saves'[i] = saves[i + 1]
  BY <1>1, RowFacts
<1>3. /\ \A u \in Task \ {s.task} : lock'[u] = lock[u] /\ pc'[u] = pc[u]
      /\ s.by \in LockKinds \/ lock'[s.task] = lock[s.task]
      /\ (s.by \in JobKinds /\ pc'[s.task].at # "begin") \/ (s.by \notin JobKinds /\ pc'[s.task] = pc[s.task])
  BY DEF Drops
<1> HIDE DEF s
<1>4. Waiting(1) /\ (s.by \in LockKinds => lock[s.task].by = SavePlace(s.by))
  BY <1>2 DEF SavesInv, Waiting
<1>5. ASSUME NEW i \in 1..Len(saves') PROVE Waiting(i)'
  <2> DEFINE k == i + 1
  <2>1. k \in 1..Len(saves) /\ k # 1 /\ saves'[i] = saves[k]
    BY <1>2
  <2> HIDE DEF k
  <2>2. Waiting(k) /\ Alone(1, k) /\ saves[k].task \in Task
    BY <1>1, <1>2, <2>1, RowFacts DEF SavesInv
  <2>3. saves[k].by \in LockKinds => lock'[saves[k].task] = lock[saves[k].task]
    BY <1>2, <1>3, <2>2 DEF Alone
  <2>4. saves[k].by \in JobKinds => pc'[saves[k].task] = pc[saves[k].task]
    BY <1>2, <1>3, <2>2 DEF Alone
  <2>5. saves[k].by = "begin" => saves[k].by \in JobKinds
    BY DEF JobKinds
  <2> QED BY <2>1, <2>2, <2>3, <2>4, <2>5 DEF Waiting
<1>6. ASSUME NEW i \in 1..Len(saves'), NEW j \in 1..Len(saves'), i # j PROVE Alone(i, j)'
  <2> DEFINE k == i + 1
             l == j + 1
  <2>1. k \in 1..Len(saves) /\ l \in 1..Len(saves) /\ saves'[i] = saves[k] /\ saves'[j] = saves[l] /\ k # l
    BY <1>2, <1>6
  <2> HIDE DEF k, l
  <2>2. Alone(k, l)
    BY <2>1 DEF SavesInv
  <2> QED BY <2>1, <2>2 DEF Alone
<1>7. ASSUME NEW u \in Task, pc'[u].at = "begin" PROVE lock'[u].by = "begin"
  <2>1. CASE u # s.task
    BY <1>3, <1>7, <2>1 DEF SavesInv
  <2>2. CASE u = s.task
    <3>1. s.by \notin JobKinds /\ pc'[u] = pc[u] /\ lock[u].by = "begin"
      <4>1. s.by \notin JobKinds /\ pc'[u] = pc[u]
        BY <1>3, <1>7, <2>2
      <4>2. pc[u].at = "begin"
        BY <1>7, <4>1
      <4> QED BY <4>1, <4>2 DEF SavesInv
    <3>2. SavePlace(s.by) # "begin"
      BY <1>2, <3>1 DEF JobKinds, SavePlace
    <3>3. s.by \notin LockKinds
      BY <1>4, <2>2, <3>1, <3>2
    <3> QED BY <1>3, <2>2, <3>1, <3>3
  <2> QED BY <2>1, <2>2
<1> QED BY <1>5, <1>6, <1>7 DEF SavesInv

LEMMA StaysSaves ==
  ASSUME TypesInv, SavesInv, Stays
  PROVE  SavesInv'
<1>1. saves' = saves /\ saves \in Seq(SaveRow)
  BY DEF TypesInv, BoardTypes, Stays
<1>2. ASSUME NEW i \in 1..Len(saves) PROVE Waiting(i)'
  <2>1. Waiting(i) /\ saves[i].task \in Task /\ saves[i].by \in SaveKinds
    BY <1>1, RowFacts DEF SavesInv
  <2>2. saves[i].by \in LockKinds => lock'[saves[i].task] = lock[saves[i].task]
    BY <2>1 DEF Waiting, Stays, SavePlace, LockKinds, SaveKinds
  <2>3. saves[i].by \in JobKinds => pc'[saves[i].task] = pc[saves[i].task]
    BY <2>1 DEF Waiting, Stays, SavePlace, JobKinds, Saving
  <2>4. saves[i].by = "begin" => saves[i].by \in JobKinds
    BY DEF JobKinds
  <2> QED BY <1>1, <2>1, <2>2, <2>3, <2>4 DEF Waiting
<1>3. ASSUME NEW i \in 1..Len(saves), NEW j \in 1..Len(saves), i # j PROVE Alone(i, j)'
  BY <1>1, <1>3 DEF SavesInv, Alone
<1>4. ASSUME NEW u \in Task, pc'[u].at = "begin" PROVE lock'[u].by = "begin"
  BY <1>4 DEF Stays, SavesInv
<1> QED BY <1>1, <1>2, <1>3, <1>4 DEF SavesInv

LEMMA ShapeSaves == ASSUME TypesInv, SavesInv, Shape PROVE SavesInv'
BY AddsSaves, DropsSaves, StaysSaves DEF Shape

\* Whatever the step, a task is newly queued only by a grant.
LEMMA ShapeQueues ==
  ASSUME TypesInv, SavesInv, Shape, NEW u \in Task, Queues(u)', ~Queues(u)
  PROVE  granted'[u] > granted[u]
<1>1. saves \in Seq(SaveRow) /\ task \in [Task -> Record]
  BY DEF TypesInv, BoardTypes
<1>2. CASE Stays
  BY <1>1, <1>2 DEF Stays, Queues, Saving
<1>3. CASE Drops
  <2> DEFINE s == Head(saves)
  <2>1. /\ saves # <<>> /\ saves' = Tail(saves) /\ task' = [task EXCEPT ![s.task] = s.rec]
        /\ \A v \in Task \ {s.task} : pc'[v] = pc[v]
    BY <1>3 DEF Drops, Memory
  <2>2. /\ s = saves[1] /\ s.task \in Task /\ 1 \in 1..Len(saves)
        /\ \A i \in 1..Len(saves') : i + 1 \in 1..Len(saves) /\ saves'[i] = saves[i + 1]
    BY <1>1, <2>1, RowFacts
  <2> HIDE DEF s
  <2>3. \A i \in 1..Len(saves) : saves[i].task = u => saves[i].rec.status # "queued"
    BY DEF Queues
  <2>4. task'[u].status = "queued" /\ pc'[u].at # "begin"
    BY <2>2, <2>3 DEF Queues
  <2>5. CASE u = s.task
    BY <1>1, <2>1, <2>2, <2>3, <2>4, <2>5
  <2>6. CASE u # s.task
    BY <1>1, <2>1, <2>4, <2>6 DEF Queues
  <2> QED BY <2>5, <2>6
<1>4. ASSUME NEW t \in Task, NEW r \in Record, NEW by \in SaveKinds, Adds(t, r, by), UNCHANGED task
      PROVE  granted'[u] > granted[u]
  <2>1. /\ saves' = Append(saves, Save(t, r, by)) /\ \A v \in Task \ {t} : pc'[v] = pc[v]
        /\ r.status = "queued" => by \in {"user", "quiet"} /\ (task[t].status = "queued" \/ granted'[t] > granted[t])
        /\ lock[t].by \in {"free", "capture"} \/ by \notin LockKinds
        /\ (by \in JobKinds /\ pc[t].at \notin Saving) \/ (by \notin JobKinds /\ pc'[t] = pc[t])
    <3>1. /\ saves' = Append(saves, Save(t, r, by)) /\ \A v \in Task \ {t} : pc'[v] = pc[v]
          /\ lock[t].by \in {"free", "capture"} \/ by \notin LockKinds
      BY <1>4 DEF Adds
    <3>2. r.status = "queued" => by \in {"user", "quiet"} /\ (task[t].status = "queued" \/ granted'[t] > granted[t])
      BY <1>4 DEF Adds
    <3>3. (by \in JobKinds /\ pc[t].at \notin Saving) \/ (by \notin JobKinds /\ pc'[t] = pc[t])
      BY <1>4 DEF Adds
    <3> QED BY <3>1, <3>2, <3>3
  <2>2. \A i \in 1..Len(saves') : saves'[i] = Save(t, r, by) \/ (i \in 1..Len(saves) /\ saves'[i] = saves[i])
    BY <1>1, <2>1
  <2>3. pc[u].at = "begin" => pc'[u].at = "begin"
    BY <2>1 DEF Saving
  <2>4. PICK i \in 1..Len(saves') : saves'[i].task = u /\ saves'[i].rec.status = "queued"
    BY <1>4, <2>3 DEF Queues
  <2>5. saves'[i] = Save(t, r, by)
    BY <2>2, <2>4 DEF Queues
  <2>6. u = t /\ r.status = "queued"
    BY <2>4, <2>5 DEF Save
  <2>7. lock[t].by # "begin"
    BY <2>1, <2>6 DEF LockKinds, SaveKinds
  <2>8. pc[t].at # "begin"
    BY <2>7 DEF SavesInv
  <2>9. task[t].status # "queued"
    BY <2>6, <2>8 DEF Queues
  <2> QED BY <2>1, <2>6, <2>9
<1> QED BY <1>2, <1>3, <1>4 DEF Shape

LEMMA MadeFinite ==
  ASSUME TypesInv, NEW t \in Task
  PROVE  IsFiniteSet(Made(t)) /\ Cardinality(Made(t)) \in Nat
<1>1. rounds \in Seq(Task) /\ Len(rounds) \in Nat /\ DOMAIN rounds = 1..Len(rounds)
  BY DEF TypesInv, RunTypes
<1>2. IsFiniteSet(1..Len(rounds))
  BY <1>1, FS_Interval
<1>3. Made(t) \subseteq 1..Len(rounds)
  BY <1>1 DEF Made
<1> QED BY <1>2, <1>3, FS_Subset, FS_CardinalityType

LEMMA TameKeeps ==
  ASSUME IInv, TypesInv', Tame
  PROVE  IInv'
<1>1. TypesInv /\ SavesInv /\ OnceInv /\ CreditInv
  BY DEF IInv
<1>2. SavesInv'
  BY <1>1, ShapeSaves DEF Tame
<1>3. OnceInv'
  BY <1>1 DEF OnceInv, Tame
<1>4. ASSUME NEW t \in Task PROVE Claims(t)' <= granted'[t]
  <2> DEFINE n == Cardinality(Made(t))
  <2>1. Made(t)' = Made(t) /\ n \in Nat
    BY <1>1, MadeFinite DEF Tame, Made
  <2>2. n + (IF Prepares(t) THEN 1 ELSE 0) + (IF Queues(t) THEN 1 ELSE 0) <= granted[t]
    BY <1>1 DEF CreditInv, Claims
  <2>3. Claims(t)' = n + (IF Prepares(t)' THEN 1 ELSE 0) + (IF Queues(t)' THEN 1 ELSE 0)
    BY <2>1 DEF Claims
  <2>4. (Prepares(t)' => Prepares(t)) /\ granted'[t] >= granted[t]
    BY DEF Tame
  <2>5. Queues(t)' => Queues(t) \/ granted'[t] > granted[t]
    BY <1>1, ShapeQueues DEF Tame
  <2>6. granted[t] \in Nat /\ granted'[t] \in Nat
    BY <1>1 DEF TypesInv, RunTypes
  <2> HIDE DEF n
  <2> QED BY <2>1, <2>2, <2>3, <2>4, <2>5, <2>6
<1> QED BY <1>2, <1>3, <1>4 DEF IInv, CreditInv
-----------------------------------------------------------------------------
(* The records that steps write *)

\* The fields of a record, without the lists of their values.
Review == [op : {NoOp} \cup Op, turn : 0..MaxTurns]
Marks == Status \cup {"deleted"}

LEMMA RecordIs ==
  /\ Record = [status : Marks, op : Ops, agent : Ops, wt : BOOLEAN, review : Review,
               outcome : {"none"} \cup TurnKind, outTurn : 0..MaxTurns]
  /\ NoReview \in Review /\ 0 \in 0..MaxTurns /\ NoOp \in Ops
  /\ {"draft", "queued", "preparing", "deleted"} \subseteq Marks
<1>1. 0 \in 0..MaxTurns
  BY BoundAssumption
<1> QED BY <1>1 DEF Record, Review, NoReview, Marks, Status

LEMMA DraftRows ==
  /\ Draft \in Record
  /\ \A s \in Marks : [Draft EXCEPT !.status = s] \in Record /\ [Draft EXCEPT !.status = s].status = s
  /\ \A r \in Record : Requeued(r) \in Record
  /\ \A r \in Record, o \in Op : Begun(r, o) \in Record /\ Begun(r, o).status = "preparing" /\ Begun(r, o).op = o
<1> HIDE DEF Record, Ops
<1>1. Draft \in Record
  BY RecordIs DEF Draft
<1>2. ASSUME NEW s \in Marks PROVE [Draft EXCEPT !.status = s] \in Record /\ [Draft EXCEPT !.status = s].status = s
  BY RecordIs DEF Draft
<1>3. ASSUME NEW r \in Record PROVE Requeued(r) \in Record
  BY RecordIs DEF Draft, Requeued
<1>4. ASSUME NEW r \in Record, NEW o \in Op
      PROVE Begun(r, o) \in Record /\ Begun(r, o).status = "preparing" /\ Begun(r, o).op = o
  BY RecordIs DEF Draft, Begun, Ops
<1> QED BY <1>1, <1>2, <1>3, <1>4

LEMMA RecordEdits ==
  ASSUME NEW r \in Record, NEW s \in Status, NEW o \in Ops
  PROVE  /\ r.status \in Marks /\ r.op \in Ops /\ r.agent \in Ops /\ r.outcome \in {"none"} \cup TurnKind
         /\ [r EXCEPT !.status = s] \in Record /\ [r EXCEPT !.status = s].status = s
         /\ [r EXCEPT !.agent = o] \in Record /\ [r EXCEPT !.agent = o].status = r.status
         /\ [r EXCEPT !.status = s, !.agent = o] \in Record /\ [r EXCEPT !.status = s, !.agent = o].status = s
         /\ [r EXCEPT !.wt = TRUE, !.agent = NoOp] \in Record /\ [r EXCEPT !.wt = TRUE, !.agent = NoOp].status = r.status
         /\ [r EXCEPT !.status = s, !.review = NoReview] \in Record
         /\ [r EXCEPT !.status = s, !.review = NoReview].status = s
<1> HIDE DEF Record, Ops, NoOp
<1>1. s \in Marks
  BY DEF Marks
<1> QED BY <1>1, RecordIs

LEMMA LinkedRow ==
  ASSUME NEW r \in Record, NEW o \in Op
  PROVE  /\ LinkedRecord(r, o) \in Record /\ LinkedRecord(r, o).status \in {"canceling", "running"}
         /\ LinkedRecord(r, o).agent = o
         /\ LET x == [LinkedRecord(r, o) EXCEPT !.agent = IF r.agent = NoOp THEN o ELSE r.agent]
            IN  x \in Record /\ x.status \in {"canceling", "running"} /\ x.agent \in Op
BY ZenonT(40) DEF Record, Status, LinkedRecord

LEMMA EndedRow ==
  ASSUME NEW r \in Record, NEW e \in EventRow, NEW s \in Status
  PROVE  /\ Ended(r, e, s) \in Record /\ Ended(r, e, s).status = s
         /\ [Ended(r, e, s) EXCEPT !.review = NoReview] \in Record
         /\ [Ended(r, e, s) EXCEPT !.review = NoReview].status = s
         /\ Reviewed(r, e) \in Record /\ Reviewed(r, e).status = "awaiting_review"
<1>1. e.turn \in 0..MaxTurns /\ e.outcome \in {"none"} \cup TurnKind
  BY DEF EventRow
<1>2. Ended(r, e, s) \in Record /\ Ended(r, e, s).status = s
  BY <1>1 DEF Record, Ended
<1>3. [Ended(r, e, s) EXCEPT !.review = NoReview] \in Record
      /\ [Ended(r, e, s) EXCEPT !.review = NoReview].status = s
  BY <1>1, RecordIs DEF Marks, Ended
<1>4. Reviewed(r, e) \in Record /\ Reviewed(r, e).status = "awaiting_review"
  BY <1>1 DEF Record, Ended, Reviewed, Status
<1> QED BY <1>2, <1>3, <1>4

LEMMA SettleTypes ==
  ASSUME TypesInv, NEW t \in Task
  PROVE  /\ \A r \in Record : SettleFrom(t, r) \in [Task -> SettleRow]
         /\ \A mem \in [Task -> Record] : SettleIfCanceling(t, mem) \in [Task -> SettleRow]
<1>1. settle \in [Task -> SettleRow]
  BY DEF TypesInv, RunTypes
<1>2. ASSUME NEW r \in Record PROVE SettleFrom(t, r) \in [Task -> SettleRow]
  <2>1. r.agent \in Ops /\ r.op \in Ops
    BY DEF Record
  <2>2. [step |-> IF r.agent = NoOp THEN "find" ELSE "stop", op |-> r.op, agent |-> r.agent] \in SettleRow
    BY <2>1 DEF SettleRow
  <2> QED BY <1>1, <2>2 DEF SettleFrom
<1> QED BY <1>1, <1>2 DEF SettleIfCanceling

LEMMA SessionTypes ==
  ASSUME TypesInv, NEW o \in Ops
  PROVE  /\ Seen(o) \in Looks /\ FoundBy(o) \in Ops
         /\ FoundBy(o) # NoOp => FoundBy(o) = o /\ o \in Op
         /\ \A r \in Record : SessionOf(r) \in Ops
<1>1. session \in [Op -> SessionRow]
  BY DEF TypesInv, RunTypes
<1>2. ASSUME NEW p \in Ops
      PROVE  Seen(p) \in Looks /\ FoundBy(p) \in Ops /\ (FoundBy(p) # NoOp => FoundBy(p) = p /\ p \in Op)
  BY <1>1 DEF Seen, FoundBy, Exists, Looks, SessionRow
<1>3. ASSUME NEW r \in Record PROVE SessionOf(r) \in Ops
  <2>1. r.op \in Ops /\ r.agent \in Ops
    BY DEF Record
  <2> QED BY <1>2, <2>1 DEF SessionOf
<1> QED BY <1>2, <1>3

-----------------------------------------------------------------------------
(* What the parts of a step leave behind *)

\* A change under the task's lock.
LEMMA UserSaves ==
  ASSUME TypesInv, NEW t \in Task, NEW r \in Record, NEW by \in LockHolders \ {"free", "capture"},
         UserSave(t, r, by), UNCHANGED task
  PROVE  /\ BoardTypes'
         /\ \A u \in Task \ {t} : lock'[u] = lock[u]
         /\ lock'[t].by = by
<1>1. saves \in Seq(SaveRow) /\ lock \in [Task -> LockRow] /\ task \in [Task -> Record]
  BY DEF TypesInv, BoardTypes
<1>2. Save(t, r, by) \in SaveRow
  BY DEF Save, SaveRow, SaveKinds, LockHolders
<1>3. saves' = Append(saves, Save(t, r, by)) /\ lock' = [lock EXCEPT ![t] = [by |-> by, op |-> task[t].op, event |-> <<>>]]
  BY DEF UserSave, Holds
<1>4. [by |-> by, op |-> task[t].op, event |-> <<>>] \in LockRow
  <2>1. task[t].op \in Ops
    BY <1>1 DEF Record
  <2> QED BY <2>1 DEF LockRow
<1>5. lock' \in [Task -> LockRow] /\ saves' \in Seq(SaveRow)
  BY <1>1, <1>2, <1>3, <1>4
<1>6. \A u \in Task : lock'[u].by = "capture" => lock'[u].event # <<>>
  BY <1>1, <1>3 DEF TypesInv, BoardTypes
<1> QED BY <1>1, <1>3, <1>5, <1>6 DEF BoardTypes

LEMMA UserAdds ==
  ASSUME IInv, NEW t \in Task, NEW r \in Record, NEW by \in LockHolders \ {"free", "capture", "begin", "fail"},
         UserSave(t, r, by), lock[t].by \in {"free", "capture"},
         UNCHANGED <<task, pc, rounds, created>>, \A u \in Task : granted'[u] >= granted[u],
         r.status = "queued" => by \in {"user", "quiet"} /\ (task[t].status = "queued" \/ granted'[t] > granted[t])
  PROVE  BoardTypes' /\ Tame
<1>1. TypesInv
  BY DEF IInv
<1>2. BoardTypes' /\ (\A u \in Task \ {t} : lock'[u] = lock[u]) /\ lock'[t].by = by
  BY <1>1, UserSaves
<1>3. by \in LockKinds /\ by \notin JobKinds /\ SavePlace(by) = by /\ by \in SaveKinds /\ by # "found" /\ by # "begin"
  BY DEF LockKinds, JobKinds, SavePlace, SaveKinds, LockHolders
<1>4. Adds(t, r, by)
  BY <1>2, <1>3 DEF Adds, UserSave
<1>5. \A u \in Task : Prepares(u)' => Prepares(u) /\ pc'[u].op = pc[u].op
  BY DEF Prepares
<1> QED BY <1>2, <1>3, <1>4, <1>5 DEF Tame, Shape

\* Nothing happens to the board and the jobs.
LEMMA Idles ==
  ASSUME IInv, UNCHANGED <<task, saves, lock, pc, rounds, created, granted>>
  PROVE  BoardTypes' /\ Tame
<1>1. BoardTypes'
  BY DEF IInv, TypesInv, BoardTypes
<1>2. Stays
  BY DEF Stays
<1>3. \A u \in Task : (Prepares(u)' => Prepares(u) /\ pc'[u].op = pc[u].op)
  BY DEF Prepares
<1>4. \A u \in Task : granted'[u] >= granted[u]
  BY DEF IInv, TypesInv, RunTypes
<1> QED BY <1>1, <1>2, <1>3, <1>4 DEF Tame, Shape

\* A save that lands under the lock, which is given back.
LEMMA Publishes ==
  ASSUME IInv, saves # <<>>, Publish, lock' = Unlock(Head(saves).task), Head(saves).by \in LockKinds
  PROVE  /\ BoardTypes' /\ known' \in [Op -> [turn : 0..MaxTurns, ask : BOOLEAN]]
         /\ Memory \in [Task -> Record] /\ Head(saves).task \in Task /\ Head(saves).rec \in Record
         /\ Head(saves).by \notin JobKinds /\ UNCHANGED pc => Tame
         /\ Head(saves).by = "found" => Head(saves).rec.agent \in Op
<1> DEFINE s == Head(saves)
<1>1. /\ saves \in Seq(SaveRow) /\ lock \in [Task -> LockRow] /\ task \in [Task -> Record]
      /\ known \in [Op -> [turn : 0..MaxTurns, ask : BOOLEAN]] /\ granted \in [Task -> Nat]
      /\ \A u \in Task : lock[u].by = "capture" => lock[u].event # <<>>
  BY DEF IInv, TypesInv, BoardTypes, EventTypes, RunTypes
<1>2. s.task \in Task /\ s.rec \in Record /\ s.by \in SaveKinds /\ Tail(saves) \in Seq(SaveRow) /\ s = saves[1] /\ 1 \in 1..Len(saves)
  BY <1>1, RowFacts
<1>3. /\ task' = [task EXCEPT ![s.task] = s.rec] /\ saves' = Tail(saves) /\ UNCHANGED <<rounds, created, granted>>
      /\ Memory = [task EXCEPT ![s.task] = s.rec]
  BY DEF Publish, Memory, countVars
<1>4. known' \in [Op -> [turn : 0..MaxTurns, ask : BOOLEAN]]
  <2> DEFINE o == IF s.rec.status = "deleted" THEN task[s.task].agent ELSE s.rec.agent
  <2>1. o \in Ops
    BY <1>1, <1>2 DEF Record
  <2>2. known' = IF s.rec.status \in {"canceled", "deleted"} /\ o # NoOp THEN [known EXCEPT ![o] = Unknown] ELSE known
    BY DEF Publish
  <2>3. Unknown \in [turn : 0..MaxTurns, ask : BOOLEAN]
    BY BoundAssumption DEF Unknown
  <2> HIDE DEF o
  <2> QED BY <1>1, <2>1, <2>2, <2>3
<1>5. lock' = [lock EXCEPT ![s.task] = Free] /\ Free \in LockRow /\ Free.by = "free"
  BY DEF Unlock, Free, LockRow, LockHolders
<1> HIDE DEF s
<1>6. BoardTypes'
  <2>1. task' \in [Task -> Record] /\ saves' \in Seq(SaveRow) /\ lock' \in [Task -> LockRow]
    BY ZenonT(40), <1>1, <1>2, <1>3, <1>5
  <2>2. \A u \in Task : lock'[u].by = "capture" => lock'[u].event # <<>>
    BY <1>1, <1>2, <1>5
  <2> QED BY <2>1, <2>2 DEF BoardTypes
<1>7. ASSUME s.by \notin JobKinds, UNCHANGED pc PROVE Tame
  <2>1. Drops
    BY <1>1, <1>2, <1>3, <1>5, <1>7 DEF Drops, s, Memory
  <2>2. \A u \in Task : (Prepares(u)' => Prepares(u) /\ pc'[u].op = pc[u].op) /\ granted'[u] >= granted[u]
    BY <1>1, <1>3, <1>7 DEF Prepares
  <2> QED BY <1>3, <2>1, <2>2 DEF Tame, Shape
<1>8. s.by = "found" => s.rec.agent \in Op
  BY <1>2 DEF IInv, SavesInv, Waiting
<1> QED BY <1>2, <1>3, <1>1, <1>4, <1>6, <1>7, <1>8 DEF s
-----------------------------------------------------------------------------
(* Users, settlements and events *)

\* The lock of a task is granted when nobody has it.
LEMMA Granted == ASSUME NEW t \in Task, Grants(t) PROVE lock[t].by = "free"
BY DEF Grants, Locked

\* Of the sessions of a task that is deleted some are archived, the others go on.
Archives(t) ==
    /\ session' = [o \in Op |-> session'[o]]
    /\ \A o \in Op : session'[o] = session[o] \/ session'[o] = ArchivedOf(t)[o]

LEMMA Archiving ==
  ASSUME IInv, NEW t \in Task, Delete(t) \/ DeleteFails(t)
  PROVE  Archives(t)
<1>1. session = [o \in Op |-> session[o]] /\ ArchivedOf(t) = [o \in Op |-> ArchivedOf(t)[o]]
  BY DEF IInv, TypesInv, RunTypes, ArchivedOf
<1>2. CASE UNCHANGED session
  BY <1>1, <1>2 DEF Archives
<1>3. CASE session' = ArchivedOf(t)
  BY <1>1, <1>3 DEF Archives
<1>4. ASSUME NEW gone \in SUBSET Op,
             session' = [o \in Op |-> IF o \in gone THEN ArchivedOf(t)[o] ELSE session[o]]
      PROVE  Archives(t)
  <2> DEFINE A == ArchivedOf(t)
  <2>1. session' = [o \in Op |-> IF o \in gone THEN A[o] ELSE session[o]]
    BY <1>4
  <2> HIDE DEF A
  <2>2. session' = [o \in Op |-> session'[o]] /\ \A o \in Op : session'[o] = session[o] \/ session'[o] = A[o]
    BY <2>1
  <2> QED BY <2>2 DEF Archives, A
<1> QED BY <1>2, <1>3, <1>4 DEF Delete, DeleteFails, worldVars

\* The oldest save lands, whoever asked for it.
LEMMA LandMoves ==
  ASSUME Land
  PROVE  /\ saves # <<>> /\ saves' = Tail(saves) /\ task' = Memory
         /\ UNCHANGED recovery \/ (recovery.step = "saving" /\ recovery' = NextVisit)
         /\ UNCHANGED <<session, rounds, turns, events>>
<1>1. CASE LandUser \/ LandQuiet \/ LandCancel
  BY <1>1 DEF LandUser, LandQuiet, LandCancel, Lands, Publish, eventVars, worldVars, countVars
<1>2. CASE LandTurn \/ LandSettle
  BY <1>2 DEF LandTurn, LandSettle, Lands, Publish, eventVars, worldVars, countVars
<1>3. CASE LandBegin \/ LandFail
  BY <1>3 DEF LandBegin, LandFail, Lands, Publish, eventVars, worldVars, countVars
<1>4. CASE LandLocate
  BY <1>4 DEF LandLocate, Lands, eventVars, worldVars
<1>5. CASE LandLink
  BY <1>5 DEF LandLink, Lands, worldVars, countVars
<1>6. CASE LandRecover
  BY <1>6 DEF LandRecover, Lands, eventVars, worldVars, countVars
<1> QED BY <1>1, <1>2, <1>3, <1>4, <1>5, <1>6 DEF Land

LEMMA UserStep ==
  ASSUME IInv, NEW t \in Task, User(t)
  PROVE  TypesInv' /\ Tame
<1>1. TypesInv /\ task[t] \in Record /\ task[t].op \in Ops /\ granted \in [Task -> Nat]
  BY DEF IInv, TypesInv, BoardTypes, RunTypes, Record
<1>2. TypesInv <=> BoardTypes /\ EventTypes /\ RunTypes
  BY DEF TypesInv
<1>3. \A s \in Status : [task[t] EXCEPT !.status = s] \in Record /\ [task[t] EXCEPT !.status = s].status = s
  BY ZenonT(40), <1>1, RecordEdits
<1>4. {"user", "quiet", "cancel"} \subseteq LockHolders \ {"free", "capture", "begin", "fail"}
      /\ {"queued", "canceled", "canceling", "needs_check"} \subseteq Status
  BY DEF LockHolders, Status
<1>5. CASE Start(t)
  <2>1. UserSave(t, [task[t] EXCEPT !.status = "queued"], "user") /\ lock[t].by = "free"
        /\ UNCHANGED <<task, pc, rounds, created>> /\ granted' = [granted EXCEPT ![t] = @ + 1]
    BY <1>5, Granted DEF Start, Accepts, runVars
  <2>2. BoardTypes' /\ Tame
    BY <1>1, <1>3, <1>4, <2>1, UserAdds
  <2>3. EventTypes' /\ RunTypes'
    BY <1>1, <1>5 DEF Start, TypesInv, EventTypes, RunTypes, eventVars, runVars, worldVars
  <2> QED BY <1>2, <2>2, <2>3 DEF TypesInv
<1>6. CASE Requeue(t)
  <2>1. UserSave(t, Requeued(task[t]), "user") /\ lock[t].by = "free"
        /\ UNCHANGED <<task, pc, rounds, created>> /\ granted' = [granted EXCEPT ![t] = @ + 1]
    BY <1>6, Granted DEF Requeue, Accepts, runVars
  <2>2. BoardTypes' /\ Tame
    BY <1>1, <1>4, <2>1, UserAdds, DraftRows
  <2>3. EventTypes' /\ RunTypes'
    BY <1>1, <1>6 DEF Requeue, TypesInv, EventTypes, RunTypes, eventVars, runVars, worldVars
  <2> QED BY <1>2, <2>2, <2>3 DEF TypesInv
<1>7. CASE Cancel(t)
  <2>1. PICK r \in Record, by \in {"user", "cancel"} : UserSave(t, r, by) /\ r.status # "queued"
    BY <1>3, <1>4, <1>7 DEF Cancel
  <2>2. lock[t].by = "free" /\ UNCHANGED <<task, pc, rounds, created, granted>>
    BY <1>7, Granted DEF Cancel, Accepts, runVars, countVars
  <2>3. BoardTypes' /\ Tame
    BY <1>1, <1>4, <2>1, <2>2, UserAdds
  <2>4. EventTypes' /\ RunTypes'
    BY <1>1, <1>7 DEF Cancel, TypesInv, EventTypes, RunTypes, eventVars, runVars, worldVars, countVars
  <2> QED BY <1>2, <2>3, <2>4 DEF TypesInv
<1>8. CASE RetryStop(t)
  <2>1. BoardTypes' /\ Tame
    BY <1>8, Idles DEF RetryStop, boardVars, countVars
  <2>2. settle' \in [Task -> SettleRow]
    BY <1>1, <1>8, SettleTypes DEF RetryStop
  <2>3. EventTypes' /\ RunTypes'
    BY <1>1, <1>8, <2>2 DEF RetryStop, TypesInv, EventTypes, RunTypes, boardVars, eventVars, worldVars, countVars
  <2> QED BY <1>2, <2>1, <2>3 DEF TypesInv
<1>9. ASSUME Archives(t) PROVE session' \in [Op -> SessionRow]
  <2>1. session \in [Op -> SessionRow]
    BY <1>1 DEF TypesInv, RunTypes
  <2>2. \A o \in Op : [session[o] EXCEPT !.state = "gone"] \in SessionRow /\ session[o] \in SessionRow
    BY <2>1 DEF SessionRow, Looks
  <2>3. \A o \in Op : ArchivedOf(t)[o] \in SessionRow
    BY <2>1, <2>2 DEF ArchivedOf
  <2> QED BY <1>9, <2>1, <2>3 DEF Archives
<1>10. CASE Delete(t)
  <2>1. UserSave(t, [Draft EXCEPT !.status = "deleted"], "user") /\ lock[t].by = "free"
        /\ UNCHANGED <<task, pc, rounds, created, granted>>
    BY <1>10, Granted DEF Delete, Accepts, runVars, countVars
  <2>2. [Draft EXCEPT !.status = "deleted"] \in Record /\ [Draft EXCEPT !.status = "deleted"].status = "deleted"
    BY DraftRows, RecordIs
  <2> DEFINE r == [Draft EXCEPT !.status = "deleted"]
  <2>5. r \in Record /\ r.status # "queued" /\ UserSave(t, r, "user")
    BY <2>1, <2>2
  <2> HIDE DEF r
  <2>3. BoardTypes' /\ Tame
    BY <1>1, <1>4, <2>1, <2>5, UserAdds
  <2>4. EventTypes' /\ RunTypes'
    BY <1>1, <1>9, <1>10, Archiving DEF Delete, TypesInv, EventTypes, RunTypes, eventVars, runVars, countVars
  <2> QED BY <1>2, <2>3, <2>4 DEF TypesInv
<1>11. CASE DeleteFails(t)
  <2>1. UserSave(t, task[t], "quiet") /\ lock[t].by = "free" /\ UNCHANGED <<task, pc, rounds, created, granted>>
    BY <1>11, Granted DEF DeleteFails, Accepts, runVars
  <2>2. BoardTypes' /\ Tame
    BY <1>1, <1>4, <2>1, UserAdds
  <2>3. EventTypes' /\ RunTypes'
    BY <1>1, <1>9, <1>11, Archiving DEF DeleteFails, TypesInv, EventTypes, RunTypes, eventVars, runVars
  <2> QED BY <1>2, <2>2, <2>3 DEF TypesInv
<1>12. CASE Reconcile(t)
  <2>1. UserSave(t, [task[t] EXCEPT !.status = "needs_check", !.review = NoReview], "quiet") /\ lock[t].by = "free"
        /\ UNCHANGED <<task, pc, rounds, created, granted>>
    BY <1>12, Granted DEF Reconcile, runVars, countVars
  <2>2. [task[t] EXCEPT !.status = "needs_check", !.review = NoReview] \in Record
        /\ [task[t] EXCEPT !.status = "needs_check", !.review = NoReview].status = "needs_check"
    BY ZenonT(40), <1>1, <1>4, RecordEdits
  <2> DEFINE r == [task[t] EXCEPT !.status = "needs_check", !.review = NoReview]
  <2>5. r \in Record /\ r.status # "queued" /\ UserSave(t, r, "quiet")
    BY <2>1, <2>2
  <2> HIDE DEF r
  <2>3. BoardTypes' /\ Tame
    BY <1>1, <1>4, <2>1, <2>5, UserAdds
  <2>4. EventTypes' /\ RunTypes'
    BY <1>1, <1>12 DEF Reconcile, TypesInv, EventTypes, RunTypes, eventVars, runVars, worldVars, countVars
  <2> QED BY <1>2, <2>3, <2>4 DEF TypesInv
<1> QED BY <1>5, <1>6, <1>7, <1>8, <1>10, <1>11, <1>12 DEF User

LEMMA SettlesStep ==
  ASSUME IInv, NEW t \in Task, SettleStep(t) \/ SettleFails(t)
  PROVE  TypesInv' /\ Tame
<1>1. TypesInv /\ task[t] \in Record /\ granted \in [Task -> Nat] /\ settle[t] \in SettleRow /\ settle \in [Task -> SettleRow]
  BY DEF IInv, TypesInv, BoardTypes, RunTypes
<1>2. settle[t].op \in Ops /\ settle[t].agent \in Ops
  BY <1>1 DEF SettleRow
<1>3. ASSUME UNCHANGED <<task, saves, lock, eventVars, pc, recovery, worldVars, rounds, created, granted>>,
             settle' \in [Task -> SettleRow]
      PROVE  TypesInv' /\ Tame
  <2>1. BoardTypes' /\ Tame
    BY <1>3, Idles
  <2>2. EventTypes' /\ RunTypes'
    BY <1>1, <1>3 DEF TypesInv, EventTypes, RunTypes, eventVars, worldVars
  <2> QED BY <2>1, <2>2 DEF TypesInv
<1>4. Off \in SettleRow
  BY DEF Off, SettleRow
<1>5. ASSUME NEW step \in {"mark", "stop"}, NEW o \in Ops, SettleTo(t, step, o) PROVE settle' \in [Task -> SettleRow]
  BY <1>1, <1>5 DEF SettleTo, SettleRow
<1>6. ASSUME GiveUp(t) PROVE settle' \in [Task -> SettleRow]
  BY <1>1, <1>4, <1>6 DEF GiveUp
<1>7. CASE SettleFind(t)
  <2>1. FoundBy(settle[t].op) \in Ops
    BY <1>1, <1>2, SessionTypes
  <2>2. settle' \in [Task -> SettleRow]
    BY <1>5, <1>7, <2>1 DEF SettleFind
  <2> QED BY <1>3, <1>7, <2>2 DEF SettleFind, boardVars, countVars
<1>8. CASE SettleStop(t)
  <2>1. settle' \in [Task -> SettleRow]
    BY <1>2, <1>5, <1>6, <1>8 DEF SettleStop
  <2> QED BY <1>3, <1>8, <2>1 DEF SettleStop, boardVars, countVars
<1>9. CASE SettleFails(t)
  BY <1>3, <1>6, <1>9 DEF SettleFails, boardVars
<1>11. CASE Watch(t)
  <2>1. settle' \in [Task -> SettleRow]
    BY <1>1, <1>11, SettleTypes DEF Watch
  <2> QED BY <1>3, <1>11, <2>1 DEF Watch, boardVars, countVars
<1>10. CASE SettleMark(t)
  <2>1. lock[t].by = "free" /\ UNCHANGED <<task, eventVars, pc, recovery, worldVars, rounds, created, granted>>
    BY <1>10, Granted DEF SettleMark, countVars
  <2>2. CASE UNCHANGED <<saves, lock>> /\ GiveUp(t)
    BY <1>3, <1>6, <2>1, <2>2
  <2>3. CASE /\ UserSave(t, [task[t] EXCEPT !.status = "canceled", !.agent = IF @ = NoOp THEN settle[t].agent ELSE @], "settle")
             /\ settle' = [settle EXCEPT ![t].step = "saving"]
    <3> DEFINE o == IF task[t].agent = NoOp THEN settle[t].agent ELSE task[t].agent
               r == [task[t] EXCEPT !.status = "canceled", !.agent = o]
    <3>1. o \in Ops
      BY <1>1, <1>2 DEF Record
    <3> HIDE DEF o
    <3>2. r \in Record /\ r.status = "canceled"
      <4>1. "canceled" \in Status
        BY DEF Status
      <4> QED BY <1>1, <3>1, <4>1 DEF Record
    <3>3. UserSave(t, r, "settle")
      BY <2>3 DEF o
    <3>4. "settle" \in LockHolders \ {"free", "capture", "begin", "fail"}
      BY DEF LockHolders
    <3> HIDE DEF r
    <3>5. BoardTypes' /\ Tame
      BY <1>1, <2>1, <3>2, <3>3, <3>4, UserAdds
    <3>6. settle' \in [Task -> SettleRow]
      BY <1>1, <2>3 DEF SettleRow
    <3>7. EventTypes' /\ RunTypes'
      BY <1>1, <2>1, <3>6 DEF TypesInv, EventTypes, RunTypes, eventVars, worldVars
    <3> QED BY <3>5, <3>7 DEF TypesInv
  <2> QED BY <1>10, <2>2, <2>3 DEF SettleMark
<1> QED BY <1>7, <1>8, <1>9, <1>10, <1>11 DEF SettleStep
-----------------------------------------------------------------------------
(* The daemon's events *)

LEMMA EventFacts ==
  ASSUME TypesInv, NEW t \in Task
  PROVE  /\ inbox[t] # <<>> => /\ Head(inbox[t]) \in EventRow
                               /\ [inbox EXCEPT ![t] = Tail(@)] \in [Task -> Seq(EventRow)]
         /\ lock[t].by = "capture" => lock[t].event[1] \in EventRow
         /\ \A e \in EventRow : /\ e.agent \in Op /\ e.turn \in 0..MaxTurns /\ (e.kind = "ended" => e.outcome \in TurnKind)
                                /\ <<e>> \in Seq(EventRow) /\ <<e>> # <<>>
         /\ \A e : turns \ {e} \in SUBSET EventRow /\ IsFiniteSet(turns \ {e})
<1>1. /\ inbox \in [Task -> Seq(EventRow)] /\ turns \in SUBSET EventRow /\ IsFiniteSet(turns)
      /\ lock \in [Task -> LockRow] /\ (lock[t].by = "capture" => lock[t].event # <<>>)
  BY DEF TypesInv, BoardTypes, EventTypes
<1>2. ASSUME NEW q \in Seq(EventRow), q # <<>> PROVE Head(q) \in EventRow /\ Tail(q) \in Seq(EventRow) /\ q[1] \in EventRow
  BY <1>2
<1>3. lock[t].event \in Seq(EventRow)
  BY <1>1 DEF LockRow
<1>4. ASSUME NEW e \in EventRow
      PROVE  /\ e.agent \in Op /\ e.turn \in 0..MaxTurns /\ (e.kind = "ended" => e.outcome \in TurnKind)
             /\ <<e>> \in Seq(EventRow) /\ <<e>> # <<>>
  <2>1. e.agent \in Op /\ e.turn \in 0..MaxTurns /\ (e.kind = "ended" => e.outcome \in TurnKind)
    BY DEF EventRow
  <2>2. <<e>> \in Seq(EventRow) /\ <<e>> # <<>>
    OBVIOUS
  <2> QED BY <2>1, <2>2
<1>5. ASSUME NEW e PROVE turns \ {e} \in SUBSET EventRow /\ IsFiniteSet(turns \ {e})
  BY <1>1, FS_Subset
<1>6. inbox[t] # <<>> => Head(inbox[t]) \in EventRow /\ [inbox EXCEPT ![t] = Tail(@)] \in [Task -> Seq(EventRow)]
  BY <1>1, <1>2
<1> QED BY <1>1, <1>2, <1>3, <1>4, <1>5, <1>6

\* What the handler of an event does besides taking it: a save under the lock,
\* or nothing, or the capture.
LEMMA EventEnds ==
  ASSUME IInv, NEW t \in Task, lock[t].by \in {"free", "capture"}, EventTypes',
         UNCHANGED <<task, pc, recovery, session, rounds, created, granted>>,
         \/ \E r \in Record, by \in {"quiet", "turn"} : UserSave(t, r, by) /\ r.status # "queued" /\ UNCHANGED settle
         \/ UNCHANGED saves /\ lock' \in {lock, Unlock(t)} /\ settle' \in {settle, SettleIfCanceling(t, task)}
         \/ /\ UNCHANGED <<saves, settle>>
            /\ \E e \in EventRow : lock' = [lock EXCEPT ![t] = [by |-> "capture", op |-> task[t].op, event |-> <<e>>]]
  PROVE  TypesInv' /\ Tame
<1>1. /\ TypesInv /\ task \in [Task -> Record] /\ saves \in Seq(SaveRow) /\ lock \in [Task -> LockRow]
      /\ \A u \in Task : (lock[u].by = "capture" => lock[u].event # <<>>) /\ granted[u] \in Nat
  BY DEF IInv, TypesInv, BoardTypes, RunTypes
<1>2. settle' \in [Task -> SettleRow]
  BY <1>1, SettleTypes DEF TypesInv, RunTypes
<1>3. RunTypes'
  BY <1>1, <1>2 DEF TypesInv, RunTypes
<1>4. ASSUME UNCHANGED saves, NEW row \in LockRow, row.by = "capture" => row.event # <<>>,
             lock' = lock \/ lock' = [lock EXCEPT ![t] = row]
      PROVE  BoardTypes' /\ Tame
  <2>1. BoardTypes'
    BY <1>1, <1>4 DEF BoardTypes
  <2>2. Stays
    BY <1>1, <1>4 DEF Stays
  <2>3. \A u \in Task : (Prepares(u)' => Prepares(u) /\ pc'[u].op = pc[u].op) /\ granted'[u] >= granted[u]
    BY <1>1 DEF Prepares
  <2> QED BY <2>1, <2>2, <2>3 DEF Tame, Shape
<1>5. CASE \E r \in Record, by \in {"quiet", "turn"} : UserSave(t, r, by) /\ r.status # "queued"
  <2>1. PICK r \in Record, by \in {"quiet", "turn"} : UserSave(t, r, by) /\ r.status # "queued"
    BY <1>5
  <2>2. by \in LockHolders \ {"free", "capture", "begin", "fail"} /\ \A u \in Task : granted'[u] >= granted[u]
    BY <1>1 DEF LockHolders
  <2>3. BoardTypes' /\ Tame
    BY <2>1, <2>2, UserAdds
  <2> QED BY <1>3, <2>3 DEF TypesInv
<1>6. CASE UNCHANGED saves /\ lock' \in {lock, Unlock(t)}
  <2>1. Free \in LockRow /\ Free.by # "capture"
    BY DEF Free, LockRow, LockHolders
  <2>2. lock' = lock \/ lock' = [lock EXCEPT ![t] = Free]
    BY <1>6 DEF Unlock
  <2> QED BY <1>3, <1>4, <1>6, <2>1, <2>2 DEF TypesInv
<1>7. CASE UNCHANGED saves /\ \E e \in EventRow : lock' = [lock EXCEPT ![t] = [by |-> "capture", op |-> task[t].op, event |-> <<e>>]]
  <2>1. PICK e \in EventRow : lock' = [lock EXCEPT ![t] = [by |-> "capture", op |-> task[t].op, event |-> <<e>>]]
    BY <1>7
  <2> DEFINE row == [by |-> "capture", op |-> task[t].op, event |-> <<e>>]
  <2>2. task[t].op \in Ops /\ <<e>> \in Seq(EventRow) /\ <<e>> # <<>>
    <3>1. task[t].op \in Ops
      BY <1>1 DEF Record
    <3> QED BY <1>1, <3>1, EventFacts
  <2>3. row \in LockRow /\ row.event # <<>>
    BY <2>2 DEF LockRow, LockHolders
  <2>4. lock' = [lock EXCEPT ![t] = row]
    BY <2>1
  <2> HIDE DEF row
  <2> QED BY <1>3, <1>4, <1>7, <2>3, <2>4 DEF TypesInv
<1> QED BY <1>5, <1>6, <1>7

LEMMA PermissionStep ==
  ASSUME IInv, NEW t \in Task, HandlePermission(t)
  PROVE  TypesInv' /\ Tame
<1> DEFINE e == Head(inbox[t])
           next == ReducePermission(task[t].status, e.kind = "ask")
           r == [task[t] EXCEPT !.status = next]
<1>1. TypesInv /\ task[t] \in Record
  BY DEF IInv, TypesInv, BoardTypes
<1>2. /\ lock[t].by = "free" /\ inbox[t] # <<>> /\ inbox' = [inbox EXCEPT ![t] = Tail(@)]
      /\ UNCHANGED <<task, known, turns, events, pc, settle, recovery, session, rounds, created, granted>>
      /\ IF next # task[t].status THEN UserSave(t, r, "quiet") ELSE UNCHANGED <<saves, lock>>
  BY DEF HandlePermission, Locked, runVars, worldVars, countVars
<1>3. EventTypes'
  BY <1>1, <1>2, EventFacts DEF TypesInv, EventTypes
<1>4. CASE next = task[t].status
  BY <1>2, <1>3, <1>4, EventEnds
<1>5. CASE next # task[t].status
  <2>1. next \in {"needs_attention", "running"}
    BY <1>5 DEF ReducePermission
  <2> HIDE DEF next
  <2>2. r \in Record /\ r.status # "queued"
    BY <1>1, <2>1 DEF Record, Status
  <2>3. UserSave(t, r, "quiet")
    BY <1>2, <1>5 DEF next
  <2> HIDE DEF r
  <2> QED BY <1>2, <1>3, <2>2, <2>3, EventEnds
<1> QED BY <1>4, <1>5

LEMMA TurnStep ==
  ASSUME IInv, NEW t \in Task, HandleTurn(t)
  PROVE  TypesInv' /\ Tame
<1> DEFINE e == Head(inbox[t])
           r == task[t]
           next == ReduceTurn(r.status, e.outcome)
<1>1. TypesInv /\ r \in Record
  BY DEF IInv, TypesInv, BoardTypes
<1>2. /\ lock[t].by = "free" /\ inbox[t] # <<>> /\ inbox' = [inbox EXCEPT ![t] = Tail(@)] /\ e.kind = "ended"
      /\ UNCHANGED <<task, known, events, pc, recovery, session, rounds, created, granted>>
  BY DEF HandleTurn, Locked, worldVars, countVars
<1>3. e \in EventRow /\ e.outcome \in TurnKind
  BY <1>1, <1>2, EventFacts
<1>4. turns' \in {turns, turns \ {e}}
  BY DEF HandleTurn
<1>5. EventTypes'
  <2>1. inbox' \in [Task -> Seq(EventRow)]
    BY <1>1, <1>2, EventFacts
  <2>2. turns' \in SUBSET EventRow /\ IsFiniteSet(turns')
    BY ZenonT(40), <1>1, <1>4, EventFacts DEF TypesInv, EventTypes
  <2> QED BY <1>1, <1>2, <2>1, <2>2 DEF TypesInv, EventTypes
<1>6. CASE r.agent # e.agent \/ r.op = NoOp
  <2>1. UNCHANGED <<saves, lock>> /\ settle' = SettleIfCanceling(t, task)
    BY <1>6 DEF HandleTurn, TurnOver
  <2> QED BY <1>2, <1>5, <2>1, EventEnds
<1>7. CASE ~(r.agent # e.agent \/ r.op = NoOp) /\ Passed(t, e)
  <2>1. UNCHANGED <<saves, lock>> /\ settle' = SettleIfCanceling(t, task)
    BY <1>7 DEF HandleTurn, TurnOver
  <2> QED BY <1>2, <1>5, <2>1, EventEnds
<1>8. ASSUME NEW s \in Status, s # "queued", UNCHANGED settle,
             UserSave(t, Ended(r, e, s), "turn") \/ UserSave(t, [Ended(r, e, s) EXCEPT !.review = NoReview], "turn")
      PROVE  TypesInv' /\ Tame
  <2> DEFINE x == Ended(r, e, s)
             y == [Ended(r, e, s) EXCEPT !.review = NoReview]
  <2>1. x \in Record /\ x.status = s /\ y \in Record /\ y.status = s
    BY <1>1, <1>3, EndedRow
  <2>2. UserSave(t, x, "turn") \/ UserSave(t, y, "turn")
    BY <1>8
  <2> HIDE DEF x, y
  <2> QED BY <1>2, <1>5, <1>8, <2>1, <2>2, EventEnds
<1>9. CASE ~(r.agent # e.agent \/ r.op = NoOp) /\ ~Passed(t, e) /\ r.status = "awaiting_review"
  <2>1. UNCHANGED settle /\ \/ UserSave(t, Ended(r, e, "awaiting_review"), "turn")
                            \/ UserSave(t, [Ended(r, e, "needs_check") EXCEPT !.review = NoReview], "turn")
    BY <1>9 DEF HandleTurn
  <2> QED BY <1>8, <2>1 DEF Status
<1>10. CASE ~(r.agent # e.agent \/ r.op = NoOp) /\ ~Passed(t, e) /\ r.status # "awaiting_review" /\ next # "awaiting_review"
  <2>1. next \in Status \ {"queued"}
    BY <1>3, <1>10 DEF Passed, ReduceTurn, TurnKind, Status
  <2>2. UNCHANGED settle /\ UserSave(t, Ended(r, e, next), "turn")
    BY <1>10 DEF HandleTurn
  <2> HIDE DEF next
  <2> QED BY <1>8, <2>1, <2>2
<1>11. CASE ~(r.agent # e.agent \/ r.op = NoOp) /\ ~Passed(t, e) /\ r.status # "awaiting_review" /\ next = "awaiting_review"
  <2>1. \/ UNCHANGED settle /\ UserSave(t, Ended(r, e, "needs_check"), "turn")
        \/ UNCHANGED <<saves, settle>> /\ lock' = [lock EXCEPT ![t] = [by |-> "capture", op |-> task[t].op, event |-> <<e>>]]
    BY <1>11 DEF HandleTurn
  <2>2. CASE UNCHANGED settle /\ UserSave(t, Ended(r, e, "needs_check"), "turn")
    BY <1>8, <2>2 DEF Status
  <2>3. CASE UNCHANGED <<saves, settle>> /\ lock' = [lock EXCEPT ![t] = [by |-> "capture", op |-> task[t].op, event |-> <<e>>]]
    <3> HIDE DEF e
    <3> QED BY <1>2, <1>3, <1>5, <2>3, EventEnds
  <2> QED BY <2>1, <2>2, <2>3
<1> QED BY <1>6, <1>7, <1>9, <1>10, <1>11

LEMMA CaptureStep ==
  ASSUME IInv, NEW t \in Task, CaptureDone(t) \/ CaptureFails(t)
  PROVE  TypesInv' /\ Tame
<1> DEFINE e == lock[t].event[1]
           r == task[t]
<1>1. TypesInv /\ r \in Record
  BY DEF IInv, TypesInv, BoardTypes
<1>2. /\ lock[t].by = "capture" /\ turns' = turns \ {e}
      /\ UNCHANGED <<task, inbox, known, events, pc, recovery, session, rounds, created, granted>>
  BY DEF CaptureDone, CaptureFails, worldVars, countVars
<1>3. e \in EventRow
  BY <1>1, <1>2, EventFacts
<1>4. EventTypes'
  BY <1>1, <1>2, EventFacts DEF TypesInv, EventTypes
<1>5. \/ UNCHANGED settle /\ (UserSave(t, Reviewed(r, e), "turn") \/ UserSave(t, Ended(r, e, "needs_check"), "turn"))
      \/ lock' = Unlock(t) /\ settle' = SettleIfCanceling(t, task) /\ UNCHANGED saves
  BY DEF CaptureDone, CaptureFails, TurnOver, UserSave
<1>6. Reviewed(r, e) \in Record /\ Reviewed(r, e).status # "queued"
      /\ Ended(r, e, "needs_check") \in Record /\ Ended(r, e, "needs_check").status # "queued"
  <2>1. "needs_check" \in Status
    BY DEF Status
  <2> HIDE DEF e, r
  <2>2. Ended(r, e, "needs_check") \in Record /\ Ended(r, e, "needs_check").status = "needs_check"
    BY <1>1, <1>3, <2>1, EndedRow
  <2>3. Reviewed(r, e) \in Record /\ Reviewed(r, e).status = "awaiting_review"
    BY <1>1, <1>3, <2>1, EndedRow
  <2> QED BY <2>2, <2>3
<1> QED BY <1>2, <1>4, <1>5, <1>6, EventEnds

LEMMA DeliverStep ==
  ASSUME IInv, Deliver
  PROVE  TypesInv' /\ Tame
<1> DEFINE e == Head(events)
<1>1. /\ TypesInv /\ inbox \in [Task -> Seq(EventRow)] /\ events \in Seq(EventRow)
      /\ known \in [Op -> [turn : 0..MaxTurns, ask : BOOLEAN]] /\ turns \in SUBSET EventRow /\ IsFiniteSet(turns)
  BY DEF IInv, TypesInv, EventTypes
<1>2. events # <<>> /\ events' = Tail(events) /\ UNCHANGED <<boardVars, runVars, recovery, worldVars, countVars>>
  BY DEF Deliver
<1>3. e \in EventRow /\ events' \in Seq(EventRow)
  BY <1>1, <1>2
<1>4. e.agent \in Op /\ e.turn \in 0..MaxTurns
  BY <1>3 DEF EventRow
<1>5. known' \in [Op -> [turn : 0..MaxTurns, ask : BOOLEAN]]
  <2>1. known' = [known EXCEPT ![e.agent] =
            CASE e.kind = "started" -> [known[e.agent] EXCEPT !.turn = e.turn]
              [] e.kind = "ended"   -> known[e.agent]
              [] OTHER              -> [known[e.agent] EXCEPT !.ask = (e.kind = "ask")]]
    BY DEF Deliver
  <2> DEFINE k == known[e.agent]
  <2>2. k \in [turn : 0..MaxTurns, ask : BOOLEAN]
    BY <1>1, <1>4
  <2>3. [k EXCEPT !.turn = e.turn] \in [turn : 0..MaxTurns, ask : BOOLEAN]
    BY <1>4, <2>2
  <2>4. ASSUME NEW b \in BOOLEAN PROVE [k EXCEPT !.ask = b] \in [turn : 0..MaxTurns, ask : BOOLEAN]
    BY <2>2
  <2>5. [k EXCEPT !.ask = (e.kind = "ask")] \in [turn : 0..MaxTurns, ask : BOOLEAN]
    BY <2>4
  <2> DEFINE x == CASE e.kind = "started" -> [known[e.agent] EXCEPT !.turn = e.turn]
              [] e.kind = "ended"   -> known[e.agent]
              [] OTHER              -> [known[e.agent] EXCEPT !.ask = (e.kind = "ask")]
  <2>6. x \in [turn : 0..MaxTurns, ask : BOOLEAN]
    BY <2>2, <2>3, <2>5
  <2>7. known' = [known EXCEPT ![e.agent] = x]
    BY <2>1
  <2> HIDE DEF x
  <2> QED BY <1>1, <1>4, <2>6, <2>7
<1>6. turns' \in SUBSET EventRow /\ IsFiniteSet(turns')
  BY <1>1, <1>3, FS_AddElement DEF Deliver
<1>7. inbox' \in [Task -> Seq(EventRow)]
  <2>1. inbox' = inbox \/ inbox' = ToOwner(e)
    BY DEF Deliver
  <2>2. \A t \in Task : Append(inbox[t], e) \in Seq(EventRow)
    BY <1>1, <1>3
  <2> QED BY <1>1, <2>1, <2>2 DEF ToOwner
<1>8. EventTypes'
  BY <1>3, <1>5, <1>6, <1>7 DEF EventTypes
<1>9. BoardTypes' /\ Tame
  BY <1>2, Idles DEF boardVars, runVars, countVars
<1>10. RunTypes'
  BY <1>1, <1>2 DEF TypesInv, RunTypes, runVars, worldVars, countVars
<1> QED BY <1>8, <1>9, <1>10 DEF TypesInv
-----------------------------------------------------------------------------
(* Landings *)

\* The running job of a task goes to another place.
LEMMA JobMoves ==
  ASSUME TypesInv, NEW t \in Task, pc[t].at # "off", NEW at \in Places, pc' = [pc EXCEPT ![t].at = at]
  PROVE  /\ pc' \in [Task -> JobRow] /\ \A u \in Task : pc'[u].at # "off" => pc'[u].op \in Op
         /\ \A u \in Task \ {t} : pc'[u] = pc[u]
         /\ pc'[t].at = at /\ pc'[t].op = pc[t].op
BY DEF TypesInv, RunTypes, JobRow

\* A save that lands without the lock.
LEMMA Lifts ==
  ASSUME IInv, saves # <<>>, task' = Memory, saves' = Tail(saves), UNCHANGED lock,
         Head(saves).by \notin LockKinds
  PROVE  /\ BoardTypes' /\ Memory \in [Task -> Record]
         /\ Head(saves).task \in Task /\ Head(saves).rec \in Record
<1>1. /\ saves \in Seq(SaveRow) /\ lock \in [Task -> LockRow] /\ task \in [Task -> Record]
      /\ \A u \in Task : lock[u].by = "capture" => lock[u].event # <<>>
  BY DEF IInv, TypesInv, BoardTypes
<1>2. Head(saves).task \in Task /\ Head(saves).rec \in Record /\ Tail(saves) \in Seq(SaveRow)
  BY <1>1, RowFacts
<1>3. Memory \in [Task -> Record]
  BY <1>1, <1>2 DEF Memory
<1> QED BY <1>1, <1>2, <1>3 DEF BoardTypes

\* Where the job and the lock of the oldest save are.
LEMMA OldestWaits ==
  ASSUME IInv, saves # <<>>
  PROVE  LET s == Head(saves) IN
         /\ s.by \in LockKinds => lock[s.task].by = SavePlace(s.by)
         /\ s.by \in JobKinds => pc[s.task].at = SavePlace(s.by)
         /\ s.by = "begin" => s.rec.status = "preparing" /\ s.rec.op = pc[s.task].op
<1>1. saves \in Seq(SaveRow)
  BY DEF IInv, TypesInv, BoardTypes
<1>2. Head(saves) = saves[1] /\ 1 \in 1..Len(saves)
  BY <1>1, RowFacts
<1> QED BY <1>2 DEF IInv, SavesInv, Waiting

\* The job goes on from the save it waited for.
LEMMA JobLands ==
  ASSUME IInv, saves # <<>>, task' = Memory, saves' = Tail(saves), NEW at \in Places \ {"begin"},
         Head(saves).by \in JobKinds, pc' = [pc EXCEPT ![Head(saves).task].at = at],
         \A u \in Task \ {Head(saves).task} : lock'[u] = lock[u],
         Head(saves).by \in LockKinds \/ UNCHANGED lock
  PROVE  /\ pc' \in [Task -> JobRow] /\ \A u \in Task : pc'[u].at # "off" => pc'[u].op \in Op
         /\ pc[Head(saves).task].op \in Op
         /\ Shape
<1> DEFINE s == Head(saves)
<1>1. /\ TypesInv /\ saves \in Seq(SaveRow)
      /\ pc \in [Task -> JobRow] /\ \A u \in Task : pc[u].at # "off" => pc[u].op \in Op
  BY DEF IInv, TypesInv, BoardTypes, RunTypes
<1>2. s.task \in Task /\ s.by \in JobKinds
  BY <1>1, RowFacts
<1>3. pc[s.task].at # "off"
  BY <1>2, OldestWaits DEF JobKinds, SavePlace
<1> HIDE DEF s
<1>4. /\ pc' \in [Task -> JobRow] /\ \A u \in Task : pc'[u].at # "off" => pc'[u].op \in Op
      /\ \A u \in Task \ {s.task} : pc'[u] = pc[u]
      /\ pc'[s.task].at = at
  BY <1>1, <1>2, <1>3, JobMoves DEF s
<1>5. Drops
  BY <1>2, <1>4 DEF Drops, s
<1> QED BY <1>1, <1>2, <1>3, <1>4, <1>5 DEF Shape, s

LEMMA ReplayTypes ==
  ASSUME TypesInv, NEW t \in Task, NEW o \in Op, NEW box \in Replayed(t, o)
  PROVE  box \in [Task -> Seq(EventRow)]
<1> DEFINE S == TurnsOf(o)
           ask == IF known[o].ask THEN <<Event("ask", o, 0, "none")>> ELSE <<>>
<1>1. inbox \in [Task -> Seq(EventRow)] /\ turns \in SUBSET EventRow /\ IsFiniteSet(turns)
  BY DEF TypesInv, EventTypes
<1>2. S \subseteq EventRow /\ Cardinality(S) \in Nat
  BY <1>1, FS_Subset, FS_CardinalityType DEF TurnsOf
<1>3. PICK q \in InOrder(S) : box = [inbox EXCEPT ![t] = @ \o ask \o q]
  BY DEF Replayed
<1>4. q \in Seq(EventRow)
  <2> DEFINE n == Cardinality(S)
  <2>1. n \in Nat /\ q \in [1..n -> S]
    BY <1>2 DEF InOrder
  <2> HIDE DEF n, S
  <2>2. q \in [1..n -> EventRow]
    BY <1>2, <2>1
  <2> QED BY <2>1, <2>2
<1>5. ask \in Seq(EventRow)
  <2>1. Event("ask", o, 0, "none") \in EventRow
    BY BoundAssumption DEF Event, EventRow
  <2> QED BY <2>1
<1> HIDE DEF ask, S
<1>6. inbox[t] \o ask \o q \in Seq(EventRow)
  <2>1. inbox[t] \o ask \in Seq(EventRow)
    BY <1>1, <1>5
  <2> QED BY <1>4, <2>1
<1> QED BY <1>1, <1>3, <1>6

LEMMA FinallyTypes ==
  ASSUME TypesInv, NEW t \in Task, NEW at, NEW mem \in [Task -> Record], Finally(t, at, mem)
  PROVE  settle' \in [Task -> SettleRow] /\ pc' = [pc EXCEPT ![t].at = at]
BY SettleTypes DEF Finally, TypesInv, RunTypes

LEMMA NextVisitIs ==
  ASSUME TypesInv
  PROVE  NextVisit \in RecoveryRow /\ NextVisit.step = "visit" /\ NextVisit.at >= 1
<1>1. recovery.at \in Nat
  BY DEF TypesInv, RunTypes, RecoveryRow
<1> DEFINE n == recovery.at + 1
<1>2. n \in Nat /\ n >= 1 /\ NextVisit = [NoRecovery EXCEPT !.step = "visit", !.at = n]
  BY <1>1 DEF NextVisit
<1> HIDE DEF n
<1>3. NoRecovery \in RecoveryRow
  BY DEF NoRecovery, RecoveryRow, Looks
<1> QED BY <1>2, <1>3 DEF RecoveryRow

LEMMA LandTame ==
  ASSUME IInv, Land, ~LandLocate
  PROVE  TypesInv' /\ Tame
<1> DEFINE t == Head(saves).task
           r == Head(saves).rec
           by == Head(saves).by
<1>1. /\ TypesInv /\ EventTypes /\ RunTypes /\ granted \in [Task -> Nat] /\ saves \in Seq(SaveRow)
      /\ settle \in [Task -> SettleRow]
  BY DEF IInv, TypesInv, BoardTypes, RunTypes
<1>2. saves # <<>>
  BY DEF Land, LandUser, LandQuiet, LandCancel, LandTurn, LandSettle, LandBegin, LandLink, LandFail, LandRecover, Lands
<1>3. t \in Task /\ r \in Record
  BY <1>1, <1>2, RowFacts
<1>4. ASSUME Publish, lock' = Unlock(t), by \in LockKinds \ JobKinds, UNCHANGED <<inbox, pc>>, settle' \in [Task -> SettleRow]
      PROVE  TypesInv' /\ Tame
  <2>1. BoardTypes' /\ known' \in [Op -> [turn : 0..MaxTurns, ask : BOOLEAN]] /\ Tame
    BY <1>2, <1>4, Publishes
  <2>2. EventTypes' /\ RunTypes'
    BY <1>1, <1>4, <2>1 DEF Publish, EventTypes, RunTypes, worldVars, countVars
  <2> QED BY <2>1, <2>2 DEF TypesInv
<1>5. ASSUME Publish, lock' = Unlock(t), by \in LockKinds PROVE Memory \in [Task -> Record]
  BY <1>2, <1>5, Publishes
<1>6. CASE LandUser
  BY <1>1, <1>4, <1>6 DEF LandUser, Lands, LockKinds, JobKinds, SaveKinds
<1>7. CASE LandQuiet
  BY <1>1, <1>4, <1>7 DEF LandQuiet, Lands, LockKinds, JobKinds, SaveKinds, runVars
<1>8. CASE LandCancel
  <2>1. settle' \in [Task -> SettleRow]
    BY <1>1, <1>3, <1>8, SettleTypes DEF LandCancel
  <2> QED BY <1>4, <1>8, <2>1 DEF LandCancel, Lands, LockKinds, JobKinds, SaveKinds
<1>9. CASE LandTurn
  <2>1. Publish /\ lock' = Unlock(t) /\ by \in LockKinds \ JobKinds /\ UNCHANGED <<inbox, pc>> /\ settle' = SettleIfCanceling(t, Memory)
    BY <1>9 DEF LandTurn, Lands, LockKinds, JobKinds, SaveKinds
  <2>2. settle' \in [Task -> SettleRow]
    BY <1>1, <1>3, <1>5, <2>1, SettleTypes
  <2> QED BY <1>4, <2>1, <2>2
<1>10. CASE LandSettle
  <2>1. Off \in SettleRow
    BY DEF Off, SettleRow
  <2>2. settle' \in [Task -> SettleRow]
    BY <1>1, <1>10, <2>1 DEF LandSettle
  <2> QED BY <1>4, <1>10, <2>2 DEF LandSettle, Lands, LockKinds, JobKinds, SaveKinds
<1>11. CASE LandBegin
  <2>1. Publish /\ lock' = Unlock(t) /\ by = "begin" /\ UNCHANGED <<inbox, jobs, settle>>
        /\ pc' = [pc EXCEPT ![t] = [at |-> "ensure", op |-> r.op]]
    BY <1>11 DEF LandBegin, Lands
  <2>2. by \in LockKinds /\ by \in JobKinds
    BY <2>1 DEF LockKinds, JobKinds, SaveKinds
  <2>3. pc[t].at = "begin" /\ r.op = pc[t].op
    BY <1>2, <2>1, <2>2, OldestWaits DEF SavePlace
  <2>4. pc \in [Task -> JobRow] /\ pc[t].op \in Op
    BY <1>1, <1>3, <2>3 DEF RunTypes
  <2>5. pc' = [pc EXCEPT ![t].at = "ensure"]
    BY <2>1, <2>3, <2>4 DEF JobRow
  <2>6. BoardTypes' /\ known' \in [Op -> [turn : 0..MaxTurns, ask : BOOLEAN]]
    BY <1>2, <2>1, <2>2, Publishes
  <2>7. task' = Memory /\ saves' = Tail(saves) /\ UNCHANGED <<turns, events, recovery, session, rounds, created, granted>>
    BY <2>1 DEF Publish, worldVars, countVars
  <2>8. \A u \in Task \ {t} : lock'[u] = lock[u]
    BY <1>1, <1>3, <2>1 DEF Unlock, TypesInv, BoardTypes
  <2>9. "ensure" \in Places \ {"begin"}
    BY DEF Places
  <2>10. Shape /\ pc' \in [Task -> JobRow] /\ \A u \in Task : pc'[u].at # "off" => pc'[u].op \in Op
    BY <1>2, <2>2, <2>5, <2>7, <2>8, <2>9, JobLands
  <2>11. EventTypes' /\ RunTypes'
    BY <1>1, <2>1, <2>6, <2>7, <2>10 DEF EventTypes, RunTypes
  <2>12. \A u \in Task : (Prepares(u)' => Prepares(u) /\ pc'[u].op = pc[u].op) /\ granted'[u] >= granted[u]
    BY <1>1, <1>3, <2>3, <2>4, <2>5, <2>7 DEF Prepares, JobRow
  <2> QED BY <2>6, <2>7, <2>10, <2>11, <2>12 DEF Tame, TypesInv
<1>12. ASSUME by \in {"fail", "found", "link"}, pc' = [pc EXCEPT ![t].at = "hold"], BoardTypes', EventTypes',
              task' = Memory, saves' = Tail(saves), settle' \in [Task -> SettleRow],
              \A u \in Task \ {t} : lock'[u] = lock[u], by \in LockKinds \/ UNCHANGED lock,
              UNCHANGED <<recovery, session, rounds, created, granted>>
       PROVE  TypesInv' /\ Tame
  <2>1. by \in JobKinds /\ "hold" \in Places \ {"begin"}
    BY <1>12 DEF JobKinds, Places
  <2>2. Shape /\ pc' \in [Task -> JobRow] /\ \A u \in Task : pc'[u].at # "off" => pc'[u].op \in Op
    BY <1>2, <1>12, <2>1, JobLands
  <2>3. RunTypes'
    BY <1>1, <1>12, <2>2 DEF RunTypes
  <2>4. \A u \in Task : (Prepares(u)' => Prepares(u) /\ pc'[u].op = pc[u].op) /\ granted'[u] >= granted[u]
    <3>1. pc \in [Task -> JobRow]
      BY <1>1 DEF RunTypes
    <3> QED BY <1>1, <1>3, <1>12, <3>1 DEF Prepares, JobRow
  <2> QED BY <1>12, <2>2, <2>3, <2>4 DEF TypesInv, Tame
<1>13. CASE LandFail
  <2>1. /\ Publish /\ lock' = Unlock(t) /\ by \in {"fail", "found"} /\ UNCHANGED <<jobs, settle>>
        /\ pc' = [pc EXCEPT ![t].at = "hold"]
        /\ inbox' \in IF by = "found" THEN Replayed(t, r.agent) ELSE {inbox}
    BY <1>13 DEF LandFail, Lands
  <2>2. by \in LockKinds
    BY <2>1 DEF LockKinds, SaveKinds
  <2>3. BoardTypes' /\ known' \in [Op -> [turn : 0..MaxTurns, ask : BOOLEAN]] /\ (by = "found" => r.agent \in Op)
    BY <1>2, <2>1, <2>2, Publishes
  <2>4. inbox' \in [Task -> Seq(EventRow)]
    <3>1. CASE by = "found"
      BY <1>1, <1>3, <2>1, <2>3, <3>1, ReplayTypes
    <3>2. CASE by # "found"
      BY <1>1, <2>1, <3>2 DEF EventTypes
    <3> QED BY <3>1, <3>2
  <2>5. /\ task' = Memory /\ saves' = Tail(saves)
        /\ UNCHANGED <<turns, events, recovery, session, rounds, created, granted>>
    BY <2>1 DEF Publish, worldVars, countVars
  <2>6. \A u \in Task \ {t} : lock'[u] = lock[u]
    BY <1>1, <1>3, <2>1 DEF Unlock, TypesInv, BoardTypes
  <2>7. EventTypes'
    BY <1>1, <2>3, <2>4, <2>5 DEF EventTypes
  <2> QED BY <1>1, <1>12, <2>1, <2>2, <2>3, <2>5, <2>6, <2>7
<1>14. CASE LandLink
  <2>1. /\ by = "link" /\ task' = Memory /\ saves' = Tail(saves)
        /\ inbox' \in IF r.status = "canceling" THEN {inbox} ELSE Replayed(t, pc[t].op)
        /\ Finally(t, "hold", Memory)
        /\ UNCHANGED <<lock, known, turns, events, recovery, session, rounds, created, granted>>
    BY <1>14 DEF LandLink, Lands, worldVars, countVars
  <2>2. by \notin LockKinds /\ by \in JobKinds
    BY <2>1 DEF LockKinds, JobKinds
  <2>3. BoardTypes' /\ Memory \in [Task -> Record]
    BY <1>2, <2>1, <2>2, Lifts
  <2>4. pc[t].at = "link"
    BY <1>2, <2>1, <2>2, OldestWaits DEF SavePlace
  <2>5. pc[t].op \in Op
    BY <1>1, <1>3, <2>4 DEF RunTypes
  <2>6. inbox' \in [Task -> Seq(EventRow)]
    BY <1>1, <1>3, <2>1, <2>5, ReplayTypes DEF EventTypes
  <2>7. EventTypes'
    BY <1>1, <2>1, <2>6 DEF EventTypes
  <2>8. settle' \in [Task -> SettleRow] /\ pc' = [pc EXCEPT ![t].at = "hold"]
    BY <1>1, <1>3, <2>1, <2>3, FinallyTypes
  <2> QED BY <1>12, <2>1, <2>3, <2>7, <2>8
<1>15. CASE LandRecover
  <2>1. /\ by = "recover" /\ task' = Memory /\ saves' = Tail(saves) /\ recovery' = NextVisit
        /\ UNCHANGED <<lock, inbox, known, turns, events, pc, settle, session, rounds, created, granted>>
    BY <1>15 DEF LandRecover, Lands, eventVars, runVars, worldVars, countVars
  <2>2. by \notin LockKinds /\ by \notin JobKinds
    BY <2>1 DEF LockKinds, JobKinds
  <2>3. BoardTypes'
    BY <1>2, <2>1, <2>2, Lifts
  <2>4. EventTypes'
    BY <1>1, <2>1 DEF EventTypes
  <2>5. RunTypes'
    <3>1. recovery' \in RecoveryRow /\ recovery'.step = "visit" /\ recovery'.at >= 1
      BY <1>1, <2>1, NextVisitIs
    <3> QED BY <1>1, <2>1, <3>1 DEF RunTypes
  <2>6. Drops
    BY <1>2, <1>3, <2>1, <2>2 DEF Drops
  <2>7. \A u \in Task : (Prepares(u)' => Prepares(u) /\ pc'[u].op = pc[u].op) /\ granted'[u] >= granted[u]
    BY <1>1, <2>1 DEF Prepares
  <2> QED BY <2>1, <2>3, <2>4, <2>5, <2>6, <2>7 DEF Tame, Shape, TypesInv
<1> QED BY <1>6, <1>7, <1>8, <1>9, <1>10, <1>11, <1>13, <1>14, <1>15 DEF Land
-----------------------------------------------------------------------------
(* Jobs *)

\* The job goes on without a save.
LEMMA JobStays ==
  ASSUME IInv, NEW t \in Task, pc[t].at \in {"ensure", "create", "failing"}, NEW at \in {"failing", "hold"},
         pc' = [pc EXCEPT ![t].at = at], settle' \in [Task -> SettleRow],
         UNCHANGED <<task, saves, lock, eventVars, recovery, session, rounds, created, granted>>
  PROVE  TypesInv' /\ Tame
<1>1. /\ TypesInv /\ EventTypes /\ RunTypes /\ BoardTypes /\ pc \in [Task -> JobRow] /\ granted \in [Task -> Nat]
  BY DEF IInv, TypesInv, RunTypes
<1>2. at \in Places /\ pc[t].at # "off" /\ pc[t].at \notin Saving
  BY DEF Places, Saving
<1>3. /\ pc' \in [Task -> JobRow] /\ \A u \in Task : pc'[u].at # "off" => pc'[u].op \in Op
      /\ \A u \in Task \ {t} : pc'[u] = pc[u]
      /\ pc'[t].at = at
  BY <1>1, <1>2, JobMoves
<1>4. BoardTypes' /\ EventTypes' /\ RunTypes'
  BY <1>1, <1>3 DEF BoardTypes, EventTypes, RunTypes, eventVars
<1>5. Stays
  BY <1>2, <1>3 DEF Stays
<1>6. \A u \in Task : (Prepares(u)' => Prepares(u) /\ pc'[u].op = pc[u].op) /\ granted'[u] >= granted[u]
  BY <1>1, <1>3 DEF Prepares
<1> QED BY <1>4, <1>5, <1>6 DEF TypesInv, Tame, Shape

\* The job asks for a save.
LEMMA JobAdds ==
  ASSUME IInv, NEW t \in Task, NEW r \in Record, r.status # "queued", NEW by \in {"locate", "link", "fail", "found"},
         pc[t].at \in {"ensure", "create", "failing"}, by = "locate" => pc[t].at = "ensure",
         by = "found" => r.agent \in Op,
         saves' = Append(saves, Save(t, r, by)), pc' = [pc EXCEPT ![t].at = SavePlace(by)],
         IF by \in {"locate", "link"} THEN UNCHANGED lock ELSE lock[t].by = "free" /\ lock' = Holds(t, "fail"),
         settle' \in [Task -> SettleRow],
         UNCHANGED <<task, eventVars, recovery, session, rounds, created, granted>>
  PROVE  TypesInv' /\ Tame
<1>1. /\ TypesInv /\ EventTypes /\ RunTypes /\ pc \in [Task -> JobRow] /\ granted \in [Task -> Nat]
      /\ saves \in Seq(SaveRow) /\ lock \in [Task -> LockRow] /\ task \in [Task -> Record]
      /\ \A u \in Task : lock[u].by = "capture" => lock[u].event # <<>>
  BY DEF IInv, TypesInv, BoardTypes, RunTypes
<1>2. SavePlace(by) \in Places /\ SavePlace(by) # "begin" /\ pc[t].at # "off" /\ pc[t].at \notin Saving
  BY DEF Places, Saving, SavePlace
<1>3. by \in SaveKinds /\ by \in JobKinds /\ (by \in LockKinds <=> by \notin {"locate", "link"}) /\ by # "begin"
  BY DEF SaveKinds, JobKinds, LockKinds
<1>4. /\ pc' \in [Task -> JobRow] /\ \A u \in Task : pc'[u].at # "off" => pc'[u].op \in Op
      /\ \A u \in Task \ {t} : pc'[u] = pc[u]
      /\ pc'[t].at = SavePlace(by) /\ pc'[t].op = pc[t].op
  BY <1>1, <1>2, JobMoves
<1>5. Save(t, r, by) \in SaveRow
  BY <1>3 DEF Save, SaveRow
<1>6. /\ lock' \in [Task -> LockRow] /\ \A u \in Task : lock'[u].by = "capture" => lock'[u].event # <<>>
      /\ \A u \in Task \ {t} : lock'[u] = lock[u]
      /\ by \notin {"locate", "link"} => lock'[t].by = "fail"
  <2>1. CASE by \in {"locate", "link"}
    BY <1>1, <2>1
  <2>2. CASE by \notin {"locate", "link"}
    <3> DEFINE row == [by |-> "fail", op |-> task[t].op, event |-> <<>>]
    <3>1. task[t].op \in Ops
      BY <1>1 DEF Record
    <3>2. row \in LockRow /\ row.by = "fail"
      BY <3>1 DEF LockRow, LockHolders
    <3>3. lock' = [lock EXCEPT ![t] = row]
      BY <2>2 DEF Holds
    <3> HIDE DEF row
    <3> QED BY <1>1, <3>2, <3>3
  <2> QED BY <2>1, <2>2
<1>7. BoardTypes' /\ EventTypes' /\ RunTypes'
  <2>1. saves' \in Seq(SaveRow)
    BY <1>1, <1>5
  <2>2. BoardTypes'
    BY <1>1, <1>6, <2>1 DEF BoardTypes
  <2> QED BY <1>1, <1>4, <2>2 DEF EventTypes, RunTypes, eventVars
<1>8. Adds(t, r, by)
  <2>1. \A u \in Task \ {t} : lock'[u] = lock[u] /\ pc'[u] = pc[u]
    BY <1>4, <1>6
  <2>2. \/ by \in LockKinds /\ lock[t].by \in {"free", "capture"} /\ lock'[t].by = SavePlace(by)
        \/ by \notin LockKinds /\ lock'[t] = lock[t]
    BY <1>3, <1>6 DEF SavePlace
  <2> QED BY <1>2, <1>3, <1>4, <2>1, <2>2 DEF Adds
<1>9. \A u \in Task : (Prepares(u)' => Prepares(u) /\ pc'[u].op = pc[u].op) /\ granted'[u] >= granted[u]
  <2>1. Prepares(t)' => Prepares(t)
    BY <1>4 DEF Prepares, SavePlace
  <2>2. \A u \in Task \ {t} : Prepares(u)' => Prepares(u)
    BY <1>4 DEF Prepares
  <2> QED BY <1>1, <1>4, <2>1, <2>2
<1> QED BY <1>3, <1>7, <1>8, <1>9 DEF TypesInv, Tame, Shape

LEMMA JobStep ==
  ASSUME IInv, NEW t \in Task,
         EnsureDone(t) \/ CreateReturns(t) \/ FailDispatch(t) \/ EnsureFails(t) \/ CreateFails(t) \/ SearchFails(t)
  PROVE  TypesInv' /\ Tame
<1>1. /\ TypesInv /\ task \in [Task -> Record] /\ settle \in [Task -> SettleRow] /\ task[t] \in Record
      /\ \A u \in Task : pc[u].at # "off" => pc[u].op \in Op
  BY DEF IInv, TypesInv, BoardTypes, RunTypes
<1>2. ASSUME NEW at \in {"failing", "hold"}, Finally(t, at, task), pc[t].at \in {"ensure", "create"},
             UNCHANGED <<task, saves, lock, eventVars, recovery, session, rounds, created, granted>>
      PROVE  TypesInv' /\ Tame
  <2>1. settle' \in [Task -> SettleRow] /\ pc' = [pc EXCEPT ![t].at = at]
    BY <1>1, <1>2, FinallyTypes
  <2> QED BY <1>2, <2>1, JobStays
<1>3. CASE EnsureDone(t)
  <2>1. pc[t].at = "ensure" /\ UNCHANGED <<task, lock, eventVars, recovery, session, rounds, created, granted>>
    BY <1>3 DEF EnsureDone, countVars
  <2>2. CASE StillPreparing(t)
    <3> DEFINE r == [task[t] EXCEPT !.wt = TRUE, !.agent = NoOp]
    <3>1. r \in Record /\ r.status = task[t].status
      BY <1>1 DEF Record
    <3>2. r.status # "queued"
      BY <2>2, <3>1 DEF StillPreparing
    <3>3. saves' = Append(saves, Save(t, r, "locate")) /\ pc' = [pc EXCEPT ![t].at = "locate"] /\ UNCHANGED settle
      BY <1>3, <2>2 DEF EnsureDone
    <3> HIDE DEF r
    <3>4. SavePlace("locate") = "locate"
      BY DEF SavePlace
    <3> QED BY <1>1, <2>1, <3>1, <3>2, <3>3, <3>4, JobAdds
  <2>3. CASE ~StillPreparing(t)
    <3>1. Finally(t, "hold", task) /\ UNCHANGED saves
      BY <1>3, <2>3 DEF EnsureDone
    <3> QED BY <1>2, <2>1, <3>1
  <2> QED BY <2>2, <2>3
<1>4. CASE EnsureFails(t)
  BY <1>2, <1>4 DEF EnsureFails, boardVars, worldVars
<1>5. CASE CreateFails(t)
  BY <1>2, <1>5 DEF CreateFails, boardVars, worldVars
<1>6. CASE CreateReturns(t)
  <2>1. pc[t].at = "create" /\ UNCHANGED <<task, lock, eventVars, recovery, session, rounds, created, granted>>
    BY <1>6 DEF CreateReturns, worldVars, countVars
  <2> DEFINE o == pc[t].op
             r == LinkedRecord(task[t], o)
             goes == task[t].op = o /\ task[t].status \in {"preparing", "canceling"}
  <2>2. o \in Op
    BY <1>1, <2>1
  <2>3. r \in Record /\ r.status # "queued"
    <3>1. r \in Record /\ r.status \in {"canceling", "running"}
      BY <1>1, <2>2, LinkedRow
    <3> QED BY <3>1
  <2>4. CASE goes
    <3>1. saves' = Append(saves, Save(t, r, "link")) /\ pc' = [pc EXCEPT ![t].at = "link"] /\ UNCHANGED settle
      BY <1>6, <2>4 DEF CreateReturns
    <3> HIDE DEF r
    <3>2. SavePlace("link") = "link"
      BY DEF SavePlace
    <3> QED BY <1>1, <2>1, <2>3, <3>1, <3>2, JobAdds
  <2>5. CASE ~goes
    <3>1. Finally(t, "hold", task) /\ UNCHANGED saves
      BY <1>6, <2>5 DEF CreateReturns
    <3> QED BY <1>2, <2>1, <3>1
  <2> QED BY <2>4, <2>5
<1>7. CASE FailDispatch(t)
  <2>1. /\ pc[t].at = "failing" /\ lock[t].by = "free"
        /\ UNCHANGED <<task, eventVars, settle, recovery, session, rounds, created, granted>>
    BY <1>7, Granted DEF FailDispatch, worldVars, countVars
  <2>2. CASE ~Exec(t)
    <3>1. pc' = [pc EXCEPT ![t].at = "hold"] /\ UNCHANGED <<saves, lock>>
      BY <1>7, <2>2 DEF FailDispatch
    <3> QED BY <1>1, <2>1, <3>1, JobStays
  <2>3. CASE Exec(t) /\ FoundBy(task[t].op) = NoOp
    <3> DEFINE r == [task[t] EXCEPT !.status = "failed"]
    <3>1. "failed" \in Status /\ NoOp \in Ops
      BY DEF Status
    <3>2. r \in Record /\ r.status = "failed"
      BY ZenonT(40), <1>1, <3>1, RecordEdits
    <3>3. saves' = Append(saves, Save(t, r, "fail")) /\ pc' = [pc EXCEPT ![t].at = "fail"] /\ lock' = Holds(t, "fail")
      BY <1>7, <2>3 DEF FailDispatch
    <3> HIDE DEF r
    <3>4. SavePlace("fail") = "fail"
      BY DEF SavePlace
    <3> QED BY <1>1, <2>1, <3>2, <3>3, <3>4, JobAdds
  <2>4. CASE Exec(t) /\ FoundBy(task[t].op) # NoOp
    <3> DEFINE o == FoundBy(task[t].op)
               r == [LinkedRecord(task[t], o) EXCEPT !.agent = IF task[t].agent = NoOp THEN o ELSE task[t].agent]
    <3>1. o \in Op
      <4>1. task[t].op \in Ops
        BY <1>1 DEF Record
      <4> QED BY <1>1, <2>4, <4>1, SessionTypes
    <3>2. saves' = Append(saves, Save(t, r, "found")) /\ pc' = [pc EXCEPT ![t].at = "fail"] /\ lock' = Holds(t, "fail")
      BY <1>7, <2>4 DEF FailDispatch
    <3> HIDE DEF o
    <3>3. r \in Record /\ r.status \in {"canceling", "running"} /\ r.agent \in Op
      BY <1>1, <3>1, LinkedRow
    <3> HIDE DEF r
    <3>4. SavePlace("found") = "fail" /\ r.status # "queued"
      BY <3>3 DEF SavePlace
    <3> QED BY <1>1, <2>1, <3>2, <3>3, <3>4, JobAdds
  <2> QED BY <2>2, <2>3, <2>4
<1>8. CASE SearchFails(t)
  <2>1. /\ pc[t].at = "failing" /\ pc' = [pc EXCEPT ![t].at = "hold"]
        /\ UNCHANGED <<task, saves, lock, eventVars, settle, recovery, session, rounds, created, granted>>
    BY <1>8 DEF SearchFails, boardVars, worldVars
  <2> QED BY <1>1, <2>1, JobStays
<1> QED BY <1>3, <1>4, <1>5, <1>6, <1>7, <1>8

LEMMA JobEndStep ==
  ASSUME IInv, NEW r \in Repo, JobEnds(r)
  PROVE  TypesInv' /\ Tame
<1>1. TypesInv /\ BoardTypes /\ EventTypes /\ RunTypes /\ pc \in [Task -> JobRow] /\ granted \in [Task -> Nat]
  BY DEF IInv, TypesInv, RunTypes
<1>2. PICK u : \/ pc' = pc
               \/ pc[u].at = "hold" /\ pc' = [pc EXCEPT ![u] = NoRun]
  <2> WITNESS Head(jobs[r]).task
  <2> QED BY DEF JobEnds
<1>3. UNCHANGED <<task, saves, lock, eventVars, settle, recovery, session, rounds, created, granted>>
  BY DEF JobEnds, boardVars, worldVars, countVars
<1>4. NoRun \in JobRow /\ NoRun.at = "off"
  BY DEF NoRun, JobRow, Places
<1>5. pc' \in [Task -> JobRow] /\ \A v \in Task : pc'[v] = pc[v] \/ (pc[v].at = "hold" /\ pc'[v].at = "off")
  BY <1>1, <1>2, <1>4
<1>6. Stays
  BY <1>3, <1>5 DEF Stays, Saving
<1>7. \A v \in Task : (Prepares(v)' => Prepares(v) /\ pc'[v].op = pc[v].op) /\ granted'[v] >= granted[v]
  BY <1>1, <1>3, <1>5 DEF Prepares
<1>8. BoardTypes' /\ EventTypes' /\ RunTypes'
  <2>1. \A v \in Task : pc'[v].at # "off" => pc'[v].op \in Op
    BY <1>1, <1>5 DEF RunTypes
  <2> QED BY <1>1, <1>3, <1>5, <2>1 DEF BoardTypes, EventTypes, RunTypes, eventVars
<1> QED BY <1>3, <1>6, <1>7, <1>8 DEF TypesInv, Tame, Shape
-----------------------------------------------------------------------------
(* recover() and the daemon *)

LEMMA RecoverAdds ==
  ASSUME IInv, At \in Task, NEW r \in Record, r.status # "queued", RecoverSave(r), recovery.step # "off",
         settle' \in [Task -> SettleRow],
         UNCHANGED <<task, lock, eventVars, pc, session, rounds, created, granted>>
  PROVE  TypesInv' /\ Tame
<1>1. /\ TypesInv /\ EventTypes /\ RunTypes /\ saves \in Seq(SaveRow) /\ granted \in [Task -> Nat]
      /\ recovery \in RecoveryRow /\ recovery.at >= 1
  BY DEF IInv, TypesInv, BoardTypes, RunTypes
<1>2. saves' = Append(saves, Save(At, r, "recover")) /\ recovery' = [recovery EXCEPT !.step = "saving"]
  BY DEF RecoverSave
<1>3. Save(At, r, "recover") \in SaveRow
  BY DEF Save, SaveRow, SaveKinds
<1>4. BoardTypes'
  <2>1. saves' \in Seq(SaveRow)
    BY <1>1, <1>2, <1>3
  <2> QED BY <1>1, <2>1 DEF TypesInv, BoardTypes
<1>5. recovery' \in RecoveryRow /\ recovery'.step = "saving" /\ recovery'.at >= 1
  BY <1>1, <1>2 DEF RecoveryRow
<1>6. EventTypes' /\ RunTypes'
  BY <1>1, <1>5 DEF EventTypes, RunTypes, eventVars
<1>7. "recover" \in SaveKinds /\ "recover" \notin LockKinds /\ "recover" \notin JobKinds
  BY DEF SaveKinds, LockKinds, JobKinds
<1>8. Adds(At, r, "recover")
  BY <1>2, <1>7 DEF Adds
<1>9. \A u \in Task : (Prepares(u)' => Prepares(u) /\ pc'[u].op = pc[u].op) /\ granted'[u] >= granted[u]
  BY <1>1 DEF Prepares
<1> QED BY <1>4, <1>6, <1>7, <1>8, <1>9 DEF TypesInv, Tame, Shape

LEMMA RecoverGoes ==
  ASSUME IInv, recovery' \in RecoveryRow, recovery'.step # "off" => recovery'.at >= 1,
         recovery'.step = "decide" => recovery'.at <= Len(order),
         UNCHANGED <<task, saves, lock, eventVars, pc, settle, session, rounds, created, granted>>
  PROVE  TypesInv' /\ Tame
<1>1. BoardTypes' /\ Tame
  BY Idles
<1>2. EventTypes' /\ RunTypes'
  BY DEF IInv, TypesInv, EventTypes, RunTypes, eventVars
<1> QED BY <1>1, <1>2 DEF TypesInv

LEMMA AtIsTask ==
  ASSUME TypesInv, Visiting \/ recovery.step = "decide"
  PROVE  At \in Task /\ recovery.at \in 1..Len(order)
<1>1. order \in Seq(Task) /\ Len(order) \in Nat
  <2>1. order \in Seq(Task)
    BY TaskAssumption
  <2> QED BY <2>1
<1>2. recovery.at \in Nat /\ recovery.at >= 1 /\ recovery.at <= Len(order)
  BY DEF TypesInv, RunTypes, RecoveryRow, Visiting
<1> QED BY <1>1, <1>2 DEF At

LEMMA RecoverStep ==
  ASSUME IInv, ReviveInv, Recover \/ RecoverFails
  PROVE  TypesInv' /\ Tame
<1>1. /\ TypesInv /\ task \in [Task -> Record] /\ settle \in [Task -> SettleRow] /\ recovery \in RecoveryRow
      /\ NextVisit \in RecoveryRow /\ NextVisit.step = "visit" /\ NextVisit.at >= 1
  BY NextVisitIs DEF IInv, TypesInv, BoardTypes, RunTypes
<1>2. CASE RecoverSkip
  BY <1>1, <1>2, RecoverGoes DEF RecoverSkip, boardVars, runVars, worldVars, countVars
<1>3. CASE RecoverSettled
  BY <1>1, <1>3, RecoverGoes DEF RecoverSettled, boardVars, runVars, worldVars, countVars
<1>4. CASE RecoverEnds
  <2>1. NoRecovery \in RecoveryRow /\ NoRecovery.step = "off"
    BY DEF NoRecovery, RecoveryRow, Looks
  <2> QED BY <1>1, <1>4, <2>1, RecoverGoes DEF RecoverEnds, boardVars, worldVars, countVars
<1>5. CASE RecoverCancel
  <2>1. /\ At \in Task /\ recovery.step = "visit" /\ recovery.at >= 1
        /\ UNCHANGED <<task, lock, eventVars, pc, session, rounds, created, granted>>
    BY <1>1, <1>5, AtIsTask DEF RecoverCancel, Visiting, worldVars, countVars
  <2>2. CASE task[At].op = NoOp
    <3> DEFINE r == [task[At] EXCEPT !.status = "canceled"]
    <3>1. "canceled" \in Status /\ NoOp \in Ops
      BY DEF Status
    <3>2. r \in Record /\ r.status = "canceled"
      BY ZenonT(40), <1>1, <2>1, <3>1, RecordEdits
    <3>3. RecoverSave(r) /\ UNCHANGED settle
      BY <1>5, <2>2 DEF RecoverCancel
    <3> HIDE DEF r
    <3>4. settle' \in [Task -> SettleRow] /\ r.status # "queued" /\ recovery.step # "off"
      BY <1>1, <2>1, <3>2, <3>3
    <3> QED BY <2>1, <3>2, <3>3, <3>4, RecoverAdds
  <2>3. CASE task[At].op # NoOp
    <3>1. settle' = SettleFrom(At, task[At]) /\ recovery' = [recovery EXCEPT !.step = "settling"] /\ UNCHANGED saves
      BY <1>5, <2>3 DEF RecoverCancel
    <3>2. settle' \in [Task -> SettleRow]
      BY <1>1, <2>1, <3>1, SettleTypes
    <3>3. recovery' \in RecoveryRow /\ recovery'.step = "settling" /\ recovery'.at = recovery.at
      BY <1>1, <3>1 DEF RecoveryRow
    <3>4. BoardTypes' /\ Tame
      BY <2>1, <3>1, Idles
    <3>5. EventTypes' /\ RunTypes'
      BY <1>1, <2>1, <3>2, <3>3 DEF TypesInv, EventTypes, RunTypes, eventVars
    <3> QED BY <3>4, <3>5 DEF TypesInv
  <2> QED BY <2>2, <2>3
<1>6. ASSUME NEW r \in Record, r.status # "queued", RecoverSave(r), Visiting \/ recovery.step = "decide",
             UNCHANGED <<task, lock, eventVars, runVars, session, rounds, created, granted>>
      PROVE  TypesInv' /\ Tame
  <2>1. At \in Task /\ recovery.step # "off" /\ settle' \in [Task -> SettleRow] /\ UNCHANGED pc
    BY <1>1, <1>6, AtIsTask DEF Visiting, runVars
  <2> QED BY <1>6, <2>1, RecoverAdds
<1>10. ASSUME Visiting, NEW o \in Ops, NEW seen \in Looks \cup {"failed"}, Look(o, seen), UNCHANGED saves,
              UNCHANGED <<task, lock, eventVars, runVars, session, rounds, created, granted>>
       PROVE  TypesInv' /\ Tame
  <2>1. At \in Task /\ recovery.at \in 1..Len(order)
    BY <1>1, <1>10, AtIsTask
  <2>2. recovery' \in RecoveryRow /\ recovery'.step = "decide" /\ recovery'.at = recovery.at
    BY <1>1, <1>10 DEF RecoveryRow, Look
  <2>3. recovery'.at >= 1 /\ recovery'.at <= Len(order)
    BY <2>1, <2>2
  <2> QED BY <1>10, <2>2, <2>3, RecoverGoes DEF runVars
<1>7. CASE RecoverExec
  <2> DEFINE r == task[At]
  <2>1. /\ Visiting /\ Exec(At) /\ At \in Task /\ r \in Record
        /\ UNCHANGED <<task, lock, eventVars, runVars, session, rounds, created, granted>>
    BY <1>1, <1>7, AtIsTask DEF RecoverExec, worldVars, countVars
  <2>2. SessionOf(r) \in Ops /\ Seen(SessionOf(r)) \in Looks /\ r.outcome \in {"none"} \cup TurnKind
    <3>1. SessionOf(r) \in Ops
      BY <1>1, <2>1, SessionTypes DEF Record
    <3>2. Seen(SessionOf(r)) \in Looks
      BY <1>1, <3>1, SessionTypes
    <3> QED BY <2>1, <3>1, <3>2 DEF Record
  <2>3. \/ RecoverSave([r EXCEPT !.status = "needs_check"])
        \/ r.outcome # "none" /\ RecoverSave(StoredOutcome(r))
        \/ Look(SessionOf(r), Seen(SessionOf(r))) /\ UNCHANGED saves
    BY <1>7 DEF RecoverExec
  <2>4. [r EXCEPT !.status = "needs_check"] \in Record /\ [r EXCEPT !.status = "needs_check"].status # "queued"
    BY <2>1 DEF Record, Status
  <2>5. ASSUME r.outcome # "none" PROVE StoredOutcome(r) \in Record /\ StoredOutcome(r).status # "queued"
    <3> DEFINE s == IF r.outcome = "completed" THEN "needs_check" ELSE r.outcome
    <3>1. s \in Status /\ s # "queued"
      BY <2>2, <2>5 DEF TurnKind, Status
    <3> HIDE DEF s
    <3>2. [r EXCEPT !.status = s] \in Record /\ [r EXCEPT !.status = s].status = s
      BY <2>1, <3>1 DEF Record
    <3> QED BY <3>1, <3>2 DEF StoredOutcome, s
  <2>6. CASE Look(SessionOf(r), Seen(SessionOf(r))) /\ UNCHANGED saves
    BY <1>10, <2>1, <2>2, <2>6
  <2> HIDE DEF r
  <2> QED BY <1>6, <2>1, <2>3, <2>4, <2>5, <2>6
<1>8. CASE RecoverFails
  <2>1. PICK o \in {task[At].agent, SessionOf(task[At])} : Look(o, "failed")
    BY <1>8 DEF RecoverFails
  <2>2. /\ Visiting /\ At \in Task /\ task[At] \in Record /\ UNCHANGED saves
        /\ UNCHANGED <<task, lock, eventVars, runVars, session, rounds, created, granted>>
    BY <1>1, <1>8, AtIsTask DEF RecoverFails, boardVars, worldVars
  <2>3. o \in Ops
    BY <1>1, <2>1, <2>2, SessionTypes DEF Record
  <2> QED BY <1>10, <2>1, <2>2, <2>3
<1>9. CASE RecoverDecide
  <2> DEFINE s == RecoverExecution(recovery.seen)
             o == recovery.agent
             x == IF s = "unchanged" THEN task[At].status ELSE s
             a == IF o = NoOp THEN task[At].agent ELSE o
             r == [task[At] EXCEPT !.status = x, !.agent = a]
  <2>1. recovery.step = "decide" /\ RecoverSave(r) /\ UNCHANGED <<task, lock, eventVars, runVars, session, rounds, created, granted>>
    BY <1>9 DEF RecoverDecide, Recovered, worldVars, countVars
  <2>2. At \in Task /\ task[At] \in Record
    BY <1>1, <2>1, AtIsTask
  <2>3. s \in {"unchanged"} \cup Status /\ s # "queued" /\ o \in Ops
    BY <1>1 DEF RecoveryRow, Looks, RecoverExecution, Status
  <2>5. x \in Status \cup {"deleted"} /\ x # "queued" /\ a \in Ops
    BY <2>1, <2>2, <2>3 DEF Record, ReviveInv
  <2> HIDE DEF x, a
  <2>4. r \in Record /\ r.status = x /\ r.status # "queued"
    BY <2>2, <2>5 DEF Record
  <2> HIDE DEF r
  <2> QED BY <1>6, <2>1, <2>4
<1> QED BY <1>2, <1>3, <1>4, <1>5, <1>7, <1>8, <1>9 DEF Recover

LEMMA DaemonStep ==
  ASSUME IInv, NEW o \in Op, Daemon(o)
  PROVE  TypesInv' /\ Tame
<1>1. /\ TypesInv /\ session \in [Op -> SessionRow] /\ events \in Seq(EventRow)
      /\ session[o].turn \in 0..MaxTurns
  BY DEF IInv, TypesInv, EventTypes, RunTypes, SessionRow
<1>2. ASSUME NEW from, NEW to \in Looks, NEW n \in 0..MaxTurns, Session(o, from, to, n), NEW e \in EventRow, Tells(e)
      PROVE  TypesInv' /\ Tame
  <2>1. UNCHANGED <<task, saves, lock, inbox, known, turns, pc, settle, recovery, rounds, created, granted>>
        /\ session' = [session EXCEPT ![o] = [state |-> to, turn |-> n]] /\ events' = Append(events, e)
    BY <1>2 DEF Session, Tells, boardVars, runVars, countVars
  <2>2. session' \in [Op -> SessionRow] /\ events' \in Seq(EventRow)
    <3>1. [state |-> to, turn |-> n] \in SessionRow
      BY DEF SessionRow
    <3> QED BY <1>1, <2>1, <3>1
  <2>3. BoardTypes' /\ Tame
    BY <2>1, Idles
  <2>4. EventTypes' /\ RunTypes'
    BY <1>1, <2>1, <2>2 DEF TypesInv, EventTypes, RunTypes
  <2> QED BY <2>3, <2>4 DEF TypesInv
<1>3. 0 \in 0..MaxTurns /\ 1 \in 0..MaxTurns /\ {"busy", "idle", "permission"} \subseteq Looks
  BY BoundAssumption DEF Looks
<1>4. ASSUME NEW n \in 0..MaxTurns
      PROVE  /\ \A k \in {"started", "ask", "answer"} : Event(k, o, n, "none") \in EventRow
             /\ \A k \in Outcomes : Event("ended", o, n, k) \in EventRow
  BY OutcomesAssumption DEF Event, EventRow
<1>5. CASE Open(o)
  <2>1. Event("started", o, 1, "none") \in EventRow
    BY <1>3, <1>4
  <2> QED BY <1>2, <1>3, <1>5, <2>1 DEF Open
<1>6. CASE EndTurn(o)
  <2>1. PICK k \in Outcomes : Tells(Event("ended", o, session[o].turn, k))
    BY <1>6 DEF EndTurn
  <2>2. Event("ended", o, session[o].turn, k) \in EventRow
    BY <1>1, <1>4
  <2> QED BY <1>1, <1>2, <1>3, <1>6, <2>1, <2>2 DEF EndTurn
<1>7. CASE Chat(o)
  <2>1. session[o].turn + 1 \in 0..MaxTurns
    BY <1>1, <1>7, BoundAssumption DEF Chat
  <2>2. Event("started", o, session[o].turn + 1, "none") \in EventRow
    BY <1>4, <2>1
  <2> QED BY <1>2, <1>3, <1>7, <2>1, <2>2 DEF Chat
<1>8. CASE AskPermission(o)
  <2>1. Event("ask", o, 0, "none") \in EventRow
    BY <1>3, <1>4
  <2> QED BY <1>1, <1>2, <1>3, <1>8, <2>1 DEF AskPermission
<1>9. CASE AnswerPermission(o)
  <2>1. Event("answer", o, 0, "none") \in EventRow
    BY <1>3, <1>4
  <2> QED BY <1>1, <1>2, <1>3, <1>9, <2>1 DEF AnswerPermission
<1> QED BY <1>5, <1>6, <1>7, <1>8, <1>9 DEF Daemon
-----------------------------------------------------------------------------
(* The steps that make and use claims: an operation begins, a session is    *)
(* asked for, and the process dies.                                         *)

LEMMA BeginStep ==
  ASSUME IInv, NEW t \in Task, Begin(t)
  PROVE  IInv'
<1> DEFINE o == Len(rounds) + 1
           r == Begun(task[t], o)
<1>1. /\ TypesInv /\ BoardTypes /\ EventTypes /\ RunTypes /\ SavesInv /\ OnceInv /\ CreditInv
      /\ saves \in Seq(SaveRow) /\ lock \in [Task -> LockRow] /\ task \in [Task -> Record]
      /\ pc \in [Task -> JobRow] /\ rounds \in Seq(Task) /\ Len(rounds) \in Nat
      /\ created \in [Op -> Nat] /\ granted \in [Task -> Nat]
  BY DEF IInv, TypesInv, BoardTypes, RunTypes
<1>2. /\ pc[t] = NoRun /\ lock[t].by = "free"
      /\ UNCHANGED <<task, eventVars, settle, recovery, session, created, granted>>
  BY Granted DEF Begin, worldVars
<1>3. CASE ~MayBegin(t)
  <2>1. UNCHANGED <<rounds, saves, lock, pc>>
    BY <1>3 DEF Begin
  <2>2. BoardTypes' /\ Tame
    BY <1>2, <2>1, Idles
  <2>3. TypesInv'
    BY <1>1, <1>2, <2>1, <2>2 DEF TypesInv, EventTypes, RunTypes, eventVars
  <2> QED BY <2>2, <2>3, TameKeeps
<1>4. CASE MayBegin(t)
  <2>1. /\ o \in Op /\ rounds' = Append(rounds, t) /\ saves' = Append(saves, Save(t, r, "begin"))
        /\ lock' = Holds(t, "begin") /\ pc' = [pc EXCEPT ![t] = [at |-> "begin", op |-> o]]
    BY <1>4 DEF Begin
  <2>2. r \in Record /\ r.status = "preparing" /\ r.op = o
    BY <1>1, <2>1, DraftRows
  <2> HIDE DEF r
  <2>3. o \in Nat /\ o = Len(rounds) + 1 /\ o <= MaxOps
    BY <1>1, <2>1, BoundAssumption DEF Op
  <2> HIDE DEF o
  <2>4. /\ rounds' \in Seq(Task) /\ Len(rounds') = o /\ rounds'[o] = t
        /\ \A i \in 1..Len(rounds) : i \in 1..o /\ i # o /\ rounds'[i] = rounds[i]
        /\ \A i \in 1..o : i = o \/ i \in 1..Len(rounds)
    BY <1>1, <2>1, <2>3
  <2>5. /\ pc' \in [Task -> JobRow] /\ pc'[t].at = "begin" /\ pc'[t].op = o
        /\ \A u \in Task \ {t} : pc'[u] = pc[u]
        /\ \A u \in Task : pc'[u].at # "off" => pc'[u].op \in Op
    <3>1. [at |-> "begin", op |-> o] \in JobRow
      BY <2>1 DEF JobRow, Places
    <3> QED BY <1>1, <2>1, <3>1 DEF RunTypes
  <2>6. /\ lock' \in [Task -> LockRow] /\ lock'[t].by = "begin" /\ \A u \in Task \ {t} : lock'[u] = lock[u]
        /\ \A u \in Task : lock'[u].by = "capture" => lock'[u].event # <<>>
    <3> DEFINE row == [by |-> "begin", op |-> task[t].op, event |-> <<>>]
    <3>1. task[t].op \in Ops
      BY <1>1 DEF Record
    <3>2. row \in LockRow /\ row.by = "begin"
      BY <3>1 DEF LockRow, LockHolders
    <3>3. lock' = [lock EXCEPT ![t] = row]
      BY <2>1 DEF Holds
    <3> HIDE DEF row
    <3> QED BY <1>1, <3>2, <3>3 DEF BoardTypes
  <2>7. "begin" \in SaveKinds /\ "begin" \in LockKinds /\ "begin" \in JobKinds /\ SavePlace("begin") = "begin"
    BY DEF SaveKinds, LockKinds, JobKinds, SavePlace
  <2>8. saves' \in Seq(SaveRow)
    <3>1. Save(t, r, "begin") \in SaveRow
      BY <2>2, <2>7 DEF Save, SaveRow
    <3> QED BY <1>1, <2>1, <3>1
  <2>9. TypesInv'
    <3>1. BoardTypes'
      BY <1>1, <1>2, <2>6, <2>8 DEF BoardTypes
    <3> QED BY <1>1, <1>2, <2>4, <2>5, <3>1 DEF TypesInv, EventTypes, RunTypes, eventVars
  <2>10. pc[t].at = "off"
    BY <1>2 DEF NoRun
  <2>11. Adds(t, r, "begin")
    BY <1>2, <2>1, <2>2, <2>5, <2>6, <2>7, <2>10 DEF Adds, Saving
  <2>12. Shape
    BY <1>2, <2>2, <2>7, <2>11 DEF Shape
  <2>13. SavesInv'
    BY <1>1, <2>12, ShapeSaves
  <2>14. created[o] = 0
    BY <1>1, <2>1, <2>3 DEF OnceInv, Op
  <2>15. OnceInv'
    <3>1. Len(rounds') \in 0..MaxOps
      BY <2>3, <2>4, BoundAssumption
    <3>2. \A p \in Op : created'[p] <= 1 /\ (p > Len(rounds') => created'[p] = 0)
      BY <1>1, <1>2, <2>3, <2>4 DEF OnceInv, Op
    <3>3. ASSUME NEW u \in Task, Prepares(u)'
          PROVE  pc'[u].op \in 1..Len(rounds') /\ rounds'[pc'[u].op] = u /\ created'[pc'[u].op] = 0
      <4>1. CASE u = t
        BY <1>2, <2>1, <2>3, <2>4, <2>5, <2>14, <4>1 DEF Op
      <4>2. CASE u # t
        <5>1. Prepares(u) /\ pc'[u] = pc[u]
          BY <2>5, <3>3, <4>2 DEF Prepares
        <5>2. pc[u].op \in 1..Len(rounds) /\ rounds[pc[u].op] = u /\ created[pc[u].op] = 0
          BY <1>1, <5>1 DEF OnceInv
        <5> QED BY <1>2, <2>4, <5>1, <5>2
      <4> QED BY <4>1, <4>2
    <3> QED BY <3>1, <3>2, <3>3 DEF OnceInv
  <2>16. ASSUME NEW u \in Task PROVE Made(u)' = Made(u)
    <3>1. DOMAIN rounds = 1..Len(rounds) /\ DOMAIN rounds' = 1..o
      BY <1>1, <2>4
    <3> QED BY <1>1, <1>2, <2>3, <2>4, <2>14, <3>1 DEF Made
  <2>17. ASSUME NEW u \in Task PROVE Claims(u)' <= granted'[u]
    <3> DEFINE n == Cardinality(Made(u))
    <3>1. n \in Nat /\ Cardinality(Made(u)') = n /\ granted'[u] = granted[u] /\ granted[u] \in Nat
      BY <1>1, <1>2, <2>16, MadeFinite
    <3>2. n + (IF Prepares(u) THEN 1 ELSE 0) + (IF Queues(u) THEN 1 ELSE 0) <= granted[u]
      BY <1>1 DEF CreditInv, Claims
    <3>3. Claims(u)' = n + (IF Prepares(u)' THEN 1 ELSE 0) + (IF Queues(u)' THEN 1 ELSE 0)
      BY <3>1 DEF Claims
    <3> HIDE DEF n
    <3>4. CASE u = t
      <4>1. Queues(t)
        BY <1>4, <2>10 DEF Queues, MayBegin
      <4>2. ~Queues(t)'
        <5>1. ASSUME NEW i \in 1..Len(saves), saves[i].task = t PROVE saves[i].rec.status # "queued"
          <6>1. Waiting(i)
            BY <1>1 DEF SavesInv
          <6> QED BY <1>2, <5>1, <6>1 DEF Waiting, LockKinds, SaveKinds, SavePlace
        <5>2. \A i \in 1..Len(saves') : saves'[i] = Save(t, r, "begin") \/ (i \in 1..Len(saves) /\ saves'[i] = saves[i])
          BY <1>1, <2>1
        <5>3. Save(t, r, "begin").rec.status # "queued"
          BY <2>2 DEF Save
        <5> QED BY <2>5, <5>1, <5>2, <5>3 DEF Queues
      <4> QED BY <3>1, <3>2, <3>3, <3>4, <4>1, <4>2
    <3>5. CASE u # t
      <4>1. Prepares(u)' <=> Prepares(u)
        BY <2>5, <3>5 DEF Prepares
      <4>2. Queues(u)' => Queues(u)
        BY <1>1, <2>12, <3>1, ShapeQueues
      <4> QED BY <3>1, <3>2, <3>3, <4>1, <4>2
    <3> QED BY <3>4, <3>5
  <2> QED BY <2>9, <2>13, <2>15, <2>17 DEF IInv, CreditInv
<1> QED BY <1>3, <1>4

LEMMA LocateStep ==
  ASSUME IInv, LandLocate
  PROVE  IInv'
<1> DEFINE t == Head(saves).task
           by == Head(saves).by
           goes == Memory[t].op = pc[t].op /\ Memory[t].status = "preparing"
<1>1. /\ TypesInv /\ EventTypes /\ RunTypes /\ SavesInv /\ OnceInv /\ CreditInv /\ saves \in Seq(SaveRow)
      /\ settle \in [Task -> SettleRow] /\ pc \in [Task -> JobRow] /\ rounds \in Seq(Task) /\ Len(rounds) \in Nat
      /\ created \in [Op -> Nat] /\ granted \in [Task -> Nat]
      /\ \A u \in Task : pc[u].at # "off" => pc[u].op \in Op
  BY DEF IInv, TypesInv, BoardTypes, RunTypes
<1>2. /\ saves # <<>> /\ by = "locate" /\ task' = Memory /\ saves' = Tail(saves)
      /\ UNCHANGED <<lock, eventVars, recovery, session, rounds, granted>>
  BY DEF LandLocate, Lands, worldVars
<1>3. by \notin LockKinds /\ by \in JobKinds
  BY <1>2 DEF LockKinds, JobKinds
<1>4. BoardTypes' /\ Memory \in [Task -> Record] /\ t \in Task
  BY <1>2, <1>3, Lifts
<1>5. pc[t].at = "locate" /\ pc[t].op \in Op
  BY <1>1, <1>2, <1>3, <1>4, OldestWaits DEF SavePlace
<1>6. CASE ~goes
  <2>1. Finally(t, "hold", Memory) /\ UNCHANGED created
    BY <1>6 DEF LandLocate
  <2>2. settle' \in [Task -> SettleRow] /\ pc' = [pc EXCEPT ![t].at = "hold"] /\ "hold" \in Places \ {"begin"}
    BY <1>1, <1>4, <2>1, FinallyTypes DEF Places
  <2>3. Shape /\ pc' \in [Task -> JobRow] /\ \A u \in Task : pc'[u].at # "off" => pc'[u].op \in Op
    BY <1>2, <1>3, <2>2, JobLands
  <2>4. TypesInv'
    BY <1>1, <1>2, <1>4, <2>1, <2>2, <2>3 DEF TypesInv, EventTypes, RunTypes, eventVars
  <2>5. \A u \in Task : (Prepares(u)' => Prepares(u) /\ pc'[u].op = pc[u].op) /\ granted'[u] >= granted[u]
    BY <1>1, <1>2, <1>4, <2>2 DEF Prepares, JobRow
  <2>6. Tame
    BY <1>2, <2>1, <2>3, <2>5 DEF Tame
  <2> QED BY <2>4, <2>6, TameKeeps
<1>7. CASE goes
  <2>0. PICK w \in Task : w = t
    BY <1>4
  <2> DEFINE o == pc[w].op
  <2>1. pc' = [pc EXCEPT ![w].at = "create"] /\ created' = [created EXCEPT ![o] = @ + 1] /\ UNCHANGED settle
    BY <1>7, <2>0 DEF LandLocate
  <2>2. "create" \in Places \ {"begin"}
    BY DEF Places
  <2>3. Shape /\ pc' \in [Task -> JobRow] /\ \A u \in Task : pc'[u].at # "off" => pc'[u].op \in Op
    BY <1>2, <1>3, <2>0, <2>1, <2>2, JobLands
  <2>4. o \in Op /\ o \in 1..Len(rounds) /\ rounds[o] = w /\ created[o] = 0
    BY <1>1, <1>5, <2>0 DEF OnceInv, Prepares
  <2>5. pc'[w].at = "create" /\ \A u \in Task \ {w} : pc'[u] = pc[u]
    BY <1>1, <2>1 DEF JobRow
  <2> HIDE DEF o, t, goes
  <2>6. created' \in [Op -> Nat] /\ created'[o] = 1 /\ \A p \in Op \ {o} : created'[p] = created[p]
    BY <1>1, <2>1, <2>4
  <2>7. TypesInv'
    BY <1>1, <1>2, <1>4, <2>1, <2>3, <2>6 DEF TypesInv, EventTypes, RunTypes, eventVars
  <2>8. SavesInv'
    BY <1>1, <2>3, ShapeSaves
  <2>9. ~Prepares(w)' /\ \A u \in Task \ {w} : Prepares(u)' <=> Prepares(u)
    BY <2>5 DEF Prepares
  <2>10. OnceInv'
    <3>1. \A p \in Op : created'[p] <= 1 /\ (p > Len(rounds') => created'[p] = 0)
      <4>1. ~(o > Len(rounds))
        BY <1>1, <2>4
      <4> QED BY <1>1, <1>2, <2>4, <2>6, <4>1 DEF OnceInv
    <3>2. ASSUME NEW u \in Task, Prepares(u)'
          PROVE  pc'[u].op \in 1..Len(rounds') /\ rounds'[pc'[u].op] = u /\ created'[pc'[u].op] = 0
      <4>1. u # w /\ Prepares(u) /\ pc'[u] = pc[u]
        BY <2>5, <2>9, <3>2
      <4>2. pc[u].op \in 1..Len(rounds) /\ rounds[pc[u].op] = u /\ created[pc[u].op] = 0 /\ pc[u].op \in Op
        BY <1>1, <4>1 DEF OnceInv, Prepares
      <4> QED BY <1>2, <2>4, <2>6, <4>1, <4>2
    <3> QED BY <1>1, <1>2, <3>1, <3>2 DEF OnceInv
  <2>11. ASSUME NEW u \in Task \ {w} PROVE Made(u)' = Made(u)
    <3>1. DOMAIN rounds = 1..Len(rounds) /\ \A p \in 1..Len(rounds) : p \in Op
      BY <1>1, BoundAssumption DEF OnceInv, Op
    <3> QED BY <1>2, <2>4, <2>6, <3>1 DEF Made
  <2>12. o \notin Made(w) /\ Made(w)' = Made(w) \cup {o}
    <3>1. DOMAIN rounds = 1..Len(rounds) /\ \A p \in 1..Len(rounds) : p \in Op
      BY <1>1, BoundAssumption DEF OnceInv, Op
    <3> QED BY <1>2, <2>4, <2>6, <3>1 DEF Made
  <2>13. ASSUME NEW u \in Task PROVE Claims(u)' <= granted'[u]
    <3> DEFINE n == Cardinality(Made(u))
    <3>1. n \in Nat /\ granted'[u] = granted[u] /\ granted[u] \in Nat
      BY <1>1, <1>2, MadeFinite
    <3>2. n + (IF Prepares(u) THEN 1 ELSE 0) + (IF Queues(u) THEN 1 ELSE 0) <= granted[u]
      BY <1>1 DEF CreditInv, Claims
    <3>3. Queues(u)' => Queues(u)
      BY <1>1, <2>3, <3>1, ShapeQueues
    <3>4. CASE u = w
      <4>1. Cardinality(Made(u)') = n + 1
        BY ZenonT(40), <1>1, <1>4, <2>12, <3>4, MadeFinite, FS_AddElement
      <4>2. Claims(u)' = n + 1 + (IF Prepares(u)' THEN 1 ELSE 0) + (IF Queues(u)' THEN 1 ELSE 0)
        BY <4>1 DEF Claims
      <4>3. Prepares(u) /\ ~Prepares(u)'
        BY <1>5, <2>0, <2>9, <3>4 DEF Prepares
      <4> HIDE DEF n
      <4> QED BY <3>1, <3>2, <3>3, <4>2, <4>3
    <3>5. CASE u # w
      <4>1. Claims(u)' = n + (IF Prepares(u)' THEN 1 ELSE 0) + (IF Queues(u)' THEN 1 ELSE 0)
        BY <2>11, <3>5 DEF Claims
      <4>2. Prepares(u)' <=> Prepares(u)
        BY <2>9, <3>5
      <4> HIDE DEF n
      <4> QED BY <3>1, <3>2, <3>3, <4>1, <4>2
    <3> QED BY <3>4, <3>5
  <2> QED BY <2>7, <2>8, <2>10, <2>13 DEF IInv, CreditInv
<1> QED BY <1>6, <1>7

LEMMA EmptyRows ==
  /\ Free \in LockRow /\ Free.by = "free" /\ NoRun \in JobRow /\ NoRun.at = "off" /\ Off \in SettleRow
  /\ NoRecovery \in RecoveryRow /\ NoRecovery.step = "off" /\ NoSession \in SessionRow
  /\ Unknown \in [turn : 0..MaxTurns, ask : BOOLEAN] /\ IsFiniteSet({})
<1>1. 0 \in 0..MaxTurns
  BY BoundAssumption
<1>2. IsFiniteSet({})
  BY FS_EmptySet
<1> QED BY <1>1, <1>2 DEF Free, LockRow, LockHolders, NoRun, JobRow, Places, Off, SettleRow, NoRecovery, RecoveryRow,
                          Looks, NoSession, SessionRow, Unknown

LEMMA CrashStep ==
  ASSUME IInv, Crash
  PROVE  IInv'
<1>1. /\ TypesInv /\ RunTypes /\ OnceInv /\ CreditInv /\ saves \in Seq(SaveRow) /\ task \in [Task -> Record]
      /\ granted \in [Task -> Nat]
  BY DEF IInv, TypesInv, BoardTypes, RunTypes
<1>2. /\ task' \in {task} \cup (IF saves = <<>> THEN {} ELSE {Memory})
      /\ saves' = <<>> /\ lock' = [t \in Task |-> Free] /\ inbox' = [t \in Task |-> <<>>]
      /\ known' = [o \in Op |-> Unknown] /\ turns' = {} /\ events' = <<>>
      /\ pc' = [t \in Task |-> NoRun] /\ settle' = [t \in Task |-> Off]
      /\ recovery' = [NoRecovery EXCEPT !.step = "visit", !.at = 1]
      /\ UNCHANGED <<session, rounds, created, granted>>
  BY DEF Crash, worldVars
<1>3. task' = task \/ (saves # <<>> /\ task' = Memory)
  BY <1>2
<1>4. saves # <<>> => /\ Head(saves).task \in Task /\ Head(saves).rec \in Record
                      /\ Head(saves) = saves[1] /\ 1 \in 1..Len(saves)
  BY <1>1, RowFacts
<1>5. task' \in [Task -> Record]
  BY <1>1, <1>3, <1>4 DEF Memory
<1>6. TypesInv'
  <2>1. BoardTypes'
    BY <1>2, <1>5, EmptyRows DEF BoardTypes
  <2>2. EventTypes'
    BY <1>2, EmptyRows DEF EventTypes
  <2>3. recovery' \in RecoveryRow /\ recovery'.step = "visit" /\ recovery'.at = 1
    BY <1>2, EmptyRows DEF RecoveryRow
  <2>4. RunTypes'
    BY <1>1, <1>2, <2>3, EmptyRows DEF RunTypes
  <2> QED BY <2>1, <2>2, <2>4 DEF TypesInv
<1>7. \A t \in Task : pc'[t].at = "off"
  BY <1>2, EmptyRows
<1>8. SavesInv'
  <2>1. 1..Len(saves') = {}
    BY <1>2
  <2> QED BY <1>7, <2>1 DEF SavesInv
<1>9. OnceInv'
  BY <1>1, <1>2, <1>7 DEF OnceInv, Prepares
<1>10. ASSUME NEW t \in Task PROVE Claims(t)' <= granted'[t]
  <2> DEFINE n == Cardinality(Made(t))
  <2>1. n \in Nat /\ Made(t)' = Made(t) /\ granted'[t] = granted[t] /\ granted[t] \in Nat
    BY <1>1, <1>2, MadeFinite DEF Made
  <2>2. n + (IF Prepares(t) THEN 1 ELSE 0) + (IF Queues(t) THEN 1 ELSE 0) <= granted[t]
    BY <1>1 DEF CreditInv, Claims
  <2>3. ~Prepares(t)'
    BY <1>7 DEF Prepares
  <2>4. Queues(t)' => Prepares(t) \/ Queues(t)
    <3>1. Queues(t)' => task'[t].status = "queued"
      BY <1>2 DEF Queues
    <3>2. task[t].status = "queued" => Prepares(t) \/ Queues(t)
      BY DEF Prepares, Queues
    <3>3. CASE saves # <<>> /\ task' = Memory /\ t = Head(saves).task
      BY <1>1, <1>4, <3>1, <3>3 DEF Memory, Queues
    <3>4. CASE task' = task \/ (saves # <<>> /\ task' = Memory /\ t # Head(saves).task)
      BY <1>1, <1>4, <3>1, <3>2, <3>4 DEF Memory
    <3> QED BY <1>3, <3>3, <3>4
  <2>5. Claims(t)' = n + (IF Prepares(t)' THEN 1 ELSE 0) + (IF Queues(t)' THEN 1 ELSE 0)
    BY <2>1 DEF Claims
  <2> HIDE DEF n
  <2> QED BY <2>1, <2>2, <2>3, <2>4, <2>5
<1> QED BY <1>6, <1>8, <1>9, <1>10 DEF IInv, CreditInv
-----------------------------------------------------------------------------
(* The invariant, and what follows from it *)

LEMMA InitIInv == Init => IInv
<1> SUFFICES ASSUME Init PROVE IInv
  OBVIOUS
<1>1. BoardTypes
  BY DraftRows, EmptyRows DEF Init, BoardTypes
<1>2. EventTypes
  BY EmptyRows DEF Init, EventTypes
<1>3. RunTypes
  BY EmptyRows DEF Init, RunTypes
<1>4. 1..Len(saves) = {} /\ Len(rounds) = 0 /\ Len(saves) = 0 /\ \A t \in Task : pc[t].at = "off"
  BY EmptyRows DEF Init
<1>5. SavesInv
  BY <1>4 DEF SavesInv
<1>6. OnceInv
  BY <1>4, BoundAssumption DEF Init, OnceInv, Prepares
<1>7. ASSUME NEW t \in Task PROVE Claims(t) <= granted[t]
  <2>1. Made(t) = {} /\ ~Prepares(t) /\ ~Queues(t) /\ granted[t] = 0
    BY <1>4 DEF Init, Made, Prepares, Queues, Draft
  <2>2. Cardinality({}) = 0
    BY FS_EmptySet
  <2> QED BY <2>1, <2>2 DEF Claims
<1> QED BY <1>1, <1>2, <1>3, <1>5, <1>6, <1>7 DEF IInv, TypesInv, CreditInv

LEMMA StutterKeeps == ASSUME IInv, UNCHANGED vars PROVE IInv'
<1>1. UNCHANGED <<task, saves, lock, eventVars, pc, settle, recovery, session, rounds, created, granted>>
  BY DEF vars, boardVars, runVars, worldVars, countVars
<1>2. BoardTypes' /\ Tame
  BY <1>1, Idles
<1>3. TypesInv'
  BY <1>1, <1>2 DEF IInv, TypesInv, EventTypes, RunTypes, eventVars
<1> QED BY <1>2, <1>3, TameKeeps

LEMMA QueueInductive == IInv /\ ReviveInv /\ [Next]_vars => IInv'
<1> SUFFICES ASSUME IInv, ReviveInv, [Next]_vars PROVE IInv'
  OBVIOUS
<1>1. ASSUME TypesInv', Tame PROVE IInv'
  BY <1>1, TameKeeps
<1>2. CASE Plugin
  <2>1. CASE Land
    BY <1>1, <2>1, LandTame, LocateStep
  <2>2. CASE Deliver
    BY <1>1, <2>2, DeliverStep
  <2>3. ASSUME NEW t \in Task, Job(t) \/ JobFault(t) PROVE IInv'
    BY <1>1, <2>3, BeginStep, JobStep DEF Job, JobFault
  <2>4. ASSUME NEW t \in Task, User(t) PROVE IInv'
    BY <1>1, <2>4, UserStep
  <2>5. ASSUME NEW t \in Task, SettleStep(t) \/ SettleFails(t) PROVE IInv'
    BY <1>1, <2>5, SettlesStep
  <2>6. ASSUME NEW t \in Task, Handle(t) \/ CaptureFails(t) PROVE IInv'
    BY <1>1, <2>6, PermissionStep, TurnStep, CaptureStep DEF Handle
  <2>7. ASSUME NEW r \in Repo, JobEnds(r) PROVE IInv'
    BY <1>1, <2>7, JobEndStep
  <2> QED BY <1>2, <2>1, <2>2, <2>3, <2>4, <2>5, <2>6, <2>7 DEF Plugin
<1>3. CASE Recover \/ RecoverFails
  BY <1>1, <1>3, RecoverStep
<1>4. CASE Crash
  BY <1>4, CrashStep
<1>5. ASSUME NEW o \in Op, Daemon(o) PROVE IInv'
  BY <1>1, <1>5, DaemonStep
<1>6. CASE UNCHANGED vars
  BY <1>6, StutterKeeps
<1> QED BY <1>2, <1>3, <1>4, <1>5, <1>6 DEF Next

\* The saves that are asked for while recover() walks the board.
LEMMA Unasked ==
  ASSUME IInv, Plugin, recovery # NoRecovery
  PROVE  /\ UNCHANGED recovery \/ recovery' = NextVisit
         /\ \/ saves # <<>> /\ saves' = Tail(saves) /\ task' = Memory
            \/ UNCHANGED <<task, saves>>
            \/ /\ UNCHANGED task
               /\ \E t, r, by : /\ saves' = Append(saves, Save(t, r, by))
                                /\ r.status # "queued" \/ by \notin {"user", "quiet"}
<1> DEFINE Asked == \/ UNCHANGED <<task, saves>>
                    \/ /\ UNCHANGED task
                       /\ \E t, r, by : /\ saves' = Append(saves, Save(t, r, by))
                                        /\ r.status # "queued" \/ by \notin {"user", "quiet"}
<1>1. CASE Land
  BY <1>1, LandMoves
<1>2. CASE Deliver
  BY <1>2 DEF Deliver, boardVars
<1>3. ASSUME NEW t \in Task, Job(t) \/ JobFault(t) PROVE UNCHANGED recovery /\ Asked
  <2>1. CASE Begin(t)
    BY <2>1 DEF Begin
  <2>2. CASE EnsureDone(t)
    BY <2>2 DEF EnsureDone
  <2>3. CASE CreateReturns(t)
    BY <2>3 DEF CreateReturns
  <2>4. CASE FailDispatch(t)
    <3>1. UNCHANGED saves \/ \E r : saves' = Append(saves, Save(t, r, "fail")) \/ saves' = Append(saves, Save(t, r, "found"))
      BY <2>4 DEF FailDispatch
    <3> QED BY <2>4, <3>1 DEF FailDispatch
  <2>5. CASE JobFault(t)
    BY <2>5 DEF JobFault, EnsureFails, CreateFails, SearchFails, boardVars
  <2> QED BY <1>3, <2>1, <2>2, <2>3, <2>4, <2>5 DEF Job
<1>4. ASSUME NEW t \in Task, User(t) PROVE UNCHANGED recovery /\ Asked
  <2>1. Reconcile(t)
    BY <1>4 DEF User, Start, Cancel, RetryStop, Requeue, Delete, DeleteFails, Accepts
  <2>2. PICK r : r = [task[t] EXCEPT !.status = "needs_check", !.review = NoReview]
    OBVIOUS
  <2>3. r.status # "queued"
    BY <2>2
  <2>4. saves' = Append(saves, Save(t, r, "quiet")) /\ UNCHANGED <<task, recovery>>
    BY <2>1, <2>2 DEF Reconcile, UserSave
  <2> QED BY <2>3, <2>4
<1>5. ASSUME NEW t \in Task, SettleStep(t) \/ SettleFails(t) PROVE UNCHANGED recovery /\ Asked
  BY <1>5 DEF SettleStep, Watch, SettleFind, SettleStop, SettleMark, SettleFails, boardVars, UserSave
<1>6. ASSUME NEW t \in Task, Handle(t) \/ CaptureFails(t) PROVE UNCHANGED recovery /\ Asked
  <2>1. CASE HandlePermission(t)
    <3> DEFINE x == ReducePermission(task[t].status, Head(inbox[t]).kind = "ask")
               r == [task[t] EXCEPT !.status = x]
    <3>1. x # task[t].status => x # "queued"
      BY DEF ReducePermission
    <3>2. r.status = "queued" => x = "queued"
      OBVIOUS
    <3>3. /\ UNCHANGED <<task, recovery>>
          /\ (x # task[t].status /\ saves' = Append(saves, Save(t, r, "quiet"))) \/ UNCHANGED saves
      BY <2>1 DEF HandlePermission, UserSave
    <3> HIDE DEF x, r
    <3> QED BY <3>1, <3>2, <3>3
  <2>2. CASE HandleTurn(t)
    <3>1. UNCHANGED saves \/ \E r : saves' = Append(saves, Save(t, r, "turn"))
      BY <2>2 DEF HandleTurn, UserSave
    <3> QED BY <2>2, <3>1 DEF HandleTurn
  <2>3. CASE CaptureDone(t)
    BY <2>3 DEF CaptureDone
  <2>4. CASE CaptureFails(t)
    BY <2>4 DEF CaptureFails
  <2> QED BY <1>6, <2>1, <2>2, <2>3, <2>4 DEF Handle
<1>7. ASSUME NEW r \in Repo, JobEnds(r) PROVE UNCHANGED recovery /\ Asked
  BY <1>7 DEF JobEnds, boardVars
<1> HIDE DEF Asked
<1>8. (UNCHANGED recovery /\ Asked) \/ Land \/ Deliver
  BY <1>3, <1>4, <1>5, <1>6, <1>7 DEF Plugin
<1> QED BY <1>1, <1>2, <1>8 DEF Asked

LEMMA ReviveKeeps ==
  ASSUME IInv, IInv', ReviveInv, [Next]_vars
  PROVE  ReviveInv'
<1>1. /\ saves \in Seq(SaveRow) /\ task \in [Task -> Record] /\ recovery \in RecoveryRow
      /\ SavesInv' /\ NextVisit.step = "visit" /\ NoRecovery.step = "off"
  BY DEF IInv, TypesInv, BoardTypes, RunTypes, NextVisit, NoRecovery
<1>2. ASSUME UNCHANGED <<task, saves, recovery>> PROVE ReviveInv'
  BY <1>2 DEF ReviveInv, At
<1>3. ASSUME recovery'.step # "decide", recovery.step # "off", UNCHANGED saves PROVE ReviveInv'
  BY <1>3 DEF ReviveInv
<1>4. CASE Plugin /\ recovery.step # "off"
  <2>1. recovery # NoRecovery
    BY <1>1, <1>4
  <2>2. ASSUME NEW i \in 1..Len(saves') PROVE saves'[i].rec.status # "queued"
    <3>1. CASE saves # <<>> /\ saves' = Tail(saves)
      BY <1>1, <1>4, <3>1, RowFacts DEF ReviveInv
    <3>2. CASE UNCHANGED saves
      BY <1>4, <3>2 DEF ReviveInv
    <3>3. ASSUME NEW t, NEW r, NEW by, saves' = Append(saves, Save(t, r, by)), r.status # "queued" \/ by \notin {"user", "quiet"}
          PROVE  saves'[i].rec.status # "queued"
      <4>1. \/ i = Len(saves) + 1 /\ saves'[i] = Save(t, r, by)
            \/ i \in 1..Len(saves) /\ saves'[i] = saves[i]
        BY <1>1, <3>3
      <4>2. saves'[i].rec.status = "queued" => saves'[i].by \in {"user", "quiet"}
        BY <1>1 DEF SavesInv, Waiting
      <4> QED BY <1>4, <3>3, <4>1, <4>2 DEF ReviveInv, Save
    <3> QED BY <1>4, <2>1, <3>1, <3>2, <3>3, Unasked
  <2>3. ASSUME recovery'.step = "decide" PROVE task'[At'].status # "queued"
    <3>1. UNCHANGED recovery /\ At' = At
      BY <1>1, <1>4, <2>1, <2>3, Unasked DEF At
    <3>2. At \in Task /\ recovery.step = "decide"
      BY <2>3, <3>1, AtIsTask DEF IInv
    <3>3. CASE saves # <<>> /\ task' = Memory
      <4>1. saves[1].rec.status # "queued" /\ Head(saves) = saves[1]
        BY <1>1, <1>4, <3>3, RowFacts DEF ReviveInv
      <4>2. task' = [task EXCEPT ![Head(saves).task] = Head(saves).rec]
        BY <3>3 DEF Memory
      <4>3. task'[At] = task[At] \/ task'[At] = Head(saves).rec
        BY <1>1, <3>2, <4>2
      <4> QED BY <3>1, <3>2, <4>1, <4>3 DEF ReviveInv
    <3>4. CASE UNCHANGED task
      BY <3>1, <3>2, <3>4 DEF ReviveInv
    <3> QED BY <1>4, <2>1, <3>3, <3>4, Unasked
  <2> QED BY <2>2, <2>3 DEF ReviveInv
<1>5. CASE Plugin /\ recovery.step = "off"
  <2>1. recovery'.step = "off"
    <3>1. CASE Land
      BY <1>5, <3>1, LandMoves
    <3>2. ASSUME ~Land PROVE UNCHANGED recovery
      <4>1. ASSUME NEW t \in Task, Job(t) \/ JobFault(t) PROVE UNCHANGED recovery
        BY <4>1 DEF Job, Begin, EnsureDone, CreateReturns, FailDispatch, JobFault, EnsureFails, CreateFails, SearchFails
      <4>2. ASSUME NEW t \in Task, User(t) PROVE UNCHANGED recovery
        BY <4>2 DEF User, Start, Cancel, RetryStop, Requeue, Delete, DeleteFails, Reconcile
      <4>3. ASSUME NEW t \in Task, SettleStep(t) \/ SettleFails(t) PROVE UNCHANGED recovery
        BY <4>3 DEF SettleStep, Watch, SettleFind, SettleStop, SettleMark, SettleFails
      <4>4. ASSUME NEW t \in Task, Handle(t) \/ CaptureFails(t) PROVE UNCHANGED recovery
        BY <4>4 DEF Handle, HandlePermission, HandleTurn, CaptureDone, CaptureFails
      <4>5. CASE Deliver
        BY <4>5 DEF Deliver
      <4>6. ASSUME NEW r \in Repo, JobEnds(r) PROVE UNCHANGED recovery
        BY <4>6 DEF JobEnds
      <4> QED BY <1>5, <3>2, <4>1, <4>2, <4>3, <4>4, <4>5, <4>6 DEF Plugin
    <3> QED BY <1>5, <3>1, <3>2
  <2> QED BY <2>1 DEF ReviveInv
<1>6. ASSUME NEW r, RecoverSave(r), recovery.step # "off" PROVE ReviveInv'
  <2>1. /\ Len(saves') = Len(saves) + 1 /\ Len(saves) \in Nat
        /\ \A i \in 1..Len(saves') : \/ saves'[i] = saves[i] /\ i \in 1..Len(saves)
                                    \/ saves'[i] = Save(At, r, "recover")
    BY <1>1, <1>6 DEF RecoverSave
  <2>2. \A i \in 1..Len(saves') : saves'[i].rec.status = "queued" => saves'[i].by \in {"user", "quiet"}
    BY <1>1 DEF SavesInv, Waiting
  <2>3. Save(At, r, "recover").by = "recover"
    BY DEF Save
  <2>4. recovery'.step = "saving"
    BY <1>1, <1>6 DEF RecoverSave, RecoveryRow
  <2> QED BY <1>6, <2>1, <2>2, <2>3, <2>4 DEF ReviveInv
<1>7. ASSUME NEW o, NEW seen, Look(o, seen), recovery.step # "off", Exec(At), UNCHANGED <<task, saves>> PROVE ReviveInv'
  <2>1. At' = At
    BY <1>1, <1>7 DEF Look, At, RecoveryRow
  <2> QED BY <1>7, <2>1 DEF ReviveInv, Exec, IsExecution
<1>8. CASE Recover \/ RecoverFails
  <2>1. CASE RecoverSkip \/ RecoverSettled
    BY <1>1, <1>3, <2>1 DEF RecoverSkip, RecoverSettled, Visiting, boardVars
  <2>2. CASE RecoverCancel
    <3>1. recovery.step = "visit"
      BY <2>2 DEF RecoverCancel, Visiting
    <3>2. CASE recovery' = [recovery EXCEPT !.step = "settling"] /\ UNCHANGED saves
      BY <1>1, <1>3, <3>1, <3>2 DEF RecoveryRow
    <3> QED BY <1>6, <2>2, <3>1, <3>2 DEF RecoverCancel
  <2>3. CASE RecoverExec
    BY <1>6, <1>7, <2>3 DEF RecoverExec, Visiting
  <2>4. CASE RecoverFails
    BY <1>7, <2>4 DEF RecoverFails, Visiting, boardVars
  <2>5. CASE RecoverDecide
    BY <1>6, <2>5 DEF RecoverDecide
  <2>6. CASE RecoverEnds
    BY <1>1, <2>6 DEF RecoverEnds, ReviveInv
  <2> QED BY <1>8, <2>1, <2>2, <2>3, <2>4, <2>5, <2>6 DEF Recover
<1>9. CASE Crash
  BY <1>9 DEF Crash, ReviveInv, NoRecovery
<1>10. ASSUME NEW o \in Op, Daemon(o) PROVE ReviveInv'
  BY <1>2, <1>10 DEF Daemon, Open, EndTurn, Chat, AskPermission, AnswerPermission, Session, boardVars
<1>11. CASE UNCHANGED vars
  BY <1>2, <1>11 DEF vars, boardVars
<1> QED BY <1>4, <1>5, <1>8, <1>9, <1>10, <1>11 DEF Next

\* The invariant holds of every behaviour of the queue (engine.ts:121-1145).
THEOREM QueueInvariant == Spec => []IInv
<1>1. Init => IInv /\ ReviveInv
  BY InitIInv DEF Init, ReviveInv, NoRecovery
<1>2. IInv /\ ReviveInv /\ [Next]_vars => IInv' /\ ReviveInv'
  BY QueueInductive, ReviveKeeps
<1> QED BY <1>1, <1>2, PTL DEF Spec

\* "Restart never resends a saved operation" (README.md:53): for any tasks and
\* users and any number of faults and crashes, the daemon is asked for a session
\* at most once per operation, and for no more sessions of a task than users
\* queued it.
THEOREM QueueNoResend == Spec => []NoResend
<1>1. ASSUME IInv PROVE NoResend
  <2>1. \A o \in Op : created[o] <= 1
    BY <1>1 DEF IInv, OnceInv
  <2>2. ASSUME NEW t \in Task PROVE Cardinality(Made(t)) <= granted[t]
    <3> DEFINE n == Cardinality(Made(t))
    <3>1. n \in Nat /\ granted[t] \in Nat
      BY <1>1, MadeFinite DEF IInv, TypesInv, RunTypes
    <3>2. n + (IF Prepares(t) THEN 1 ELSE 0) + (IF Queues(t) THEN 1 ELSE 0) <= granted[t]
      BY <1>1 DEF IInv, CreditInv, Claims
    <3> HIDE DEF n
    <3>3. n <= granted[t]
      BY <3>1, <3>2
    <3> QED BY <3>3 DEF n
  <2> QED BY <2>1, <2>2 DEF NoResend, Made
<1> QED BY <1>1, QueueInvariant, PTL

-----------------------------------------------------------------------------
(* One task at work: the invariant of a plugin that does not die            *)

\* The operation of a record is one of its task's, and its session is that of
\* the operation; a task that waits for a round has neither.
Owns(t, o) == o = NoOp \/ (o \in 1..Len(rounds) /\ rounds[o] = t)
Sound(t, r) ==
    /\ Owns(t, r.op) /\ r.agent \in {NoOp, r.op}
    /\ r.status \in {"draft", "queued"} => r.op = NoOp
Settles(t) ==
    /\ Owns(t, settle[t].op) /\ settle[t].agent \in {NoOp, settle[t].op}
    /\ settle[t].step = "stop" => settle[t].agent # NoOp

\* A job at work is the head of its repository's chain, and a task at work has one.
Rides(t) ==
    /\ Owns(t, pc[t].op)
    /\ pc[t].at # "off" => HasTurn(t)
    /\ task[t].status \in AtWork => pc[t].at \notin {"off", "begin"}

\* Until prepareAndSend() is over, its task has no session that a turn, a request
\* or a settlement could come from; only the user can cancel it.
Dispatches(t) == pc[t].at = "begin" \/ InPrepare(t)
Dispatched(t) == Dispatches(t) =>
    /\ inbox[t] = <<>> /\ task[t].agent = NoOp /\ settle[t].op # pc[t].op
    /\ pc[t].at = "begin" => task[t].status = "queued"
    /\ InPrepare(t) => /\ task[t].op = pc[t].op /\ task[t].status \in {"preparing", "canceling"}
                       /\ lock[t].by \in {"free", "cancel"}

Placed(t) == Sound(t, task[t]) /\ Settles(t) /\ Rides(t) /\ Dispatched(t)

\* What a save that waits makes of its task's place in the queue.
Fits(s) ==
    LET t == s.task
        r == s.rec
        was == task[t].status
    IN  /\ s.by = "user"   => r.status \in {"queued", "canceled", "deleted"} /\ ~Exec(t)
        /\ s.by = "begin"  => r.status = "preparing" /\ r.agent = NoOp /\ was = "queued"
        /\ s.by \notin {"user", "begin"} => r.op = task[t].op
        /\ s.by = "quiet"  => Phase(r.status) = Phase(was)
        /\ s.by = "cancel" => r.status = "canceling" /\ was # "queued" /\ (InPrepare(t) => r.agent = NoOp)
        /\ s.by = "locate" => r.status = "preparing" /\ r.agent = NoOp
        /\ s.by = "link"   => r.status \in {"running", "canceling"}
        /\ s.by = "found"  => Exec(t) /\ r.status = IF was = "canceling" THEN "canceling" ELSE "running"
        /\ s.by \in {"fail", "settle", "turn"} => Phase(r.status) = "out"
        /\ s.by # "recover"
Kept(s) == Sound(s.task, s.rec) /\ Fits(s)
Pending(s) == \E i \in 1..Len(saves) : saves[i] = s

\* A chain is a sequence, whatever it holds.
Listed(q) == q \in Seq({q[i] : i \in DOMAIN q})

SlotInv ==
    /\ recovery = NoRecovery /\ crashes = 0
    /\ \A r \in Repo : Listed(jobs[r])
    /\ jobs = [r \in Repo |-> jobs[r]]
    /\ \A t \in Task : Placed(t)
    /\ \A i \in 1..Len(saves) : Kept(saves[i])

LEMMA Lists ==
  ASSUME NEW q, Listed(q)
  PROVE  /\ \A x : Listed(Append(q, x)) /\ (q # <<>> => Append(q, x) # <<>> /\ Head(Append(q, x)) = Head(q))
         /\ q # <<>> => Listed(Tail(q))
<1> DEFINE S == {q[i] : i \in DOMAIN q}
<1>1. ASSUME NEW T, NEW s \in Seq(T) PROVE Listed(s)
  <2> DEFINE R == {s[i] : i \in DOMAIN s}
  <2>1. DOMAIN s = 1..Len(s) /\ Len(s) \in Nat /\ s = [i \in 1..Len(s) |-> s[i]]
    OBVIOUS
  <2>2. \A i \in 1..Len(s) : s[i] \in R
    BY <2>1
  <2> HIDE DEF R
  <2>3. s \in [1..Len(s) -> R]
    BY <2>1, <2>2
  <2>4. s \in Seq(R)
    BY <2>1, <2>3
  <2> QED BY <2>4 DEF Listed, R
<1>2. q \in Seq(S)
  BY DEF Listed
<1> HIDE DEF S
<1>3. ASSUME NEW x PROVE Listed(Append(q, x)) /\ (q # <<>> => Append(q, x) # <<>> /\ Head(Append(q, x)) = Head(q))
  <2> DEFINE T == S \cup {x}
  <2>1. q \in Seq(T) /\ x \in T
    BY <1>2
  <2> HIDE DEF T
  <2>2. Append(q, x) \in Seq(T) /\ (q # <<>> => Append(q, x) # <<>> /\ Head(Append(q, x)) = Head(q))
    BY <2>1
  <2> QED BY <1>1, <2>2
<1>4. ASSUME q # <<>> PROVE Listed(Tail(q))
  <2>1. Tail(q) \in Seq(S)
    BY <1>2, <1>4
  <2> QED BY <1>1, <2>1
<1> QED BY <1>3, <1>4

\* tick() never takes the head of a chain away.
LEMMA Ticks ==
  ASSUME SlotInv, NEW mem, jobs' = jobs \/ jobs' = Ticked(mem)
  PROVE  /\ \A r \in Repo : Listed(jobs'[r])
         /\ jobs' = [r \in Repo |-> jobs'[r]]
         /\ \A u \in Task : HasTurn(u) => HasTurn(u)'
<1>1. (\A r \in Repo : Listed(jobs[r])) /\ jobs = [r \in Repo |-> jobs[r]]
  BY DEF SlotInv
<1>2. ASSUME NEW r \in Repo
      PROVE  Listed(jobs'[r]) /\ (jobs[r] # <<>> => jobs'[r] # <<>> /\ Head(jobs'[r]) = Head(jobs[r]))
  <2>1. jobs'[r] = jobs[r] \/ \E x : jobs'[r] = Append(jobs[r], x)
    BY DEF Ticked
  <2> QED BY <1>1, <2>1, Lists
<1>3. jobs' = [r \in Repo |-> jobs'[r]]
  BY <1>1 DEF Ticked
<1>4. \A u \in Task : repoOf[u] \in Repo
  BY TaskAssumption
<1> QED BY <1>2, <1>3, <1>4 DEF HasTurn
\* What is on record of the rounds so far stays.
RoundsGrow ==
    /\ Len(rounds) <= Len(rounds')
    /\ \A o \in 1..Len(rounds) : o \in 1..Len(rounds') /\ rounds'[o] = rounds[o]

LEMMA OwnsStays == ASSUME NEW t, NEW o, RoundsGrow, Owns(t, o) PROVE Owns(t, o)'
BY DEF Owns, RoundsGrow

LEMMA SameRounds == ASSUME IInv, UNCHANGED rounds PROVE RoundsGrow
BY DEF RoundsGrow, IInv, TypesInv, RunTypes

LEMMA PendingFacts ==
  ASSUME IInv, SlotInv, NEW s, Pending(s)
  PROVE  s \in SaveRow /\ s.task \in Task /\ s.rec \in Record /\ s.by \in SaveKinds /\ Kept(s) /\ s.by # "recover"
<1>1. saves \in Seq(SaveRow)
  BY DEF IInv, TypesInv, BoardTypes
<1>2. PICK i \in 1..Len(saves) : saves[i] = s
  BY DEF Pending
<1> QED BY <1>1, <1>2, RowFacts DEF SlotInv, Kept, Fits

\* A step that leaves the other tasks alone keeps their places in the queue.
LEMMA OthersStay ==
  ASSUME SlotInv, NEW u \in Task, RoundsGrow, HasTurn(u) => HasTurn(u)',
         task'[u] = task[u], lock'[u] = lock[u], inbox'[u] = inbox[u], settle'[u] = settle[u], pc'[u] = pc[u]
  PROVE  Placed(u)' /\ \A s : s.task = u /\ Kept(s) => Kept(s)'
<1>1. Placed(u)
  BY DEF SlotInv
<1>2. \A r : Sound(u, r) => Sound(u, r)'
  BY OwnsStays DEF Sound
<1>3. Settles(u)' /\ Rides(u)' /\ Dispatched(u)'
  <2>1. Settles(u)'
    BY <1>1, OwnsStays DEF Placed, Settles
  <2>2. Rides(u)'
    BY <1>1, OwnsStays DEF Placed, Rides
  <2>3. Dispatched(u)'
    BY <1>1 DEF Placed, Dispatched, Dispatches, InPrepare
  <2> QED BY <2>1, <2>2, <2>3
<1>4. Sound(u, task[u])'
  BY <1>1, OwnsStays DEF Placed, Sound
<1>5. ASSUME NEW s, s.task = u, Fits(s) PROVE Fits(s)'
  BY <1>5 DEF Fits, Exec, InPrepare
<1> QED BY <1>2, <1>3, <1>4, <1>5 DEF Placed, Kept

\* A step of one task: what has to be shown is about that task and its saves.
LEMMA OneTask ==
  ASSUME IInv, SlotInv, NEW t \in Task, UNCHANGED <<recovery, crashes>>, RoundsGrow,
         \A r \in Repo : Listed(jobs'[r]), jobs' = [r \in Repo |-> jobs'[r]],
         \A u \in Task \ {t} : HasTurn(u) => HasTurn(u)',
         \A u \in Task \ {t} : /\ task'[u] = task[u] /\ lock'[u] = lock[u] /\ inbox'[u] = inbox[u]
                               /\ settle'[u] = settle[u] /\ pc'[u] = pc[u],
         Placed(t)',
         \A s : Pending(s)' => IF s.task = t THEN Kept(s)' ELSE Pending(s)
  PROVE  SlotInv'
<1>1. ASSUME NEW u \in Task \ {t} PROVE Placed(u)' /\ \A s : s.task = u /\ Kept(s) => Kept(s)'
  BY OthersStay
<1>2. ASSUME NEW s, Pending(s)' PROVE Kept(s)'
  <2>1. CASE s.task = t
    BY <1>2, <2>1
  <2>2. CASE s.task # t
    BY <1>1, <1>2, <2>2, PendingFacts
  <2> QED BY <2>1, <2>2
<1>3. ASSUME NEW i \in 1..Len(saves') PROVE Kept(saves[i])'
  <2>1. PICK s : s = saves'[i]
    OBVIOUS
  <2>2. Kept(s)'
    BY <1>2, <2>1 DEF Pending
  <2> QED BY <2>1, <2>2 DEF Kept
<1> QED BY <1>1, <1>3 DEF SlotInv
LEMMA AppendPends ==
  ASSUME IInv, NEW x, saves' = Append(saves, x), NEW s, Pending(s)'
  PROVE  s = x \/ Pending(s)
<1>1. saves \in Seq(SaveRow)
  BY DEF IInv, TypesInv, BoardTypes
<1>2. \A i \in 1..Len(saves') : saves'[i] = x \/ (i \in 1..Len(saves) /\ saves'[i] = saves[i])
  <2> DEFINE T == SaveRow \cup {x}
  <2>1. saves \in Seq(T) /\ x \in T
    BY <1>1
  <2> HIDE DEF T
  <2> QED BY <2>1
<1> QED BY <1>2 DEF Pending

\* The oldest save, and those that still wait when it has landed.
LEMMA TailPends ==
  ASSUME IInv, SlotInv, saves # <<>>, saves' = Tail(saves)
  PROVE  /\ Pending(Head(saves))
         /\ \A s : Pending(s)' => /\ Pending(s)
                                  /\ s.task = Head(saves).task =>
                                       /\ ~(s.by \in LockKinds /\ Head(saves).by \in LockKinds)
                                       /\ ~(s.by \in JobKinds /\ Head(saves).by \in JobKinds)
<1>1. saves \in Seq(SaveRow)
  BY DEF IInv, TypesInv, BoardTypes
<1>2. Head(saves) = saves[1] /\ 1 \in 1..Len(saves) /\ \A i \in 1..Len(saves') : i + 1 \in 1..Len(saves) /\ i + 1 # 1 /\ saves'[i] = saves[i + 1]
  BY <1>1, RowFacts
<1>3. ASSUME NEW s, Pending(s)'
      PROVE  /\ Pending(s)
             /\ s.task = Head(saves).task => /\ ~(s.by \in LockKinds /\ Head(saves).by \in LockKinds)
                                             /\ ~(s.by \in JobKinds /\ Head(saves).by \in JobKinds)
  <2>1. PICK j \in 1..Len(saves) : j # 1 /\ saves[j] = s
    BY <1>2, <1>3 DEF Pending
  <2>2. Alone(1, j)
    BY <1>2, <2>1 DEF IInv, SavesInv
  <2> QED BY <1>2, <2>1, <2>2 DEF Pending, Alone
<1> QED BY <1>2, <1>3 DEF Pending

\* The lock and the job of a task tell which of its saves can wait.
LEMMA PendingWaits ==
  ASSUME IInv, SlotInv, NEW s, Pending(s)
  PROVE  /\ s.by \in LockKinds => lock[s.task].by = SavePlace(s.by)
         /\ s.by \in JobKinds => pc[s.task].at = SavePlace(s.by)
         /\ s.by = "begin" => s.rec.op = pc[s.task].op
         /\ s.by \notin LockKinds => /\ s.by \in {"locate", "link"} /\ pc[s.task].at = s.by
                                     /\ InPrepare(s.task) /\ lock[s.task].by \in {"free", "cancel"}
<1>1. s.task \in Task /\ s.by \in SaveKinds /\ s.by # "recover"
  BY PendingFacts
<1>2. /\ s.by \in LockKinds => lock[s.task].by = SavePlace(s.by)
      /\ s.by \in JobKinds => pc[s.task].at = SavePlace(s.by)
      /\ s.by = "begin" => s.rec.op = pc[s.task].op
  BY DEF Pending, IInv, SavesInv, Waiting
<1>3. ASSUME s.by \notin LockKinds
      PROVE  s.by \in {"locate", "link"} /\ pc[s.task].at = s.by /\ InPrepare(s.task)
  BY <1>1, <1>2, <1>3 DEF LockKinds, SaveKinds, JobKinds, SavePlace, InPrepare
<1>4. Dispatched(s.task)
  BY <1>1 DEF SlotInv, Placed
<1> QED BY <1>2, <1>3, <1>4 DEF Dispatched, Dispatches

\* A task whose lock is held for anything but a cancel, or which has no session
\* to be prepared, has no save of its job that waits without the lock.
LEMMA OnlyLocked ==
  ASSUME IInv, SlotInv, NEW t \in Task, ~InPrepare(t) \/ lock[t].by \notin {"free", "cancel"}, NEW s, Pending(s), s.task = t
  PROVE  s.by \in LockKinds
BY PendingWaits

\* A step of a handler of one task: a save may be asked for, none lands, the job stays.
LEMMA HandlerStep ==
  ASSUME IInv, SlotInv, NEW t \in Task, UNCHANGED <<task, pc, rounds, recovery, crashes>>,
         NEW mem, jobs' = jobs \/ jobs' = Ticked(mem),
         \A u \in Task \ {t} : lock'[u] = lock[u] /\ inbox'[u] = inbox[u] /\ settle'[u] = settle[u],
         Settles(t)', Dispatched(t)',
         \/ UNCHANGED saves
         \/ \E r, by : saves' = Append(saves, Save(t, r, by)) /\ Sound(t, r) /\ Fits(Save(t, r, by))
  PROVE  SlotInv'
<1>1. /\ \A r \in Repo : Listed(jobs'[r])
      /\ jobs' = [r \in Repo |-> jobs'[r]]
      /\ \A u \in Task : HasTurn(u) => HasTurn(u)'
  BY Ticks
<1>2. RoundsGrow
  BY SameRounds
<1>3. Placed(t)'
  <2>1. Placed(t)
    BY DEF SlotInv
  <2>2. Sound(t, task[t])'
    BY <1>2, <2>1, OwnsStays DEF Placed, Sound
  <2>3. Rides(t)'
    BY <1>1, <1>2, <2>1, OwnsStays DEF Placed, Rides
  <2> QED BY <2>2, <2>3 DEF Placed
<1>4. \A s : s.task = t /\ Kept(s) => Kept(s)'
  <2>1. ASSUME NEW s, s.task = t, Sound(t, s.rec) PROVE Sound(t, s.rec)'
    BY <1>2, <2>1, OwnsStays DEF Sound
  <2>2. ASSUME NEW s, s.task = t, Fits(s) PROVE Fits(s)'
    BY <2>2 DEF Fits, Exec, InPrepare
  <2> QED BY <2>1, <2>2 DEF Kept
<1>5. ASSUME NEW s, Pending(s)' PROVE IF s.task = t THEN Kept(s)' ELSE Pending(s)
  <2>1. CASE UNCHANGED saves
    <3>1. Pending(s)
      BY <1>5, <2>1 DEF Pending
    <3> QED BY <1>4, <3>1, PendingFacts
  <2>2. ASSUME NEW r, NEW by, saves' = Append(saves, Save(t, r, by)), Sound(t, r), Fits(Save(t, r, by))
        PROVE  IF s.task = t THEN Kept(s)' ELSE Pending(s)
    <3>1. Save(t, r, by).task = t /\ Kept(Save(t, r, by))
      BY <2>2 DEF Save, Kept
    <3>2. s = Save(t, r, by) \/ Pending(s)
      BY <1>5, <2>2, AppendPends
    <3> QED BY <1>4, <3>1, <3>2, PendingFacts
  <2> QED BY <2>1, <2>2
<1> QED BY <1>1, <1>2, <1>3, <1>5, OneTask

\* The same with a change under the lock, of a task with a session or without a job.
LEMMA LockedStep ==
  ASSUME IInv, SlotInv, NEW t \in Task, ~Dispatches(t), UNCHANGED <<task, pc, rounds, recovery, crashes>>,
         NEW mem, jobs' = jobs \/ jobs' = Ticked(mem),
         \A u \in Task \ {t} : inbox'[u] = inbox[u] /\ settle'[u] = settle[u],
         Settles(t)', NEW r, NEW by, UserSave(t, r, by), Sound(t, r), Fits(Save(t, r, by))
  PROVE  SlotInv'
<1>1. saves' = Append(saves, Save(t, r, by)) /\ \A u \in Task \ {t} : lock'[u] = lock[u]
  BY DEF UserSave, Holds
<1>2. Dispatched(t)'
  BY DEF Dispatched, Dispatches, InPrepare
<1> QED BY <1>1, <1>2, HandlerStep
LEMMA FitsKinds ==
  ASSUME NEW t, NEW r
  PROVE  /\ r.status \in {"queued", "canceled", "deleted"} /\ ~Exec(t) => Fits(Save(t, r, "user"))
         /\ r.op = task[t].op /\ Phase(r.status) = Phase(task[t].status) => Fits(Save(t, r, "quiet"))
         /\ r.op = task[t].op /\ r.status = "canceling" /\ task[t].status # "queued" /\ (InPrepare(t) => r.agent = NoOp)
              => Fits(Save(t, r, "cancel"))
         /\ \A by \in {"fail", "settle", "turn"} :
              r.op = task[t].op /\ Phase(r.status) = "out" => Fits(Save(t, r, by))
         /\ r.status = "preparing" /\ r.agent = NoOp /\ task[t].status = "queued" => Fits(Save(t, r, "begin"))
         /\ r.op = task[t].op /\ r.status = "preparing" /\ r.agent = NoOp => Fits(Save(t, r, "locate"))
         /\ r.op = task[t].op /\ r.status \in {"running", "canceling"} => Fits(Save(t, r, "link"))
         /\ r.op = task[t].op /\ Exec(t) /\ r.status = (IF task[t].status = "canceling" THEN "canceling" ELSE "running")
              => Fits(Save(t, r, "found"))
BY DEF Fits, Save

\* What a task that no job dispatches looks like, and what memory says of any task.
LEMMA PlacedFacts ==
  ASSUME IInv, SlotInv, NEW t \in Task
  PROVE  /\ Placed(t) /\ Sound(t, task[t]) /\ Settles(t) /\ Rides(t) /\ Dispatched(t)
         /\ task[t] \in Record /\ task[t].status \in Marks /\ task[t].op \in Ops /\ task[t].agent \in Ops
         /\ pc[t].at # "off" => pc[t].op \in Op /\ pc[t].op # NoOp
         /\ pc[t].at = "begin" => lock[t].by = "begin"
         /\ lock[t].by \in {"free", "capture"} /\ ~Exec(t) => ~Dispatches(t)
         /\ lock[t].by \in {"free", "capture"} /\ ~InPrepare(t) => ~Dispatches(t)
         /\ inbox[t] # <<>> => ~Dispatches(t)
         /\ lock[t].by = "capture" => ~Dispatches(t)
<1>1. Placed(t)
  BY DEF SlotInv
<1>2. Sound(t, task[t]) /\ Settles(t) /\ Rides(t) /\ Dispatched(t)
  BY <1>1 DEF Placed
<1>3. task[t] \in Record /\ task[t].status \in Marks /\ task[t].op \in Ops /\ task[t].agent \in Ops
  BY DEF IInv, TypesInv, BoardTypes, Record, Marks
<1>4. pc[t].at # "off" => pc[t].op \in Op /\ pc[t].op # NoOp
  BY BoundAssumption DEF IInv, TypesInv, RunTypes, Op
<1>5. pc[t].at = "begin" => lock[t].by = "begin"
  BY DEF IInv, SavesInv
<1>6. ~Exec(t) => ~InPrepare(t)
  BY <1>2 DEF Dispatched, Dispatches, Exec, IsExecution
<1>7. inbox[t] # <<>> \/ lock[t].by = "capture" => ~Dispatches(t)
  BY <1>2, <1>5 DEF Dispatched, Dispatches
<1> QED BY <1>1, <1>2, <1>3, <1>4, <1>5, <1>6, <1>7 DEF Dispatches

LEMMA SettleKeeps ==
  ASSUME IInv, SlotInv, NEW t \in Task, UNCHANGED rounds
  PROVE  /\ UNCHANGED settle => Settles(t)'
         /\ \A r : Sound(t, r) /\ settle' = SettleFrom(t, r) => Settles(t)'
         /\ \A mem : Sound(t, mem[t]) /\ settle' = SettleIfCanceling(t, mem) => Settles(t)'
         /\ settle' = [settle EXCEPT ![t] = Off] => Settles(t)'
<1>1. Settles(t) /\ settle \in [Task -> SettleRow]
  BY PlacedFacts DEF IInv, TypesInv, RunTypes
<1>2. UNCHANGED settle => Settles(t)'
  BY <1>1 DEF Settles, Owns
<1>3. ASSUME NEW r, Sound(t, r), settle' = SettleFrom(t, r) PROVE Settles(t)'
  <2>1. CASE settle[t] # Off
    BY <1>1, <1>3, <2>1 DEF Settles, Owns, SettleFrom
  <2>2. CASE settle[t] = Off
    <3>1. settle'[t] = [step |-> IF r.agent = NoOp THEN "find" ELSE "stop", op |-> r.op, agent |-> r.agent]
      BY <1>1, <1>3, <2>2 DEF SettleFrom
    <3> QED BY <1>3, <3>1 DEF Settles, Sound, Owns
  <2> QED BY <2>1, <2>2
<1>4. ASSUME NEW mem, Sound(t, mem[t]), settle' = SettleIfCanceling(t, mem) PROVE Settles(t)'
  BY <1>2, <1>3, <1>4 DEF SettleIfCanceling
<1>5. settle' = [settle EXCEPT ![t] = Off] => Settles(t)'
  BY <1>1 DEF Settles, Owns, Off
<1> QED BY <1>2, <1>3, <1>4, <1>5

LEMMA UserSlot ==
  ASSUME IInv, SlotInv, NEW t \in Task, User(t)
  PROVE  SlotInv'
<1> DEFINE r == task[t]
<1>1. /\ Sound(t, r) /\ Settles(t) /\ Rides(t) /\ Dispatched(t) /\ r \in Record /\ r.status \in Marks
      /\ pc[t].at = "begin" => lock[t].by = "begin"
      /\ lock[t].by \in {"free", "capture"} /\ ~Exec(t) => ~Dispatches(t)
      /\ lock[t].by \in {"free", "capture"} /\ ~InPrepare(t) => ~Dispatches(t)
  BY PlacedFacts
<1>2. UNCHANGED rounds /\ UNCHANGED settle => Settles(t)'
  BY SettleKeeps
<1>3. \A s : /\ [r EXCEPT !.status = s].status = s /\ [r EXCEPT !.status = s].op = r.op
             /\ [r EXCEPT !.status = s].agent = r.agent
  BY <1>1 DEF Record
<1>4. CASE Start(t)
  <2> DEFINE x == [r EXCEPT !.status = "queued"]
  <2>1. /\ UserSave(t, x, "user") /\ lock[t].by = "free" /\ r.status = "draft"
        /\ UNCHANGED <<task, pc, rounds, recovery, crashes, jobs, settle, inbox>>
    BY <1>4, Granted DEF Start, Accepts, runVars, eventVars, CanEnqueue
  <2>2. ~Exec(t) /\ Sound(t, x) /\ x.status = "queued"
    BY <1>1, <1>3, <2>1 DEF Exec, IsExecution, Sound
  <2> HIDE DEF x
  <2> QED BY <1>1, <1>2, <2>1, <2>2, FitsKinds, LockedStep
<1>5. CASE Cancel(t)
  <2>1. /\ lock[t].by = "free" /\ UNCHANGED <<task, pc, rounds, recovery, crashes, jobs, settle, inbox>>
        /\ CanCancel(r.status)
    BY <1>5, Granted DEF Cancel, Accepts, runVars, eventVars, countVars
  <2>2. CASE ~Exec(t) /\ r.agent = NoOp /\ r.op = NoOp
    <3> DEFINE x == [r EXCEPT !.status = "canceled"]
    <3>1. UserSave(t, x, "user")
      BY <1>5, <2>2 DEF Cancel
    <3>2. x.status = "canceled" /\ Sound(t, x)
      BY <1>1, <1>3, <2>2 DEF Sound
    <3> HIDE DEF x
    <3> QED BY <1>1, <1>2, <2>1, <2>2, <3>1, <3>2, FitsKinds, LockedStep
  <2>3. CASE ~(~Exec(t) /\ r.agent = NoOp /\ r.op = NoOp)
    <3> DEFINE x == [r EXCEPT !.status = "canceling"]
    <3>1. UserSave(t, x, "cancel")
      BY <1>5, <2>3 DEF Cancel
    <3>2. x.status = "canceling" /\ Sound(t, x) /\ x.op = r.op /\ x.agent = r.agent
      BY <1>1, <1>3 DEF Sound
    <3>3. r.status # "queued"
      BY <1>1, <2>3 DEF Sound, Exec, IsExecution
    <3>4. InPrepare(t) => x.agent = NoOp
      BY <1>1, <3>2 DEF Dispatched, Dispatches
    <3> HIDE DEF x
    <3>5. Fits(Save(t, x, "cancel"))
      BY <3>2, <3>3, <3>4, FitsKinds
    <3>6. /\ saves' = Append(saves, Save(t, x, "cancel")) /\ lock'[t].by = "cancel"
          /\ \A u \in Task \ {t} : lock'[u] = lock[u]
      BY <3>1 DEF UserSave, Holds, IInv, TypesInv, BoardTypes
    <3>7. Dispatched(t)'
      BY <1>1, <2>1, <3>6 DEF Dispatched, Dispatches, InPrepare
    <3> QED BY <1>2, <2>1, <3>2, <3>5, <3>6, <3>7, HandlerStep
  <2> QED BY <2>2, <2>3
<1>6. CASE RetryStop(t)
  <2>1. /\ lock[t].by = "free" /\ (r.agent # NoOp \/ ~InPrepare(t)) /\ settle' = SettleFrom(t, r)
        /\ UNCHANGED <<task, saves, lock, pc, rounds, recovery, crashes, jobs, inbox>>
    BY <1>6, Granted DEF RetryStop, Accepts, boardVars, eventVars, countVars
  <2>2. ~Dispatches(t)
    BY <1>1, <2>1 DEF Dispatched, Dispatches
  <2>3. Settles(t)' /\ \A u \in Task \ {t} : settle'[u] = settle[u]
    BY <1>1, <2>1, SettleKeeps DEF SettleFrom, IInv, TypesInv, RunTypes
  <2>4. Dispatched(t)'
    BY <2>1, <2>2 DEF Dispatched, Dispatches, InPrepare
  <2> QED BY <2>1, <2>3, <2>4, HandlerStep
<1>7. CASE Requeue(t)
  <2>1. /\ UserSave(t, Requeued(r), "user") /\ lock[t].by = "free" /\ (CanRetry(r.status) \/ CanContinue(r.status))
        /\ UNCHANGED <<task, pc, rounds, recovery, crashes, jobs, settle, inbox>>
    BY <1>7, Granted DEF Requeue, Accepts, runVars, eventVars
  <2>2. ~Exec(t)
    BY <2>1 DEF Exec, IsExecution, CanRetry, CanContinue
  <2>3. Requeued(r).status = "queued" /\ Sound(t, Requeued(r))
    BY DEF Requeued, Draft, Sound, Owns
  <2> QED BY <1>1, <1>2, <2>1, <2>2, <2>3, FitsKinds, LockedStep
<1>8. CASE Delete(t)
  <2> DEFINE x == [Draft EXCEPT !.status = "deleted"]
  <2>1. /\ UserSave(t, x, "user") /\ lock[t].by = "free" /\ ~Exec(t)
        /\ UNCHANGED <<task, pc, rounds, recovery, crashes, jobs, settle, inbox>>
    BY <1>8, Granted DEF Delete, Accepts, runVars, eventVars, countVars, CanDelete, Exec
  <2>2. x.status = "deleted" /\ Sound(t, x)
    BY DEF Draft, Sound, Owns
  <2> HIDE DEF x
  <2> QED BY <1>1, <1>2, <2>1, <2>2, FitsKinds, LockedStep
<1>9. CASE DeleteFails(t)
  <2>1. /\ UserSave(t, r, "quiet") /\ lock[t].by = "free" /\ ~Exec(t)
        /\ UNCHANGED <<task, pc, rounds, recovery, crashes, jobs, settle, inbox>>
    BY <1>9, Granted DEF DeleteFails, Accepts, runVars, eventVars, CanDelete, Exec
  <2> QED BY <1>1, <1>2, <2>1, FitsKinds, LockedStep
<1>10. CASE Reconcile(t)
  <2> DEFINE x == [r EXCEPT !.status = "needs_check", !.review = NoReview]
  <2>1. /\ UserSave(t, x, "quiet") /\ lock[t].by = "free" /\ r.status = "awaiting_review"
        /\ UNCHANGED <<task, pc, rounds, recovery, crashes, jobs, settle, inbox>>
    BY <1>10, Granted DEF Reconcile, runVars, eventVars, countVars
  <2>2. x.status = "needs_check" /\ x.op = r.op /\ x.agent = r.agent
    BY <1>1 DEF Record
  <2>3. Sound(t, x) /\ ~Exec(t) /\ Phase(x.status) = Phase(r.status)
    BY <1>1, <2>1, <2>2 DEF Sound, Exec, IsExecution, Phase, AtWork
  <2> HIDE DEF x
  <2> QED BY <1>1, <1>2, <2>1, <2>2, <2>3, FitsKinds, LockedStep
<1> QED BY <1>4, <1>5, <1>6, <1>7, <1>8, <1>9, <1>10 DEF User

LEMMA SettleSlot ==
  ASSUME IInv, SlotInv, NEW t \in Task, SettleStep(t) \/ SettleFails(t)
  PROVE  SlotInv'
<1> DEFINE r == task[t]
<1>1. /\ Sound(t, r) /\ Settles(t) /\ Dispatched(t) /\ r \in Record /\ settle \in [Task -> SettleRow]
      /\ pc[t].at # "off" => pc[t].op # NoOp
      /\ pc[t].at = "begin" => lock[t].by = "begin"
  BY PlacedFacts DEF IInv, TypesInv, RunTypes
<1>2. UNCHANGED <<task, inbox, pc, rounds, recovery, crashes>>
  BY DEF SettleStep, Watch, SettleFind, SettleStop, SettleMark, SettleFails, boardVars, eventVars, countVars
<1>3. ASSUME UNCHANGED <<saves, lock>>, NEW step \in {"mark", "stop"}, NEW o, SettleTo(t, step, o),
             o \in {NoOp, settle[t].op}, step = "stop" => o # NoOp, UNCHANGED jobs
      PROVE  SlotInv'
  <2>1. settle'[t].step = step /\ settle'[t].agent = o /\ settle'[t].op = settle[t].op /\ \A u \in Task \ {t} : settle'[u] = settle[u]
    BY <1>1, <1>3 DEF SettleTo, SettleRow
  <2>2. Settles(t)' /\ Dispatched(t)'
    BY <1>1, <1>2, <1>3, <2>1 DEF Settles, Owns, Dispatched, Dispatches, InPrepare
  <2> QED BY <1>2, <1>3, <2>1, <2>2, HandlerStep
<1>4. ASSUME UNCHANGED <<saves, lock>>, GiveUp(t), jobs' = jobs \/ jobs' = Ticked(task)
      PROVE  SlotInv'
  <2>1. settle' = [settle EXCEPT ![t] = Off] /\ settle'[t].op = NoOp /\ \A u \in Task \ {t} : settle'[u] = settle[u]
    BY <1>1, <1>4 DEF GiveUp, Off
  <2>2. Settles(t)'
    BY <1>2, <2>1, SettleKeeps
  <2>3. Dispatched(t)'
    BY <1>1, <1>2, <1>4, <2>1 DEF Dispatched, Dispatches, InPrepare
  <2> QED BY <1>2, <1>4, <2>1, <2>2, <2>3, HandlerStep
<1>5. CASE SettleFind(t)
  <2> DEFINE o == FoundBy(settle[t].op)
  <2>1. SettleTo(t, IF o = NoOp THEN "mark" ELSE "stop", o) /\ UNCHANGED <<saves, lock, jobs>>
    BY <1>5 DEF SettleFind, boardVars
  <2>2. o \in {NoOp, settle[t].op}
    BY DEF FoundBy
  <2> HIDE DEF o
  <2> QED BY <1>3, <2>1, <2>2
<1>6. CASE SettleStop(t)
  BY <1>1, <1>3, <1>4, <1>6 DEF SettleStop, Settles, boardVars
<1>7. CASE SettleFails(t)
  BY <1>4, <1>7 DEF SettleFails, boardVars
<1>9. CASE Watch(t)
  <2>1. ~InPrepare(t) /\ r.status = "canceling" /\ settle' = SettleFrom(t, r) /\ UNCHANGED <<saves, lock, jobs>>
    BY <1>9 DEF Watch, boardVars
  <2>2. Settles(t)' /\ \A u \in Task \ {t} : settle'[u] = settle[u]
    BY <1>1, <1>2, <2>1, SettleKeeps DEF SettleFrom, IInv, TypesInv, RunTypes
  <2>3. Dispatched(t)'
    BY <1>1, <1>2, <2>1 DEF Dispatched, Dispatches, InPrepare
  <2> QED BY <1>2, <2>1, <2>2, <2>3, HandlerStep
<1>8. CASE SettleMark(t)
  <2>1. lock[t].by = "free"
    BY <1>8, Granted DEF SettleMark
  <2>2. CASE ~(r.status = "canceling" /\ r.op = settle[t].op)
    BY <1>4, <1>8, <2>2 DEF SettleMark
  <2>3. CASE r.status = "canceling" /\ r.op = settle[t].op
    <3> DEFINE o == IF r.agent = NoOp THEN settle[t].agent ELSE r.agent
               x == [r EXCEPT !.status = "canceled", !.agent = o]
    <3>1. UserSave(t, x, "settle") /\ settle' = [settle EXCEPT ![t].step = "saving"] /\ UNCHANGED jobs
      BY <1>8, <2>3 DEF SettleMark
    <3>2. o \in {NoOp, r.op}
      BY <1>1, <2>3 DEF Settles, Sound
    <3> HIDE DEF o
    <3>3. x.status = "canceled" /\ x.op = r.op /\ x.agent = o
      BY <1>1 DEF Record
    <3> HIDE DEF x
    <3>4. Sound(t, x) /\ Phase(x.status) = "out"
      BY <1>1, <3>2, <3>3 DEF Sound, Phase, AtWork
    <3>5. ~Dispatches(t)
      BY <1>1, <2>1, <2>3 DEF Dispatched, Dispatches
    <3>6. Settles(t)' /\ \A u \in Task \ {t} : settle'[u] = settle[u]
      BY <1>1, <1>2, <3>1 DEF Settles, Owns, SettleRow
    <3> QED BY <1>2, <3>1, <3>3, <3>4, <3>5, <3>6, FitsKinds, LockedStep
  <2> QED BY <2>2, <2>3
<1> QED BY <1>5, <1>6, <1>7, <1>8, <1>9 DEF SettleStep

\* Events for tasks that have a session change nobody's place.
LEMMA BoxStep ==
  ASSUME IInv, SlotInv, UNCHANGED <<task, saves, lock, jobs, pc, settle, recovery, rounds, crashes>>,
         \A u \in Task : Dispatches(u) => inbox'[u] = inbox[u]
  PROVE  SlotInv'
<1>1. ASSUME NEW u \in Task PROVE Placed(u)'
  <2>1. Sound(u, task[u])' /\ Settles(u)' /\ Rides(u)' /\ Dispatched(u)'
    BY PlacedFacts DEF Sound, Settles, Rides, Dispatched, Dispatches, InPrepare, Owns, HasTurn
  <2> QED BY <2>1 DEF Placed
<1>2. \A i \in 1..Len(saves') : Kept(saves[i])'
  BY DEF SlotInv, Kept, Sound, Fits, Owns, Exec, InPrepare
<1>3. recovery' = NoRecovery /\ crashes' = 0 /\ (\A r \in Repo : Listed(jobs'[r])) /\ jobs' = [r \in Repo |-> jobs'[r]]
  BY DEF SlotInv
<1> QED BY <1>1, <1>2, <1>3 DEF SlotInv

LEMMA EventSlot ==
  ASSUME IInv, SlotInv, Deliver \/ (\E t \in Task : HandlePermission(t))
  PROVE  SlotInv'
<1>1. CASE Deliver
  <2>1. UNCHANGED <<task, saves, lock, jobs, pc, settle, recovery, rounds, crashes>>
    BY <1>1 DEF Deliver, boardVars, runVars, countVars
  <2>2. ASSUME NEW u \in Task, Dispatches(u) PROVE inbox'[u] = inbox[u]
    <3>1. task[u].agent = NoOp
      BY <2>2, PlacedFacts DEF Dispatched
    <3> QED BY <1>1, <3>1 DEF Deliver, ToOwner, TasksOf
  <2> QED BY <2>1, <2>2, BoxStep
<1>2. ASSUME NEW t \in Task, HandlePermission(t) PROVE SlotInv'
  <2> DEFINE r == task[t]
             next == ReducePermission(r.status, Head(inbox[t]).kind = "ask")
             x == [r EXCEPT !.status = next]
  <2>1. /\ inbox[t] # <<>> /\ inbox' = [inbox EXCEPT ![t] = Tail(@)]
        /\ UNCHANGED <<task, pc, rounds, recovery, crashes, jobs, settle>>
        /\ IF next # r.status THEN UserSave(t, x, "quiet") ELSE UNCHANGED <<saves, lock>>
    BY <1>2 DEF HandlePermission, runVars, countVars
  <2>2. /\ Sound(t, r) /\ r \in Record /\ ~Dispatches(t) /\ Settles(t)'
        /\ \A u \in Task \ {t} : inbox'[u] = inbox[u]
    BY <2>1, PlacedFacts, SettleKeeps DEF IInv, TypesInv, EventTypes
  <2>3. CASE next = r.status
    <3>1. \A u \in Task : Dispatches(u) => inbox'[u] = inbox[u]
      BY <2>2
    <3> QED BY <2>1, <2>3, <3>1, BoxStep
  <2>4. CASE next # r.status
    <3>1. next \in {"running", "needs_attention"} /\ r.status \in {"running", "needs_attention"}
      BY <2>4 DEF ReducePermission
    <3> HIDE DEF next
    <3>2. x.status = next /\ x.op = r.op /\ x.agent = r.agent
      BY <2>2 DEF Record
    <3>3. Sound(t, x) /\ Phase(x.status) = Phase(r.status)
      BY <2>2, <3>1, <3>2 DEF Sound, Phase, AtWork
    <3>4. UserSave(t, x, "quiet")
      BY <2>1, <2>4
    <3> HIDE DEF x
    <3> QED BY <2>1, <2>2, <3>2, <3>3, <3>4, FitsKinds, LockedStep
  <2> QED BY <2>3, <2>4
<1> QED BY <1>1, <1>2

LEMMA EndedIs ==
  ASSUME NEW r \in Record, NEW e, NEW s
  PROVE  /\ Ended(r, e, s).status = s /\ Ended(r, e, s).op = r.op /\ Ended(r, e, s).agent = r.agent
         /\ LET x == [Ended(r, e, s) EXCEPT !.review = NoReview] IN x.status = s /\ x.op = r.op /\ x.agent = r.agent
         /\ Reviewed(r, e).status = "awaiting_review" /\ Reviewed(r, e).op = r.op /\ Reviewed(r, e).agent = r.agent
BY DEF Record, Ended, Reviewed

\* The handler of the end of a turn: a save that takes the task out of the queue, or none.
LEMMA TurnSlot ==
  ASSUME IInv, SlotInv, NEW t \in Task, HandleTurn(t) \/ CaptureDone(t) \/ CaptureFails(t)
  PROVE  SlotInv'
<1> DEFINE r == task[t]
<1>1. /\ ~Dispatches(t) /\ UNCHANGED <<task, pc, rounds, recovery, crashes>>
      /\ \A u \in Task \ {t} : inbox'[u] = inbox[u]
  <2>1. CASE HandleTurn(t)
    BY <2>1, PlacedFacts DEF HandleTurn, countVars, IInv, TypesInv, EventTypes
  <2>2. CASE CaptureDone(t) \/ CaptureFails(t)
    BY <2>2, PlacedFacts DEF CaptureDone, CaptureFails, countVars
  <2> QED BY <2>1, <2>2
<1>2. Sound(t, r) /\ r \in Record /\ settle \in [Task -> SettleRow]
  BY PlacedFacts DEF IInv, TypesInv, RunTypes
<1>3. ASSUME UNCHANGED saves, \A u \in Task \ {t} : lock'[u] = lock[u],
             TurnOver(t) \/ UNCHANGED <<jobs, settle>>
      PROVE  SlotInv'
  <2>1. Settles(t)' /\ \A u \in Task \ {t} : settle'[u] = settle[u]
    BY <1>1, <1>2, <1>3, SettleKeeps DEF TurnOver, SettleIfCanceling, SettleFrom
  <2>2. Dispatched(t)'
    BY <1>1 DEF Dispatched, Dispatches, InPrepare
  <2>3. jobs' = jobs \/ jobs' = Ticked(task)
    BY <1>3 DEF TurnOver
  <2> QED BY <1>1, <1>3, <2>1, <2>2, <2>3, HandlerStep
<1>4. ASSUME NEW x, UserSave(t, x, "turn"), UNCHANGED <<jobs, settle>>,
             x.op = r.op, x.agent = r.agent, x.status \in {"awaiting_review", "needs_check", "failed", "canceled"}
      PROVE  SlotInv'
  <2>1. Sound(t, x) /\ Phase(x.status) = "out"
    BY <1>2, <1>4 DEF Sound, Phase, AtWork
  <2>2. Settles(t)'
    BY <1>1, <1>4, SettleKeeps
  <2> QED BY <1>1, <1>4, <2>1, <2>2, FitsKinds, LockedStep
<1>5. CASE HandleTurn(t)
  <2> DEFINE e == Head(inbox[t])
             next == ReduceTurn(r.status, e.outcome)
  <2>0. e.outcome \in TurnKind
    BY <1>5, EventFacts DEF HandleTurn, IInv
  <2>1. CASE (r.agent # e.agent \/ r.op = NoOp) \/ Passed(t, e)
    BY <1>3, <1>5, <2>1 DEF HandleTurn
  <2>2. CASE ~(r.agent # e.agent \/ r.op = NoOp) /\ ~Passed(t, e)
    <3>1. \/ UserSave(t, Ended(r, e, r.status), "turn") /\ UNCHANGED <<jobs, settle>> /\ r.status = "awaiting_review"
          \/ UserSave(t, [Ended(r, e, "needs_check") EXCEPT !.review = NoReview], "turn") /\ UNCHANGED <<jobs, settle>>
          \/ UserSave(t, Ended(r, e, next), "turn") /\ UNCHANGED <<jobs, settle>>
             /\ r.status # "awaiting_review" /\ next # "awaiting_review"
          \/ UserSave(t, Ended(r, e, "needs_check"), "turn") /\ UNCHANGED <<jobs, settle>>
          \/ /\ lock' = [lock EXCEPT ![t] = [by |-> "capture", op |-> r.op, event |-> <<e>>]]
             /\ UNCHANGED <<saves, jobs, settle>>
      BY <1>5, <2>2 DEF HandleTurn
    <3>2. r.status # "awaiting_review" /\ next # "awaiting_review" => next \in {"failed", "canceled"}
      BY <2>0, <2>2 DEF Passed, ReduceTurn, TurnKind
    <3> HIDE DEF next, e
    <3>3. CASE lock' = [lock EXCEPT ![t] = [by |-> "capture", op |-> r.op, event |-> <<e>>]] /\ UNCHANGED <<saves, jobs, settle>>
      BY <1>3, <3>3
    <3>4. ASSUME NEW s \in {"awaiting_review", "needs_check", "failed", "canceled"}, UNCHANGED <<jobs, settle>>,
                 UserSave(t, Ended(r, e, s), "turn") \/ UserSave(t, [Ended(r, e, s) EXCEPT !.review = NoReview], "turn")
          PROVE  SlotInv'
      <4> DEFINE x == Ended(r, e, s)
                 y == [Ended(r, e, s) EXCEPT !.review = NoReview]
      <4>1. x.status = s /\ x.op = r.op /\ x.agent = r.agent /\ y.status = s /\ y.op = r.op /\ y.agent = r.agent
        BY <1>2, EndedIs
      <4>2. UserSave(t, x, "turn") \/ UserSave(t, y, "turn")
        BY <3>4
      <4> HIDE DEF x, y, r
      <4> QED BY <1>4, <3>4, <4>1, <4>2
    <3> HIDE DEF r
    <3> QED BY <3>1, <3>2, <3>3, <3>4
  <2> QED BY <2>1, <2>2
<1>6. CASE CaptureDone(t) \/ CaptureFails(t)
  <2> DEFINE e == lock[t].event[1]
  <2>1. \/ (UserSave(t, Reviewed(r, e), "turn") \/ UserSave(t, Ended(r, e, "needs_check"), "turn")) /\ UNCHANGED <<jobs, settle>>
        \/ lock' = Unlock(t) /\ TurnOver(t) /\ UNCHANGED saves
    BY <1>6 DEF CaptureDone, CaptureFails, UserSave
  <2> HIDE DEF e
  <2>2. CASE lock' = Unlock(t) /\ TurnOver(t) /\ UNCHANGED saves
    BY <1>3, <2>2 DEF Unlock
  <2> QED BY <1>2, <1>4, <2>1, <2>2, EndedIs
<1> QED BY <1>5, <1>6

\* The running job of a task goes on by itself.
LEMMA JobSlot ==
  ASSUME IInv, SlotInv, NEW t \in Task, NEW at \in Places \ {"off", "begin", "ensure"}, pc[t].at \in {"ensure", "create", "failing"},
         UNCHANGED <<task, inbox, jobs, rounds, recovery, crashes>>,
         pc' = [pc EXCEPT ![t].at = at], \A u \in Task \ {t} : lock'[u] = lock[u] /\ settle'[u] = settle[u],
         at \in {"locate", "create", "link"} => pc[t].at # "failing" /\ UNCHANGED settle /\ UNCHANGED lock,
         Settles(t)',
         \/ UNCHANGED saves
         \/ \E r, by : saves' = Append(saves, Save(t, r, by)) /\ by # "cancel" /\ Sound(t, r) /\ Fits(Save(t, r, by))
  PROVE  SlotInv'
<1>1. /\ Placed(t) /\ Sound(t, task[t]) /\ Rides(t) /\ Dispatched(t) /\ RoundsGrow
      /\ \A u \in Task : HasTurn(u) => HasTurn(u)'
  BY PlacedFacts, SameRounds DEF HasTurn
<1>2. /\ pc'[t].at = at /\ pc'[t].op = pc[t].op /\ \A u \in Task \ {t} : pc'[u] = pc[u]
  BY JobMoves DEF IInv
<1>3. InPrepare(t)' => InPrepare(t) /\ UNCHANGED <<settle, lock>>
  BY <1>2 DEF InPrepare, Places
<1>4. Placed(t)'
  <2>1. Sound(t, task[t])'
    BY <1>1, OwnsStays DEF Sound
  <2>2. Rides(t)'
    BY <1>1, <1>2 DEF Rides, Owns
  <2>3. Dispatched(t)'
    <3>1. pc'[t].at # "begin"
      BY <1>2
    <3>2. CASE ~InPrepare(t)'
      BY <3>1, <3>2 DEF Dispatched, Dispatches
    <3>3. CASE InPrepare(t)'
      BY <1>1, <1>2, <1>3, <3>1, <3>3 DEF Dispatched, Dispatches
    <3> QED BY <3>2, <3>3
  <2> QED BY <2>1, <2>2, <2>3 DEF Placed
<1>5. \A s : s.task = t /\ Kept(s) => Kept(s)'
  <2>1. ASSUME NEW s, s.task = t, Sound(t, s.rec) PROVE Sound(t, s.rec)'
    BY <1>1, <2>1, OwnsStays DEF Sound
  <2>2. ASSUME NEW s, s.task = t, Fits(s) PROVE Fits(s)'
    BY <1>3, <2>2 DEF Fits, Exec
  <2> QED BY <2>1, <2>2 DEF Kept
<1>6. ASSUME NEW s, Pending(s)' PROVE IF s.task = t THEN Kept(s)' ELSE Pending(s)
  <2>1. CASE UNCHANGED saves
    <3>1. Pending(s)
      BY <1>6, <2>1 DEF Pending
    <3> QED BY <1>5, <3>1, PendingFacts
  <2>2. ASSUME NEW r, NEW by, saves' = Append(saves, Save(t, r, by)), by # "cancel", Sound(t, r), Fits(Save(t, r, by))
        PROVE  IF s.task = t THEN Kept(s)' ELSE Pending(s)
    <3>1. Save(t, r, by).task = t /\ Kept(Save(t, r, by))
      BY <2>2 DEF Save, Kept
    <3>2. s = Save(t, r, by) \/ Pending(s)
      BY <1>6, <2>2, AppendPends
    <3> QED BY <1>5, <3>1, <3>2, PendingFacts
  <2> QED BY <2>1, <2>2
<1>7. (\A r \in Repo : Listed(jobs'[r])) /\ jobs' = [r \in Repo |-> jobs'[r]]
  BY DEF SlotInv
<1> QED BY <1>1, <1>2, <1>4, <1>6, <1>7, OneTask

LEMMA PrepareSlot ==
  ASSUME IInv, SlotInv, NEW t \in Task,
         EnsureDone(t) \/ CreateReturns(t) \/ FailDispatch(t) \/ EnsureFails(t) \/ CreateFails(t) \/ SearchFails(t)
  PROVE  SlotInv'
<1> DEFINE r == task[t]
<1>1. /\ Sound(t, r) /\ Dispatched(t) /\ r \in Record /\ r.op \in Ops /\ settle \in [Task -> SettleRow]
      /\ pc[t].at # "off" => pc[t].op \in Op /\ pc[t].op # NoOp
  BY PlacedFacts DEF IInv, TypesInv, RunTypes
<1>2. UNCHANGED <<task, inbox, jobs, rounds, recovery, crashes>>
  BY DEF EnsureDone, CreateReturns, FailDispatch, EnsureFails, CreateFails, SearchFails, boardVars, eventVars, countVars
<1>3. UNCHANGED settle => Settles(t)'
  BY <1>2, SettleKeeps
<1>4. ASSUME NEW at \in {"hold", "failing"}, Finally(t, at, task), pc[t].at \in {"ensure", "create"}, UNCHANGED <<saves, lock>>
      PROVE  SlotInv'
  <2>1. Settles(t)' /\ \A u \in Task \ {t} : settle'[u] = settle[u]
    BY <1>1, <1>2, <1>4, SettleKeeps DEF Finally, SettleIfCanceling, SettleFrom
  <2>2. pc' = [pc EXCEPT ![t].at = at] /\ at \in Places \ {"off", "begin", "ensure"}
    BY <1>4 DEF Finally, Places
  <2> QED BY <1>2, <1>4, <2>1, <2>2, JobSlot
<1>5. CASE EnsureDone(t)
  <2>1. pc[t].at = "ensure" /\ InPrepare(t) /\ UNCHANGED lock
    BY <1>5 DEF EnsureDone, InPrepare
  <2>2. CASE ~StillPreparing(t)
    BY <1>4, <1>5, <2>1, <2>2 DEF EnsureDone
  <2>3. CASE StillPreparing(t)
    <3> DEFINE x == [r EXCEPT !.wt = TRUE, !.agent = NoOp]
    <3>1. saves' = Append(saves, Save(t, x, "locate")) /\ pc' = [pc EXCEPT ![t].at = "locate"] /\ UNCHANGED settle
      BY <1>5, <2>3 DEF EnsureDone
    <3>2. x.status = "preparing" /\ x.op = r.op /\ x.agent = NoOp
      BY <1>1, <2>3 DEF Record, StillPreparing
    <3> HIDE DEF x
    <3>3. Sound(t, x) /\ Fits(Save(t, x, "locate"))
      BY <1>1, <3>2, FitsKinds DEF Sound
    <3> QED BY <1>2, <1>3, <2>1, <3>1, <3>3, JobSlot DEF Places
  <2> QED BY <2>2, <2>3
<1>6. CASE EnsureFails(t) \/ CreateFails(t)
  BY <1>4, <1>6 DEF EnsureFails, CreateFails, boardVars
<1>7. CASE CreateReturns(t)
  <2> DEFINE o == pc[t].op
  <2>1. pc[t].at = "create" /\ InPrepare(t) /\ UNCHANGED lock /\ o \in Op
    BY <1>1, <1>7 DEF CreateReturns, InPrepare
  <2>2. r.op = o /\ r.status \in {"preparing", "canceling"}
    BY <1>1, <2>1 DEF Dispatched, Dispatches
  <2> DEFINE x == LinkedRecord(r, o)
  <2>3. saves' = Append(saves, Save(t, x, "link")) /\ pc' = [pc EXCEPT ![t].at = "link"] /\ UNCHANGED settle
    BY <1>7, <2>2 DEF CreateReturns
  <2>4. x.status \in {"running", "canceling"} /\ x.op = o /\ x.agent = o
    BY <1>1, <2>2 DEF LinkedRecord, Record
  <2> HIDE DEF x
  <2>5. Sound(t, x) /\ Fits(Save(t, x, "link"))
    BY <1>1, <2>2, <2>4, FitsKinds DEF Sound
  <2> QED BY <1>2, <1>3, <2>1, <2>3, <2>5, JobSlot DEF Places
<1>8. CASE FailDispatch(t)
  <2>1. pc[t].at = "failing" /\ UNCHANGED settle
    BY <1>8 DEF FailDispatch
  <2>2. CASE ~Exec(t)
    BY <1>2, <1>3, <1>8, <2>1, <2>2, JobSlot DEF FailDispatch, Places
  <2>3. ASSUME NEW x, NEW by \in {"fail", "found"}, saves' = Append(saves, Save(t, x, by)), lock' = Holds(t, "fail"),
               pc' = [pc EXCEPT ![t].at = "fail"], Sound(t, x), Fits(Save(t, x, by))
        PROVE  SlotInv'
    <3>1. \A u \in Task \ {t} : lock'[u] = lock[u]
      BY <2>3 DEF Holds
    <3> QED BY <1>2, <1>3, <2>1, <2>3, <3>1, JobSlot DEF Places
  <2>4. CASE Exec(t) /\ FoundBy(r.op) = NoOp
    <3> DEFINE x == [r EXCEPT !.status = "failed"]
    <3>1. saves' = Append(saves, Save(t, x, "fail")) /\ lock' = Holds(t, "fail") /\ pc' = [pc EXCEPT ![t].at = "fail"]
      BY <1>8, <2>4 DEF FailDispatch
    <3>2. x.status = "failed" /\ x.op = r.op /\ x.agent = r.agent
      BY <1>1 DEF Record
    <3> HIDE DEF x
    <3>3. Sound(t, x) /\ Fits(Save(t, x, "fail"))
      BY <1>1, <3>2, FitsKinds DEF Sound, Phase, AtWork
    <3> QED BY <2>3, <3>1, <3>3
  <2>5. CASE Exec(t) /\ FoundBy(r.op) # NoOp
    <3> DEFINE o == FoundBy(r.op)
               x == [LinkedRecord(r, o) EXCEPT !.agent = IF r.agent = NoOp THEN o ELSE r.agent]
    <3>1. saves' = Append(saves, Save(t, x, "found")) /\ lock' = Holds(t, "fail") /\ pc' = [pc EXCEPT ![t].at = "fail"]
      BY <1>8, <2>5 DEF FailDispatch
    <3>2. o = r.op
      BY <2>5 DEF FoundBy
    <3>3. x.status = (IF r.status = "canceling" THEN "canceling" ELSE "running") /\ x.op = r.op /\ x.agent \in {o, r.agent}
      BY <1>1 DEF LinkedRecord, Record
    <3> HIDE DEF x, o
    <3>4. Sound(t, x) /\ Fits(Save(t, x, "found"))
      BY <1>1, <2>5, <3>2, <3>3, FitsKinds DEF Sound
    <3> QED BY <2>3, <3>1, <3>4
  <2> QED BY <2>2, <2>4, <2>5
<1>9. CASE SearchFails(t)
  BY <1>2, <1>3, <1>9, JobSlot DEF SearchFails, Places, boardVars
<1> QED BY <1>5, <1>6, <1>7, <1>8, <1>9

LEMMA NoneWaits ==
  ASSUME IInv, SlotInv, NEW t \in Task, lock[t].by = "free", ~InPrepare(t), NEW s, Pending(s)
  PROVE  s.task # t
BY PendingWaits, PendingFacts DEF LockKinds, SaveKinds, SavePlace

\* Two jobs of one repository are not at work together.
LEMMA OneJob ==
  ASSUME SlotInv, NEW t \in Task, NEW u \in Task, SameRepo(t, u), pc[t].at # "off", HasTurn(u)
  PROVE  t = u
<1>1. HasTurn(t)
  BY DEF SlotInv, Placed, Rides
<1>2. Run(t) = Run(u)
  BY <1>1 DEF HasTurn, SameRepo
<1> QED BY <1>2 DEF Run

\* The head of a chain goes: no other job of the repository is at work.
LEMMA HeadGoes ==
  ASSUME SlotInv, NEW r \in Repo, jobs[r] # <<>>, jobs' = [jobs EXCEPT ![r] = Tail(@)]
  PROVE  /\ (\A q \in Repo : Listed(jobs'[q])) /\ jobs' = [q \in Repo |-> jobs'[q]]
         /\ \A u \in Task : HasTurn(u) /\ Run(u) # Head(jobs[r]) => HasTurn(u)'
         /\ \A u \in Task : HasTurn(u) /\ repoOf[u] # r => HasTurn(u)'
<1>1. (\A q \in Repo : Listed(jobs[q])) /\ jobs = [q \in Repo |-> jobs[q]]
  BY DEF SlotInv
<1>2. jobs'[r] = Tail(jobs[r]) /\ \A q \in Repo \ {r} : jobs'[q] = jobs[q]
  BY <1>1
<1>3. \A q \in Repo : Listed(jobs'[q])
  BY <1>1, <1>2, Lists
<1>4. jobs' = [q \in Repo |-> jobs'[q]]
  BY <1>1
<1>5. \A u \in Task : repoOf[u] \in Repo
  BY TaskAssumption
<1>6. \A u \in Task : HasTurn(u) /\ repoOf[u] # r => HasTurn(u)'
  BY <1>2, <1>5 DEF HasTurn
<1>7. \A u \in Task : HasTurn(u) /\ Run(u) # Head(jobs[r]) => HasTurn(u)'
  BY <1>6 DEF HasTurn
<1> QED BY <1>3, <1>4, <1>6, <1>7

LEMMA BeginSlot ==
  ASSUME IInv, SlotInv, NEW t \in Task, Begin(t)
  PROVE  SlotInv'
<1>1. /\ HasTurn(t) /\ pc[t] = NoRun /\ lock[t].by = "free" /\ inbox[t] = <<>>
      /\ UNCHANGED <<task, inbox, settle, recovery, crashes>>
  BY Granted DEF Begin, Grants, eventVars
<1>2. pc[t].at = "off" /\ Sound(t, task[t]) /\ Settles(t) /\ ~Dispatches(t) /\ task[t] \in Record
  BY <1>1, PlacedFacts DEF NoRun, Dispatches, InPrepare
<1>3. ASSUME NEW s, Pending(s) PROVE s.task # t
  BY <1>1, <1>2, <1>3, NoneWaits DEF Dispatches
<1>4. CASE ~MayBegin(t)
  <2>1. repoOf[t] \in Repo /\ jobs[repoOf[t]] # <<>> /\ Head(jobs[repoOf[t]]) = Run(t)
    BY <1>1, TaskAssumption DEF HasTurn
  <2>2. jobs' = [jobs EXCEPT ![repoOf[t]] = Tail(@)] /\ UNCHANGED <<rounds, saves, lock, pc>>
    BY <1>4 DEF Begin
  <2>3. /\ (\A q \in Repo : Listed(jobs'[q])) /\ jobs' = [q \in Repo |-> jobs'[q]]
        /\ \A u \in Task \ {t} : HasTurn(u) => HasTurn(u)'
    <3>1. \A u \in Task \ {t} : Run(u) # Run(t)
      BY DEF Run
    <3> QED BY <2>1, <2>2, <3>1, HeadGoes
  <2>4. RoundsGrow
    BY <2>2, SameRounds
  <2>5. Placed(t)'
    <3>1. Sound(t, task[t])' /\ Settles(t)'
      BY <1>1, <1>2, <2>2, SettleKeeps DEF Sound, Owns
    <3>2. Rides(t)'
      BY <1>1, <1>2, <2>2, PlacedFacts DEF Rides, Owns
    <3>3. Dispatched(t)'
      BY <1>2, <2>2 DEF Dispatched, Dispatches, InPrepare
    <3> QED BY <3>1, <3>2, <3>3 DEF Placed
  <2>6. ASSUME NEW s, Pending(s)' PROVE s.task # t /\ Pending(s)
    BY <1>3, <2>2, <2>6 DEF Pending
  <2> QED BY <1>1, <2>2, <2>3, <2>4, <2>5, <2>6, OneTask
<1>5. CASE MayBegin(t)
  <2>0. PICK o, x : o = Len(rounds) + 1 /\ x = Begun(task[t], o)
    OBVIOUS
  <2>1. /\ o \in Op /\ rounds' = Append(rounds, t) /\ saves' = Append(saves, Save(t, x, "begin"))
        /\ lock' = Holds(t, "begin") /\ pc' = [pc EXCEPT ![t] = [at |-> "begin", op |-> o]] /\ UNCHANGED jobs
    BY <1>5, <2>0 DEF Begin
  <2>2. /\ rounds \in Seq(Task) /\ Len(rounds) \in Nat /\ pc \in [Task -> JobRow] /\ lock \in [Task -> LockRow]
    BY DEF IInv, TypesInv, BoardTypes, RunTypes
  <2>3. RoundsGrow /\ Owns(t, o)' /\ o \notin 1..Len(rounds) /\ o # NoOp
    BY <2>1, <2>2, <2>0 DEF RoundsGrow, Owns
  <2>4. x.status = "preparing" /\ x.op = o /\ x.agent = NoOp
    BY <2>0 DEF Begun, Draft
  <2>5. pc'[t] = [at |-> "begin", op |-> o] /\ \A u \in Task \ {t} : pc'[u] = pc[u] /\ lock'[u] = lock[u]
    BY <2>1, <2>2 DEF Holds
  <2>6. task[t].status = "queued" /\ task[t].agent = NoOp
    BY <1>2, <1>5 DEF MayBegin, Sound
  <2>7. Placed(t)'
    <3>1. Sound(t, task[t])' /\ Settles(t)'
      BY <1>1, <1>2, <2>3, OwnsStays DEF Sound, Settles
    <3>2. Rides(t)'
      BY <1>1, <2>1, <2>3, <2>5, <2>6 DEF Rides, HasTurn, AtWork
    <3>3. settle[t].op # o
      BY <1>2, <2>3 DEF Settles, Owns
    <3>4. Dispatched(t)'
      BY <1>1, <2>5, <2>6, <3>3 DEF Dispatched, InPrepare
    <3> QED BY <3>1, <3>2, <3>4 DEF Placed
  <2>8. ASSUME NEW s, Pending(s)' PROVE IF s.task = t THEN Kept(s)' ELSE Pending(s)
    <3>1. CASE Pending(s)
      BY <1>3, <3>1
    <3>2. CASE s = Save(t, x, "begin")
      <4>1. s.task = t /\ s.rec = x /\ s.by = "begin"
        BY <3>2 DEF Save
      <4>2. Sound(t, x)'
        BY <2>3, <2>4 DEF Sound
      <4>3. Fits(s)'
        BY <1>1, <2>4, <2>6, <4>1 DEF Fits
      <4> QED BY <4>1, <4>2, <4>3 DEF Kept
    <3> QED BY <2>1, <2>8, <3>1, <3>2, AppendPends
  <2>9. (\A q \in Repo : Listed(jobs'[q])) /\ jobs' = [q \in Repo |-> jobs'[q]] /\ \A u \in Task : HasTurn(u) => HasTurn(u)'
    BY <2>1 DEF SlotInv, HasTurn
  <2> QED BY <1>1, <2>3, <2>5, <2>7, <2>8, <2>9, OneTask
<1> QED BY <1>4, <1>5

LEMMA EndSlot ==
  ASSUME IInv, SlotInv, NEW r \in Repo, JobEnds(r)
  PROVE  SlotInv'
<1> DEFINE j == Head(jobs[r])
<1>1. /\ jobs[r] # <<>> /\ jobs' = [jobs EXCEPT ![r] = Tail(@)] /\ ~Exec(j.task)
      /\ pc' = IF j.kind = "run" THEN [pc EXCEPT ![j.task] = NoRun] ELSE pc
      /\ UNCHANGED <<task, saves, lock, inbox, settle, recovery, rounds, crashes>>
      /\ j.kind = "run" => pc[j.task].at = "hold"
  BY DEF JobEnds, boardVars, eventVars, countVars
<1>2. pc \in [Task -> JobRow]
  BY DEF IInv, TypesInv, RunTypes
<1>3. /\ (\A q \in Repo : Listed(jobs'[q])) /\ jobs' = [q \in Repo |-> jobs'[q]]
      /\ \A u \in Task : HasTurn(u) /\ Run(u) # j => HasTurn(u)'
  BY <1>1, HeadGoes
<1>4. ASSUME NEW u \in Task
      PROVE  (pc'[u] = pc[u] /\ Run(u) # j) \/ (~Exec(u) /\ pc'[u] = NoRun /\ pc[u].at = "hold")
  <2>1. CASE Run(u) = j
    BY <1>1, <1>2, <2>1 DEF Run
  <2>2. CASE Run(u) # j
    BY <1>1, <1>2, <2>2
  <2> QED BY <2>1, <2>2
<1> HIDE DEF j
<1>5. ASSUME NEW u \in Task PROVE Placed(u)'
  <2>1. Placed(u) /\ Sound(u, task[u]) /\ Settles(u) /\ Rides(u) /\ Dispatched(u)
    BY PlacedFacts
  <2>2. Sound(u, task[u])' /\ Settles(u)'
    BY <1>1, <2>1 DEF Sound, Settles, Owns
  <2>3. CASE pc'[u] = pc[u] /\ Run(u) # j
    <3>1. Rides(u)' /\ Dispatched(u)'
      BY <1>1, <1>3, <2>1, <2>3 DEF Rides, Dispatched, Dispatches, InPrepare, Owns
    <3> QED BY <2>2, <3>1 DEF Placed
  <2>4. CASE ~Exec(u) /\ pc'[u] = NoRun
    <3>1. pc'[u].at = "off" /\ pc'[u].op = NoOp /\ task'[u].status \notin AtWork
      BY <1>1, <2>4 DEF NoRun, Exec, IsExecution, AtWork
    <3>2. Rides(u)' /\ Dispatched(u)'
      BY <3>1 DEF Rides, Owns, Dispatched, Dispatches, InPrepare
    <3> QED BY <2>2, <3>2 DEF Placed
  <2> QED BY <1>4, <2>3, <2>4
<1>6. ASSUME NEW i \in 1..Len(saves') PROVE Kept(saves[i])'
  <2>1. PICK s : s = saves[i] /\ s = saves'[i]
    BY <1>1
  <2>2. Kept(s) /\ s.task \in Task
    BY <1>1, <2>1, PendingFacts DEF Pending
  <2>3. Sound(s.task, s.rec)'
    BY <1>1, <2>2 DEF Kept, Sound, Owns
  <2>4. InPrepare(s.task)' => InPrepare(s.task)
    BY <1>4, <2>2 DEF InPrepare, NoRun
  <2>5. Fits(s)'
    BY <1>1, <2>2, <2>4 DEF Kept, Fits, Exec
  <2> QED BY <2>1, <2>3, <2>5 DEF Kept
<1> QED BY <1>1, <1>3, <1>5, <1>6 DEF SlotInv

LEMMA PhaseIs ==
  ASSUME NEW s
  PROVE  /\ Phase(s) = "waiting" <=> s = "queued"
         /\ Phase(s) = "holding" <=> s \in AtWork
         /\ Phase(s) = "stopping" <=> s = "canceling"
         /\ Phase(s) \in {"waiting", "holding", "stopping", "out"}
BY DEF Phase, AtWork

\* The oldest save lands: what is to be shown is about its task and the saves
\* of that task that still wait.
LEMMA LandSlot ==
  ASSUME IInv, SlotInv, saves # <<>>, saves' = Tail(saves), task' = Memory, NEW t \in Task, t = Head(saves).task,
         NEW mem, jobs' = jobs \/ jobs' = Ticked(mem), UNCHANGED <<rounds, recovery, crashes>>,
         \A u \in Task \ {t} : lock'[u] = lock[u] /\ inbox'[u] = inbox[u] /\ settle'[u] = settle[u] /\ pc'[u] = pc[u],
         Placed(t)', \A s : Pending(s)' /\ s.task = t => Kept(s)'
  PROVE  SlotInv'
<1>1. /\ \A r \in Repo : Listed(jobs'[r])
      /\ jobs' = [r \in Repo |-> jobs'[r]]
      /\ \A u \in Task : HasTurn(u) => HasTurn(u)'
  BY Ticks
<1>2. RoundsGrow
  BY SameRounds
<1>3. \A u \in Task \ {t} : task'[u] = task[u]
  BY DEF Memory, IInv, TypesInv, BoardTypes
<1>4. \A s : Pending(s)' => Pending(s)
  BY TailPends
<1> QED BY <1>1, <1>2, <1>3, <1>4, OneTask

LEMMA LandFacts ==
  ASSUME IInv, SlotInv, saves # <<>>, saves' = Tail(saves), task' = Memory
  PROVE  LET s == Head(saves) IN
         /\ s.task \in Task /\ s.rec \in Record /\ s.by \in SaveKinds \ {"recover"}
         /\ Memory[s.task] = s.rec /\ task'[s.task] = s.rec
         /\ Sound(s.task, s.rec) /\ Fits(s)
         /\ s.by \in LockKinds => lock[s.task].by = SavePlace(s.by)
         /\ s.by \in JobKinds => pc[s.task].at = SavePlace(s.by)
         /\ s.by = "begin" => s.rec.op = pc[s.task].op
         /\ s.by \in {"locate", "link"} => InPrepare(s.task)
<1>1. Pending(Head(saves))
  BY TailPends
<1>2. PICK s : s = Head(saves)
  OBVIOUS
<1>3. /\ s.task \in Task /\ s.rec \in Record /\ s.by \in SaveKinds /\ Kept(s) /\ s.by # "recover"
      /\ s.by \in LockKinds => lock[s.task].by = SavePlace(s.by)
      /\ s.by \in JobKinds => pc[s.task].at = SavePlace(s.by)
      /\ s.by = "begin" => s.rec.op = pc[s.task].op
      /\ s.by \notin LockKinds => s.by \in {"locate", "link"} /\ InPrepare(s.task)
  BY <1>1, <1>2, PendingFacts, PendingWaits
<1>4. Memory[s.task] = s.rec /\ task'[s.task] = s.rec
  BY <1>2, <1>3 DEF Memory, IInv, TypesInv, BoardTypes
<1>5. s.by \in {"locate", "link"} => s.by \notin LockKinds
  BY DEF LockKinds
<1> QED BY <1>2, <1>3, <1>4, <1>5 DEF Kept

\* Nothing else of the task waits when its handler has the lock for anything but a cancel.
LEMMA LastOfTask ==
  ASSUME IInv, SlotInv, saves # <<>>, saves' = Tail(saves), Head(saves).by \in LockKinds \ {"cancel"},
         NEW s, Pending(s)'
  PROVE  s.task # Head(saves).task
<1>1. PICK h : h = Head(saves)
  OBVIOUS
<1>2. Pending(h) /\ Pending(s) /\ (s.task = h.task => ~(s.by \in LockKinds))
  BY <1>1, TailPends
<1>3. lock[h.task].by = SavePlace(h.by) /\ h.task \in Task /\ h.by \in SaveKinds
  BY <1>1, <1>2, PendingWaits, PendingFacts
<1>4. SavePlace(h.by) \notin {"free", "cancel"}
  BY <1>1, <1>3 DEF SavePlace, LockKinds, SaveKinds
<1> QED BY <1>1, <1>2, <1>3, <1>4, OnlyLocked

\* A save that lands under the lock and neither begins a round nor starts a cancel.
LEMMA LandLocked ==
  ASSUME IInv, SlotInv, saves # <<>>, Publish, NEW t \in Task, t = Head(saves).task, lock' = Unlock(t),
         Head(saves).by \in {"user", "quiet", "turn", "settle", "fail", "found"},
         NEW mem, jobs' = jobs \/ jobs' = Ticked(mem),
         \A u \in Task \ {t} : inbox'[u] = inbox[u] /\ settle'[u] = settle[u], Settles(t)',
         IF Head(saves).by \in {"fail", "found"} THEN pc' = [pc EXCEPT ![t].at = "hold"] ELSE UNCHANGED pc
  PROVE  SlotInv'
<1>1. PICK s : s = Head(saves)
  OBVIOUS
<1>2. saves' = Tail(saves) /\ task' = Memory /\ UNCHANGED <<rounds, recovery, crashes>>
  BY DEF Publish, countVars
<1>3. /\ s.rec \in Record /\ task'[t] = s.rec /\ Sound(t, s.rec) /\ Fits(s)
      /\ s.by \in LockKinds => lock[t].by = SavePlace(s.by)
      /\ s.by \in JobKinds => pc[t].at = SavePlace(s.by)
  BY <1>1, <1>2, LandFacts
<1>4. s.by \in LockKinds \ {"cancel"} /\ SavePlace(s.by) \notin {"begin", "free", "cancel"}
      /\ (s.by \in {"fail", "found"} => s.by \in JobKinds /\ SavePlace(s.by) = "fail")
  BY <1>1 DEF LockKinds, SaveKinds, SavePlace, JobKinds
<1>5. Rides(t) /\ ~Dispatches(t) /\ pc \in [Task -> JobRow]
  <2>1. Rides(t) /\ Dispatched(t) /\ (pc[t].at = "begin" => lock[t].by = "begin") /\ pc \in [Task -> JobRow]
    BY PlacedFacts DEF IInv, TypesInv, RunTypes
  <2> QED BY <1>3, <1>4, <2>1 DEF Dispatched, Dispatches
<1>6. /\ pc'[t].op = pc[t].op /\ (pc'[t].at = pc[t].at \/ (pc'[t].at = "hold" /\ pc[t].at = "fail"))
      /\ \A u \in Task \ {t} : pc'[u] = pc[u]
      /\ s.by = "found" => pc'[t].at = "hold"
  BY <1>1, <1>3, <1>4, <1>5 DEF JobRow
<1>7. HasTurn(t) => HasTurn(t)'
  BY Ticks
<1>8. Placed(t)'
  <2>1. Sound(t, task[t])'
    BY <1>2, <1>3 DEF Sound, Owns
  <2>2. s.rec.status \in AtWork => (s.by = "quiet" /\ task[t].status \in AtWork) \/ s.by = "found"
    <3>1. s.task = t
      BY <1>1
    <3>2. s.by = "user" => s.rec.status \notin AtWork
      BY <1>3, <3>1 DEF Fits, AtWork
    <3>3. s.by = "quiet" => Phase(s.rec.status) = Phase(task[t].status)
      BY <1>3, <3>1 DEF Fits
    <3>4. s.by \in {"fail", "settle", "turn"} => Phase(s.rec.status) = "out"
      BY <1>3 DEF Fits
    <3>5. s.by \in {"user", "quiet", "turn", "settle", "fail", "found"}
      BY <1>1
    <3>6. (Phase(s.rec.status) = "holding" <=> s.rec.status \in AtWork) /\ (Phase(task[t].status) = "holding" <=> task[t].status \in AtWork)
      BY PhaseIs
    <3> QED BY <3>2, <3>3, <3>4, <3>5, <3>6
  <2>3. Rides(t)'
    BY <1>2, <1>3, <1>5, <1>6, <1>7, <2>2 DEF Rides, Owns
  <2>4. Dispatched(t)'
    BY <1>5, <1>6 DEF Dispatched, Dispatches, InPrepare
  <2> QED BY <2>1, <2>3, <2>4 DEF Placed
<1>9. \A x : Pending(x)' => x.task # t
  BY <1>1, <1>2, <1>4, LastOfTask
<1>10. \A u \in Task \ {t} : lock'[u] = lock[u]
  BY DEF Unlock
<1>11. \A x : Pending(x)' /\ x.task = t => Kept(x)'
  BY <1>9
<1>12. \A u \in Task \ {t} : lock'[u] = lock[u] /\ inbox'[u] = inbox[u] /\ settle'[u] = settle[u] /\ pc'[u] = pc[u]
  BY <1>6, <1>10
<1> QED BY <1>2, <1>8, <1>11, <1>12, LandSlot

LEMMA ReplayedOthers ==
  ASSUME IInv, NEW t \in Task, NEW o, NEW box \in Replayed(t, o), NEW u \in Task \ {t}
  PROVE  box[u] = inbox[u]
BY DEF Replayed, IInv, TypesInv, EventTypes

LEMMA SettleOthers ==
  ASSUME IInv, NEW t \in Task, NEW u \in Task \ {t}
  PROVE  /\ \A r : SettleFrom(t, r)[u] = settle[u]
         /\ \A mem : SettleIfCanceling(t, mem)[u] = settle[u]
         /\ [settle EXCEPT ![t] = Off][u] = settle[u]
<1>1. settle \in [Task -> SettleRow]
  BY DEF IInv, TypesInv, RunTypes
<1> QED BY <1>1 DEF SettleFrom, SettleIfCanceling

LEMMA LockedLands ==
  ASSUME IInv, SlotInv, LandUser \/ LandQuiet \/ LandTurn \/ LandSettle \/ LandFail
  PROVE  SlotInv'
<1>1. PICK t : t = Head(saves).task
  OBVIOUS
<1>2. /\ saves # <<>> /\ Publish /\ lock' = Unlock(t)
      /\ Head(saves).by \in {"user", "quiet", "turn", "settle", "fail", "found"}
  BY <1>1 DEF LandUser, LandQuiet, LandTurn, LandSettle, LandFail, Lands
<1>3. saves' = Tail(saves) /\ task' = Memory /\ UNCHANGED rounds
  BY <1>2 DEF Publish, countVars
<1>4. t \in Task /\ Memory[t] = Head(saves).rec /\ Sound(t, Head(saves).rec)
  BY <1>1, <1>2, <1>3, LandFacts
<1>5. CASE LandUser \/ LandQuiet
  <2>1. UNCHANGED <<inbox, pc, settle>> /\ (jobs' = jobs \/ jobs' = Ticked(Memory)) /\ Head(saves).by \in {"user", "quiet"}
    BY <1>5 DEF LandUser, LandQuiet, Lands, runVars
  <2>2. Settles(t)'
    BY <1>3, <1>4, <2>1, SettleKeeps
  <2> QED BY <1>1, <1>2, <1>4, <2>1, <2>2, LandLocked
<1>6. CASE LandTurn
  <2>1. UNCHANGED <<inbox, pc>> /\ jobs' = Ticked(Memory) /\ settle' = SettleIfCanceling(t, Memory) /\ Head(saves).by = "turn"
    BY <1>1, <1>6 DEF LandTurn, Lands
  <2>2. Settles(t)' /\ \A u \in Task \ {t} : settle'[u] = settle[u]
    BY <1>3, <1>4, <2>1, SettleKeeps, SettleOthers
  <2> QED BY <1>1, <1>2, <1>4, <2>1, <2>2, LandLocked
<1>7. CASE LandSettle
  <2>1. UNCHANGED <<inbox, pc>> /\ jobs' = Ticked(Memory) /\ settle' = [settle EXCEPT ![t] = Off] /\ Head(saves).by = "settle"
    BY <1>1, <1>7 DEF LandSettle, Lands
  <2>2. Settles(t)' /\ \A u \in Task \ {t} : settle'[u] = settle[u]
    BY <1>3, <1>4, <2>1, SettleKeeps, SettleOthers
  <2> QED BY <1>1, <1>2, <1>4, <2>1, <2>2, LandLocked
<1>8. CASE LandFail
  <2>1. /\ UNCHANGED <<jobs, settle>> /\ pc' = [pc EXCEPT ![t].at = "hold"] /\ Head(saves).by \in {"fail", "found"}
        /\ inbox' = inbox \/ inbox' \in Replayed(t, Head(saves).rec.agent)
    BY <1>1, <1>8 DEF LandFail, Lands
  <2>2. Settles(t)' /\ \A u \in Task \ {t} : inbox'[u] = inbox[u]
    BY <1>3, <1>4, <2>1, SettleKeeps, ReplayedOthers
  <2> QED BY <1>1, <1>2, <1>4, <2>1, <2>2, LandLocked
<1> QED BY <1>5, <1>6, <1>7, <1>8

LEMMA LandBeginSlot ==
  ASSUME IInv, SlotInv, LandBegin
  PROVE  SlotInv'
<1>1. PICK t, s : s = Head(saves) /\ t = s.task
  OBVIOUS
<1>2. /\ saves # <<>> /\ s.by = "begin" /\ lock' = Unlock(t) /\ pc' = [pc EXCEPT ![t] = [at |-> "ensure", op |-> s.rec.op]]
      /\ saves' = Tail(saves) /\ task' = Memory /\ UNCHANGED <<inbox, jobs, settle, rounds, recovery, crashes>>
  BY <1>1 DEF LandBegin, Lands, Publish, countVars
<1>3. "begin" \in LockKinds /\ "begin" \in JobKinds /\ SavePlace("begin") = "begin"
  BY DEF LockKinds, SaveKinds, JobKinds, SavePlace
<1>4. /\ t \in Task /\ task'[t] = s.rec /\ Sound(t, s.rec) /\ Fits(s) /\ pc[t].at = "begin" /\ s.rec.op = pc[t].op
  BY <1>1, <1>2, <1>3, LandFacts
<1>5. s.rec.status = "preparing" /\ s.rec.agent = NoOp
  BY <1>2, <1>4 DEF Fits
<1>6. Rides(t) /\ Dispatched(t) /\ Settles(t) /\ pc \in [Task -> JobRow] /\ lock \in [Task -> LockRow]
  BY <1>4, PlacedFacts DEF IInv, TypesInv, BoardTypes, RunTypes
<1>7. /\ pc'[t].at = "ensure" /\ pc'[t].op = pc[t].op /\ lock'[t].by = "free"
      /\ \A u \in Task \ {t} : pc'[u] = pc[u] /\ lock'[u] = lock[u]
  BY <1>2, <1>4, <1>6 DEF Unlock, Free
<1>8. Placed(t)'
  <2>1. Sound(t, task[t])' /\ Settles(t)'
    BY <1>2, <1>4, <1>6 DEF Sound, Settles, Owns
  <2>2. Rides(t)'
    BY <1>2, <1>4, <1>6, <1>7 DEF Rides, Owns, HasTurn
  <2>3. Dispatched(t)'
    BY <1>2, <1>4, <1>5, <1>6, <1>7 DEF Dispatched, Dispatches, InPrepare
  <2> QED BY <2>1, <2>2, <2>3 DEF Placed
<1>9. \A x : Pending(x)' => x.task # t
  BY <1>1, <1>2, <1>3, LastOfTask
<1> QED BY <1>1, <1>2, <1>4, <1>7, <1>8, <1>9, LandSlot

LEMMA LandCancelSlot ==
  ASSUME IInv, SlotInv, LandCancel
  PROVE  SlotInv'
<1>1. PICK t, s : s = Head(saves) /\ t = s.task
  OBVIOUS
<1>2. /\ saves # <<>> /\ s.by = "cancel" /\ lock' = Unlock(t) /\ jobs' = Ticked(Memory)
      /\ settle' = (IF s.rec.op # NoOp /\ (s.rec.agent # NoOp \/ ~InPrepare(t)) THEN SettleFrom(t, s.rec) ELSE settle)
      /\ saves' = Tail(saves) /\ task' = Memory /\ UNCHANGED <<inbox, pc, rounds, recovery, crashes>>
  BY <1>1 DEF LandCancel, Lands, Publish, countVars
<1>3. "cancel" \in LockKinds /\ SavePlace("cancel") = "cancel"
  BY DEF LockKinds, SaveKinds, SavePlace
<1>4. t \in Task /\ task'[t] = s.rec /\ Sound(t, s.rec) /\ Fits(s) /\ lock[t].by = "cancel"
  BY <1>1, <1>2, <1>3, LandFacts
<1>5. s.rec.status = "canceling" /\ s.rec.op = task[t].op /\ task[t].status # "queued" /\ (InPrepare(t) => s.rec.agent = NoOp)
  BY <1>1, <1>2, <1>4 DEF Fits
<1>6. Rides(t) /\ Dispatched(t) /\ Settles(t) /\ lock \in [Task -> LockRow] /\ (pc[t].at = "begin" => lock[t].by = "begin")
  BY <1>4, PlacedFacts DEF IInv, TypesInv, BoardTypes
<1>7. lock'[t].by = "free" /\ \A u \in Task \ {t} : lock'[u] = lock[u] /\ settle'[u] = settle[u]
  BY <1>2, <1>4, <1>6, SettleOthers DEF Unlock, Free
<1>8. HasTurn(t) => HasTurn(t)'
  BY <1>2, <1>4, Ticks
<1>9. Placed(t)'
  <2>1. Sound(t, task[t])'
    BY <1>2, <1>4 DEF Sound, Owns
  <2>2. Settles(t)'
    BY <1>2, <1>4, SettleKeeps
  <2>3. Rides(t)'
    BY <1>2, <1>4, <1>5, <1>6, <1>8 DEF Rides, Owns, AtWork
  <2>4. Dispatched(t)'
    BY <1>2, <1>4, <1>5, <1>6, <1>7 DEF Dispatched, Dispatches, InPrepare
  <2> QED BY <2>1, <2>2, <2>3, <2>4 DEF Placed
<1>10. ASSUME NEW x, Pending(x)', x.task = t PROVE Kept(x)'
  <2>1. Pending(x) /\ x.by \notin LockKinds
    BY <1>1, <1>2, <1>3, <1>10, TailPends
  <2>2. x.by \in {"locate", "link"} /\ Kept(x)
    BY <2>1, PendingWaits, PendingFacts
  <2>3. Sound(t, x.rec)'
    BY <1>2, <1>10, <2>2 DEF Kept, Sound, Owns
  <2>4. Fits(x)'
    BY <1>4, <1>5, <1>10, <2>2 DEF Kept, Fits
  <2> QED BY <1>10, <2>3, <2>4 DEF Kept
<1> QED BY <1>1, <1>2, <1>4, <1>7, <1>9, <1>10, LandSlot

\* While a job prepares, only a cancel can wait beside its save.
LEMMA BesideJob ==
  ASSUME IInv, SlotInv, saves # <<>>, saves' = Tail(saves), Head(saves).by \in {"locate", "link"},
         NEW x, Pending(x)', x.task = Head(saves).task
  PROVE  x.by = "cancel" /\ Kept(x)
<1>1. Pending(Head(saves)) /\ Pending(x) /\ ~(x.by \in JobKinds /\ Head(saves).by \in JobKinds)
  BY TailPends
<1>2. Head(saves).by \in JobKinds /\ Head(saves).by \notin LockKinds
  BY DEF JobKinds, LockKinds
<1>3. lock[x.task].by \in {"free", "cancel"}
  BY <1>1, <1>2, PendingWaits
<1>4. x.by \in LockKinds /\ lock[x.task].by = SavePlace(x.by)
  BY <1>1, <1>2, PendingWaits DEF JobKinds
<1>5. x.by \in SaveKinds /\ Kept(x)
  BY <1>1, PendingFacts
<1> QED BY <1>3, <1>4, <1>5 DEF SavePlace, LockKinds, SaveKinds

LEMMA LandLocateSlot ==
  ASSUME IInv, SlotInv, LandLocate
  PROVE  SlotInv' /\ Memory[Head(saves).task].op = pc[Head(saves).task].op /\ Memory[Head(saves).task].status = "preparing"
<1>1. PICK t, s : s = Head(saves) /\ t = s.task
  OBVIOUS
<1>2. /\ saves # <<>> /\ s.by = "locate" /\ saves' = Tail(saves) /\ task' = Memory
      /\ UNCHANGED <<lock, inbox, jobs, rounds, recovery, crashes>>
  BY <1>1 DEF LandLocate, Lands, eventVars
<1>3. /\ t \in Task /\ Memory[t] = s.rec /\ task'[t] = s.rec /\ Sound(t, s.rec) /\ Fits(s) /\ InPrepare(t) /\ pc[t].at = "locate"
  <2>1. "locate" \in JobKinds /\ SavePlace("locate") = "locate"
    BY DEF JobKinds, SavePlace
  <2> QED BY <1>1, <1>2, <2>1, LandFacts
<1>4. s.rec.status = "preparing" /\ s.rec.op = task[t].op /\ s.rec.agent = NoOp
  BY <1>1, <1>2, <1>3 DEF Fits
<1>5. Rides(t) /\ Dispatched(t) /\ Settles(t) /\ pc \in [Task -> JobRow]
  BY <1>3, PlacedFacts DEF IInv, TypesInv, RunTypes
<1>6. s.rec.op = pc[t].op
  BY <1>3, <1>4, <1>5 DEF Dispatched, Dispatches
<1>7. pc' = [pc EXCEPT ![t].at = "create"] /\ UNCHANGED settle
  BY <1>1, <1>3, <1>4, <1>6 DEF LandLocate
<1>8. pc'[t].at = "create" /\ pc'[t].op = pc[t].op /\ \A u \in Task \ {t} : pc'[u] = pc[u]
  BY <1>3, <1>5, <1>7 DEF JobRow
<1>9. Placed(t)'
  <2>1. Sound(t, task[t])' /\ Settles(t)'
    BY <1>2, <1>3, <1>5, <1>7 DEF Sound, Settles, Owns
  <2>2. Rides(t)'
    BY <1>2, <1>3, <1>5, <1>8 DEF Rides, Owns, HasTurn
  <2>3. Dispatched(t)'
    BY <1>2, <1>3, <1>4, <1>5, <1>6, <1>7, <1>8 DEF Dispatched, Dispatches, InPrepare
  <2> QED BY <2>1, <2>2, <2>3 DEF Placed
<1>10. ASSUME NEW x, Pending(x)', x.task = t PROVE Kept(x)'
  <2>1. x.by = "cancel" /\ Kept(x)
    BY <1>1, <1>2, <1>10, BesideJob
  <2>2. Sound(t, x.rec)'
    BY <1>2, <1>10, <2>1 DEF Kept, Sound, Owns
  <2>3. Fits(x)'
    BY <1>3, <1>4, <1>10, <2>1 DEF Kept, Fits
  <2> QED BY <1>10, <2>2, <2>3 DEF Kept
<1>11. SlotInv'
  BY <1>1, <1>2, <1>3, <1>7, <1>8, <1>9, <1>10, LandSlot
<1> QED BY <1>1, <1>3, <1>4, <1>6, <1>11

LEMMA LandLinkSlot ==
  ASSUME IInv, SlotInv, LandLink
  PROVE  SlotInv'
<1>1. PICK t, s : s = Head(saves) /\ t = s.task
  OBVIOUS
<1>2. /\ saves # <<>> /\ s.by = "link" /\ saves' = Tail(saves) /\ task' = Memory
      /\ UNCHANGED <<lock, jobs, rounds, recovery, crashes>> /\ Finally(t, "hold", Memory)
      /\ inbox' = inbox \/ inbox' \in Replayed(t, pc[t].op)
  BY <1>1 DEF LandLink, Lands, countVars
<1>3. /\ t \in Task /\ Memory[t] = s.rec /\ task'[t] = s.rec /\ Sound(t, s.rec) /\ Fits(s) /\ InPrepare(t) /\ pc[t].at = "link"
  <2>1. "link" \in JobKinds /\ SavePlace("link") = "link"
    BY DEF JobKinds, SavePlace
  <2> QED BY <1>1, <1>2, <2>1, LandFacts
<1>4. s.rec.status \in {"running", "canceling"} /\ s.rec.op = task[t].op
  BY <1>1, <1>2, <1>3 DEF Fits
<1>5. Rides(t) /\ Dispatched(t) /\ Settles(t) /\ pc \in [Task -> JobRow]
  BY <1>3, PlacedFacts DEF IInv, TypesInv, RunTypes
<1>6. /\ pc'[t].at = "hold" /\ pc'[t].op = pc[t].op
      /\ \A u \in Task \ {t} : pc'[u] = pc[u] /\ settle'[u] = settle[u] /\ inbox'[u] = inbox[u]
  BY <1>2, <1>3, <1>5, SettleOthers, ReplayedOthers DEF JobRow, Finally
<1>7. Settles(t)'
  BY <1>2, <1>3, SettleKeeps DEF Finally
<1>8. Placed(t)'
  <2>1. Sound(t, task[t])'
    BY <1>2, <1>3 DEF Sound, Owns
  <2>2. Rides(t)'
    BY <1>2, <1>3, <1>5, <1>6 DEF Rides, Owns, HasTurn
  <2>3. Dispatched(t)'
    BY <1>6 DEF Dispatched, Dispatches, InPrepare
  <2> QED BY <1>7, <2>1, <2>2, <2>3 DEF Placed
<1>9. ASSUME NEW x, Pending(x)', x.task = t PROVE Kept(x)'
  <2>1. x.by = "cancel" /\ Kept(x)
    BY <1>1, <1>2, <1>9, BesideJob
  <2>2. Sound(t, x.rec)'
    BY <1>2, <1>9, <2>1 DEF Kept, Sound, Owns
  <2>3. Fits(x)'
    BY <1>3, <1>4, <1>6, <1>9, <2>1 DEF Kept, Fits, InPrepare
  <2> QED BY <1>9, <2>2, <2>3 DEF Kept
<1> QED BY <1>1, <1>2, <1>3, <1>6, <1>8, <1>9, LandSlot

\* Nothing recovers while the plugin lives.
LEMMA NoRecovers ==
  ASSUME IInv, SlotInv, MaxCrashes = 0
  PROVE  ~Recover /\ ~RecoverFails /\ ~Crash /\ ~LandRecover
<1>1. recovery.step = "off" /\ crashes = 0
  BY DEF SlotInv, NoRecovery
<1>2. ~Recover /\ ~RecoverFails
  BY <1>1 DEF Recover, RecoverSkip, RecoverCancel, RecoverSettled, RecoverExec, RecoverDecide, RecoverEnds, RecoverFails, Visiting
<1>3. ~Crash
  BY <1>1 DEF Crash
<1>4. ~LandRecover
  <2>1. ASSUME LandRecover PROVE FALSE
    <3>1. saves # <<>> /\ Head(saves).by = "recover" /\ saves' = Tail(saves)
      BY <2>1 DEF LandRecover, Lands
    <3>2. Pending(Head(saves))
      BY <3>1, TailPends
    <3> QED BY <3>1, <3>2, PendingFacts
  <2> QED BY <2>1
<1> QED BY <1>2, <1>3, <1>4

LEMMA DaemonSlot ==
  ASSUME IInv, SlotInv, (\E o \in Op : Daemon(o)) \/ UNCHANGED vars
  PROVE  SlotInv'
<1>1. UNCHANGED <<task, saves, lock, inbox, jobs, pc, settle, recovery, rounds, crashes>>
  BY DEF Daemon, Open, EndTurn, Chat, AskPermission, AnswerPermission, Session, vars, boardVars, eventVars, runVars, countVars
<1> QED BY <1>1, BoxStep

LEMMA SlotInductive ==
  ASSUME MaxCrashes = 0, IInv, SlotInv, [Next]_vars
  PROVE  SlotInv'
<1>1. CASE Plugin
  <2>1. CASE Land
    BY <2>1, LockedLands, LandBeginSlot, LandCancelSlot, LandLocateSlot, LandLinkSlot, NoRecovers DEF Land
  <2>2. CASE Deliver
    BY <2>2, EventSlot
  <2>3. ASSUME NEW t \in Task, Job(t) \/ JobFault(t) PROVE SlotInv'
    BY <2>3, BeginSlot, PrepareSlot DEF Job, JobFault
  <2>4. ASSUME NEW t \in Task, User(t) PROVE SlotInv'
    BY <2>4, UserSlot
  <2>5. ASSUME NEW t \in Task, SettleStep(t) \/ SettleFails(t) PROVE SlotInv'
    BY <2>5, SettleSlot
  <2>6. ASSUME NEW t \in Task, Handle(t) \/ CaptureFails(t) PROVE SlotInv'
    BY <2>6, EventSlot, TurnSlot DEF Handle
  <2>7. ASSUME NEW r \in Repo, JobEnds(r) PROVE SlotInv'
    BY <2>7, EndSlot
  <2> QED BY <1>1, <2>1, <2>2, <2>3, <2>4, <2>5, <2>6, <2>7 DEF Plugin
<1>2. CASE (\E o \in Op : Daemon(o)) \/ UNCHANGED vars
  BY <1>2, DaemonSlot
<1> QED BY <1>1, <1>2, NoRecovers DEF Next

LEMMA InitSlot == Init => SlotInv
<1> SUFFICES ASSUME Init PROVE SlotInv
  OBVIOUS
<1>1. ASSUME NEW t \in Task PROVE Placed(t)
  <2>1. task[t] = Draft /\ settle[t] = Off /\ pc[t] = NoRun
    BY <1>1 DEF Init
  <2> QED BY <2>1 DEF Placed, Sound, Settles, Rides, Dispatched, Dispatches, InPrepare, Owns, Draft, Off, NoRun, AtWork
<1>2. Len(saves) = 0 /\ recovery = NoRecovery /\ crashes = 0 /\ jobs = [r \in Repo |-> <<>>]
  BY DEF Init
<1>3. Listed(<<>>)
  BY DEF Listed
<1> QED BY <1>1, <1>2, <1>3 DEF SlotInv

\* "A repository runs one task at a time" (engine.ts:121): for any tasks and
\* users and any number of faults, as long as the plugin lives, of the tasks of
\* one repository at most one is being prepared or runs.
THEOREM QueueOneTaskAtWork == ASSUME MaxCrashes = 0 PROVE Spec => []OneTaskAtWork
<1>1. Init => SlotInv
  BY InitSlot
<1>2. IInv /\ SlotInv /\ [Next]_vars => SlotInv'
  BY SlotInductive
<1>3. ASSUME SlotInv PROVE OneTaskAtWork
  <2>1. ASSUME NEW t \in Task, NEW u \in Task, SameRepo(t, u), task[t].status \in AtWork, task[u].status \in AtWork
        PROVE  t = u
    BY <1>3, <2>1, OneJob DEF SlotInv, Placed, Rides
  <2> QED BY <2>1 DEF OneTaskAtWork
<1> QED BY <1>1, <1>2, <1>3, QueueInvariant, PTL DEF Spec

-----------------------------------------------------------------------------
(* The slot of a repository: every save that lands is a move of RepoSlot    *)

Phases == [t \in Task |-> Phase(task[t].status)]

\* A task with a job takes the slot of its repository: nobody else is at work there.
LEMMA SlotMoves ==
  ASSUME IInv, SlotInv, task' = Memory, NEW t \in Task, t = Head(saves).task,
         NEW from, NEW to, from = Phase(task[t].status), to = Phase(Memory[t].status),
         \/ to \in {from, "out"}
         \/ from = "out" /\ to = "waiting"
         \/ from # "waiting" /\ to = "stopping"
         \/ from # "out" /\ to = "holding" /\ pc[t].at # "off"
  PROVE  [Slot!Next]_Phases
<1>1. Phases[t] = from /\ Phases' = [Phases EXCEPT ![t] = to]
  BY DEF Phases, Memory, IInv, TypesInv, BoardTypes
<1>2. to = from => UNCHANGED Phases
  BY <1>1 DEF Phases
<1>3. from \in {"waiting", "holding", "stopping", "out"} /\ to \in {"waiting", "holding", "stopping", "out"}
  BY PhaseIs
<1>4. ASSUME pc[t].at # "off" PROVE Slot!SlotFree(t)
  <2>1. ASSUME NEW u \in Task \ {t}, repoOf[u] = repoOf[t], Phase(task[u].status) = "holding" PROVE FALSE
    <3>1. HasTurn(u)
      BY <2>1, PhaseIs DEF SlotInv, Placed, Rides
    <3> QED BY <1>4, <2>1, <3>1, OneJob DEF SameRepo
  <2> QED BY <2>1 DEF Slot!SlotFree
<1>5. to # from => Slot!Ask(t) \/ Slot!Withdraw(t) \/ Slot!Take(t) \/ Slot!Stop(t) \/ Slot!Leave(t)
  <2>1. /\ from = "out" /\ to = "waiting" => Slot!Ask(t)
        /\ from = "waiting" /\ to = "out" => Slot!Withdraw(t)
        /\ from \in {"out", "holding"} /\ to = "stopping" => Slot!Stop(t)
        /\ from \in {"holding", "stopping"} /\ to = "out" => Slot!Leave(t)
    BY <1>1 DEF Slot!Ask, Slot!Withdraw, Slot!Stop, Slot!Leave, Slot!Moves, Phases
  <2>2. from \in {"waiting", "stopping"} /\ to = "holding" /\ pc[t].at # "off" => Slot!Take(t)
    BY <1>1, <1>4 DEF Slot!Take, Slot!Moves, Phases
  <2> QED BY <1>3, <2>1, <2>2
<1> QED BY <1>2, <1>5 DEF Slot!Next

LEMMA LandRefines ==
  ASSUME IInv, SlotInv, Land, MaxCrashes = 0
  PROVE  [Slot!Next]_Phases
<1>1. PICK t, s : s = Head(saves) /\ t = s.task
  OBVIOUS
<1>2. saves # <<>> /\ saves' = Tail(saves) /\ task' = Memory
  BY LandMoves
<1>3. /\ t \in Task /\ s.by \in SaveKinds \ {"recover"} /\ Memory[t] = s.rec /\ Fits(s)
      /\ s.by \in JobKinds => pc[t].at = SavePlace(s.by)
      /\ s.by \in {"locate", "link"} => InPrepare(t)
  BY <1>1, <1>2, LandFacts
<1>4. task[t].status \in Marks /\ Dispatched(t)
  BY <1>3, PlacedFacts
<1> DEFINE from == Phase(task[t].status)
           to == Phase(s.rec.status)
<1>5. CASE s.by = "user"
  <2>1. from \in {"waiting", "out"}
    BY <1>1, <1>3, <1>5 DEF Fits, Exec, IsExecution, Phase, AtWork
  <2>2. to \in {"waiting", "out"}
    BY <1>1, <1>3, <1>5 DEF Fits, Phase, AtWork
  <2> QED BY <1>1, <1>2, <1>3, <2>1, <2>2, SlotMoves
<1>6. CASE s.by \in {"quiet", "fail", "settle", "turn"}
  <2>1. to \in {from, "out"}
    BY <1>1, <1>3, <1>6 DEF Fits
  <2> QED BY <1>1, <1>2, <1>3, <2>1, SlotMoves
<1>7. CASE s.by = "cancel"
  <2>1. from # "waiting" /\ to = "stopping"
    BY <1>1, <1>3, <1>7, PhaseIs DEF Fits
  <2> QED BY <1>1, <1>2, <1>3, <2>1, SlotMoves
<1>8. CASE s.by = "begin"
  <2>1. from = "waiting" /\ to = "holding" /\ pc[t].at = "begin"
    BY <1>1, <1>3, <1>8 DEF Fits, Phase, AtWork, JobKinds, SavePlace
  <2> QED BY <1>1, <1>2, <1>3, <2>1, SlotMoves
<1>9. CASE s.by \in {"locate", "link"}
  <2>1. pc[t].at # "off" /\ task[t].status \in {"preparing", "canceling"}
    BY <1>3, <1>4, <1>9 DEF InPrepare, Dispatched, Dispatches
  <2>2. from \in {"holding", "stopping"} /\ to \in {"holding", "stopping"}
    BY <1>1, <1>3, <1>9, <2>1 DEF Fits, Phase, AtWork
  <2> QED BY <1>1, <1>2, <1>3, <2>1, <2>2, SlotMoves
<1>10. CASE s.by = "found"
  <2>1. to = from
    BY <1>1, <1>3, <1>10 DEF Fits, Exec, IsExecution, Phase, AtWork
  <2> QED BY <1>1, <1>2, <1>3, <2>1, SlotMoves
<1> QED BY <1>3, <1>5, <1>6, <1>7, <1>8, <1>9, <1>10 DEF SaveKinds

\* The queue hands out each repository's slot as RepoSlot says: for any tasks
\* and users and any number of faults, as long as the plugin lives, every step
\* is a move of one task there, and one that takes the slot finds it free
\* (engine.ts:121, engine.ts:884).
THEOREM QueueRefinesRepoSlot == ASSUME MaxCrashes = 0 PROVE Spec => RefinesRepoSlot
<1>1. Init => SlotInv
  BY InitSlot
<1>2. IInv /\ SlotInv /\ [Next]_vars => SlotInv'
  BY SlotInductive
<1>3. ASSUME Init PROVE Slot!Init
  BY <1>3 DEF Init, Draft, Phase, AtWork, Slot!Init
<1>4. ASSUME IInv, SlotInv, [Next]_vars PROVE [Slot!Next]_Phases
  <2>1. CASE Land
    BY <1>4, <2>1, LandRefines
  <2>2. CASE ~Land
    <3>1. UNCHANGED task
      <4>1. CASE Plugin
        <5>1. CASE Deliver
          BY <5>1 DEF Deliver, boardVars
        <5>2. ASSUME NEW t \in Task, Job(t) \/ JobFault(t) PROVE UNCHANGED task
          <6>1. CASE Begin(t)
            BY <6>1 DEF Begin
          <6>2. CASE EnsureDone(t) \/ CreateReturns(t) \/ FailDispatch(t)
            BY <6>2 DEF EnsureDone, CreateReturns, FailDispatch
          <6>3. CASE JobFault(t)
            BY <6>3 DEF JobFault, EnsureFails, CreateFails, SearchFails, boardVars
          <6> QED BY <5>2, <6>1, <6>2, <6>3 DEF Job
        <5>3. ASSUME NEW t \in Task, User(t) PROVE UNCHANGED task
          BY <5>3 DEF User, Start, Cancel, RetryStop, Requeue, Delete, DeleteFails, Reconcile, boardVars
        <5>4. ASSUME NEW t \in Task, SettleStep(t) \/ SettleFails(t) PROVE UNCHANGED task
          BY <5>4 DEF SettleStep, Watch, SettleFind, SettleStop, SettleMark, SettleFails, boardVars
        <5>5. ASSUME NEW t \in Task, Handle(t) \/ CaptureFails(t) PROVE UNCHANGED task
          <6>1. CASE HandlePermission(t)
            BY <6>1 DEF HandlePermission
          <6>2. CASE HandleTurn(t)
            BY <6>2 DEF HandleTurn
          <6>3. CASE CaptureDone(t) \/ CaptureFails(t)
            BY <6>3 DEF CaptureDone, CaptureFails
          <6> QED BY <5>5, <6>1, <6>2, <6>3 DEF Handle
        <5>6. ASSUME NEW r \in Repo, JobEnds(r) PROVE UNCHANGED task
          BY <5>6 DEF JobEnds, boardVars
        <5> QED BY <2>2, <4>1, <5>1, <5>2, <5>3, <5>4, <5>5, <5>6 DEF Plugin
      <4>2. CASE (\E o \in Op : Daemon(o)) \/ UNCHANGED vars
        BY <4>2 DEF Daemon, Open, EndTurn, Chat, AskPermission, AnswerPermission, Session, vars, boardVars
      <4> QED BY <1>4, <4>1, <4>2, NoRecovers DEF Next
    <3> QED BY <3>1 DEF Phases
  <2> QED BY <2>1, <2>2
<1> QED BY <1>1, <1>2, <1>3, <1>4, QueueInvariant, PTL DEF Spec, RefinesRepoSlot, Slot!Spec, Phases

-----------------------------------------------------------------------------
(* One session at work: what the plugin knows of the daemon's sessions      *)

\* A session is in the turn that the queue started, and its round is the one at work.
Fresh(o) == Active(session[o].state) /\ session[o].turn = 1
Runs(o) ==
    /\ o \in 1..Len(rounds) /\ Exec(rounds[o]) /\ task[rounds[o]].op = o
    /\ pc[rounds[o]].at \notin {"off", "begin"}
Over(o) == o = NoOp \/ ~Fresh(o)

\* The end of a turn is told after it, and is on its way until it is handled.
Past(e) == e.kind = "ended" =>
    /\ e.turn >= 1 /\ e.turn <= session[e.agent].turn
    /\ e.turn = session[e.agent].turn => ~Active(session[e.agent].state)
Hears(e) == \/ \E i \in 1..Len(events) : events[i] = e
            \/ e \in turns
            \/ \E t \in Task : \E i \in 1..Len(inbox[t]) : inbox[t][i] = e
Captures(t) == lock[t].by = "capture" =>
    LET e == lock[t].event[1] IN Past(e) /\ e.kind = "ended" /\ e.agent = task[t].agent

\* What is about to end a round ends one whose turn is over.
Settled(t) == settle[t].step \in {"mark", "saving"} => Over(settle[t].op)
Ends(s) == s.by \in {"fail", "settle", "turn"} => Over(s.rec.op)

WorkInv ==
    /\ \A o \in Op : /\ Fresh(o) => Runs(o)
                     /\ session[o].state = "none" <=> session[o].turn = 0
    /\ \A e : Hears(e) => Past(e)
    /\ \A t \in Task : Captures(t) /\ Settled(t)
    /\ \A s : Pending(s) => Ends(s)

LEMMA SessionFacts ==
  ASSUME IInv, NEW o \in Op
  PROVE  session[o].turn \in Nat /\ session[o].state \in Looks
BY DEF IInv, TypesInv, RunTypes, SessionRow

\* The end of a turn is not that of a turn that goes on.
LEMMA PastIsOver ==
  ASSUME IInv, NEW e \in EventRow, Past(e), e.kind = "ended"
  PROVE  Over(e.agent)
<1>1. e.agent \in Op /\ e.turn \in Nat
  BY BoundAssumption DEF EventRow
<1>2. session[e.agent].turn \in Nat
  BY <1>1, SessionFacts
<1> QED BY <1>1, <1>2 DEF Past, Over, Fresh

LEMMA HearsFacts ==
  ASSUME IInv, NEW e, Hears(e)
  PROVE  e \in EventRow
<1>1. events \in Seq(EventRow) /\ turns \in SUBSET EventRow /\ inbox \in [Task -> Seq(EventRow)]
  BY DEF IInv, TypesInv, EventTypes
<1>2. \A t \in Task : inbox[t] \in Seq(EventRow)
  BY <1>1
<1> QED BY <1>1, <1>2 DEF Hears

\* A step that neither asks the daemon for anything nor lands a save.
LEMMA LocalWork ==
  ASSUME IInv, SlotInv, WorkInv, UNCHANGED <<session, task>>, RoundsGrow,
         \A t \in Task : pc'[t] = pc[t] \/ pc'[t].at \notin {"off", "begin"} \/ pc[t].at = "off" \/ ~Exec(t),
         \A e : Hears(e)' => Hears(e),
         \A t \in Task : lock'[t] = lock[t] \/ lock'[t].by # "capture" \/ Captures(t)',
         \A t \in Task : settle'[t] = settle[t] \/ settle'[t].step \notin {"mark", "saving"} \/ Over(settle'[t].op),
         \/ UNCHANGED saves
         \/ \E t, r, by : saves' = Append(saves, Save(t, r, by)) /\ (by \in {"fail", "settle", "turn"} => Over(r.op))
  PROVE  WorkInv'
<1>1. \A o : (Fresh(o)' <=> Fresh(o)) /\ (Over(o)' <=> Over(o))
  BY DEF Fresh, Over
<1>2. \A e : Past(e) => Past(e)'
  BY DEF Past
<1>3. ASSUME NEW o \in Op, Fresh(o) PROVE Runs(o)'
  <2>1. Runs(o) /\ rounds \in Seq(Task)
    BY <1>3 DEF WorkInv, IInv, TypesInv, RunTypes
  <2>2. rounds[o] \in Task /\ rounds'[o] = rounds[o] /\ o \in 1..Len(rounds')
    BY <2>1 DEF Runs, RoundsGrow
  <2> QED BY <2>1, <2>2 DEF Runs, Exec
<1>4. ASSUME NEW t \in Task PROVE Captures(t)' /\ Settled(t)'
  <2>1. Captures(t) /\ Settled(t)
    BY DEF WorkInv
  <2>2. Captures(t)'
    BY <1>2, <2>1 DEF Captures
  <2>3. Settled(t)'
    BY <1>1, <2>1 DEF Settled
  <2> QED BY <2>2, <2>3
<1>5. ASSUME NEW s, Pending(s)' PROVE Ends(s)'
  <2>1. Pending(s) => Ends(s)'
    BY <1>1 DEF WorkInv, Ends
  <2>2. CASE UNCHANGED saves
    BY <1>5, <2>1, <2>2 DEF Pending
  <2>3. ASSUME NEW t, NEW r, NEW by, saves' = Append(saves, Save(t, r, by)), by \in {"fail", "settle", "turn"} => Over(r.op)
        PROVE  Ends(s)'
    <3>1. s = Save(t, r, by) \/ Pending(s)
      BY <1>5, <2>3, AppendPends
    <3>2. s = Save(t, r, by) => Ends(s)'
      BY <1>1, <2>3 DEF Save, Ends
    <3> QED BY <2>1, <3>1, <3>2
  <2> QED BY <2>2, <2>3
<1>6. \A e : Hears(e)' => Past(e)'
  BY <1>2 DEF WorkInv
<1>7. \A o \in Op : session'[o].state = "none" <=> session'[o].turn = 0
  BY DEF WorkInv
<1> QED BY <1>1, <1>3, <1>4, <1>5, <1>6, <1>7 DEF WorkInv

\* The oldest save lands: a session in its first turn keeps its round at work.
LEMMA LandWork ==
  ASSUME IInv, SlotInv, WorkInv, saves # <<>>, saves' = Tail(saves), task' = Memory, UNCHANGED <<session, rounds>>,
         \A t \in Task : pc'[t] = pc[t] \/ pc'[t].at \notin {"off", "begin"},
         \A e : Hears(e)' /\ e.kind = "ended" => Hears(e),
         \A t \in Task : lock'[t] = lock[t] \/ lock'[t].by # "capture",
         \A t \in Task : settle'[t] = settle[t] \/ settle'[t].step \notin {"mark", "saving"}
  PROVE  WorkInv'
<1>1. PICK h : h = Head(saves)
  OBVIOUS
<1>2. /\ h.task \in Task /\ h.by \in SaveKinds \ {"recover"} /\ task'[h.task] = h.rec /\ Fits(h) /\ Pending(h)
      /\ h.by \in LockKinds => lock[h.task].by = SavePlace(h.by)
      /\ h.by \in JobKinds => pc[h.task].at = SavePlace(h.by)
      /\ h.by \notin LockKinds => lock[h.task].by \in {"free", "cancel"}
  BY <1>1, LandFacts, TailPends, PendingWaits
<1>3. \A t \in Task \ {h.task} : task'[t] = task[t]
  BY <1>1, <1>2 DEF Memory, IInv, TypesInv, BoardTypes
<1>4. \A o : (Fresh(o)' <=> Fresh(o)) /\ (Over(o)' <=> Over(o))
  BY DEF Fresh, Over
<1>5. \A e : Past(e) => Past(e)'
  BY DEF Past
<1>6. ASSUME NEW o \in Op, Fresh(o) PROVE Runs(o)'
  <2>1. Runs(o) /\ rounds[o] \in Task /\ o # NoOp
    BY <1>6, BoundAssumption DEF WorkInv, Runs, IInv, TypesInv, RunTypes, Op
  <2>2. pc'[rounds[o]].at \notin {"off", "begin"}
    BY <2>1 DEF Runs
  <2>3. CASE rounds[o] # h.task
    BY <1>3, <2>1, <2>2, <2>3 DEF Runs, Exec
  <2>4. CASE rounds[o] = h.task
    <3>1. Exec(h.task) /\ task[h.task].op = o /\ pc[h.task].at # "begin"
      BY <2>1, <2>4 DEF Runs
    <3>2. h.by \notin {"user", "begin"}
      BY <1>2, <3>1 DEF Fits, JobKinds, SavePlace
    <3>3. h.rec.op = o /\ h.by \notin {"fail", "settle", "turn"}
      BY <1>2, <1>6, <2>1, <3>1, <3>2 DEF Fits, WorkInv, Ends, Over
    <3>4. h.by \in {"quiet", "cancel", "locate", "link", "found"}
      BY <1>2, <3>2, <3>3 DEF SaveKinds
    <3>5. IsExecution(h.rec.status)
      BY <1>2, <3>1, <3>4 DEF Fits, Exec, IsExecution, Phase, AtWork
    <3> QED BY <1>2, <2>1, <2>2, <2>4, <3>3, <3>5 DEF Runs, Exec
  <2> QED BY <2>3, <2>4
<1>7. ASSUME NEW t \in Task PROVE Captures(t)' /\ Settled(t)'
  <2>1. Captures(t) /\ Settled(t)
    BY DEF WorkInv
  <2>2. Settled(t)'
    BY <1>4, <2>1 DEF Settled
  <2>3. lock'[t].by = "capture" => lock'[t] = lock[t] /\ t # h.task
    BY <1>2 DEF LockKinds, SaveKinds, SavePlace
  <2>4. Captures(t)'
    BY <1>3, <1>5, <2>1, <2>3 DEF Captures
  <2> QED BY <2>2, <2>4
<1>8. ASSUME NEW s, Pending(s)' PROVE Ends(s)'
  <2>1. Pending(s)
    BY <1>8, TailPends
  <2> QED BY <1>4, <2>1 DEF WorkInv, Ends
<1>9. \A e : Hears(e)' => Past(e)'
  BY <1>5 DEF WorkInv, Past
<1>10. \A o \in Op : session'[o].state = "none" <=> session'[o].turn = 0
  BY DEF WorkInv
<1> QED BY <1>4, <1>6, <1>7, <1>8, <1>9, <1>10 DEF WorkInv

\* The sessions go on, and nothing else but what is told of them and a save that
\* ends nothing.
LEMMA SessionWork ==
  ASSUME IInv, SlotInv, WorkInv, UNCHANGED <<task, rounds, pc, settle>>,
         \A o \in Op : /\ session'[o].turn >= session[o].turn
                       /\ session'[o].turn = session[o].turn /\ Active(session'[o].state) => Active(session[o].state)
                       /\ session'[o].state = "none" <=> session'[o].turn = 0
                       /\ Fresh(o)' => Fresh(o) \/ (Runs(o) /\ pc[rounds[o]] = [at |-> "create", op |-> o]),
         session' \in [Op -> SessionRow],
         \A e : Hears(e)' => Hears(e) \/ Past(e)',
         \A t \in Task : lock'[t] = lock[t] \/ lock'[t].by # "capture",
         \/ UNCHANGED saves
         \/ \E t, r, by : saves' = Append(saves, Save(t, r, by)) /\ by \notin {"fail", "settle", "turn"}
  PROVE  WorkInv'
<1>1. ASSUME NEW e \in EventRow, Past(e) PROVE Past(e)'
  <2>1. e.agent \in Op /\ e.turn \in Nat
    BY BoundAssumption DEF EventRow
  <2>2. PICK o \in Op : o = e.agent
    BY <2>1
  <2>3. session[o].turn \in Nat /\ session'[o].turn \in Nat
    <3>1. session[o].turn \in Nat /\ session'[o] \in SessionRow
      BY SessionFacts
    <3> QED BY <3>1, BoundAssumption DEF SessionRow
  <2>4. session'[o].turn >= session[o].turn /\ (session'[o].turn = session[o].turn /\ Active(session'[o].state) => Active(session[o].state))
    OBVIOUS
  <2>5. ASSUME e.kind = "ended"
        PROVE  e.turn >= 1 /\ e.turn <= session'[o].turn /\ (e.turn = session'[o].turn => ~Active(session'[o].state))
    <3>1. e.turn >= 1 /\ e.turn <= session[o].turn /\ (e.turn = session[o].turn => ~Active(session[o].state))
      BY <1>1, <2>2, <2>5 DEF Past
    <3> QED BY <2>1, <2>3, <2>4, <3>1
  <2> QED BY <2>2, <2>5 DEF Past
<1>2. ASSUME NEW o \in Op, Fresh(o)' PROVE Runs(o)'
  BY <1>2 DEF WorkInv, Runs, Exec
<1>3. ASSUME NEW t \in Task, NEW o \in Op, Over(o), o = settle[t].op \/ (\E s : Pending(s) /\ s.by \in {"fail", "settle", "turn"} /\ s.rec.op = o)
      PROVE  Over(o)'
  <2>1. SUFFICES ASSUME Runs(o), pc[rounds[o]] = [at |-> "create", op |-> o] PROVE FALSE
    BY <1>3 DEF Over
  <2>2. PICK u \in Task : u = rounds[o]
    BY <2>1 DEF Runs, IInv, TypesInv, RunTypes
  <2>3. InPrepare(u) /\ Dispatched(u)
    BY <2>1, <2>2, PlacedFacts DEF InPrepare
  <2>4. CASE o = settle[t].op
    <3>1. Owns(t, o)
      BY <2>4, PlacedFacts DEF Settles
    <3>2. t = u
      BY <2>2, <3>1, BoundAssumption DEF Owns, Op
    <3>3. settle[u].op # pc[u].op
      BY <2>3 DEF Dispatched, Dispatches
    <3>4. pc[u].op = o
      BY <2>1, <2>2
    <3> QED BY <2>4, <3>2, <3>3, <3>4
  <2>5. ASSUME NEW s, Pending(s), s.by \in {"fail", "settle", "turn"}, s.rec.op = o PROVE FALSE
    <3>1. Owns(s.task, o) /\ s.task \in Task
      BY <2>5, PendingFacts DEF Kept, Sound
    <3>2. s.task = u
      BY <2>2, <3>1, BoundAssumption DEF Owns, Op
    <3>3. lock[u].by = s.by
      BY <2>5, <3>2, PendingWaits DEF LockKinds, SaveKinds, SavePlace
    <3> QED BY <2>3, <2>5, <3>3 DEF Dispatched, Dispatches
  <2> QED BY <1>3, <2>4, <2>5
<1>4. ASSUME NEW t \in Task PROVE Captures(t)' /\ Settled(t)'
  <2>1. Captures(t) /\ Settled(t) /\ settle[t].op \in Ops
    BY DEF WorkInv, IInv, TypesInv, RunTypes, SettleRow
  <2>2. lock[t].by = "capture" => lock[t].event[1] \in EventRow
    BY EventFacts DEF IInv
  <2>3. Captures(t)'
    BY <1>1, <2>1, <2>2 DEF Captures
  <2>4. Settled(t)'
    BY <1>3, <2>1 DEF Settled, Over
  <2> QED BY <2>3, <2>4
<1>5. ASSUME NEW s, Pending(s)' PROVE Ends(s)'
  <2>1. ASSUME Pending(s) PROVE Ends(s)'
    <3>1. Ends(s) /\ s.rec.op \in Ops /\ s.task \in Task
      BY <2>1, PendingFacts DEF WorkInv, Record
    <3> QED BY <1>3, <2>1, <3>1 DEF Ends, Over
  <2>2. CASE UNCHANGED saves
    BY <1>5, <2>1, <2>2 DEF Pending
  <2>3. ASSUME NEW t, NEW r, NEW by, saves' = Append(saves, Save(t, r, by)), by \notin {"fail", "settle", "turn"}
        PROVE  Ends(s)'
    <3>1. s = Save(t, r, by) \/ Pending(s)
      BY <1>5, <2>3, AppendPends
    <3>2. s = Save(t, r, by) => Ends(s)'
      BY <2>3 DEF Save, Ends
    <3> QED BY <2>1, <3>1, <3>2
  <2> QED BY <2>2, <2>3
<1>6. ASSUME NEW e, Hears(e)' PROVE Past(e)'
  <2>1. Hears(e) => e \in EventRow /\ Past(e)
    BY HearsFacts DEF WorkInv
  <2> QED BY <1>1, <1>6, <2>1
<1> QED BY <1>2, <1>4, <1>5, <1>6 DEF WorkInv

\* What the locks, the settlements and the queues of events of a step look like.
LEMMA LocksAre ==
  ASSUME IInv, NEW t \in Task, NEW by, by # "capture", lock' = Holds(t, by) \/ lock' = Unlock(t), NEW u \in Task
  PROVE  lock'[u] = lock[u] \/ lock'[u].by # "capture"
BY DEF Holds, Unlock, Free, IInv, TypesInv, BoardTypes

LEMMA SettlesAre ==
  ASSUME IInv, NEW t \in Task, NEW u \in Task
  PROVE  /\ \A r : SettleFrom(t, r)[u] = settle[u] \/ SettleFrom(t, r)[u].step \notin {"mark", "saving"}
         /\ \A mem : SettleIfCanceling(t, mem)[u] = settle[u] \/ SettleIfCanceling(t, mem)[u].step \notin {"mark", "saving"}
         /\ [settle EXCEPT ![t] = Off][u] = settle[u] \/ [settle EXCEPT ![t] = Off][u].step \notin {"mark", "saving"}
<1>1. settle \in [Task -> SettleRow]
  BY DEF IInv, TypesInv, RunTypes
<1>2. ASSUME NEW r PROVE SettleFrom(t, r)[u] = settle[u] \/ SettleFrom(t, r)[u].step \notin {"mark", "saving"}
  BY <1>1 DEF SettleFrom
<1>3. [settle EXCEPT ![t] = Off][u] = settle[u] \/ [settle EXCEPT ![t] = Off][u].step \notin {"mark", "saving"}
  BY <1>1 DEF Off
<1> QED BY <1>2, <1>3 DEF SettleIfCanceling

LEMMA SameHears == ASSUME UNCHANGED <<events, turns, inbox>>, NEW e, Hears(e)' PROVE Hears(e)
BY DEF Hears

LEMMA FewerHears ==
  ASSUME IInv, UNCHANGED events, turns' \in SUBSET turns, NEW t \in Task,
         UNCHANGED inbox \/ (inbox[t] # <<>> /\ inbox' = [inbox EXCEPT ![t] = Tail(@)]), NEW e, Hears(e)'
  PROVE  Hears(e)
<1>1. inbox \in [Task -> Seq(EventRow)]
  BY DEF IInv, TypesInv, EventTypes
<1>2. ASSUME NEW u \in Task, NEW i \in 1..Len(inbox'[u]) PROVE \E j \in 1..Len(inbox[u]) : inbox[u][j] = inbox'[u][i]
  <2>1. CASE inbox'[u] = inbox[u]
    BY <2>1
  <2>2. CASE u = t /\ inbox[t] # <<>> /\ inbox'[t] = Tail(inbox[t])
    <3>1. PICK q \in Seq(EventRow) : q = inbox[t]
      BY <1>1
    <3>2. i \in 1..Len(Tail(q)) /\ q # <<>> /\ inbox'[u][i] = Tail(q)[i]
      BY <2>2, <3>1
    <3>3. i + 1 \in 1..Len(q) /\ Tail(q)[i] = q[i + 1]
      BY <3>2
    <3> QED BY <2>2, <3>1, <3>2, <3>3
  <2>3. inbox'[u] = inbox[u] \/ (u = t /\ inbox[t] # <<>> /\ inbox'[t] = Tail(inbox[t]))
    BY <1>1
  <2> QED BY <2>1, <2>2, <2>3
<1> QED BY <1>2 DEF Hears

\* The first of the events that wait for the lock.
LEMMA HeadHears ==
  ASSUME IInv, NEW t \in Task, inbox[t] # <<>>
  PROVE  Hears(Head(inbox[t])) /\ Head(inbox[t]) \in EventRow
<1>1. PICK q \in Seq(EventRow) : q = inbox[t]
  BY DEF IInv, TypesInv, EventTypes
<1>2. Head(q) = q[1] /\ 1 \in 1..Len(q)
  BY <1>1
<1> QED BY <1>1, <1>2, HearsFacts DEF Hears

\* A change under the lock that ends no round whose turn goes on.
LEMMA UnderLockWork ==
  ASSUME IInv, SlotInv, WorkInv, NEW t \in Task, UNCHANGED <<session, task, pc, rounds>>,
         \A e : Hears(e)' => Hears(e),
         \A u \in Task : settle'[u] = settle[u] \/ settle'[u].step \notin {"mark", "saving"} \/ Over(settle'[u].op),
         NEW r, NEW by, by # "capture", UserSave(t, r, by), by \in {"fail", "settle", "turn"} => Over(r.op)
  PROVE  WorkInv'
<1>1. lock' = Holds(t, by) /\ saves' = Append(saves, Save(t, r, by)) /\ RoundsGrow
  BY SameRounds DEF UserSave
<1>2. \A u \in Task : lock'[u] = lock[u] \/ lock'[u].by # "capture"
  BY <1>1, LocksAre
<1> QED BY <1>1, <1>2, LocalWork

LEMMA DeleteWork ==
  ASSUME IInv, SlotInv, WorkInv, NEW t \in Task, Archives(t),
         UNCHANGED <<task, pc, rounds, settle, events, turns, inbox>>,
         NEW r, NEW by \in {"user", "quiet"}, UserSave(t, r, by)
  PROVE  WorkInv'
<1>1. session \in [Op -> SessionRow] /\ \A o \in Op : session[o].turn \in Nat /\ (session[o].state = "none" <=> session[o].turn = 0)
  BY SessionFacts DEF WorkInv, IInv, TypesInv, RunTypes
<1>2. ASSUME NEW o \in Op
      PROVE  \/ session'[o] = session[o]
             \/ session[o].state # "none" /\ session'[o] = [session[o] EXCEPT !.state = "gone"]
  BY <1>1 DEF Archives, ArchivedOf
<1>3. ASSUME NEW o \in Op
      PROVE  /\ session'[o].turn = session[o].turn /\ (Active(session'[o].state) => session'[o] = session[o])
             /\ session'[o].state = "none" <=> session[o].state = "none"
             /\ session'[o] \in SessionRow
  <2>1. session[o] \in SessionRow
    BY <1>1
  <2> QED BY <1>2, <2>1 DEF SessionRow, Active, Looks
<1>4. session' \in [Op -> SessionRow]
  <2>1. session' = [o \in Op |-> session'[o]]
    BY DEF Archives
  <2> QED BY <1>3, <2>1
<1>5. lock' = Holds(t, by) /\ saves' = Append(saves, Save(t, r, by)) /\ by # "capture" /\ by \notin {"fail", "settle", "turn"}
  BY DEF UserSave
<1>6. \A u \in Task : lock'[u] = lock[u] \/ lock'[u].by # "capture"
  BY <1>5, LocksAre
<1>7. \A e : Hears(e)' => Hears(e)
  BY SameHears
<1>8. ASSUME NEW o \in Op
      PROVE  /\ session'[o].turn >= session[o].turn
             /\ session'[o].turn = session[o].turn /\ Active(session'[o].state) => Active(session[o].state)
             /\ session'[o].state = "none" <=> session'[o].turn = 0
             /\ Fresh(o)' => Fresh(o)
  BY <1>1, <1>3 DEF Fresh
<1> QED BY <1>4, <1>5, <1>6, <1>7, <1>8, SessionWork

LEMMA UserWork ==
  ASSUME IInv, SlotInv, WorkInv, NEW t \in Task, User(t)
  PROVE  WorkInv'
<1>1. ASSUME UNCHANGED <<session, task, pc, rounds, settle, events, turns, inbox>>,
             NEW r, NEW by \in {"user", "quiet", "cancel"}, UserSave(t, r, by)
      PROVE  WorkInv'
  BY <1>1, SameHears, UnderLockWork
<1>2. CASE Start(t)
  BY <1>1, <1>2 DEF Start, eventVars, runVars, worldVars
<1>3. CASE Cancel(t)
  BY <1>1, <1>3 DEF Cancel, eventVars, runVars, worldVars, countVars
<1>4. CASE RetryStop(t)
  <2>1. settle' = SettleFrom(t, task[t]) /\ UNCHANGED <<session, task, saves, lock, pc, rounds, events, turns, inbox>>
    BY <1>4 DEF RetryStop, boardVars, eventVars, worldVars, countVars
  <2>2. \A u \in Task : settle'[u] = settle[u] \/ settle'[u].step \notin {"mark", "saving"}
    BY <2>1, SettlesAre
  <2> QED BY <2>1, <2>2, SameHears, SameRounds, LocalWork
<1>5. CASE Requeue(t)
  BY <1>1, <1>5 DEF Requeue, eventVars, runVars, worldVars
<1>6. CASE Delete(t)
  BY <1>6, DeleteWork, Archiving DEF Delete, eventVars, runVars, countVars
<1>7. CASE DeleteFails(t)
  BY <1>7, DeleteWork, Archiving DEF DeleteFails, eventVars, runVars
<1>8. CASE Reconcile(t)
  BY <1>1, <1>8 DEF Reconcile, eventVars, runVars, worldVars, countVars
<1> QED BY <1>2, <1>3, <1>4, <1>5, <1>6, <1>7, <1>8 DEF User

LEMMA SettleWork ==
  ASSUME IInv, SlotInv, WorkInv, NEW t \in Task, SettleStep(t) \/ SettleFails(t)
  PROVE  WorkInv'
<1>1. /\ UNCHANGED <<session, task, pc, rounds, events, turns, inbox>> /\ RoundsGrow /\ Settles(t)
      /\ task[t] \in Record /\ settle \in [Task -> SettleRow]
  BY SameRounds, PlacedFacts DEF SettleStep, Watch, SettleFind, SettleStop, SettleMark, SettleFails, boardVars, eventVars, worldVars, countVars,
     IInv, TypesInv, RunTypes
<1>2. \A e : Hears(e)' => Hears(e)
  BY <1>1, SameHears
<1>3. ASSUME UNCHANGED <<saves, lock>>,
             \A u \in Task : settle'[u] = settle[u] \/ settle'[u].step \notin {"mark", "saving"} \/ Over(settle'[u].op)
      PROVE  WorkInv'
  BY <1>1, <1>2, <1>3, LocalWork
<1>4. ASSUME UNCHANGED <<saves, lock>>, GiveUp(t) PROVE WorkInv'
  BY <1>3, <1>4, SettlesAre DEF GiveUp
<1>5. ASSUME UNCHANGED <<saves, lock>>, NEW step, NEW o, SettleTo(t, step, o), step = "mark" => Over(settle[t].op), step # "saving"
      PROVE  WorkInv'
  <2>1. settle'[t].step = step /\ settle'[t].op = settle[t].op /\ \A u \in Task \ {t} : settle'[u] = settle[u]
    BY <1>1, <1>5 DEF SettleTo, SettleRow
  <2> QED BY <1>3, <1>5, <2>1
<1>6. CASE SettleFind(t)
  <2>1. /\ UNCHANGED <<saves, lock>>
        /\ SettleTo(t, IF FoundBy(settle[t].op) = NoOp THEN "mark" ELSE "stop", FoundBy(settle[t].op))
    BY <1>6 DEF SettleFind, boardVars
  <2>2. FoundBy(settle[t].op) = NoOp => Over(settle[t].op)
    BY DEF FoundBy, Seen, Exists, Over, Fresh, Active
  <2> QED BY <1>5, <2>1, <2>2
<1>7. CASE SettleStop(t)
  <2>1. UNCHANGED <<saves, lock>> /\ settle[t].agent # NoOp /\ settle[t].agent = settle[t].op
    BY <1>1, <1>7 DEF SettleStop, Settles, boardVars
  <2>2. Stopped(settle[t].agent) => Over(settle[t].op)
    BY <2>1 DEF Stopped, Seen, Over, Fresh
  <2> QED BY <1>4, <1>5, <1>7, <2>1, <2>2 DEF SettleStop
<1>8. CASE SettleFails(t)
  BY <1>4, <1>8 DEF SettleFails, boardVars
<1>10. CASE Watch(t)
  <2>1. UNCHANGED <<saves, lock>> /\ settle' = SettleFrom(t, task[t])
    BY <1>10 DEF Watch, boardVars
  <2> QED BY <1>3, <2>1, SettlesAre
<1>9. CASE SettleMark(t)
  <2>1. CASE ~(task[t].status = "canceling" /\ task[t].op = settle[t].op)
    BY <1>4, <1>9, <2>1 DEF SettleMark
  <2>2. CASE task[t].status = "canceling" /\ task[t].op = settle[t].op
    <3> DEFINE x == [task[t] EXCEPT !.status = "canceled", !.agent = IF @ = NoOp THEN settle[t].agent ELSE @]
    <3>1. UserSave(t, x, "settle") /\ settle' = [settle EXCEPT ![t].step = "saving"] /\ settle[t].step = "mark"
      BY <1>9, <2>2 DEF SettleMark
    <3>2. x.op = settle[t].op
      BY <1>1, <2>2 DEF Record
    <3> HIDE DEF x
    <3>3. Over(settle[t].op)
      BY <3>1 DEF WorkInv, Settled
    <3>4. settle'[t].op = settle[t].op /\ \A u \in Task \ {t} : settle'[u] = settle[u]
      BY <1>1, <3>1 DEF SettleRow
    <3> QED BY <1>1, <1>2, <3>1, <3>2, <3>3, <3>4, UnderLockWork
  <2> QED BY <2>1, <2>2
<1> QED BY <1>6, <1>7, <1>8, <1>9, <1>10 DEF SettleStep

LEMMA EventWork ==
  ASSUME IInv, SlotInv, WorkInv, Deliver \/ (\E t \in Task : HandlePermission(t))
  PROVE  WorkInv'
<1>1. CASE Deliver
  <2>1. UNCHANGED <<session, task, saves, lock, pc, rounds, settle>> /\ events # <<>> /\ events' = Tail(events)
        /\ turns' \in SUBSET (turns \cup {Head(events)})
    BY <1>1 DEF Deliver, boardVars, runVars, worldVars, countVars
  <2>2. PICK q \in Seq(EventRow) : q = events
    BY DEF IInv, TypesInv, EventTypes
  <2>3. Head(q) = q[1] /\ 1 \in 1..Len(q) /\ \A i \in 1..Len(Tail(q)) : i + 1 \in 1..Len(q) /\ Tail(q)[i] = q[i + 1]
    BY <2>1, <2>2
  <2>4. Hears(Head(events))
    BY <2>2, <2>3 DEF Hears
  <2>5. ASSUME NEW u \in Task, NEW i \in 1..Len(inbox'[u]) PROVE Hears(inbox'[u][i])
    <3>1. inbox'[u] = inbox[u] \/ inbox'[u] = Append(inbox[u], Head(events))
      BY <1>1 DEF Deliver, ToOwner
    <3>2. PICK b \in Seq(EventRow) : b = inbox[u]
      BY DEF IInv, TypesInv, EventTypes
    <3>3. CASE inbox'[u] = inbox[u]
      BY <3>3 DEF Hears
    <3>4. CASE inbox'[u] = Append(inbox[u], Head(events))
      <4>1. Head(events) \in EventRow
        BY <2>4, HearsFacts
      <4>2. inbox'[u][i] = Head(events) \/ (i \in 1..Len(b) /\ inbox'[u][i] = b[i])
        BY <3>2, <3>4, <4>1
      <4> QED BY <2>4, <3>2, <4>2 DEF Hears
    <3> QED BY <3>1, <3>3, <3>4
  <2>6. ASSUME NEW e, Hears(e)' PROVE Hears(e)
    <3>1. CASE \E i \in 1..Len(events') : events'[i] = e
      BY <2>1, <2>2, <2>3, <3>1 DEF Hears
    <3>2. CASE e \in turns'
      BY <2>1, <2>4, <3>2 DEF Hears
    <3> QED BY <2>5, <2>6, <3>1, <3>2 DEF Hears
  <2> QED BY <2>1, <2>6, SameRounds, LocalWork
<1>2. ASSUME NEW t \in Task, HandlePermission(t) PROVE WorkInv'
  <2>1. /\ inbox[t] # <<>> /\ inbox' = [inbox EXCEPT ![t] = Tail(@)]
        /\ UNCHANGED <<session, task, pc, rounds, settle, turns, events>>
        /\ UNCHANGED <<saves, lock>> \/ \E r : UserSave(t, r, "quiet")
    BY <1>2 DEF HandlePermission, runVars, worldVars, countVars
  <2>2. \A e : Hears(e)' => Hears(e)
    BY <2>1, FewerHears
  <2>3. CASE UNCHANGED <<saves, lock>>
    BY <2>1, <2>2, <2>3, SameRounds, LocalWork
  <2>4. ASSUME NEW r, UserSave(t, r, "quiet") PROVE WorkInv'
    BY <2>1, <2>2, <2>4, UnderLockWork
  <2> QED BY <2>1, <2>3, <2>4
<1> QED BY <1>1, <1>2

\* The end of a turn of the task's session: its round may end.
LEMMA TurnIsOver ==
  ASSUME IInv, SlotInv, NEW t \in Task, NEW e \in EventRow, Past(e), e.kind = "ended", task[t].agent = e.agent
  PROVE  Over(task[t].op)
<1>1. e.agent \in Op /\ e.agent # NoOp
  BY BoundAssumption DEF EventRow, Op
<1>2. task[t].op = e.agent
  BY <1>1, PlacedFacts DEF Sound
<1> QED BY <1>2, PastIsOver

LEMMA TurnWork ==
  ASSUME IInv, SlotInv, WorkInv, NEW t \in Task, HandleTurn(t) \/ CaptureDone(t) \/ CaptureFails(t)
  PROVE  WorkInv'
<1> DEFINE r == task[t]
<1>1. /\ UNCHANGED <<session, task, pc, rounds, events>> /\ turns' \in SUBSET turns /\ r \in Record
      /\ UNCHANGED inbox \/ (inbox[t] # <<>> /\ inbox' = [inbox EXCEPT ![t] = Tail(@)])
  <2>1. CASE HandleTurn(t)
    <3>1. turns' = turns \/ turns' = turns \ {Head(inbox[t])}
      BY <2>1 DEF HandleTurn
    <3> QED BY <2>1, <3>1, PlacedFacts DEF HandleTurn, worldVars, countVars
  <2>2. CASE CaptureDone(t) \/ CaptureFails(t)
    BY <2>2, PlacedFacts DEF CaptureDone, CaptureFails, worldVars, countVars
  <2> QED BY <2>1, <2>2
<1>2. \A e : Hears(e)' => Hears(e)
  BY <1>1, FewerHears
<1>3. ASSUME UNCHANGED saves, \A u \in Task : lock'[u] = lock[u] \/ lock'[u].by # "capture" \/ Captures(u)',
             TurnOver(t) \/ UNCHANGED settle
      PROVE  WorkInv'
  <2>1. \A u \in Task : settle'[u] = settle[u] \/ settle'[u].step \notin {"mark", "saving"}
    BY <1>3, SettlesAre DEF TurnOver
  <2> QED BY <1>1, <1>2, <1>3, <2>1, SameRounds, LocalWork
<1>4. ASSUME NEW x, UserSave(t, x, "turn"), UNCHANGED settle, x.op = r.op, Over(r.op) PROVE WorkInv'
  BY <1>1, <1>2, <1>4, UnderLockWork
<1>5. CASE HandleTurn(t)
  <2>1. PICK e : e = Head(inbox[t])
    OBVIOUS
  <2>2. e \in EventRow /\ Past(e) /\ e.kind = "ended"
    BY <1>5, <2>1, HeadHears DEF HandleTurn, WorkInv
  <2>3. CASE (r.agent # e.agent \/ r.op = NoOp) \/ Passed(t, e)
    BY <1>3, <1>5, <2>1, <2>3 DEF HandleTurn
  <2>4. CASE ~(r.agent # e.agent \/ r.op = NoOp) /\ ~Passed(t, e)
    <3>1. r.agent = e.agent /\ Over(r.op)
      BY <2>2, <2>4, TurnIsOver
    <3>2. \/ \E s : UserSave(t, Ended(r, e, s), "turn") /\ UNCHANGED settle
          \/ \E s : UserSave(t, [Ended(r, e, s) EXCEPT !.review = NoReview], "turn") /\ UNCHANGED settle
          \/ /\ lock' = [lock EXCEPT ![t] = [by |-> "capture", op |-> r.op, event |-> <<e>>]]
             /\ UNCHANGED <<saves, settle>>
      BY <1>5, <2>1, <2>4 DEF HandleTurn
    <3>3. ASSUME NEW s, UNCHANGED settle,
                 UserSave(t, Ended(r, e, s), "turn") \/ UserSave(t, [Ended(r, e, s) EXCEPT !.review = NoReview], "turn")
          PROVE  WorkInv'
      <4> DEFINE x == Ended(r, e, s)
                 y == [Ended(r, e, s) EXCEPT !.review = NoReview]
      <4>1. x.op = r.op /\ y.op = r.op
        BY <1>1, EndedIs
      <4>2. UserSave(t, x, "turn") \/ UserSave(t, y, "turn")
        BY <3>3
      <4> HIDE DEF x, y, r
      <4> QED BY <1>4, <3>1, <3>3, <4>1, <4>2
    <3>4. CASE lock' = [lock EXCEPT ![t] = [by |-> "capture", op |-> r.op, event |-> <<e>>]] /\ UNCHANGED <<saves, settle>>
      <4>1. lock'[t].event[1] = e /\ \A u \in Task \ {t} : lock'[u] = lock[u]
        BY <3>4 DEF IInv, TypesInv, BoardTypes
      <4>2. Past(e)'
        BY <1>1, <2>2 DEF Past
      <4>3. Captures(t)'
        BY <1>1, <2>2, <3>1, <4>1, <4>2 DEF Captures
      <4> QED BY <1>3, <3>4, <4>1, <4>3
    <3> QED BY <3>2, <3>3, <3>4
  <2> QED BY <2>3, <2>4
<1>6. CASE CaptureDone(t) \/ CaptureFails(t)
  <2>1. PICK e : e = lock[t].event[1]
    OBVIOUS
  <2>2. lock[t].by = "capture"
    BY <1>6 DEF CaptureDone, CaptureFails
  <2>3. e \in EventRow /\ Past(e) /\ e.kind = "ended" /\ r.agent = e.agent
    BY <2>1, <2>2, EventFacts DEF WorkInv, Captures, IInv
  <2>4. Over(r.op)
    BY <2>3, TurnIsOver
  <2>5. \/ (UserSave(t, Reviewed(r, e), "turn") \/ UserSave(t, Ended(r, e, "needs_check"), "turn")) /\ UNCHANGED settle
        \/ lock' = Unlock(t) /\ TurnOver(t) /\ UNCHANGED saves
    BY <1>6, <2>1 DEF CaptureDone, CaptureFails, UserSave
  <2>6. CASE lock' = Unlock(t) /\ TurnOver(t) /\ UNCHANGED saves
    BY <1>3, <2>6, LocksAre
  <2>7. Reviewed(r, e).op = r.op /\ Ended(r, e, "needs_check").op = r.op
    BY <1>1, EndedIs
  <2> QED BY <1>4, <2>4, <2>5, <2>6, <2>7
<1> QED BY <1>5, <1>6

LEMMA JobWork ==
  ASSUME IInv, SlotInv, WorkInv, NEW t \in Task, Job(t) \/ JobFault(t)
  PROVE  WorkInv'
<1>1. pc \in [Task -> JobRow] /\ task[t] \in Record
  BY PlacedFacts DEF IInv, TypesInv, RunTypes
<1>2. UNCHANGED <<session, task, events, turns, inbox>>
  BY DEF Job, JobFault, Begin, EnsureDone, CreateReturns, FailDispatch, EnsureFails, CreateFails, SearchFails,
     boardVars, eventVars, worldVars
<1>3. \A e : Hears(e)' => Hears(e)
  BY <1>2, SameHears
<1>4. CASE Begin(t)
  <2>1. pc[t].at = "off" /\ UNCHANGED settle
    BY <1>4 DEF Begin, NoRun
  <2>2. CASE MayBegin(t)
    <3>1. PICK o, x : o = Len(rounds) + 1 /\ x = Begun(task[t], o)
      OBVIOUS
    <3>2. rounds' = Append(rounds, t) /\ saves' = Append(saves, Save(t, x, "begin")) /\ lock' = Holds(t, "begin")
          /\ pc' = [pc EXCEPT ![t] = [at |-> "begin", op |-> o]]
      BY <1>4, <2>2, <3>1 DEF Begin
    <3>3. RoundsGrow
      <4>1. rounds \in Seq(Task)
        BY DEF IInv, TypesInv, RunTypes
      <4> QED BY <3>2, <4>1 DEF RoundsGrow
    <3>4. \A u \in Task : pc'[u] = pc[u] \/ pc[u].at = "off"
      BY <1>1, <2>1, <3>2
    <3>5. \A u \in Task : lock'[u] = lock[u] \/ lock'[u].by # "capture"
      BY <3>2, LocksAre
    <3> QED BY <1>2, <1>3, <2>1, <3>2, <3>3, <3>4, <3>5, LocalWork
  <2>3. CASE ~MayBegin(t)
    <3>1. UNCHANGED <<rounds, saves, lock, pc>>
      BY <1>4, <2>3 DEF Begin
    <3> QED BY <1>2, <1>3, <2>1, <3>1, SameRounds, LocalWork
  <2> QED BY <2>2, <2>3
<1>5. ASSUME UNCHANGED rounds, \A u \in Task : pc'[u] = pc[u] \/ pc'[u].at \notin {"off", "begin"},
             lock' = lock \/ lock' = Holds(t, "fail"), settle' = settle \/ settle' = SettleIfCanceling(t, task),
             \/ UNCHANGED saves
             \/ \E r, by : saves' = Append(saves, Save(t, r, by)) /\ (by \in {"fail", "settle", "turn"} => Over(r.op))
      PROVE  WorkInv'
  <2>1. \A u \in Task : lock'[u] = lock[u] \/ lock'[u].by # "capture"
    BY <1>5, LocksAre
  <2>2. \A u \in Task : settle'[u] = settle[u] \/ settle'[u].step \notin {"mark", "saving"}
    BY <1>5, SettlesAre
  <2> QED BY <1>2, <1>3, <1>5, <2>1, <2>2, SameRounds, LocalWork
<1>6. ASSUME NEW at \in {"hold", "failing"}, Finally(t, at, task), UNCHANGED <<rounds, lock, saves>> PROVE WorkInv'
  <2>1. \A u \in Task : pc'[u] = pc[u] \/ pc'[u].at \notin {"off", "begin"}
    BY <1>1, <1>6 DEF Finally, JobRow
  <2>2. settle' = settle \/ settle' = SettleIfCanceling(t, task)
    BY <1>6 DEF Finally
  <2> QED BY <1>5, <1>6, <2>1, <2>2
<1>7. CASE EnsureDone(t)
  <2>1. UNCHANGED <<rounds, lock>>
    BY <1>7 DEF EnsureDone, countVars
  <2>2. CASE StillPreparing(t)
    <3>1. (\E r : saves' = Append(saves, Save(t, r, "locate"))) /\ pc' = [pc EXCEPT ![t].at = "locate"] /\ UNCHANGED settle
      BY <1>7, <2>2 DEF EnsureDone
    <3>2. \A u \in Task : pc'[u] = pc[u] \/ pc'[u].at \notin {"off", "begin"}
      BY <1>1, <3>1 DEF JobRow
    <3> QED BY <1>5, <2>1, <3>1, <3>2
  <2>3. CASE ~StillPreparing(t)
    BY <1>6, <1>7, <2>1, <2>3 DEF EnsureDone
  <2> QED BY <2>2, <2>3
<1>8. CASE CreateReturns(t)
  <2>1. UNCHANGED <<rounds, lock>>
    BY <1>8 DEF CreateReturns, countVars
  <2>2. \/ (\E r : saves' = Append(saves, Save(t, r, "link"))) /\ pc' = [pc EXCEPT ![t].at = "link"] /\ UNCHANGED settle
        \/ Finally(t, "hold", task) /\ UNCHANGED saves
    BY <1>8 DEF CreateReturns
  <2>3. ASSUME \E r : saves' = Append(saves, Save(t, r, "link")), pc' = [pc EXCEPT ![t].at = "link"], UNCHANGED settle
        PROVE  WorkInv'
    <3>1. \A u \in Task : pc'[u] = pc[u] \/ pc'[u].at \notin {"off", "begin"}
      BY <1>1, <2>3 DEF JobRow
    <3> QED BY <1>5, <2>1, <2>3, <3>1
  <2> QED BY <1>6, <2>1, <2>2, <2>3
<1>9. CASE EnsureFails(t) \/ CreateFails(t)
  BY <1>6, <1>9 DEF EnsureFails, CreateFails, boardVars
<1>10. CASE SearchFails(t)
  <2>1. UNCHANGED <<rounds, lock, saves, settle>> /\ pc' = [pc EXCEPT ![t].at = "hold"]
    BY <1>10 DEF SearchFails, boardVars
  <2>2. \A u \in Task : pc'[u] = pc[u] \/ pc'[u].at \notin {"off", "begin"}
    BY <1>1, <2>1 DEF JobRow
  <2> QED BY <1>5, <2>1, <2>2
<1>11. CASE FailDispatch(t)
  <2>1. /\ UNCHANGED <<rounds, settle>> /\ (lock' = lock \/ lock' = Holds(t, "fail"))
        /\ pc' = [pc EXCEPT ![t].at = "hold"] \/ pc' = [pc EXCEPT ![t].at = "fail"]
    BY <1>11 DEF FailDispatch, countVars
  <2>2. \A u \in Task : pc'[u] = pc[u] \/ pc'[u].at \notin {"off", "begin"}
    BY <1>1, <2>1 DEF JobRow
  <2>3. CASE ~Exec(t)
    BY <1>5, <1>11, <2>1, <2>2, <2>3 DEF FailDispatch
  <2>4. CASE Exec(t) /\ FoundBy(task[t].op) # NoOp
    <3>1. \E r : saves' = Append(saves, Save(t, r, "found"))
      BY <1>11, <2>4 DEF FailDispatch
    <3> QED BY <1>5, <2>1, <2>2, <3>1
  <2>5. CASE Exec(t) /\ FoundBy(task[t].op) = NoOp
    <3> DEFINE x == [task[t] EXCEPT !.status = "failed"]
    <3>1. saves' = Append(saves, Save(t, x, "fail"))
      BY <1>11, <2>5 DEF FailDispatch
    <3>2. x.op = task[t].op
      BY <1>1 DEF Record
    <3>3. Over(task[t].op)
      BY <2>5 DEF FoundBy, Seen, Exists, Over, Fresh, Active
    <3> HIDE DEF x
    <3> QED BY <1>5, <2>1, <2>2, <3>1, <3>2, <3>3
  <2> QED BY <2>3, <2>4, <2>5
<1> QED BY <1>4, <1>7, <1>8, <1>9, <1>10, <1>11 DEF Job, JobFault

LEMMA EndWork ==
  ASSUME IInv, SlotInv, WorkInv, NEW r \in Repo, JobEnds(r)
  PROVE  WorkInv'
<1>1. UNCHANGED <<session, task, saves, lock, rounds, settle, events, turns, inbox>> /\ pc \in [Task -> JobRow]
  BY DEF JobEnds, boardVars, eventVars, worldVars, countVars, IInv, TypesInv, RunTypes
<1>2. \A u \in Task : pc'[u] = pc[u] \/ ~Exec(u)
  BY <1>1 DEF JobEnds
<1> QED BY <1>1, <1>2, SameHears, SameRounds, LocalWork

\* A replay tells of no end of a turn that was not told before.
LEMMA ReplayHears ==
  ASSUME IInv, NEW t \in Task, NEW o \in Op, inbox' \in Replayed(t, o), UNCHANGED <<events, turns>>,
         NEW e, Hears(e)', e.kind = "ended"
  PROVE  Hears(e)
<1> DEFINE S == TurnsOf(o)
           ask == IF known[o].ask THEN <<Event("ask", o, 0, "none")>> ELSE <<>>
<1>1. inbox \in [Task -> Seq(EventRow)] /\ turns \in SUBSET EventRow /\ IsFiniteSet(turns)
  BY DEF IInv, TypesInv, EventTypes
<1>2. S \subseteq turns /\ S \subseteq EventRow /\ Cardinality(S) \in Nat
  BY <1>1, FS_Subset, FS_CardinalityType DEF TurnsOf
<1>3. PICK q \in InOrder(S) : inbox' = [inbox EXCEPT ![t] = @ \o ask \o q]
  BY DEF Replayed
<1>4. q \in Seq(S)
  <2> DEFINE n == Cardinality(S)
  <2>1. n \in Nat /\ q \in [1..n -> S]
    BY <1>2 DEF InOrder
  <2> HIDE DEF n, S
  <2> QED BY <2>1
<1>5. ask \in Seq(EventRow) /\ \A i \in 1..Len(ask) : ask[i].kind # "ended"
  <2>1. Event("ask", o, 0, "none") \in EventRow /\ Event("ask", o, 0, "none").kind = "ask"
    BY BoundAssumption DEF Event, EventRow
  <2> QED BY <2>1
<1>6. ASSUME NEW u \in Task, NEW i \in 1..Len(inbox'[u]), inbox'[u][i] = e PROVE Hears(e)
  <2>1. PICK b \in Seq(EventRow) : b = inbox[u]
    BY <1>1
  <2>2. CASE inbox'[u] = b
    BY <1>6, <2>1, <2>2 DEF Hears
  <2>3. CASE inbox'[u] = b \o ask \o q
    <3>1. q \in Seq(EventRow) /\ \A j \in 1..Len(q) : q[j] \in S
      BY <1>2, <1>4
    <3> HIDE DEF ask, S
    <3>2. PICK c \in Seq(EventRow) : c = b \o ask
      <4>1. b \o ask \in Seq(EventRow)
        BY <1>5, <2>1
      <4> QED BY <4>1
    <3>3. (\E j \in 1..Len(c) : c[j] = e) \/ \E j \in 1..Len(q) : q[j] = e
      <4>1. i \in 1..Len(c \o q) /\ (c \o q)[i] = e
        BY <1>6, <2>3, <3>2
      <4> QED BY <3>1, <3>2, <4>1
    <3>4. ASSUME NEW j \in 1..Len(c), c[j] = e PROVE \E k \in 1..Len(b) : b[k] = e
      <4>1. j \in 1..Len(b \o ask) /\ (b \o ask)[j] = e
        BY <3>2, <3>4
      <4>2. (\E k \in 1..Len(b) : b[k] = e) \/ \E k \in 1..Len(ask) : ask[k] = e
        BY <1>5, <2>1, <4>1
      <4> QED BY <1>5, <4>2
    <3> QED BY <1>2, <2>1, <3>1, <3>3, <3>4 DEF Hears
  <2>4. inbox'[u] = b \/ inbox'[u] = b \o ask \o q
    BY <1>1, <1>3, <2>1
  <2> QED BY <2>2, <2>3, <2>4
<1> QED BY <1>6 DEF Hears

LEMMA LandsWork ==
  ASSUME IInv, SlotInv, WorkInv, Land, MaxCrashes = 0
  PROVE  WorkInv'
<1>1. PICK t, s : s = Head(saves) /\ t = s.task
  OBVIOUS
<1>2. /\ saves # <<>> /\ saves' = Tail(saves) /\ task' = Memory
      /\ UNCHANGED <<session, rounds, events, turns>>
  BY LandMoves
<1>3. /\ t \in Task /\ pc \in [Task -> JobRow] /\ settle \in [Task -> SettleRow]
      /\ s.by \in JobKinds => pc[t].at = SavePlace(s.by)
  BY <1>1, <1>2, LandFacts DEF IInv, TypesInv, RunTypes
<1>4. ~LandRecover
  BY NoRecovers
<1>5. \A u \in Task : lock'[u] = lock[u] \/ lock'[u].by # "capture"
  <2>1. lock' = lock \/ lock' = Unlock(t)
    BY <1>1, <1>4 DEF Land, LandUser, LandQuiet, LandCancel, LandTurn, LandSettle, LandBegin, LandLocate, LandLink, LandFail
  <2> QED BY <1>3, <2>1, LocksAre
<1>6. \A u \in Task : settle'[u] = settle[u] \/ settle'[u].step \notin {"mark", "saving"}
  <2>1. \/ settle' = settle \/ settle' = SettleFrom(t, s.rec)
        \/ settle' = SettleIfCanceling(t, Memory) \/ settle' = [settle EXCEPT ![t] = Off]
    BY <1>1, <1>4 DEF Land, LandUser, LandQuiet, LandCancel, LandTurn, LandSettle, LandBegin, LandLocate, LandLink, LandFail,
       Finally, runVars
  <2> QED BY <1>3, <2>1, SettlesAre
<1>7. \A u \in Task : pc'[u] = pc[u] \/ pc'[u].at \notin {"off", "begin"}
  <2>1. \/ pc' = pc \/ pc' = [pc EXCEPT ![t] = [at |-> "ensure", op |-> s.rec.op]]
        \/ pc' = [pc EXCEPT ![t].at = "create"] \/ pc' = [pc EXCEPT ![t].at = "hold"]
    BY <1>1, <1>4 DEF Land, LandUser, LandQuiet, LandCancel, LandTurn, LandSettle, LandBegin, LandLocate, LandLink, LandFail,
       Finally, runVars
  <2> QED BY <1>3, <2>1 DEF JobRow
<1>8. ASSUME NEW e, Hears(e)', e.kind = "ended" PROVE Hears(e)
  <2>1. CASE UNCHANGED inbox
    BY <1>2, <1>8, <2>1, SameHears
  <2>2. CASE LandLink
    <3>1. s.by = "link" /\ (inbox' = inbox \/ inbox' \in Replayed(t, pc[t].op))
      BY <1>1, <2>2 DEF LandLink, Lands
    <3>2. pc[t].op \in Op
      BY <1>3, <3>1, PlacedFacts DEF JobKinds, SavePlace
    <3> QED BY <1>2, <1>3, <1>8, <2>1, <3>1, <3>2, ReplayHears
  <2>3. CASE LandFail
    <3>1. inbox' = inbox \/ (s.by = "found" /\ inbox' \in Replayed(t, s.rec.agent))
      BY <1>1, <2>3 DEF LandFail, Lands
    <3>2. s.by = "found" => s.rec.agent \in Op
      <4>1. Pending(s)
        BY <1>1, <1>2, TailPends
      <4> QED BY <4>1 DEF Pending, IInv, SavesInv, Waiting
    <3> QED BY <1>2, <1>3, <1>8, <2>1, <3>1, <3>2, ReplayHears
  <2> QED BY <1>4, <2>1, <2>2, <2>3 DEF Land, LandUser, LandQuiet, LandCancel, LandTurn, LandSettle, LandBegin, LandLocate, eventVars
<1> QED BY <1>2, <1>5, <1>6, <1>7, <1>8, LandWork

\* The daemon's steps: a session whose first turn begins is that of the round at work.
LEMMA DaemonWork ==
  ASSUME IInv, SlotInv, WorkInv, NEW o \in Op, Daemon(o)
  PROVE  WorkInv'
<1>1. session \in [Op -> SessionRow] /\ session[o].turn \in Nat /\ (session[o].state = "none" <=> session[o].turn = 0)
  BY SessionFacts DEF WorkInv, IInv, TypesInv, RunTypes
<1>2. ASSUME NEW to \in Looks, NEW n \in 0..MaxTurns, NEW e,
             session' = [session EXCEPT ![o] = [state |-> to, turn |-> n]], events' = Append(events, e),
             UNCHANGED <<task, saves, lock, inbox, turns, pc, settle, rounds>>,
             n >= session[o].turn, n = session[o].turn /\ Active(to) => Active(session[o].state), to = "none" <=> n = 0,
             Active(to) /\ n = 1 => Fresh(o) \/ (Runs(o) /\ pc[rounds[o]] = [at |-> "create", op |-> o]),
             e.kind = "ended" => e.agent = o /\ e.turn = n /\ e.turn >= 1 /\ ~Active(to)
      PROVE  WorkInv'
  <2>1. session'[o].state = to /\ session'[o].turn = n /\ \A p \in Op \ {o} : session'[p] = session[p]
    BY <1>1, <1>2
  <2>2. session' \in [Op -> SessionRow]
    <3>1. [state |-> to, turn |-> n] \in SessionRow
      BY DEF SessionRow
    <3> QED BY <1>1, <1>2, <3>1
  <2>3. ASSUME NEW p \in Op
        PROVE  /\ session'[p].turn >= session[p].turn
               /\ session'[p].turn = session[p].turn /\ Active(session'[p].state) => Active(session[p].state)
               /\ session'[p].state = "none" <=> session'[p].turn = 0
               /\ Fresh(p)' => Fresh(p) \/ (Runs(p) /\ pc[rounds[p]] = [at |-> "create", op |-> p])
    <3>1. session[p].turn \in Nat /\ (session[p].state = "none" <=> session[p].turn = 0)
      BY SessionFacts DEF WorkInv
    <3>2. CASE p = o
      BY <1>2, <2>1, <3>2 DEF Fresh
    <3>3. CASE p # o
      BY <2>1, <3>1, <3>3 DEF Fresh
    <3> QED BY <3>2, <3>3
  <2>4. ASSUME NEW x, Hears(x)' PROVE Hears(x) \/ Past(x)'
    <3>1. x = e \/ Hears(x)
      <4>1. PICK q : q = events /\ q \in Seq(EventRow)
        BY DEF IInv, TypesInv, EventTypes
      <4>2. \A i \in 1..Len(events') : events'[i] = e \/ (i \in 1..Len(q) /\ events'[i] = q[i])
        <5> DEFINE T == EventRow \cup {e}
        <5>1. q \in Seq(T) /\ e \in T
          BY <4>1
        <5> HIDE DEF T
        <5> QED BY <1>2, <4>1, <5>1
      <4> QED BY <1>2, <2>4, <4>1, <4>2 DEF Hears
    <3>2. Past(e)'
      BY <1>2, <2>1 DEF Past
    <3> QED BY <3>1, <3>2
  <2> QED BY <1>2, <2>2, <2>3, <2>4, SessionWork
<1>3. ASSUME NEW from, NEW to, NEW n, NEW e, Session(o, from, to, n), Tells(e)
      PROVE  /\ session[o].state = from /\ session' = [session EXCEPT ![o] = [state |-> to, turn |-> n]]
             /\ events' = Append(events, e)
             /\ UNCHANGED <<task, saves, lock, inbox, turns, pc, settle, rounds>>
  BY <1>3 DEF Session, Tells, boardVars, runVars, countVars
<1>4. session[o].turn \in 0..MaxTurns /\ {"busy", "permission", "idle"} \subseteq Looks
  BY <1>1 DEF SessionRow, Looks
<1>5. CASE Open(o)
  <2>1. PICK t \in Task : pc[t] = [at |-> "create", op |-> o]
    BY <1>5 DEF Open
  <2>2. InPrepare(t) /\ Dispatched(t) /\ Rides(t) /\ pc[t].op = o /\ pc[t].at = "create"
    BY <2>1, PlacedFacts DEF InPrepare
  <2>3. Runs(o) /\ rounds[o] = t
    <3>1. o # NoOp
      BY BoundAssumption DEF Op
    <3>2. o \in 1..Len(rounds) /\ rounds[o] = t
      BY <2>2, <3>1 DEF Rides, Owns
    <3>3. task[t].op = o /\ Exec(t)
      BY <2>2 DEF Dispatched, Dispatches, Exec, IsExecution
    <3> QED BY <2>2, <3>2, <3>3 DEF Runs
  <2>4. PICK e : e = Event("started", o, 1, "none")
    OBVIOUS
  <2>5. e.kind # "ended" /\ Session(o, "none", "busy", 1) /\ Tells(e) /\ 1 \in 0..MaxTurns
    BY <1>5, <2>4, BoundAssumption DEF Open, Event
  <2>6. session[o].turn = 0
    BY <1>1, <2>5 DEF Session
  <2> QED BY <1>2, <1>3, <1>4, <2>1, <2>3, <2>5, <2>6
<1>6. CASE EndTurn(o)
  <2>1. PICK k, e : e = Event("ended", o, session[o].turn, k) /\ Tells(e)
    BY <1>6 DEF EndTurn
  <2>2. e.kind = "ended" /\ e.agent = o /\ e.turn = session[o].turn /\ Session(o, "busy", "idle", session[o].turn)
    BY <1>6, <2>1 DEF EndTurn, Event
  <2>3. session[o].turn >= 1 /\ ~Active("idle")
    BY <1>1, <2>2 DEF Session, Active
  <2> QED BY <1>1, <1>2, <1>3, <1>4, <2>1, <2>2, <2>3
<1>7. CASE Chat(o)
  <2>1. PICK e : e = Event("started", o, session[o].turn + 1, "none")
    OBVIOUS
  <2>2. e.kind # "ended" /\ Session(o, "idle", "busy", session[o].turn + 1) /\ Tells(e) /\ session[o].turn < MaxTurns
    BY <1>7, <2>1 DEF Chat, Event
  <2>3. session[o].turn >= 1 /\ session[o].turn + 1 \in 0..MaxTurns
    BY <1>1, <2>2, BoundAssumption DEF Session
  <2> QED BY <1>1, <1>2, <1>3, <1>4, <2>2, <2>3
<1>8. CASE AskPermission(o) \/ AnswerPermission(o)
  <2>0. PICK from \in {"busy", "permission"}, to \in {"busy", "permission"}, k \in {"ask", "answer"} :
          Session(o, from, to, session[o].turn) /\ Tells(Event(k, o, 0, "none"))
    BY <1>8 DEF AskPermission, AnswerPermission
  <2>1. PICK e : e = Event(k, o, 0, "none") /\ Session(o, from, to, session[o].turn) /\ Tells(e)
    BY <2>0
  <2>2. e.kind # "ended"
    BY <2>1 DEF Event
  <2>3. session[o].state = from
    BY <2>1 DEF Session
  <2>4. Active(from) /\ to # "none" /\ session[o].turn # 0 /\ (session[o].turn = 1 => Fresh(o))
    BY <1>1, <2>1, <2>3 DEF Active, Fresh
  <2> QED BY <1>1, <1>2, <1>3, <1>4, <2>1, <2>2, <2>3, <2>4
<1> QED BY <1>5, <1>6, <1>7, <1>8 DEF Daemon

LEMMA WorkInductive ==
  ASSUME MaxCrashes = 0, IInv, SlotInv, WorkInv, [Next]_vars
  PROVE  WorkInv'
<1>1. CASE Plugin
  <2>1. CASE Land
    BY <2>1, LandsWork
  <2>2. CASE Deliver
    BY <2>2, EventWork
  <2>3. ASSUME NEW t \in Task, Job(t) \/ JobFault(t) PROVE WorkInv'
    BY <2>3, JobWork
  <2>4. ASSUME NEW t \in Task, User(t) PROVE WorkInv'
    BY <2>4, UserWork
  <2>5. ASSUME NEW t \in Task, SettleStep(t) \/ SettleFails(t) PROVE WorkInv'
    BY <2>5, SettleWork
  <2>6. ASSUME NEW t \in Task, Handle(t) \/ CaptureFails(t) PROVE WorkInv'
    BY <2>6, EventWork, TurnWork DEF Handle
  <2>7. ASSUME NEW r \in Repo, JobEnds(r) PROVE WorkInv'
    BY <2>7, EndWork
  <2> QED BY <1>1, <2>1, <2>2, <2>3, <2>4, <2>5, <2>6, <2>7 DEF Plugin
<1>2. CASE \E o \in Op : Daemon(o)
  BY <1>2, DaemonWork
<1>3. CASE UNCHANGED vars
  <2>1. UNCHANGED <<session, task, saves, lock, inbox, turns, events, pc, settle, rounds>>
    BY <1>3 DEF vars, boardVars, eventVars, runVars, worldVars, countVars
  <2> QED BY <2>1, SameHears, SameRounds, LocalWork
<1> QED BY <1>1, <1>2, <1>3, NoRecovers DEF Next

LEMMA InitWork == Init => WorkInv
<1> SUFFICES ASSUME Init PROVE WorkInv
  OBVIOUS
<1>1. \A o \in Op : session[o].state = "none" /\ session[o].turn = 0
  BY DEF Init, NoSession
<1>2. \A t \in Task : inbox[t] = <<>> /\ lock[t].by = "free" /\ settle[t].step = "off"
  BY DEF Init, Free, Off
<1>3. events = <<>> /\ turns = {} /\ saves = <<>>
  BY DEF Init
<1> QED BY <1>1, <1>2, <1>3 DEF WorkInv, Fresh, Active, Hears, Captures, Settled, Pending

\* Nothing the queue started goes on behind its back: for any tasks and users
\* and any number of faults, as long as the plugin lives, a session at work in
\* the turn the queue started belongs to a task in execution, and is the one of
\* that task's round (engine.ts:884, engine.ts:1245).
THEOREM QueueNoOrphan == ASSUME MaxCrashes = 0 PROVE Spec => []NoOrphan
<1>1. Init => SlotInv /\ WorkInv
  BY InitSlot, InitWork
<1>2. IInv /\ SlotInv /\ WorkInv /\ [Next]_vars => SlotInv' /\ WorkInv'
  BY SlotInductive, WorkInductive
<1>3. WorkInv => NoOrphan
  BY DEF WorkInv, NoOrphan, Fresh, Runs
<1> QED BY <1>1, <1>2, <1>3, QueueInvariant, PTL DEF Spec

\* One session per repository is at work in the turn that the queue started,
\* which no lock of the plugin says: the tasks of two have both a job that is
\* the head of the same chain.
THEOREM QueueOneSessionAtWork == ASSUME MaxCrashes = 0 PROVE Spec => []OneSessionAtWork
<1>1. Init => SlotInv /\ WorkInv
  BY InitSlot, InitWork
<1>2. IInv /\ SlotInv /\ WorkInv /\ [Next]_vars => SlotInv' /\ WorkInv'
  BY SlotInductive, WorkInductive
<1>3. ASSUME IInv, SlotInv, WorkInv PROVE OneSessionAtWork
  <2>1. ASSUME NEW o \in Op, NEW p \in Op, Fresh(o), Fresh(p), SameRepo(rounds[o], rounds[p]) PROVE o = p
    <3>1. Runs(o) /\ Runs(p) /\ rounds \in Seq(Task)
      BY <1>3, <2>1 DEF WorkInv, IInv, TypesInv, RunTypes
    <3>2. PICK t \in Task, u \in Task : t = rounds[o] /\ u = rounds[p]
      BY <3>1 DEF Runs
    <3>3. pc[t].at # "off" /\ HasTurn(u) /\ SameRepo(t, u)
      BY <1>3, <2>1, <3>1, <3>2, PlacedFacts DEF Runs, Rides
    <3>4. t = u
      BY <1>3, <3>2, <3>3, OneJob
    <3> QED BY <3>1, <3>2, <3>4 DEF Runs
  <2> QED BY <2>1 DEF OneSessionAtWork, Fresh
<1> QED BY <1>1, <1>2, <1>3, QueueInvariant, PTL DEF Spec

-----------------------------------------------------------------------------
(* A review is of the round on record: what a record says of its session    *)

\* A record with a review, as the sessions are now: the review is of the record's
\* operation and session, taken in its worktree, and of a turn that is over.
Current(r) ==
    r.status = "awaiting_review" \/ r.review # NoReview =>
        /\ r.op \in Op /\ r.review.op = r.op /\ r.agent = r.op /\ r.wt
        /\ r.review.turn \in 1..session[r.op].turn
        /\ session[r.op].turn = r.review.turn => ~Active(session[r.op].state)

\* A capture has a worktree: nothing changes the record while it holds the lock.
ReviewInv ==
    /\ \A t \in Task : Current(task[t]) /\ (lock[t].by = "capture" => task[t].wt)
    /\ \A s : Pending(s) => Current(s.rec)

\* Turns follow one another, and a turn that is over does not go on again.
SessionsGoOn ==
    \A o \in Op : /\ session'[o].turn >= session[o].turn
                  /\ session'[o].turn = session[o].turn /\ Active(session'[o].state) => Active(session[o].state)

\* A save lands, or is asked for with a record that is current.
LEMMA ReviewKeeps ==
  ASSUME IInv, IInv', ReviewInv, SessionsGoOn,
         \A t \in Task : \/ task'[t] = task[t] /\ (lock'[t].by = "capture" => lock'[t] = lock[t] \/ task[t].wt)
                         \/ \E s : Pending(s) /\ task'[t] = s.rec /\ lock'[t].by # "capture",
         \A s : Pending(s)' => Pending(s) \/ Current(s.rec)
  PROVE  ReviewInv'
<1>1. ASSUME NEW r, Current(r) PROVE Current(r)'
  <2>1. SUFFICES ASSUME r.status = "awaiting_review" \/ r.review # NoReview
                 PROVE  /\ r.op \in Op /\ r.review.op = r.op /\ r.agent = r.op /\ r.wt
                        /\ r.review.turn \in 1..session'[r.op].turn
                        /\ session'[r.op].turn = r.review.turn => ~Active(session'[r.op].state)
    BY DEF Current
  <2>2. PICK o \in Op, n \in 1..session[r.op].turn : o = r.op /\ n = r.review.turn
    BY <1>1, <2>1 DEF Current
  <2>3. /\ r.review.op = r.op /\ r.agent = r.op /\ r.wt
        /\ n \in 1..session[o].turn /\ (session[o].turn = n => ~Active(session[o].state))
    BY <1>1, <2>1, <2>2 DEF Current
  <2>4. session[o].turn \in Nat /\ session'[o].turn \in Nat
    <3>1. session' \in [Op -> SessionRow]
      BY DEF IInv, TypesInv, RunTypes
    <3> QED BY <3>1, SessionFacts, BoundAssumption DEF SessionRow
  <2>5. session'[o].turn >= session[o].turn /\ (session'[o].turn = session[o].turn /\ Active(session'[o].state) => Active(session[o].state))
    BY DEF SessionsGoOn
  <2> QED BY <2>2, <2>3, <2>4, <2>5
<1>2. ASSUME NEW t \in Task PROVE Current(task[t])' /\ (lock'[t].by = "capture" => task'[t].wt)
  <2>1. PICK r : r = task'[t]
    OBVIOUS
  <2>2. Current(r) /\ (lock'[t].by = "capture" => r.wt)
    BY <2>1 DEF ReviewInv
  <2>3. Current(r)'
    BY <1>1, <2>2
  <2> QED BY <2>1, <2>2, <2>3 DEF Current
<1>3. ASSUME NEW s, Pending(s)' PROVE Current(s.rec)'
  <2>1. PICK r : r = s.rec
    OBVIOUS
  <2>2. Current(r)
    BY <1>3, <2>1 DEF ReviewInv
  <2> QED BY <1>1, <2>1, <2>2
<1> QED BY <1>2, <1>3 DEF ReviewInv

\* A record that has lost its review, and one that keeps it.
LEMMA Edited ==
  ASSUME NEW r, Current(r), NEW x
  PROVE  /\ x.review = NoReview /\ x.status # "awaiting_review" => Current(x)
         /\ /\ x.op = r.op /\ x.review = r.review /\ x.wt = r.wt
            /\ r.agent # NoOp => x.agent = r.agent
            /\ x.status = "awaiting_review" => r.status = "awaiting_review"
            => Current(x)
BY BoundAssumption DEF Current, Op

LEMMA LocksStay ==
  ASSUME IInv, NEW t \in Task, NEW by, by # "capture", lock' = lock \/ lock' = Holds(t, by) \/ lock' = Unlock(t), NEW u \in Task
  PROVE  lock'[u].by = "capture" => lock'[u] = lock[u]
BY LocksAre

\* A handler that asks for one save at most.
LEMMA AsksReview ==
  ASSUME IInv, IInv', ReviewInv, SessionsGoOn, UNCHANGED task, NEW t \in Task,
         NEW kind, kind # "capture", lock' = lock \/ lock' = Holds(t, kind) \/ lock' = Unlock(t),
         UNCHANGED saves \/ \E x, by : saves' = Append(saves, Save(t, x, by)) /\ Current(x)
  PROVE  ReviewInv'
<1>1. \A u \in Task : lock'[u].by = "capture" => lock'[u] = lock[u]
  BY LocksStay
<1>2. ASSUME NEW s, Pending(s)' PROVE Pending(s) \/ Current(s.rec)
  <2>1. CASE UNCHANGED saves
    BY <1>2, <2>1 DEF Pending
  <2>2. ASSUME NEW x, NEW by, saves' = Append(saves, Save(t, x, by)), Current(x) PROVE Pending(s) \/ Current(s.rec)
    <3>1. s = Save(t, x, by) \/ Pending(s)
      BY <1>2, <2>2, AppendPends
    <3>2. Save(t, x, by).rec = x
      BY DEF Save
    <3> QED BY <2>2, <3>1, <3>2
  <2> QED BY <2>1, <2>2
<1> QED BY <1>1, <1>2, ReviewKeeps

LEMMA StandStill == ASSUME IInv, UNCHANGED session PROVE SessionsGoOn
<1>1. \A o \in Op : session[o].turn \in Nat
  BY SessionFacts
<1> QED BY <1>1 DEF SessionsGoOn

\* archiveTask() closes sessions, and starts no turn.
LEMMA ArchiveGoesOn ==
  ASSUME IInv, NEW t \in Task, Archives(t)
  PROVE  SessionsGoOn
<1>1. ASSUME NEW o \in Op
      PROVE  session'[o].turn >= session[o].turn /\ (Active(session'[o].state) => session'[o] = session[o])
  <2>1. session[o].turn \in Nat /\ session \in [Op -> SessionRow] /\ session[o] \in SessionRow
    BY SessionFacts DEF IInv, TypesInv, RunTypes
  <2>2. session'[o] = session[o] \/ session'[o] = [session[o] EXCEPT !.state = "gone"]
    BY <2>1 DEF Archives, ArchivedOf
  <2> QED BY <2>1, <2>2 DEF SessionRow, Active
<1> QED BY <1>1 DEF SessionsGoOn

LEMMA DaemonGoesOn ==
  ASSUME IInv, WorkInv, NEW o \in Op, Daemon(o)
  PROVE  SessionsGoOn /\ UNCHANGED <<task, saves, lock>>
<1>1. /\ session \in [Op -> SessionRow] /\ session[o].turn \in Nat
      /\ \A p \in Op : session[p].turn \in Nat
      /\ session[o].state = "none" <=> session[o].turn = 0
  BY SessionFacts DEF WorkInv, IInv, TypesInv, RunTypes
<1>2. ASSUME NEW from, NEW to, NEW n, Session(o, from, to, n), n \in Nat,
             n > session[o].turn \/ (n = session[o].turn /\ (Active(to) => Active(from)))
      PROVE  SessionsGoOn /\ UNCHANGED <<task, saves, lock>>
  <2>1. /\ session[o].state = from /\ session'[o].state = to /\ session'[o].turn = n
        /\ \A p \in Op \ {o} : session'[p] = session[p]
        /\ UNCHANGED <<task, saves, lock>>
    BY <1>1, <1>2 DEF Session, boardVars
  <2>2. ASSUME NEW p \in Op
        PROVE  /\ session'[p].turn >= session[p].turn
               /\ session'[p].turn = session[p].turn /\ Active(session'[p].state) => Active(session[p].state)
    BY <1>1, <1>2, <2>1
  <2> QED BY <2>1, <2>2 DEF SessionsGoOn
<1>3. CASE Open(o)
  <2>1. Session(o, "none", "busy", 1)
    BY <1>3 DEF Open
  <2>2. session[o].turn = 0
    BY <1>1, <2>1 DEF Session
  <2> QED BY <1>2, <2>1, <2>2
<1>4. CASE EndTurn(o)
  BY <1>1, <1>2, <1>4 DEF EndTurn, Active
<1>5. CASE Chat(o)
  BY <1>1, <1>2, <1>5 DEF Chat
<1>6. CASE AskPermission(o) \/ AnswerPermission(o)
  BY <1>1, <1>2, <1>6 DEF AskPermission, AnswerPermission, Active
<1> QED BY <1>3, <1>4, <1>5, <1>6 DEF Daemon

LEMMA UserReview ==
  ASSUME IInv, IInv', ReviewInv, NEW t \in Task, User(t)
  PROVE  ReviewInv'
<1> DEFINE r == task[t]
<1>1. r \in Record /\ Current(r)
  BY DEF ReviewInv, IInv, TypesInv, BoardTypes
<1>2. ASSUME NEW x, NEW by \in {"user", "cancel", "quiet"}, UserSave(t, x, by), Current(x), UNCHANGED task, SessionsGoOn
      PROVE  ReviewInv'
  BY <1>2, AsksReview DEF UserSave
<1>3. ASSUME NEW s, s # "awaiting_review" PROVE Current([r EXCEPT !.status = s])
  <2> DEFINE x == [r EXCEPT !.status = s]
  <2>1. x.op = r.op /\ x.review = r.review /\ x.wt = r.wt /\ x.agent = r.agent /\ x.status = s
    BY <1>1 DEF Record
  <2> HIDE DEF x
  <2>2. Current(x)
    BY <1>1, <1>3, <2>1, Edited
  <2> QED BY <2>2 DEF x
<1>4. Current(Requeued(r)) /\ Current([Draft EXCEPT !.status = "deleted"])
  BY DEF Current, Requeued, Draft
<1>5. CASE Start(t) \/ Cancel(t)
  <2>1. UNCHANGED <<task, session>>
    BY <1>5 DEF Start, Cancel, worldVars
  <2>2. PICK s \in Status, by \in {"user", "cancel"} : UserSave(t, [r EXCEPT !.status = s], by) /\ s # "awaiting_review"
    BY <1>5 DEF Start, Cancel, Status
  <2>3. Current([r EXCEPT !.status = s])
    BY <1>3, <2>2
  <2> QED BY <1>2, <2>1, <2>2, <2>3, StandStill
<1>6. CASE RetryStop(t)
  <2>1. UNCHANGED <<task, session, saves, lock>>
    BY <1>6 DEF RetryStop, boardVars, worldVars
  <2> QED BY <2>1, StandStill, AsksReview
<1>7. CASE Requeue(t)
  BY <1>2, <1>4, <1>7, StandStill DEF Requeue, worldVars
<1>8. CASE Delete(t) \/ DeleteFails(t)
  BY <1>1, <1>2, <1>4, <1>8, ArchiveGoesOn, Archiving DEF Delete, DeleteFails
<1>9. CASE Reconcile(t)
  <2> DEFINE x == [r EXCEPT !.status = "needs_check", !.review = NoReview]
  <2>1. x.status = "needs_check" /\ x.review = NoReview
    BY <1>1 DEF Record
  <2>2. UserSave(t, x, "quiet") /\ UNCHANGED <<task, session>>
    BY <1>9 DEF Reconcile, worldVars
  <2> HIDE DEF x
  <2> QED BY <1>1, <1>2, <2>1, <2>2, Edited, StandStill
<1> QED BY <1>5, <1>6, <1>7, <1>8, <1>9 DEF User

LEMMA SettleReview ==
  ASSUME IInv, IInv', ReviewInv, NEW t \in Task, SettleStep(t) \/ SettleFails(t)
  PROVE  ReviewInv'
<1> DEFINE r == task[t]
<1>1. r \in Record /\ Current(r)
  BY DEF ReviewInv, IInv, TypesInv, BoardTypes
<1>2. UNCHANGED <<task, session>>
  BY DEF SettleStep, Watch, SettleFind, SettleStop, SettleMark, SettleFails, boardVars, worldVars
<1>3. CASE UNCHANGED <<saves, lock>>
  BY <1>2, <1>3, StandStill, AsksReview
<1>4. CASE ~UNCHANGED <<saves, lock>>
  <2> DEFINE x == [r EXCEPT !.status = "canceled", !.agent = IF @ = NoOp THEN settle[t].agent ELSE @]
  <2>1. UserSave(t, x, "settle")
    BY <1>4 DEF SettleStep, Watch, SettleFind, SettleStop, SettleMark, SettleFails, boardVars
  <2>2. /\ x.op = r.op /\ x.review = r.review /\ x.wt = r.wt /\ x.status = "canceled"
        /\ r.agent # NoOp => x.agent = r.agent
    BY <1>1 DEF Record
  <2> HIDE DEF x
  <2>3. Current(x)
    BY <1>1, <2>2, Edited
  <2> QED BY <1>2, <2>1, <2>3, StandStill, AsksReview DEF UserSave
<1> QED BY <1>3, <1>4

LEMMA EventReview ==
  ASSUME IInv, IInv', ReviewInv, Deliver \/ (\E t \in Task : HandlePermission(t))
  PROVE  ReviewInv'
<1>1. UNCHANGED <<task, session>>
  BY DEF Deliver, HandlePermission, boardVars, worldVars
<1>2. CASE Deliver
  <2>1. UNCHANGED <<saves, lock>>
    BY <1>2 DEF Deliver, boardVars
  <2>2. \A t \in Task : task'[t] = task[t] /\ lock'[t] = lock[t]
    BY <1>1, <2>1
  <2>3. \A s : Pending(s)' => Pending(s)
    BY <2>1 DEF Pending
  <2> QED BY <1>1, <2>2, <2>3, StandStill, ReviewKeeps
<1>3. ASSUME NEW t \in Task, HandlePermission(t) PROVE ReviewInv'
  <2> DEFINE r == task[t]
             next == ReducePermission(r.status, Head(inbox[t]).kind = "ask")
             x == [r EXCEPT !.status = next]
  <2>1. r \in Record /\ Current(r)
    BY DEF ReviewInv, IInv, TypesInv, BoardTypes
  <2>2. UNCHANGED <<saves, lock>> \/ (next # r.status /\ UserSave(t, x, "quiet"))
    BY <1>3 DEF HandlePermission
  <2>3. next # r.status => next # "awaiting_review"
    BY DEF ReducePermission
  <2>4. x.op = r.op /\ x.review = r.review /\ x.wt = r.wt /\ x.agent = r.agent /\ x.status = next
    BY <2>1 DEF Record
  <2> HIDE DEF x, next
  <2>5. next # r.status => Current(x)
    BY <2>1, <2>3, <2>4, Edited
  <2>6. lock' = lock \/ lock' = Holds(t, "quiet") \/ lock' = Unlock(t)
    BY <2>2 DEF UserSave
  <2>7. UNCHANGED saves \/ \E y, by : saves' = Append(saves, Save(t, y, by)) /\ Current(y)
    BY <2>2, <2>5 DEF UserSave
  <2>8. SessionsGoOn /\ UNCHANGED task
    BY <1>1, StandStill
  <2> HIDE DEF r
  <2> QED BY <2>6, <2>7, <2>8, AsksReview
<1> QED BY <1>2, <1>3

\* A review is made of the turn whose end was handled, in the worktree of its task.
LEMMA TurnReview ==
  ASSUME IInv, IInv', SlotInv, WorkInv, ReviewInv, NEW t \in Task, HandleTurn(t) \/ CaptureDone(t) \/ CaptureFails(t)
  PROVE  ReviewInv'
<1> DEFINE r == task[t]
<1>1. r \in Record /\ Current(r) /\ UNCHANGED <<task, session>>
  BY DEF ReviewInv, IInv, TypesInv, BoardTypes, HandleTurn, CaptureDone, CaptureFails, worldVars
<1>2. ASSUME NEW e, NEW s, s # "awaiting_review" \/ r.status = "awaiting_review"
      PROVE  /\ Current(Ended(r, e, s))
             /\ s # "awaiting_review" => Current([Ended(r, e, s) EXCEPT !.review = NoReview])
  <2> DEFINE x == Ended(r, e, s)
             y == [Ended(r, e, s) EXCEPT !.review = NoReview]
  <2>1. /\ x.op = r.op /\ x.review = r.review /\ x.wt = r.wt /\ x.agent = r.agent /\ x.status = s
        /\ y.review = NoReview /\ y.status = s
    BY <1>1 DEF Record, Ended
  <2> HIDE DEF x, y
  <2>2. Current(x) /\ (s # "awaiting_review" => Current(y))
    BY <1>1, <1>2, <2>1, Edited
  <2> QED BY <2>2 DEF x, y
<1>3. ASSUME NEW x, UserSave(t, x, "turn"), Current(x) PROVE ReviewInv'
  BY <1>1, <1>3, StandStill, AsksReview DEF UserSave
<1>4. ASSUME UNCHANGED saves, lock' = lock \/ lock' = Unlock(t) PROVE ReviewInv'
  BY <1>1, <1>4, StandStill, AsksReview
<1>5. CASE HandleTurn(t)
  <2>1. PICK e : e = Head(inbox[t])
    OBVIOUS
  <2>2. PICK next : next = ReduceTurn(r.status, e.outcome)
    OBVIOUS
  <2>3. \/ UNCHANGED <<saves, lock>>
        \/ r.status = "awaiting_review" /\ UserSave(t, Ended(r, e, r.status), "turn")
        \/ UserSave(t, [Ended(r, e, "needs_check") EXCEPT !.review = NoReview], "turn")
        \/ next # "awaiting_review" /\ UserSave(t, Ended(r, e, next), "turn")
        \/ UserSave(t, Ended(r, e, "needs_check"), "turn")
        \/ /\ r.wt /\ lock' = [lock EXCEPT ![t] = [by |-> "capture", op |-> r.op, event |-> <<e>>]]
           /\ UNCHANGED saves
    BY <1>5, <2>1, <2>2 DEF HandleTurn
  <2>4. CASE r.wt /\ lock' = [lock EXCEPT ![t] = [by |-> "capture", op |-> r.op, event |-> <<e>>]] /\ UNCHANGED saves
    <3>1. \A u \in Task : task'[u] = task[u] /\ (lock'[u] = lock[u] \/ task[u].wt)
      BY <1>1, <2>4 DEF IInv, TypesInv, BoardTypes
    <3>2. \A s : Pending(s)' => Pending(s)
      BY <2>4 DEF Pending
    <3> QED BY <1>1, <3>1, <3>2, StandStill, ReviewKeeps
  <2>5. ASSUME NEW s, UserSave(t, Ended(r, e, s), "turn"), s # "awaiting_review" \/ r.status = "awaiting_review" PROVE ReviewInv'
    BY <1>2, <1>3, <2>5
  <2>6. ASSUME UserSave(t, [Ended(r, e, "needs_check") EXCEPT !.review = NoReview], "turn") PROVE ReviewInv'
    BY <1>2, <1>3, <2>6
  <2> QED BY <1>4, <2>3, <2>4, <2>5, <2>6
<1>6. CASE CaptureDone(t) \/ CaptureFails(t)
  <2>1. PICK e : e = lock[t].event[1]
    OBVIOUS
  <2>2. /\ lock[t].by = "capture" /\ r.wt
        /\ e \in EventRow /\ Past(e) /\ e.kind = "ended" /\ r.agent = e.agent
    <3>1. lock[t].by = "capture"
      BY <1>6 DEF CaptureDone, CaptureFails
    <3> QED BY <2>1, <3>1, EventFacts DEF ReviewInv, WorkInv, Captures, IInv
  <2>3. r.op = r.agent /\ r.op \in Op /\ session[r.op].turn \in Nat /\ e.turn \in Nat
    <3>1. e.agent \in Op /\ e.agent # NoOp /\ e.turn \in Nat
      BY <2>2, BoundAssumption DEF EventRow, Op
    <3>2. r.agent \in {NoOp, r.op}
      BY PlacedFacts DEF Sound
    <3> QED BY <2>2, <3>1, <3>2, SessionFacts
  <2>4. Current(Reviewed(r, e))
    <3> DEFINE x == Reviewed(r, e)
    <3>1. x.op = r.op /\ x.agent = r.agent /\ x.wt = r.wt /\ x.review.op = r.op /\ x.review.turn = e.turn
      BY <1>1 DEF Record, Reviewed, Ended
    <3> HIDE DEF x
    <3>2. e.turn \in 1..session[r.op].turn /\ (session[r.op].turn = e.turn => ~Active(session[r.op].state))
      BY <2>2, <2>3 DEF Past
    <3>3. Current(x)
      BY <2>2, <2>3, <3>1, <3>2 DEF Current
    <3> QED BY <3>3 DEF x
  <2>5. Current(Ended(r, e, "needs_check"))
    BY <1>2
  <2>6. \/ UserSave(t, Reviewed(r, e), "turn") \/ UserSave(t, Ended(r, e, "needs_check"), "turn")
        \/ lock' = Unlock(t) /\ UNCHANGED saves
    BY <1>6, <2>1 DEF CaptureDone, CaptureFails, UserSave
  <2> QED BY <1>3, <1>4, <2>4, <2>5, <2>6
<1> QED BY <1>5, <1>6

\* A round that begins or is being prepared has no review.
LEMMA JobReview ==
  ASSUME IInv, IInv', SlotInv, ReviewInv, NEW t \in Task, Job(t) \/ JobFault(t)
  PROVE  ReviewInv'
<1> DEFINE r == task[t]
<1>1. r \in Record /\ Current(r) /\ UNCHANGED <<task, session>>
  BY DEF ReviewInv, IInv, TypesInv, BoardTypes, Job, JobFault, Begin, EnsureDone, CreateReturns, FailDispatch,
     EnsureFails, CreateFails, SearchFails, boardVars, worldVars
<1>2. ASSUME NEW x, NEW by, saves' = Append(saves, Save(t, x, by)), Current(x),
             lock' = lock \/ lock' = Holds(t, "begin") \/ lock' = Holds(t, "fail")
      PROVE  ReviewInv'
  <2>1. ASSUME NEW kind \in {"begin", "fail"}, lock' = lock \/ lock' = Holds(t, kind) PROVE ReviewInv'
    <3>1. SessionsGoOn /\ UNCHANGED task
      BY <1>1, StandStill
    <3>2. kind # "capture" /\ (lock' = lock \/ lock' = Holds(t, kind) \/ lock' = Unlock(t))
      BY <2>1
    <3>3. \E y, k : saves' = Append(saves, Save(t, y, k)) /\ Current(y)
      BY <1>2
    <3> HIDE DEF r
    <3> QED BY <3>1, <3>2, <3>3, AsksReview
  <2> QED BY <1>2, <2>1
<1>3. ASSUME UNCHANGED <<saves, lock>> PROVE ReviewInv'
  BY <1>1, <1>3, StandStill, AsksReview
<1>4. ASSUME NEW x, r.agent = NoOp, x.op = r.op, x.review = r.review, x.status # "awaiting_review" PROVE Current(x)
  <2>1. r.review = NoReview
    BY <1>1, <1>4, BoundAssumption DEF Current, Op
  <2> QED BY <1>1, <1>4, <2>1, Edited
<1>5. InPrepare(t) => r.agent = NoOp /\ r.status \in {"preparing", "canceling"}
  BY PlacedFacts DEF Dispatched, Dispatches
<1>6. CASE Begin(t)
  <2>1. \A o : Current(Begun(r, o))
    BY DEF Begun, Draft, Current
  <2>2. UNCHANGED <<saves, lock>> \/ \E o : saves' = Append(saves, Save(t, Begun(r, o), "begin")) /\ lock' = Holds(t, "begin")
    BY <1>6 DEF Begin
  <2> QED BY <1>2, <1>3, <2>1, <2>2
<1>7. CASE EnsureDone(t)
  <2> DEFINE x == [r EXCEPT !.wt = TRUE, !.agent = NoOp]
  <2>1. UNCHANGED lock /\ (UNCHANGED saves \/ saves' = Append(saves, Save(t, x, "locate")))
    BY <1>7 DEF EnsureDone
  <2>2. x.op = r.op /\ x.review = r.review /\ x.status = r.status
    BY <1>1 DEF Record
  <2>3. InPrepare(t)
    BY <1>7 DEF EnsureDone, InPrepare
  <2> HIDE DEF x
  <2>4. Current(x)
    BY <1>4, <1>5, <2>2, <2>3
  <2> QED BY <1>2, <1>3, <2>1, <2>4
<1>8. CASE CreateReturns(t)
  <2> DEFINE x == LinkedRecord(r, pc[t].op)
  <2>1. UNCHANGED lock /\ (UNCHANGED saves \/ saves' = Append(saves, Save(t, x, "link")))
    BY <1>8 DEF CreateReturns
  <2>2. x.op = r.op /\ x.review = r.review /\ x.status # "awaiting_review"
    BY <1>1 DEF Record, LinkedRecord
  <2>3. InPrepare(t)
    BY <1>8 DEF CreateReturns, InPrepare
  <2> HIDE DEF x
  <2>4. Current(x)
    BY <1>4, <1>5, <2>2, <2>3
  <2> QED BY <1>2, <1>3, <2>1, <2>4
<1>9. CASE EnsureFails(t) \/ CreateFails(t) \/ SearchFails(t)
  BY <1>3, <1>9 DEF EnsureFails, CreateFails, SearchFails, boardVars
<1>10. CASE FailDispatch(t)
  <2> DEFINE f == FoundBy(r.op)
             x == [r EXCEPT !.status = "failed"]
             y == [LinkedRecord(r, f) EXCEPT !.agent = IF r.agent = NoOp THEN f ELSE r.agent]
  <2>1. \/ UNCHANGED <<saves, lock>>
        \/ /\ lock' = Holds(t, "fail")
           /\ saves' = Append(saves, Save(t, x, "fail")) \/ saves' = Append(saves, Save(t, y, "found"))
    BY <1>10 DEF FailDispatch
  <2>2. x.op = r.op /\ x.review = r.review /\ x.wt = r.wt /\ x.agent = r.agent /\ x.status = "failed"
    BY <1>1 DEF Record
  <2>3. /\ y.op = r.op /\ y.review = r.review /\ y.wt = r.wt /\ y.status # "awaiting_review"
        /\ r.agent # NoOp => y.agent = r.agent
    BY <1>1 DEF Record, LinkedRecord
  <2> HIDE DEF x, y
  <2>4. Current(x) /\ Current(y)
    BY <1>1, <2>2, <2>3, Edited
  <2> QED BY <1>2, <1>3, <2>1, <2>4
<1> QED BY <1>6, <1>7, <1>8, <1>9, <1>10 DEF Job, JobFault

LEMMA LandReview ==
  ASSUME IInv, IInv', SlotInv, ReviewInv, Land, MaxCrashes = 0
  PROVE  ReviewInv'
<1>1. PICK t, s : s = Head(saves) /\ t = s.task
  OBVIOUS
<1>2. saves # <<>> /\ saves' = Tail(saves) /\ task' = Memory /\ UNCHANGED session
  BY LandMoves
<1>3. /\ t \in Task /\ Pending(s) /\ task'[t] = s.rec
      /\ s.by \notin LockKinds => lock[t].by \in {"free", "cancel"}
  BY <1>1, <1>2, LandFacts, TailPends, PendingWaits
<1>4. (s.by \notin LockKinds /\ lock' = lock) \/ lock' = Unlock(t)
  BY <1>1, NoRecovers DEF Land, LandUser, LandQuiet, LandCancel, LandTurn, LandSettle, LandBegin, LandLocate, LandLink, LandFail,
     Lands, LockKinds
<1>5. /\ lock'[t].by # "capture"
      /\ \A u \in Task \ {t} : task'[u] = task[u] /\ lock'[u] = lock[u]
  BY <1>1, <1>2, <1>3, <1>4 DEF Memory, Unlock, Free, IInv, TypesInv, BoardTypes
<1>6. \A x : Pending(x)' => Pending(x)
  BY <1>2, TailPends
<1> QED BY <1>2, <1>3, <1>5, <1>6, StandStill, ReviewKeeps

LEMMA ReviewInductive ==
  ASSUME MaxCrashes = 0, IInv, IInv', SlotInv, WorkInv, ReviewInv, [Next]_vars
  PROVE  ReviewInv'
<1>1. CASE Plugin
  <2>1. CASE Land
    BY <2>1, LandReview
  <2>2. CASE Deliver
    BY <2>2, EventReview
  <2>3. ASSUME NEW t \in Task, Job(t) \/ JobFault(t) PROVE ReviewInv'
    BY <2>3, JobReview
  <2>4. ASSUME NEW t \in Task, User(t) PROVE ReviewInv'
    BY <2>4, UserReview
  <2>5. ASSUME NEW t \in Task, SettleStep(t) \/ SettleFails(t) PROVE ReviewInv'
    BY <2>5, SettleReview
  <2>6. ASSUME NEW t \in Task, Handle(t) \/ CaptureFails(t) PROVE ReviewInv'
    BY <2>6, EventReview, TurnReview DEF Handle
  <2>7. ASSUME NEW r \in Repo, JobEnds(r) PROVE ReviewInv'
    <3>1. UNCHANGED <<task, saves, lock, session>>
      BY <2>7 DEF JobEnds, boardVars, worldVars
    <3>2. (\A t \in Task : task'[t] = task[t] /\ lock'[t] = lock[t]) /\ \A s : Pending(s)' => Pending(s)
      BY <3>1 DEF Pending
    <3> QED BY <3>1, <3>2, StandStill, ReviewKeeps
  <2> QED BY <1>1, <2>1, <2>2, <2>3, <2>4, <2>5, <2>6, <2>7 DEF Plugin
<1>2. CASE (\E o \in Op : Daemon(o)) \/ UNCHANGED vars
  <2>1. SessionsGoOn /\ UNCHANGED <<task, saves, lock>>
    <3>1. CASE UNCHANGED vars
      BY <3>1, StandStill DEF vars, boardVars, worldVars
    <3> QED BY <1>2, <3>1, DaemonGoesOn
  <2>2. (\A t \in Task : task'[t] = task[t] /\ lock'[t] = lock[t]) /\ \A s : Pending(s)' => Pending(s)
    BY <2>1 DEF Pending
  <2> QED BY <2>1, <2>2, ReviewKeeps
<1> QED BY <1>1, <1>2, NoRecovers DEF Next

\* A review on record is of the current round, its session and worktree, and of a
\* turn that has ended (engine.ts:1268, README.md:43): for any tasks and users,
\* who may chat, edit, cancel and delete meanwhile, and any faults.
THEOREM QueueReviewIsCurrent == ASSUME MaxCrashes = 0 PROVE Spec => []ReviewIsCurrent
<1>1. Init => SlotInv /\ WorkInv /\ ReviewInv
  <2>1. Init => ReviewInv
    BY DEF Init, ReviewInv, Current, Draft, Free, Pending
  <2> QED BY <2>1, InitSlot, InitWork
<1>2. IInv /\ IInv' /\ SlotInv /\ WorkInv /\ ReviewInv /\ [Next]_vars => SlotInv' /\ WorkInv' /\ ReviewInv'
  BY SlotInductive, WorkInductive, ReviewInductive
<1>3. ReviewInv => ReviewIsCurrent
  BY DEF ReviewInv, Current, ReviewIsCurrent
<1> QED BY <1>1, <1>2, <1>3, QueueInvariant, PTL DEF Spec

-----------------------------------------------------------------------------
(* A deleted task leaves nothing: what a task without a worktree on record has *)

\* No session of the task is open, and nothing of it is left.
Quiet(t) == \A o \in 1..Len(rounds) : rounds[o] = t => session[o].state \in {"none", "gone"}
Bare(t) == t \notin worktree /\ Quiet(t)

\* The worktree is being made, or its location waits to be saved.
Locating(t) == pc[t].at \in {"ensure", "locate"}

\* What is not on record was never made, but for a worktree whose location is
\* about to be saved, and nobody cancels until it is; a session is asked for
\* when the location is on record.
Tidy(t) ==
    /\ task[t].status = "deleted" => ~task[t].wt
    /\ ~task[t].wt => Quiet(t) /\ (t \in worktree => pc[t].at = "locate")
    /\ pc[t].at \in {"create", "link"} => task[t].wt
    /\ Locating(t) => task[t].status # "canceling" /\ lock[t].by # "cancel"

\* A save forgets a location only by deleting a task of which nothing is left.
Leaves(s) ==
    /\ s.by \in {"locate", "link"} => s.rec.wt
    /\ IF s.rec.status = "deleted" THEN s.by = "user" /\ ~s.rec.wt /\ Bare(s.task)
                                   ELSE task[s.task].wt => s.rec.wt

CleanInv ==
    /\ \A t \in Task : Tidy(t)
    /\ \A s : Pending(s) => Leaves(s)
    /\ \A o \in Op : session[o].state # "none" => o \in 1..Len(rounds)

\* No save lands: worktrees and sessions come only from the job of their task.
LEMMA CleanStays ==
  ASSUME IInv, SlotInv, CleanInv, UNCHANGED task,
         \A u \in Task : Quiet(u) /\ pc[u].at # "create" => Quiet(u)',
         \A u \in Task : u \in worktree' => u \in worktree \/ (pc[u].at = "ensure" /\ pc'[u].at = "locate"),
         \A u \in Task : pc'[u].at \in {"create", "link"} => pc[u].at \in {"create", "link"},
         \A u \in Task : pc[u].at = "locate" => pc'[u].at = "locate",
         \A u \in Task : Locating(u)' => Locating(u) /\ (lock'[u].by = "cancel" => lock[u].by = "cancel"),
         \A s : Pending(s)' => Pending(s) \/ Leaves(s)',
         \A o \in Op : session'[o].state # "none" => o \in 1..Len(rounds')
  PROVE  CleanInv'
<1>1. ASSUME NEW t \in Task PROVE Tidy(t)'
  <2>1. Tidy(t)
    BY DEF CleanInv
  <2>2. ~task[t].wt => Quiet(t)'
    BY <2>1 DEF Tidy
  <2>3. ~task[t].wt => (t \in worktree' => pc'[t].at = "locate")
    BY <2>1 DEF Tidy
  <2>4. Locating(t)' => task'[t].status # "canceling" /\ lock'[t].by # "cancel"
    BY <2>1 DEF Tidy
  <2> QED BY <2>1, <2>2, <2>3, <2>4 DEF Tidy
<1>2. ASSUME NEW s, Pending(s) PROVE Leaves(s)'
  <2>1. Leaves(s) /\ s.task \in Task
    BY <1>2, PendingFacts DEF CleanInv
  <2>2. ASSUME s.rec.status = "deleted" PROVE Bare(s.task)'
    <3>1. s.by = "user" /\ Bare(s.task)
      BY <2>1, <2>2 DEF Leaves
    <3>2. lock[s.task].by = "user"
      BY <1>2, <3>1, PendingWaits DEF LockKinds, SaveKinds, SavePlace
    <3>3. ~InPrepare(s.task)
      BY <2>1, <3>2, PlacedFacts DEF Dispatched, Dispatches
    <3>4. PICK t \in Task : t = s.task
      BY <2>1
    <3>5. Quiet(t)' /\ t \notin worktree'
      BY <3>1, <3>3, <3>4 DEF Bare, InPrepare
    <3> QED BY <3>4, <3>5 DEF Bare, Quiet
  <2> QED BY <2>1, <2>2 DEF Leaves
<1>3. \A s : Pending(s)' => Leaves(s)'
  BY <1>2
<1> QED BY <1>1, <1>3 DEF CleanInv

\* The oldest save lands: it is the only one of its task, or it is that of a
\* cancel and the other that of its session, and both keep the location.
LEMMA CleanLands ==
  ASSUME IInv, SlotInv, CleanInv, saves # <<>>, saves' = Tail(saves), task' = Memory, NEW h, h = Head(saves),
         UNCHANGED <<session, worktree, rounds>>,
         \A u \in Task \ {h.task} : pc'[u] = pc[u],
         pc'[h.task].at \in {"create", "link"} => pc[h.task].at \in {"create", "link"} \/ h.by = "locate",
         pc[h.task].at = "locate" => h.by = "locate" \/ pc'[h.task].at = "locate",
         Locating(h.task)' => h.by = "begin" \/ (h.by # "locate" /\ UNCHANGED pc),
         \A u \in Task : lock'[u].by = "cancel" => lock[u].by = "cancel"
  PROVE  CleanInv'
<1>1. /\ Pending(h) /\ Leaves(h) /\ h.task \in Task /\ task'[h.task] = h.rec
      /\ h.by \in LockKinds => lock[h.task].by = SavePlace(h.by)
      /\ h.by \in {"locate", "link"} \/ h.by \in LockKinds
  BY TailPends, LandFacts, PendingWaits DEF CleanInv
<1>2. \A u \in Task \ {h.task} : task'[u] = task[u]
  BY <1>1 DEF Memory, IInv, TypesInv, BoardTypes
<1>3. \A u : (Quiet(u)' <=> Quiet(u)) /\ (Bare(u)' <=> Bare(u))
  BY DEF Quiet, Bare
<1>4. ASSUME NEW t \in Task PROVE Tidy(t)'
  <2>1. Tidy(t)
    BY DEF CleanInv
  <2>2. CASE t # h.task
    BY <1>2, <1>3, <2>1, <2>2 DEF Tidy, Locating
  <2>5. ASSUME t = h.task, Locating(t)' PROVE h.rec.status # "canceling" /\ lock'[t].by # "cancel"
    <3>1. CASE h.by = "begin"
      <4>1. h.rec.status = "preparing" /\ lock[t].by = "begin"
        BY <1>1, <2>5, <3>1, LandFacts DEF Fits, LockKinds, SaveKinds, SavePlace
      <4> QED BY <4>1
    <3>2. CASE h.by # "locate" /\ UNCHANGED pc
      <4>1. Locating(t) /\ lock[t].by \in {"free", "cancel"} /\ lock[t].by # "cancel"
        BY <2>1, <2>5, <3>2, PlacedFacts DEF Tidy, Locating, Dispatched, Dispatches, InPrepare
      <4>2. h.by \notin LockKinds
        BY <1>1, <2>5, <4>1 DEF SavePlace, LockKinds, SaveKinds
      <4>3. h.by = "link" /\ pc[t].at = "link"
        BY <1>1, <2>5, <3>2, <4>2, PendingWaits
      <4> QED BY <4>1, <4>3 DEF Locating
    <3> QED BY <2>5, <3>1, <3>2
  <2>3. CASE t = h.task /\ h.rec.status = "deleted"
    <3>1. h.by = "user" /\ ~h.rec.wt /\ Bare(t)
      BY <1>1, <2>3 DEF Leaves
    <3>2. lock[t].by = "user"
      BY <1>1, <2>3, <3>1 DEF LockKinds, SaveKinds, SavePlace
    <3>3. ~InPrepare(t)
      BY <3>2, PlacedFacts DEF Dispatched, Dispatches
    <3>4. pc'[t].at \notin {"create", "link"}
      BY <2>3, <3>1, <3>3 DEF InPrepare
    <3>5. Quiet(t)' /\ t \notin worktree'
      BY <1>3, <3>1 DEF Bare
    <3> QED BY <1>1, <2>3, <2>5, <3>1, <3>4, <3>5 DEF Tidy
  <2>4. CASE t = h.task /\ h.rec.status # "deleted"
    <3>1. (task[t].wt => h.rec.wt) /\ (h.by = "locate" => h.rec.wt)
      BY <1>1, <2>4 DEF Leaves
    <3>2. pc'[t].at \in {"create", "link"} => h.rec.wt
      BY <2>1, <2>4, <3>1 DEF Tidy
    <3>3. ~h.rec.wt => Quiet(t)' /\ (t \in worktree' => pc'[t].at = "locate")
      BY <1>3, <2>1, <2>4, <3>1 DEF Tidy
    <3> QED BY <1>1, <2>4, <2>5, <3>1, <3>2, <3>3 DEF Tidy
  <2> QED BY <2>2, <2>3, <2>4
<1>5. ASSUME NEW s, Pending(s)' PROVE Leaves(s)'
  <2>1. Pending(s) /\ Leaves(s) /\ s.task \in Task
    BY <1>5, TailPends, PendingFacts DEF CleanInv
  <2>2. CASE s.task # h.task
    BY <1>2, <1>3, <2>1, <2>2 DEF Leaves
  <2>3. CASE s.task = h.task
    <3>1. Tidy(s.task) /\ s.by \in SaveKinds
      BY <2>1, PendingFacts DEF CleanInv
    <3>2. CASE h.by \in LockKinds \ {"cancel"}
      BY <1>5, <2>3, <3>2, LastOfTask
    <3>3. CASE h.by = "cancel"
      <4>1. h.by \in LockKinds
        BY <3>3 DEF LockKinds, SaveKinds
      <4>2. s.by \notin LockKinds
        BY <1>5, <2>3, <4>1, TailPends
      <4>3. s.by \in {"locate", "link"}
        BY <2>1, <4>2, PendingWaits
      <4>4. s.rec.wt /\ s.rec.status # "deleted"
        BY <2>1, <4>3 DEF Leaves
      <4> QED BY <4>4 DEF Leaves
    <3>4. CASE h.by \in {"locate", "link"}
      <4>1. s.by = "cancel" /\ s.rec.status = "canceling"
        BY <1>5, <2>3, <3>4, BesideJob DEF Kept, Fits
      <4>2. lock[s.task].by = "cancel" /\ pc[s.task].at = h.by
        <5>1. s.by \in LockKinds /\ SavePlace(s.by) = "cancel"
          BY <4>1 DEF LockKinds, SaveKinds, SavePlace
        <5>2. h.by \in JobKinds /\ SavePlace(h.by) = h.by
          BY <3>4 DEF JobKinds, SavePlace
        <5> QED BY <1>1, <2>1, <2>3, <5>1, <5>2, PendingWaits
      <4>3. h.by = "link"
        BY <3>1, <3>4, <4>2 DEF Tidy, Locating
      <4>4. s.rec.wt
        BY <2>1, <3>1, <4>1, <4>2, <4>3 DEF Tidy, Leaves
      <4> QED BY <4>1, <4>4 DEF Leaves
    <3> QED BY <1>1, <3>2, <3>3, <3>4
  <2> QED BY <2>2, <2>3
<1>6. \A o \in Op : session'[o].state # "none" => o \in 1..Len(rounds')
  BY DEF CleanInv
<1> QED BY <1>4, <1>5, <1>6 DEF CleanInv

\* A save that keeps the location.
Keeps(t, x, by) ==
    /\ x.status # "deleted"
    /\ by \in {"locate", "link"} => x.wt
    /\ task[t].wt => x.wt

\* A handler of task t asks for no save, or for one that keeps the location.
Asks(t) == UNCHANGED saves \/ \E x, by : saves' = Append(saves, Save(t, x, by)) /\ Keeps(t, x, by)

\* A lock that is taken by no cancel, or for a task whose location is on record.
Locks(t, by) == lock' = Holds(t, by) /\ (by = "cancel" => ~Locating(t))
KeepsLocks(t) ==
    \/ UNCHANGED lock \/ lock' = Unlock(t) \/ \E by : Locks(t, by)
    \/ \E e : lock' = [lock EXCEPT ![t] = [by |-> "capture", op |-> task[t].op, event |-> <<e>>]]

LEMMA LocksKept ==
  ASSUME IInv, NEW t, KeepsLocks(t), NEW u \in Task, Locating(u), lock'[u].by = "cancel"
  PROVE  lock[u].by = "cancel"
<1>1. lock \in [Task -> LockRow]
  BY DEF IInv, TypesInv, BoardTypes
<1>2. CASE UNCHANGED lock
  BY <1>2
<1>3. CASE lock' = Unlock(t)
  BY <1>1, <1>3 DEF Unlock, Free
<1>4. ASSUME NEW by, Locks(t, by) PROVE lock[u].by = "cancel"
  BY <1>1, <1>4 DEF Locks, Holds
<1>5. ASSUME NEW e, lock' = [lock EXCEPT ![t] = [by |-> "capture", op |-> task[t].op, event |-> <<e>>]]
      PROVE  lock[u].by = "cancel"
  BY <1>1, <1>5
<1> QED BY <1>2, <1>3, <1>4, <1>5 DEF KeepsLocks

LEMMA KeepsLeaves ==
  ASSUME IInv, UNCHANGED task, NEW t, Asks(t), NEW s, Pending(s)'
  PROVE  Pending(s) \/ Leaves(s)'
<1>1. CASE UNCHANGED saves
  BY <1>1 DEF Pending
<1>2. ASSUME NEW x, NEW by, saves' = Append(saves, Save(t, x, by)), Keeps(t, x, by) PROVE Pending(s) \/ Leaves(s)'
  <2>1. s = Save(t, x, by) \/ Pending(s)
    BY <1>2, AppendPends
  <2>2. s = Save(t, x, by) => s.task = t /\ s.rec = x /\ s.by = by
    BY DEF Save
  <2> QED BY <1>2, <2>1, <2>2 DEF Leaves, Keeps
<1> QED BY <1>1, <1>2 DEF Asks

\* A handler that leaves sessions and worktrees alone.
LEMMA AsksClean ==
  ASSUME IInv, SlotInv, CleanInv, UNCHANGED <<task, session, worktree, rounds>>, NEW t, KeepsLocks(t), Asks(t),
         \A u \in Task : pc'[u] = pc[u] \/ (/\ pc[u].at # "locate" /\ pc'[u].at \notin {"ensure", "locate"}
                                            /\ pc'[u].at \in {"create", "link"} => pc[u].at = "create")
  PROVE  CleanInv'
<1>1. \A u : Quiet(u) => Quiet(u)'
  BY DEF Quiet
<1>2. \A s : Pending(s)' => Pending(s) \/ Leaves(s)'
  BY KeepsLeaves
<1>3. \A o \in Op : session'[o].state # "none" => o \in 1..Len(rounds')
  BY DEF CleanInv
<1>4. \A u \in Task : Locating(u)' => Locating(u) /\ (lock'[u].by = "cancel" => lock[u].by = "cancel")
  BY LocksKept DEF Locating
<1> QED BY <1>1, <1>2, <1>3, <1>4, CleanStays

LEMMA DeleteClean ==
  ASSUME IInv, SlotInv, CleanInv, NEW t \in Task, Delete(t) \/ DeleteFails(t)
  PROVE  CleanInv'
<1>1. /\ UNCHANGED <<task, pc, rounds>> /\ Archives(t) /\ CanDelete(task[t].status)
      /\ session \in [Op -> SessionRow] /\ Tidy(t) /\ Dispatched(t)
  BY PlacedFacts, Archiving DEF Delete, DeleteFails, runVars, countVars, CleanInv, IInv, TypesInv, RunTypes
<1>2. ~InPrepare(t)
  BY <1>1 DEF Dispatched, Dispatches, CanDelete, IsExecution
<1>3. ASSUME NEW o \in Op
      PROVE  /\ session'[o] = session[o] \/ (session'[o].state = "gone" /\ session[o].state # "none")
             /\ Delete(t) /\ task[t].wt /\ o \in 1..Len(rounds) /\ rounds[o] = t => session'[o].state \in {"none", "gone"}
  <2>1. session[o] \in SessionRow /\ rounds \in Seq(Task)
    BY <1>1 DEF IInv, TypesInv, RunTypes
  <2>2. ArchivedOf(t)[o] = IF (task[t].wt \/ task[t].agent # NoOp) /\ o <= Len(rounds) /\ session[o].state # "none" /\ rounds[o] = t
                           THEN [session[o] EXCEPT !.state = "gone"] ELSE session[o]
    BY <1>1 DEF ArchivedOf
  <2>3. /\ session'[o] = session[o] \/ session'[o] = ArchivedOf(t)[o]
        /\ Delete(t) => session'[o] = ArchivedOf(t)[o]
    BY <1>1 DEF Archives, Delete
  <2> QED BY <2>1, <2>2, <2>3 DEF SessionRow
<1>4. \A u \in Task : Quiet(u) => Quiet(u)'
  <2>1. \A o \in 1..Len(rounds) : o \in Op
    BY BoundAssumption DEF Op, IInv, OnceInv
  <2> QED BY <1>1, <1>3, <2>1 DEF Quiet
<1>5. ASSUME Delete(t) PROVE Quiet(t)'
  <2>1. \A o \in 1..Len(rounds) : o \in Op
    BY BoundAssumption DEF Op, IInv, OnceInv
  <2>2. CASE task[t].wt
    BY <1>1, <1>3, <1>5, <2>1, <2>2 DEF Quiet
  <2>3. CASE ~task[t].wt
    BY <1>1, <1>4, <2>3 DEF Tidy
  <2> QED BY <2>2, <2>3
<1>6. \A o \in Op : session'[o].state # "none" => o \in 1..Len(rounds')
  BY <1>1, <1>3 DEF CleanInv
<1>7. \A u \in Task : u \in worktree' => u \in worktree
  BY DEF Delete, DeleteFails, WithoutWorktree, worldVars
<1>8. ASSUME NEW s, Pending(s)' PROVE Pending(s) \/ Leaves(s)'
  <2>1. CASE Delete(t)
    <3>1. PICK x : x = [Draft EXCEPT !.status = "deleted"]
      OBVIOUS
    <3>2. saves' = Append(saves, Save(t, x, "user")) /\ worktree' = WithoutWorktree(t)
      BY <2>1, <3>1 DEF Delete, UserSave
    <3>3. x.status = "deleted" /\ ~x.wt
      BY <3>1 DEF Draft
    <3>4. t \notin worktree'
      BY <1>1, <1>2, <3>2 DEF WithoutWorktree, Tidy, InPrepare
    <3>5. s = Save(t, x, "user") => s.task = t /\ s.rec = x /\ s.by = "user"
      BY DEF Save
    <3>6. s = Save(t, x, "user") \/ Pending(s)
      BY <1>8, <3>2, AppendPends
    <3>7. s = Save(t, x, "user") => Bare(s.task)'
      BY <1>5, <2>1, <3>4, <3>5 DEF Bare, Quiet
    <3> QED BY <3>3, <3>5, <3>6, <3>7 DEF Leaves
  <2>2. CASE DeleteFails(t)
    <3>1. saves' = Append(saves, Save(t, task[t], "quiet"))
      BY <2>2 DEF DeleteFails, UserSave
    <3>2. Keeps(t, task[t], "quiet")
      BY <1>1 DEF Keeps, Tidy, CanDelete, Status
    <3>3. Asks(t)
      BY <3>1, <3>2 DEF Asks
    <3> QED BY <1>1, <1>8, <3>3, KeepsLeaves
  <2> QED BY <2>1, <2>2
<1>9. \A u \in Task : Locating(u)' => Locating(u) /\ (lock'[u].by = "cancel" => lock[u].by = "cancel")
  <2>1. KeepsLocks(t)
    BY DEF Delete, DeleteFails, UserSave, KeepsLocks, Locks
  <2> QED BY <1>1, <2>1, LocksKept DEF Locating
<1> QED BY <1>1, <1>4, <1>6, <1>7, <1>8, <1>9, CleanStays

LEMMA UserClean ==
  ASSUME IInv, SlotInv, CleanInv, NEW t \in Task, User(t), Cancel(t) => ~Locating(t)
  PROVE  CleanInv'
<1> DEFINE r == task[t]
<1>1. r \in Record
  BY PlacedFacts
<1>2. ASSUME UNCHANGED <<task, session, worktree, rounds, pc>>,
             NEW x, NEW by, UserSave(t, x, by), Keeps(t, x, by), by = "cancel" => ~Locating(t)
      PROVE  CleanInv'
  <2>1. KeepsLocks(t)
    BY <1>2 DEF UserSave, KeepsLocks, Locks
  <2>2. Asks(t)
    BY <1>2 DEF UserSave, Asks
  <2> QED BY <1>2, <2>1, <2>2, AsksClean
<1>3. CASE Start(t)
  <2> DEFINE x == [r EXCEPT !.status = "queued"]
  <2>1. x.wt = r.wt /\ x.status = "queued"
    BY <1>1 DEF Record
  <2>2. UserSave(t, x, "user") /\ UNCHANGED <<task, session, worktree, rounds, pc>>
    BY <1>3 DEF Start, worldVars, runVars
  <2> HIDE DEF x
  <2> QED BY <1>2, <2>1, <2>2 DEF Keeps
<1>4. CASE Requeue(t)
  <2>1. Requeued(r).wt = r.wt /\ Requeued(r).status = "queued"
    BY <1>1 DEF Requeued, Draft
  <2>2. UserSave(t, Requeued(r), "user") /\ UNCHANGED <<task, session, worktree, rounds, pc>>
    BY <1>4 DEF Requeue, worldVars, runVars
  <2> QED BY <1>2, <2>1, <2>2 DEF Keeps
<1>5. CASE Reconcile(t)
  <2> DEFINE x == [r EXCEPT !.status = "needs_check", !.review = NoReview]
  <2>1. x.wt = r.wt /\ x.status = "needs_check"
    BY <1>1 DEF Record
  <2>2. UserSave(t, x, "quiet") /\ UNCHANGED <<task, session, worktree, rounds, pc>>
    BY <1>5 DEF Reconcile, worldVars, runVars, countVars
  <2> HIDE DEF x
  <2> QED BY <1>2, <2>1, <2>2 DEF Keeps
<1>6. CASE Cancel(t)
  <2> DEFINE x == [r EXCEPT !.status = "canceled"]
             y == [r EXCEPT !.status = "canceling"]
  <2>1. x.wt = r.wt /\ x.status = "canceled" /\ y.wt = r.wt /\ y.status = "canceling"
    BY <1>1 DEF Record
  <2>2. (UserSave(t, x, "user") \/ UserSave(t, y, "cancel")) /\ UNCHANGED <<task, session, worktree, rounds, pc>>
    BY <1>6 DEF Cancel, worldVars, runVars, countVars
  <2> HIDE DEF x, y
  <2>3. Keeps(t, x, "user") /\ Keeps(t, y, "cancel")
    BY <2>1 DEF Keeps
  <2> QED BY <1>2, <1>6, <2>2, <2>3
<1>7. CASE RetryStop(t)
  <2>1. UNCHANGED <<task, session, worktree, rounds, pc, saves, lock>>
    BY <1>7 DEF RetryStop, boardVars, worldVars, countVars
  <2> QED BY <2>1, AsksClean DEF KeepsLocks, Asks
<1> QED BY <1>3, <1>4, <1>5, <1>6, <1>7, DeleteClean DEF User

LEMMA SettleClean ==
  ASSUME IInv, SlotInv, CleanInv, NEW t \in Task, SettleStep(t) \/ SettleFails(t)
  PROVE  CleanInv'
<1> DEFINE x == [task[t] EXCEPT !.status = "canceled",
                                !.agent = IF @ = NoOp THEN settle[t].agent ELSE @]
<1>1. UNCHANGED <<task, session, worktree, rounds, pc>>
  BY DEF SettleStep, Watch, SettleFind, SettleStop, SettleMark, SettleFails, boardVars, worldVars, countVars
<1>2. UNCHANGED <<saves, lock>> \/ UserSave(t, x, "settle")
  BY DEF SettleStep, Watch, SettleFind, SettleStop, SettleMark, SettleFails, boardVars
<1>3. x.wt = task[t].wt /\ x.status = "canceled"
  <2>1. task[t] \in Record
    BY PlacedFacts
  <2> QED BY <2>1 DEF Record
<1> HIDE DEF x
<1>4. Keeps(t, x, "settle")
  BY <1>3 DEF Keeps
<1>5. KeepsLocks(t)
  BY <1>2 DEF UserSave, KeepsLocks, Locks
<1>6. Asks(t)
  BY <1>2, <1>4 DEF UserSave, Asks
<1> QED BY <1>1, <1>5, <1>6, AsksClean

LEMMA EventClean ==
  ASSUME IInv, SlotInv, CleanInv, Deliver \/ (\E t \in Task : HandlePermission(t))
  PROVE  CleanInv'
<1>1. UNCHANGED <<task, session, worktree, rounds, pc>>
  BY DEF Deliver, HandlePermission, boardVars, runVars, worldVars, countVars
<1>2. CASE Deliver
  <2>1. UNCHANGED saves /\ UNCHANGED lock
    BY <1>2 DEF Deliver, boardVars
  <2>2. \A t : KeepsLocks(t) /\ Asks(t)
    BY <2>1 DEF KeepsLocks, Asks
  <2> QED BY <1>1, <2>2, AsksClean
<1>3. ASSUME NEW t \in Task, HandlePermission(t) PROVE CleanInv'
  <2> DEFINE r == task[t]
             next == ReducePermission(r.status, Head(inbox[t]).kind = "ask")
             x == [r EXCEPT !.status = next]
  <2>1. r \in Record
    BY PlacedFacts
  <2>2. UNCHANGED saves \/ (next # r.status /\ saves' = Append(saves, Save(t, x, "quiet")))
    BY <1>3 DEF HandlePermission, UserSave
  <2>6. KeepsLocks(t)
    BY <1>3 DEF HandlePermission, UserSave, KeepsLocks, Locks
  <2>3. next # r.status => next \notin {"canceling", "deleted"}
    BY DEF ReducePermission
  <2>4. x.wt = r.wt /\ x.status = next
    BY <2>1 DEF Record
  <2> HIDE DEF x, next
  <2>5. next # r.status => Keeps(t, x, "quiet")
    BY <2>3, <2>4 DEF Keeps
  <2>7. Asks(t)
    BY <2>2, <2>5 DEF Asks
  <2> QED BY <1>1, <2>6, <2>7, AsksClean
<1> QED BY <1>2, <1>3

LEMMA TurnClean ==
  ASSUME IInv, SlotInv, WorkInv, CleanInv, NEW t \in Task, HandleTurn(t) \/ CaptureDone(t) \/ CaptureFails(t)
  PROVE  CleanInv'
<1> DEFINE r == task[t]
<1>1. r \in Record /\ UNCHANGED <<task, session, worktree, rounds, pc>>
  BY PlacedFacts DEF HandleTurn, CaptureDone, CaptureFails, worldVars, countVars
<1>2. ASSUME NEW e, NEW s, s \notin {"canceling", "deleted"}
      PROVE  /\ Keeps(t, Ended(r, e, s), "turn") /\ Keeps(t, [Ended(r, e, s) EXCEPT !.review = NoReview], "turn")
             /\ Keeps(t, Reviewed(r, e), "turn")
  <2> DEFINE x == Ended(r, e, s)
             y == [Ended(r, e, s) EXCEPT !.review = NoReview]
             z == Reviewed(r, e)
  <2>1. x.wt = r.wt /\ x.status = s /\ y.wt = r.wt /\ y.status = s /\ z.wt = r.wt /\ z.status = "awaiting_review"
    BY <1>1 DEF Record, Ended, Reviewed
  <2> HIDE DEF x, y, z
  <2>2. Keeps(t, x, "turn") /\ Keeps(t, y, "turn") /\ Keeps(t, z, "turn")
    BY <1>2, <2>1 DEF Keeps
  <2> QED BY <2>2 DEF x, y, z
<1>3. ASSUME UNCHANGED saves \/ \E x : saves' = Append(saves, Save(t, x, "turn")) /\ Keeps(t, x, "turn") PROVE CleanInv'
  <2>2. Asks(t)
    BY <1>3 DEF Asks
  <2>1. KeepsLocks(t)
    <3>1. CASE HandleTurn(t)
      <4>1. UNCHANGED lock \/ lock' = Holds(t, "turn") \/ lock' = [lock EXCEPT ![t] = [by |-> "capture", op |-> r.op, event |-> <<Head(inbox[t])>>]]
        BY <3>1 DEF HandleTurn, UserSave
      <4> QED BY <4>1 DEF KeepsLocks, Locks
    <3>2. CASE CaptureDone(t) \/ CaptureFails(t)
      BY <3>2 DEF CaptureDone, CaptureFails, KeepsLocks, Locks
    <3> QED BY <3>1, <3>2
  <2> QED BY <1>1, <2>1, <2>2, AsksClean
<1>4. CASE HandleTurn(t)
  <2>1. PICK e : e = Head(inbox[t])
    OBVIOUS
  <2>2. PICK next : next = ReduceTurn(r.status, e.outcome)
    OBVIOUS
  <2>3. \/ UNCHANGED saves
        \/ r.status = "awaiting_review" /\ saves' = Append(saves, Save(t, Ended(r, e, r.status), "turn"))
        \/ saves' = Append(saves, Save(t, [Ended(r, e, "needs_check") EXCEPT !.review = NoReview], "turn"))
        \/ saves' = Append(saves, Save(t, Ended(r, e, next), "turn"))
        \/ saves' = Append(saves, Save(t, Ended(r, e, "needs_check"), "turn"))
    BY <1>4, <2>1, <2>2 DEF HandleTurn, UserSave
  <2>4. next \notin {"canceling", "deleted"}
    <3>1. e \in EventRow /\ e.kind = "ended"
      BY <1>4, <2>1, HeadHears DEF HandleTurn
    <3>2. e.outcome \in TurnKind
      BY <3>1, EventFacts DEF IInv
    <3> QED BY <2>2, <3>2 DEF ReduceTurn, TurnKind
  <2> QED BY <1>2, <1>3, <2>3, <2>4
<1>5. CASE CaptureDone(t) \/ CaptureFails(t)
  <2>1. PICK e : e = lock[t].event[1]
    OBVIOUS
  <2>2. \/ UNCHANGED saves
        \/ saves' = Append(saves, Save(t, Reviewed(r, e), "turn"))
        \/ saves' = Append(saves, Save(t, Ended(r, e, "needs_check"), "turn"))
    BY <1>5, <2>1 DEF CaptureDone, CaptureFails
  <2>3. Keeps(t, Reviewed(r, e), "turn") /\ Keeps(t, Ended(r, e, "needs_check"), "turn")
    <3>1. PICK s : s = "needs_check"
      OBVIOUS
    <3>2. s \notin {"canceling", "deleted"}
      BY <3>1
    <3> HIDE DEF r
    <3>3. Keeps(t, Reviewed(r, e), "turn") /\ Keeps(t, Ended(r, e, s), "turn")
      BY <1>2, <3>2
    <3> QED BY <3>1, <3>3
  <2> QED BY <1>3, <2>2, <2>3
<1> QED BY <1>4, <1>5

LEMMA JobClean ==
  ASSUME IInv, SlotInv, CleanInv, NEW t \in Task, Job(t) \/ JobFault(t)
  PROVE  CleanInv'
<1> DEFINE r == task[t]
<1>1. /\ r \in Record /\ Tidy(t) /\ Dispatched(t)
      /\ pc \in [Task -> JobRow] /\ rounds \in Seq(Task) /\ Len(rounds) \in Nat
      /\ UNCHANGED <<task, session>>
  BY PlacedFacts DEF CleanInv, Tidy, IInv, TypesInv, RunTypes, OnceInv, Job, JobFault, Begin, EnsureDone, CreateReturns, FailDispatch,
     EnsureFails, CreateFails, SearchFails, boardVars, worldVars
<1>2. Locating(t) => StillPreparing(t)
  BY <1>1 DEF Dispatched, Dispatches, StillPreparing, Tidy, Locating, InPrepare
<1>9. KeepsLocks(t)
  <2>1. UNCHANGED lock \/ lock' = Holds(t, "begin") \/ lock' = Holds(t, "fail")
    BY DEF Job, JobFault, Begin, EnsureDone, CreateReturns, FailDispatch, EnsureFails, CreateFails, SearchFails, boardVars
  <2> QED BY <2>1 DEF KeepsLocks, Locks
<1>10. \A u \in Task : Locating(u)' /\ Locating(u) => (lock'[u].by = "cancel" => lock[u].by = "cancel")
  BY <1>9, LocksKept
<1>3. CASE Begin(t)
  <2>1. UNCHANGED worktree
    BY <1>3 DEF Begin, worldVars
  <2>2. CASE ~MayBegin(t)
    <3>1. UNCHANGED <<rounds, saves, pc>>
      BY <1>3, <2>2 DEF Begin
    <3>2. Asks(t)
      BY <3>1 DEF Asks
    <3> QED BY <1>1, <1>9, <2>1, <3>1, <3>2, AsksClean
  <2>3. CASE MayBegin(t)
    <3>1. PICK o, x : o = Len(rounds) + 1 /\ x = Begun(r, o)
      OBVIOUS
    <3>2. /\ o \in Op /\ rounds' = Append(rounds, t) /\ saves' = Append(saves, Save(t, x, "begin"))
          /\ pc' = [pc EXCEPT ![t] = [at |-> "begin", op |-> o]] /\ pc[t] = NoRun
      BY <1>3, <2>3, <3>1 DEF Begin
    <3>3. Keeps(t, x, "begin")
      <4>1. x.wt = r.wt /\ x.status = "preparing"
        BY <3>1 DEF Begun, Draft
      <4> QED BY <4>1 DEF Keeps
    <3>4. session[o].state = "none"
      BY <1>1, <3>1, <3>2 DEF CleanInv
    <3>5. ASSUME NEW u \in Task, Quiet(u) PROVE Quiet(u)'
      <4>1. \A p \in 1..Len(rounds') : p = o \/ (p \in 1..Len(rounds) /\ rounds'[p] = rounds[p])
        BY <1>1, <3>1, <3>2
      <4> QED BY <1>1, <3>4, <3>5, <4>1 DEF Quiet
    <3>6. \A p \in Op : session'[p].state # "none" => p \in 1..Len(rounds')
      <4>1. Len(rounds') = Len(rounds) + 1
        BY <1>1, <3>2
      <4> QED BY <1>1, <4>1 DEF CleanInv
    <3>7. \A u \in Task : pc'[u] = pc[u] \/ (pc[u].at = "off" /\ pc'[u].at = "begin")
      BY <1>1, <3>2 DEF NoRun
    <3>8. \A s : Pending(s)' => Pending(s) \/ Leaves(s)'
      <4>1. Asks(t)
        BY <3>2, <3>3 DEF Asks
      <4> QED BY <1>1, <4>1, KeepsLeaves
    <3>9. \A u \in Task : Locating(u)' => Locating(u) /\ (lock'[u].by = "cancel" => lock[u].by = "cancel")
      BY <1>10, <3>7 DEF Locating
    <3> QED BY <1>1, <2>1, <3>5, <3>6, <3>7, <3>8, <3>9, CleanStays
  <2> QED BY <2>2, <2>3
<1>4. ASSUME NEW at, pc' = [pc EXCEPT ![t].at = at], pc[t].at # "locate", at \notin {"ensure", "locate"},
             at \in {"create", "link"} => pc[t].at = "create", UNCHANGED <<worktree, rounds>>, Asks(t)
      PROVE  CleanInv'
  <2>1. \A u \in Task : pc'[u] = pc[u] \/ (/\ pc[u].at # "locate" /\ pc'[u].at \notin {"ensure", "locate"}
                                            /\ pc'[u].at \in {"create", "link"} => pc[u].at = "create")
    BY <1>1, <1>4 DEF JobRow, Locating
  <2> QED BY <1>1, <1>4, <1>9, <2>1, AsksClean
<1>5. CASE EnsureDone(t)
  <2> DEFINE x == [r EXCEPT !.wt = TRUE, !.agent = NoOp]
  <2>1. pc[t].at = "ensure" /\ StillPreparing(t)
    BY <1>2, <1>5 DEF EnsureDone, Locating
  <2>2. /\ saves' = Append(saves, Save(t, x, "locate")) /\ pc' = [pc EXCEPT ![t].at = "locate"]
        /\ worktree' = worktree \cup {t} /\ UNCHANGED rounds
    BY <1>5, <2>1 DEF EnsureDone, countVars
  <2>3. x.wt = TRUE /\ x.status = "preparing"
    BY <1>1, <2>1 DEF Record, StillPreparing
  <2> HIDE DEF x
  <2>4. Keeps(t, x, "locate")
    BY <2>3 DEF Keeps
  <2>5. \A s : Pending(s)' => Pending(s) \/ Leaves(s)'
    <3>1. Asks(t)
      BY <2>2, <2>4 DEF Asks
    <3> QED BY <1>1, <3>1, KeepsLeaves
  <2>6. pc'[t].at = "locate" /\ \A u \in Task \ {t} : pc'[u] = pc[u]
    BY <1>1, <2>2 DEF JobRow
  <2>7. \A u : Quiet(u) => Quiet(u)'
    BY <1>1, <2>2 DEF Quiet
  <2>8. \A o \in Op : session'[o].state # "none" => o \in 1..Len(rounds')
    BY <1>1, <2>2 DEF CleanInv
  <2>9. \A u \in Task : Locating(u)' => Locating(u) /\ (lock'[u].by = "cancel" => lock[u].by = "cancel")
    BY <1>10, <2>1, <2>6 DEF Locating
  <2> QED BY <1>1, <2>1, <2>2, <2>5, <2>6, <2>7, <2>8, <2>9, CleanStays
<1>6. CASE CreateReturns(t)
  <2> DEFINE x == LinkedRecord(r, pc[t].op)
  <2>1. pc[t].at = "create" /\ r.op = pc[t].op /\ r.status \in {"preparing", "canceling"} /\ r.wt
    BY <1>1, <1>6 DEF CreateReturns, InPrepare, Dispatched, Dispatches, Tidy
  <2>2. /\ saves' = Append(saves, Save(t, x, "link")) /\ pc' = [pc EXCEPT ![t].at = "link"]
        /\ UNCHANGED <<worktree, rounds>>
    BY <1>6, <2>1 DEF CreateReturns, countVars, worldVars
  <2>3. x.wt = r.wt /\ x.status \in {"running", "canceling"}
    BY <1>1 DEF Record, LinkedRecord
  <2> HIDE DEF x
  <2>4. Keeps(t, x, "link")
    BY <2>1, <2>3 DEF Keeps
  <2>5. Asks(t)
    BY <2>2, <2>4 DEF Asks
  <2>6. PICK a : a = "link"
    OBVIOUS
  <2>7. a \notin {"ensure", "locate", "create"} /\ pc[t].at # "locate" /\ (a \in {"create", "link"} => pc[t].at = "create")
    BY <2>1, <2>6
  <2>8. pc' = [pc EXCEPT ![t].at = a] /\ UNCHANGED <<worktree, rounds>>
    BY <2>2, <2>6
  <2> QED BY <1>4, <2>5, <2>7, <2>8
<1>7. CASE EnsureFails(t) \/ CreateFails(t) \/ SearchFails(t)
  <2>1. /\ pc[t].at # "locate" /\ UNCHANGED <<worktree, rounds, saves>>
        /\ pc' = [pc EXCEPT ![t].at = "failing"] \/ pc' = [pc EXCEPT ![t].at = "hold"]
    BY <1>7 DEF EnsureFails, CreateFails, SearchFails, Finally, boardVars, worldVars
  <2>2. Asks(t)
    BY <2>1 DEF Asks
  <2> QED BY <1>4, <2>1, <2>2
<1>8. CASE FailDispatch(t)
  <2> DEFINE f == FoundBy(r.op)
             x == [r EXCEPT !.status = "failed"]
             y == [LinkedRecord(r, f) EXCEPT !.agent = IF r.agent = NoOp THEN f ELSE r.agent]
  <2>1. /\ pc[t].at = "failing" /\ UNCHANGED <<worktree, rounds>>
        /\ \/ UNCHANGED saves
           \/ saves' = Append(saves, Save(t, x, "fail")) \/ saves' = Append(saves, Save(t, y, "found"))
        /\ pc' = [pc EXCEPT ![t].at = "hold"] \/ pc' = [pc EXCEPT ![t].at = "fail"]
    BY <1>8 DEF FailDispatch, worldVars, countVars
  <2>2. x.wt = r.wt /\ x.status = "failed" /\ y.wt = r.wt /\ y.status \in {"running", "canceling"}
    BY <1>1 DEF Record, LinkedRecord
  <2> HIDE DEF x, y
  <2>3. Keeps(t, x, "fail") /\ Keeps(t, y, "found")
    BY <2>2 DEF Keeps
  <2>4. Asks(t)
    BY <2>1, <2>3 DEF Asks
  <2>5. PICK a : a \in {"hold", "fail"} /\ pc' = [pc EXCEPT ![t].at = a]
    BY <2>1
  <2> QED BY <1>4, <2>1, <2>4, <2>5
<1> QED BY <1>3, <1>5, <1>6, <1>7, <1>8 DEF Job, JobFault

LEMMA LandClean ==
  ASSUME IInv, SlotInv, CleanInv, Land, MaxCrashes = 0
  PROVE  CleanInv'
<1>1. PICK h, t : h = Head(saves) /\ t = h.task
  OBVIOUS
<1>2. saves # <<>> /\ saves' = Tail(saves) /\ task' = Memory /\ UNCHANGED <<session, worktree, rounds>> /\ ~LandRecover
  <2>1. ~LandRecover
    BY NoRecovers
  <2>2. CASE Publish /\ saves # <<>>
    BY <2>1, <2>2 DEF Publish, worldVars, countVars
  <2>3. CASE LandLocate \/ LandLink
    BY <2>1, <2>3 DEF LandLocate, LandLink, Lands, worldVars, countVars
  <2>4. LandRecover \/ LandLocate \/ LandLink \/ (Publish /\ saves # <<>>)
    BY DEF Land, LandUser, LandQuiet, LandCancel, LandTurn, LandSettle, LandBegin, LandFail, Lands
  <2> QED BY <2>1, <2>2, <2>3, <2>4
<1>3. /\ t \in Task /\ (h.by \in JobKinds => pc[t].at = SavePlace(h.by))
      /\ pc \in [Task -> JobRow]
  BY <1>1, <1>2, LandFacts DEF IInv, TypesInv, RunTypes
<1>4. \/ UNCHANGED pc
      \/ h.by = "begin" /\ pc' = [pc EXCEPT ![t] = [at |-> "ensure", op |-> h.rec.op]]
      \/ h.by = "locate" /\ (pc' = [pc EXCEPT ![t].at = "create"] \/ pc' = [pc EXCEPT ![t].at = "hold"])
      \/ h.by \in {"link", "fail", "found"} /\ pc' = [pc EXCEPT ![t].at = "hold"]
  BY <1>1, <1>2 DEF Land, LandUser, LandQuiet, LandCancel, LandTurn, LandSettle, LandBegin, LandLocate, LandLink, LandFail,
       Finally, Lands, runVars
<1>5. /\ \A u \in Task \ {t} : pc'[u] = pc[u]
      /\ pc'[t].at \in {"create", "link"} => pc[t].at \in {"create", "link"} \/ h.by = "locate"
      /\ pc[t].at = "locate" => h.by = "locate" \/ pc'[t].at = "locate"
  BY <1>3, <1>4 DEF JobRow, JobKinds, SavePlace
<1>6. Locating(t)' => h.by = "begin" \/ (h.by # "locate" /\ UNCHANGED pc)
  <2>1. h.by = "locate" => pc' = [pc EXCEPT ![t].at = "create"] \/ pc' = [pc EXCEPT ![t].at = "hold"]
    BY <1>1, <1>2 DEF Land, LandUser, LandQuiet, LandCancel, LandTurn, LandSettle, LandBegin, LandLocate, LandLink, LandFail,
       Finally, Lands
  <2> QED BY <1>3, <1>4, <2>1 DEF JobRow, Locating
<1>7. \A u \in Task : lock'[u].by = "cancel" => lock[u].by = "cancel"
  <2>1. UNCHANGED lock \/ lock' = Unlock(t)
    BY <1>1, <1>2 DEF Land, LandUser, LandQuiet, LandCancel, LandTurn, LandSettle, LandBegin, LandLocate, LandLink, LandFail
  <2>2. lock \in [Task -> LockRow]
    BY DEF IInv, TypesInv, BoardTypes
  <2> QED BY <2>1, <2>2 DEF Unlock, Free
<1> QED BY <1>1, <1>2, <1>5, <1>6, <1>7, CleanLands

LEMMA DaemonClean ==
  ASSUME IInv, SlotInv, CleanInv, NEW o \in Op, Daemon(o)
  PROVE  CleanInv'
<1>1. /\ UNCHANGED <<task, saves, lock, pc, worktree, rounds>> /\ session \in [Op -> SessionRow]
      /\ \A p \in Op \ {o} : session'[p] = session[p]
  BY DEF Daemon, Open, EndTurn, Chat, AskPermission, AnswerPermission, Session, boardVars, runVars, countVars,
     IInv, TypesInv, RunTypes
<1>2. o \in 1..Len(rounds) /\ \A u \in Task : rounds[o] = u => pc[u].at = "create" \/ session[o].state \notin {"none", "gone"}
  <2>1. CASE Open(o)
    <3>1. PICK t \in Task : pc[t] = [at |-> "create", op |-> o]
      BY <2>1 DEF Open
    <3>2. Owns(t, o)
      BY <3>1, PlacedFacts DEF Rides
    <3> QED BY <3>1, <3>2, BoundAssumption DEF Owns, Op
  <2>2. CASE ~Open(o)
    <3>1. session[o].state \notin {"none", "gone"}
      BY <2>2 DEF Daemon, EndTurn, Chat, AskPermission, AnswerPermission, Session
    <3> QED BY <3>1 DEF CleanInv
  <2> QED BY <2>1, <2>2
<1>3. \A u \in Task : Quiet(u) /\ pc[u].at # "create" => Quiet(u)'
  <2>1. \A p \in 1..Len(rounds) : p \in Op
    BY BoundAssumption DEF Op, IInv, OnceInv
  <2> QED BY <1>1, <1>2, <2>1 DEF Quiet
<1>4. \A p \in Op : session'[p].state # "none" => p \in 1..Len(rounds')
  BY <1>1, <1>2 DEF CleanInv
<1>5. \A s : Pending(s)' => Pending(s)
  BY <1>1 DEF Pending
<1>6. \A u \in Task : Locating(u)' => Locating(u) /\ (lock'[u].by = "cancel" => lock[u].by = "cancel")
  BY <1>1 DEF Locating
<1> QED BY <1>1, <1>3, <1>4, <1>5, <1>6, CleanStays

LEMMA EndClean ==
  ASSUME IInv, SlotInv, CleanInv, NEW r \in Repo, JobEnds(r)
  PROVE  CleanInv'
<1>1. UNCHANGED <<task, saves, lock, session, worktree, rounds>> /\ jobs[r] # <<>>
  BY DEF JobEnds, boardVars, worldVars, countVars
<1>2. \/ pc' = pc
      \/ pc[Head(jobs[r]).task].at = "hold" /\ pc' = [pc EXCEPT ![Head(jobs[r]).task] = NoRun]
  BY DEF JobEnds
<1>3. \A u \in Task : pc'[u] = pc[u] \/ (pc[u].at # "locate" /\ pc'[u].at = "off")
  BY <1>2 DEF NoRun, IInv, TypesInv, RunTypes
<1>4. /\ \A u \in Task : pc'[u].at \in {"create", "link"} => pc[u].at \in {"create", "link"}
      /\ \A u \in Task : pc[u].at = "locate" => pc'[u].at = "locate"
  BY <1>3
<1>5. \A u : Quiet(u) => Quiet(u)'
  BY <1>1 DEF Quiet
<1>6. \A s : Pending(s)' => Pending(s)
  BY <1>1 DEF Pending
<1>7. \A o \in Op : session'[o].state # "none" => o \in 1..Len(rounds')
  BY <1>1 DEF CleanInv
<1>8. \A u \in Task : Locating(u)' => Locating(u) /\ (lock'[u].by = "cancel" => lock[u].by = "cancel")
  BY <1>1, <1>3 DEF Locating
<1> QED BY <1>1, <1>4, <1>5, <1>6, <1>7, <1>8, CleanStays

\* No one cancels a task whose worktree is being made, or is made and waits for
\* its location to be saved: such a cancel loses the location (deviation 5).
LocatedFirst == \A t \in Task : Cancel(t) => ~Locating(t)

LEMMA CleanInductive ==
  ASSUME MaxCrashes = 0, [LocatedFirst]_vars, IInv, SlotInv, WorkInv, CleanInv, [Next]_vars
  PROVE  CleanInv'
<1>0. ASSUME UNCHANGED vars PROVE CleanInv'
  <2>1. UNCHANGED <<task, saves, lock, session, worktree, rounds, pc>>
    BY <1>0 DEF vars, boardVars, runVars, worldVars, countVars
  <2> QED BY <2>1 DEF CleanInv, Tidy, Locating, Quiet, Pending, Leaves, Bare
<1>1. CASE Plugin
  <2>1. CASE Land
    BY <2>1, LandClean
  <2>2. CASE Deliver
    BY <2>2, EventClean
  <2>3. ASSUME NEW t \in Task, Job(t) \/ JobFault(t) PROVE CleanInv'
    BY <2>3, JobClean
  <2>4. ASSUME NEW t \in Task, User(t) PROVE CleanInv'
    <3>1. CASE UNCHANGED vars
      BY <1>0, <3>1
    <3>2. CASE LocatedFirst
      BY <2>4, <3>2, UserClean DEF LocatedFirst
    <3> QED BY <3>1, <3>2
  <2>5. ASSUME NEW t \in Task, SettleStep(t) \/ SettleFails(t) PROVE CleanInv'
    BY <2>5, SettleClean
  <2>6. ASSUME NEW t \in Task, Handle(t) \/ CaptureFails(t) PROVE CleanInv'
    BY <2>6, EventClean, TurnClean DEF Handle
  <2>7. ASSUME NEW r \in Repo, JobEnds(r) PROVE CleanInv'
    BY <2>7, EndClean
  <2> QED BY <1>1, <2>1, <2>2, <2>3, <2>4, <2>5, <2>6, <2>7 DEF Plugin
<1>2. CASE \E o \in Op : Daemon(o)
  BY <1>2, DaemonClean
<1> QED BY <1>0, <1>1, <1>2, NoRecovers DEF Next

\* "Only complete cleanup removes the record" (README.md:38, engine.ts:331): for any
\* tasks, faults and users, if no one cancels a task before the location of its
\* worktree is saved (deviation 5), a task that is deleted leaves no worktree and no
\* session at work.
THEOREM QueueDeletedIsClean ==
  ASSUME MaxCrashes = 0
  PROVE  Spec /\ [][LocatedFirst]_vars => []DeletedIsClean
<1>1. Init => SlotInv /\ WorkInv /\ CleanInv
  <2>1. Init => CleanInv
    BY DEF Init, CleanInv, Tidy, Locating, Quiet, Draft, NoSession, NoRun, Pending
  <2> QED BY <2>1, InitSlot, InitWork
<1>2. IInv /\ SlotInv /\ WorkInv /\ CleanInv /\ [Next]_vars /\ [LocatedFirst]_vars => SlotInv' /\ WorkInv' /\ CleanInv'
  BY SlotInductive, WorkInductive, CleanInductive
<1>3. ASSUME IInv, SlotInv, CleanInv PROVE DeletedIsClean
  <2>1. ASSUME NEW t \in Task, task[t].status = "deleted" PROVE Bare(t)
    <3>1. Tidy(t) /\ Dispatched(t)
      BY <1>3, PlacedFacts DEF CleanInv
    <3>2. ~InPrepare(t)
      BY <2>1, <3>1 DEF Dispatched, Dispatches
    <3> QED BY <2>1, <3>1, <3>2 DEF Tidy, Bare, InPrepare
  <2>2. DOMAIN rounds = 1..Len(rounds)
    BY <1>3 DEF IInv, TypesInv, RunTypes
  <2> QED BY <2>1, <2>2 DEF DeletedIsClean, Bare, Quiet, Active
<1> QED BY <1>1, <1>2, <1>3, QueueInvariant, PTL DEF Spec
=============================================================================
