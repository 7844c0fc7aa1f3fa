--------------------------- MODULE TaskStoreProofs ---------------------------
(***************************************************************************)
(* Proofs about TaskStore, for any instances, tasks and calls.             *)
(*                                                                         *)
(* The lock argument needs no more than who holds the lock.  The others    *)
(* follow the calls: every queued transaction belongs to a call that is in *)
(* a span of the same instance, or to a createTask; dispose() lets the     *)
(* lock go only when no span is left and the queue it found then is empty; *)
(* so an instance that writes still owns the lock, it is alone, and its    *)
(* memory is the file.  createTask saves outside the spans, and may queue  *)
(* behind what dispose() waits for: the theorems that depend on it speak   *)
(* of the behaviours in which that does not happen.                        *)
(***************************************************************************)
EXTENDS TaskStore, TLAPS

\* The head and the rest of a queue that is not empty.
LEMMA TxType ==
  ASSUME TypeOK, NEW p \in Plugin, queue[p] # <<>>
  PROVE  /\ Head(queue[p]) \in Transaction
         /\ Tail(queue[p]) \in Seq(Transaction)
BY DEF TypeOK

\* A queue is not empty after a transaction joins it.
LEMMA AppendNotEmpty ==
  ASSUME NEW S, NEW s \in Seq(S), NEW e \in S
  PROVE  Append(s, e) # <<>>
<1>1. Len(Append(s, e)) = Len(s) + 1 /\ Len(s) \in Nat
  OBVIOUS
<1>2. Len(<<>>) = 0
  OBVIOUS
<1> QED BY <1>1, <1>2

LEMMA InitType == Init => TypeOK
<1> SUFFICES ASSUME Init PROVE TypeOK
  OBVIOUS
<1> USE DEF Init
<1>1. disk \in Board \cup {Corrupt} /\ memory \in [Plugin -> Board]
  BY DEF Board, NoTasks
<1>2. queue \in [Plugin -> Seq(Transaction)]
  OBVIOUS
<1>3. /\ applied \subseteq Call
      /\ lockDir \in BOOLEAN
      /\ owned \subseteq Plugin
      /\ writable \subseteq Plugin
      /\ phase \in [Plugin -> Phase]
      /\ loadError \in [Plugin -> {"none", "store-locked", "store-invalid"}]
      /\ io \in [Plugin -> {"idle", "writing", "renamed"}]
      /\ \A p \in Plugin : io[p] # "idle" => queue[p] # <<>>
      /\ drain \in [Plugin -> Nat]
  BY DEF Phase
<1>4. /\ call \in [Call -> {"idle", "entered", "queued", "done", "failed", "lost"}]
      /\ spans \in [Plugin -> SUBSET Call]
      /\ creating \in [Plugin -> SUBSET Create]
  OBVIOUS
<1> QED BY <1>1, <1>2, <1>3, <1>4 DEF TypeOK

LEMMA NextType == TypeOK /\ [Next]_vars => TypeOK'
<1> SUFFICES ASSUME TypeOK, [Next]_vars PROVE TypeOK'
  OBVIOUS
<1> USE DEF fileVars, lockVars, lifeVars, queueVars, callVars, Phase
<1>1. CASE UNCHANGED vars
  BY <1>1 DEF vars, TypeOK
<1>2. ASSUME NEW p \in Plugin, Acquire(p) PROVE TypeOK'
  BY <1>2 DEF Acquire, TypeOK
<1>3. ASSUME NEW p \in Plugin, AcquireFails(p) PROVE TypeOK'
  BY <1>3 DEF AcquireFails, TypeOK
<1>4. ASSUME NEW p \in Plugin, Load(p) PROVE TypeOK'
  <2>1. disk # Corrupt => disk \in Board
    BY DEF TypeOK
  <2>2. NoTasks \in Board
    BY DEF NoTasks, Board
  <2>3. memory' \in [Plugin -> Board] /\ writable' \subseteq Plugin
    BY <1>4, <2>1, <2>2 DEF Load, LoadedTasks, FileParses, TypeOK
  <2>4. loadError' \in [Plugin -> {"none", "store-locked", "store-invalid"}]
        /\ phase' \in [Plugin -> Phase]
    BY <1>4 DEF Load, TypeOK
  <2> QED BY <1>4, <2>3, <2>4 DEF Load, TypeOK
<1>5. ASSUME NEW p \in Plugin, StartWrite(p) PROVE TypeOK'
  BY <1>5 DEF StartWrite, TypeOK
<1>6. ASSUME NEW p \in Plugin, FailWrite(p) PROVE TypeOK'
  <2>1. Head(queue[p]) \in Transaction /\ Tail(queue[p]) \in Seq(Transaction)
    BY <1>6, TxType DEF FailWrite
  <2>2. Head(queue[p]).call \in Call
    BY <2>1 DEF Transaction
  <2> QED BY <1>6, <2>1, <2>2 DEF FailWrite, Settle, CountDown, LeaveSpan, TypeOK
<1>7. ASSUME NEW p \in Plugin, Rename(p) PROVE TypeOK'
  <2>1. Head(queue[p]) \in Transaction
    BY <1>7, TxType DEF Rename, TypeOK
  <2> QED BY <1>7, <2>1 DEF Rename, TypeOK, Change, Board, Transaction
<1>8. ASSUME NEW p \in Plugin, Publish(p) PROVE TypeOK'
  <2>1. Head(queue[p]) \in Transaction /\ Tail(queue[p]) \in Seq(Transaction)
    BY <1>8, TxType DEF Publish, TypeOK
  <2>2. memory' \in [Plugin -> Board]
    BY <1>8, <2>1 DEF Publish, NextMemory, TypeOK, Change, Board, Transaction
  <2>3. Head(queue[p]).call \in Call
    BY <2>1 DEF Transaction
  <2> USE <1>8 DEF Publish, Settle
  <2>4. queue' \in [Plugin -> Seq(Transaction)]
    BY <2>1 DEF TypeOK
  <2>5. \A q \in Plugin : io'[q] # "idle" => queue'[q] # <<>>
    BY DEF TypeOK
  <2>6. drain' \in [Plugin -> Nat] /\ io' \in [Plugin -> {"idle", "writing", "renamed"}]
    BY DEF TypeOK, CountDown
  <2> QED BY <2>2, <2>3, <2>4, <2>5, <2>6 DEF TypeOK, LeaveSpan
<1>9. ASSUME NEW p \in Plugin, Dispose(p) PROVE TypeOK'
  BY <1>9 DEF Dispose, TypeOK
<1>10. ASSUME NEW p \in Plugin, Close(p) PROVE TypeOK'
  BY <1>10 DEF Close, TypeOK
<1>11. ASSUME NEW p \in Plugin, Release(p) PROVE TypeOK'
  BY <1>11 DEF Release, TypeOK
<1>12. ASSUME NEW p \in Plugin, RemoveLock(p) PROVE TypeOK'
  BY <1>12 DEF RemoveLock, TypeOK
<1>13. ASSUME NEW p \in Plugin, RemoveLockFails(p) PROVE TypeOK'
  BY <1>13 DEF RemoveLockFails, TypeOK
<1>14. ASSUME NEW p \in Plugin, Crash(p) PROVE TypeOK'
  BY <1>14 DEF Crash, TypeOK
<1>15. ASSUME NEW p \in Plugin, NEW c \in Call, Enter(c, p) PROVE TypeOK'
  BY <1>15 DEF Enter, TypeOK
<1>16. ASSUME NEW p \in Plugin, NEW c \in Call, AcceptCreate(c, p) PROVE TypeOK'
  BY <1>16 DEF AcceptCreate, TypeOK
<1>17. ASSUME NEW p \in Plugin, NEW c \in Call, Save(c, p) PROVE TypeOK'
  <2> PICK kind \in Kind, t \in Task : Transact(c, p, kind, t)
    BY <1>17 DEF Save
  <2>1. [call |-> c, kind |-> kind, task |-> t] \in Transaction
    BY DEF Transaction
  <2>2. queue' \in [Plugin -> Seq(Transaction)]
    BY <2>1 DEF Transact, TypeOK
  <2>3. Append(queue[p], [call |-> c, kind |-> kind, task |-> t]) # <<>>
    BY <2>1, AppendNotEmpty DEF TypeOK
  <2>4. \A q \in Plugin : io'[q] # "idle" => queue'[q] # <<>>
    <3>1. queue' = [queue EXCEPT ![p] = Append(@, [call |-> c, kind |-> kind, task |-> t])] /\ io' = io
      BY DEF Transact
    <3> QED BY <2>3, <3>1 DEF TypeOK
  <2> QED BY <2>2, <2>4 DEF Transact, TypeOK
<1>18. ASSUME NEW c \in Call, GiveUp(c) PROVE TypeOK'
  BY <1>18 DEF GiveUp, TypeOK
<1>19. CASE OperatorUnlock
  BY <1>19 DEF OperatorUnlock, TypeOK
<1> QED
  BY <1>1, <1>2, <1>3, <1>4, <1>5, <1>6, <1>7, <1>8, <1>9, <1>10, <1>11, <1>12, <1>13,
     <1>14, <1>15, <1>16, <1>17, <1>18, <1>19
  DEF Next, Open, Work, Shutdown

\* Every action keeps every variable of the store and of the spans in its type.
THEOREM StoreTypeCorrect == Spec => []TypeOK
BY InitType, NextType, PTL DEF Spec

-----------------------------------------------------------------------------
(* One owner *)

\* The instance whose lock directory it is: it owns it, or is about to remove it.
Holders == owned \cup {p \in Plugin : phase[p] = "removing"}

LockInv ==
    /\ \A p \in Holders : lockDir /\ Holders = {p}
    /\ \A p \in owned : phase[p] \in {"locked", "open", "draining", "closed"}

LEMMA LockStep == TypeOK /\ LockInv /\ [Next]_vars => LockInv'
<1> SUFFICES ASSUME TypeOK, LockInv, [Next]_vars PROVE LockInv'
  OBVIOUS
<1> USE DEF fileVars, lockVars, lifeVars, queueVars, callVars, Phase, LockInv, Holders, TypeOK
<1>1. ASSUME UNCHANGED <<lockVars, phase>> PROVE LockInv'
  BY <1>1
<1>2. ASSUME NEW p \in Plugin, Acquire(p) PROVE LockInv'
  BY <1>2 DEF Acquire, LockFree
<1>3. ASSUME NEW p \in Plugin, AcquireFails(p) PROVE LockInv'
  BY <1>3 DEF AcquireFails
<1>4. ASSUME NEW p \in Plugin, Load(p) PROVE LockInv'
  BY <1>4 DEF Load
<1>5. ASSUME NEW p \in Plugin, Work(p) PROVE LockInv'
  BY <1>5, <1>1 DEF Work, StartWrite, FailWrite, Rename, Publish
<1>6. ASSUME NEW p \in Plugin, Dispose(p) PROVE LockInv'
  BY <1>6 DEF Dispose
<1>7. ASSUME NEW p \in Plugin, Close(p) PROVE LockInv'
  BY <1>7 DEF Close
<1>8. ASSUME NEW p \in Plugin, Release(p) PROVE LockInv'
  BY <1>8 DEF Release, Releasing
<1>9. ASSUME NEW p \in Plugin, RemoveLock(p) PROVE LockInv'
  BY <1>9 DEF RemoveLock
<1>10. ASSUME NEW p \in Plugin, RemoveLockFails(p) PROVE LockInv'
  BY <1>10 DEF RemoveLockFails
<1>11. ASSUME NEW p \in Plugin, Crash(p) PROVE LockInv'
  BY <1>11 DEF Crash, Alive
<1>12. ASSUME NEW p \in Plugin, NEW c \in Call,
              Enter(c, p) \/ AcceptCreate(c, p) \/ Save(c, p)
       PROVE  LockInv'
  BY <1>12, <1>1 DEF Enter, AcceptCreate, Save, Transact
<1>13. ASSUME NEW c \in Call, GiveUp(c) PROVE LockInv'
  BY <1>13, <1>1 DEF GiveUp
<1>14. CASE OperatorUnlock
  BY <1>14 DEF OperatorUnlock, Alive
<1>15. CASE UNCHANGED vars
  BY <1>15, <1>1 DEF vars
<1> QED
  BY <1>2, <1>3, <1>4, <1>5, <1>6, <1>7, <1>8, <1>9, <1>10, <1>11, <1>12, <1>13, <1>14, <1>15
  DEF Next, Open, Shutdown

\* Two instances never own one data directory (the lock of store.ts), however
\* many there are and in whatever order they open, crash and are unlocked.
THEOREM StoreOneOwner == Spec => []OneOwner
<1>1. Init => LockInv
  BY DEF Init, LockInv, Holders
<1>2. LockInv => OneOwner
  BY DEF LockInv, OneOwner, Holders
<1> QED BY <1>1, <1>2, LockStep, StoreTypeCorrect, PTL DEF Spec

-----------------------------------------------------------------------------
(* Writes under the lock *)

\* The calls, their spans and their transactions.  A call is in one span at
\* most, and there until its transaction settles; shutdown leaves no span, and
\* waits for what it finds in the queue.
SpanCalls ==
    \A p \in Plugin : \A c \in spans[p] :
      /\ c \notin Create
      /\ call[c] \in {"entered", "queued"}
      /\ phase[p] \in {"open", "draining"}
      /\ \A q \in Plugin \ {p} : c \notin spans[q]

CreateCalls ==
    \A p \in Plugin : \A c \in creating[p] :
      /\ call[c] = "entered"
      /\ \A q \in Plugin \ {p} : c \notin creating[q]

QueueCalls ==
    \A p \in Plugin : \A i \in 1..Len(queue[p]) :
      /\ queue[p][i].call \in spans[p] \cup Create
      /\ call[queue[p][i].call] = "queued"
      /\ \A q \in Plugin : \A j \in 1..Len(queue[q]) :
           queue[p][i].call = queue[q][j].call => p = q /\ i = j

QueueOwned ==
    /\ \A p \in Plugin : queue[p] # <<>> => p \in writable
    /\ \A p \in Plugin : phase[p] = "locked" => p \in owned
    /\ \A p \in writable : p \in owned /\ phase[p] \in {"open", "draining", "closed"}
    /\ \A p \in Plugin : phase[p] = "closed" => Len(queue[p]) <= drain[p]

SpanInv == SpanCalls /\ CreateCalls /\ QueueCalls /\ QueueOwned

\* No createTask queues its save behind those that dispose() waits for.
InTime == \A p \in Plugin : phase[p] = "closed" => Len(queue'[p]) <= Len(queue[p])

\* The facts the steps below take from SpanInv about a queue and its head.
LEMMA HeadTx ==
  ASSUME TypeOK, SpanInv, NEW p \in Plugin, queue[p] # <<>>
  PROVE  /\ Head(queue[p]) \in Transaction
         /\ Head(queue[p]).call \in Call
         /\ Head(queue[p]).call \in spans[p] \cup Create
         /\ call[Head(queue[p]).call] = "queued"
         /\ Len(Tail(queue[p])) = Len(queue[p]) - 1 /\ Len(queue[p]) \in Nat \ {0}
         /\ \A i \in 1..Len(Tail(queue[p])) :
              /\ Tail(queue[p])[i] = queue[p][i + 1]
              /\ i + 1 \in 1..Len(queue[p])
              /\ queue[p][i + 1].call # Head(queue[p]).call
         /\ \A q \in Plugin \ {p} : \A i \in 1..Len(queue[q]) : queue[q][i].call # Head(queue[p]).call
<1>1. queue[p] \in Seq(Transaction)
  BY DEF TypeOK
<1>2. Head(queue[p]) = queue[p][1] /\ 1 \in 1..Len(queue[p])
  BY <1>1
<1>3. /\ Head(queue[p]) \in Transaction
      /\ Head(queue[p]).call \in spans[p] \cup Create
      /\ call[Head(queue[p]).call] = "queued"
  BY <1>1, <1>2 DEF SpanInv, QueueCalls
<1>4. /\ Len(Tail(queue[p])) = Len(queue[p]) - 1 /\ Len(queue[p]) \in Nat \ {0}
      /\ \A i \in 1..Len(Tail(queue[p])) :
           Tail(queue[p])[i] = queue[p][i + 1] /\ i + 1 \in 1..Len(queue[p])
  BY <1>1
<1>5. \A i \in 1..Len(Tail(queue[p])) : queue[p][i + 1].call # Head(queue[p]).call
  BY <1>1, <1>2, <1>4 DEF SpanInv, QueueCalls
<1>6. \A q \in Plugin \ {p} : \A i \in 1..Len(queue[q]) : queue[q][i].call # Head(queue[p]).call
  BY <1>2 DEF SpanInv, QueueCalls
<1>7. Head(queue[p]).call \in Call
  BY <1>3 DEF Transaction
<1> QED BY <1>3, <1>4, <1>5, <1>6, <1>7

\* A settled transaction leaves the queue, and its call leaves its span.
LEMMA SettleStep ==
  ASSUME TypeOK, SpanInv, NEW p \in Plugin, NEW outcome, queue[p] # <<>>,
         Settle(p, outcome), UNCHANGED <<phase, owned, writable, creating>>
  PROVE  SpanInv'
<1> DEFINE c == Head(queue[p]).call
<1>1. /\ queue' = [queue EXCEPT ![p] = Tail(queue[p])]
      /\ call' = [call EXCEPT ![c] = outcome]
      /\ spans' = [spans EXCEPT ![p] = @ \ {c}]
      /\ drain' = [drain EXCEPT ![p] = CountDown(drain[p])]
      /\ UNCHANGED <<phase, owned, writable, creating>>
  BY DEF Settle, LeaveSpan
<1>2. c \in Call /\ c \in spans[p] \cup Create /\ call[c] = "queued"
  BY HeadTx
<1>3. \A q \in Plugin \ {p} : queue'[q] = queue[q] /\ spans'[q] = spans[q] /\ drain'[q] = drain[q] /\ c \notin spans[q]
  BY <1>1, <1>2 DEF TypeOK, SpanInv, SpanCalls
<1>4. spans'[p] = spans[p] \ {c} /\ queue'[p] = Tail(queue[p]) /\ drain'[p] = CountDown(drain[p])
  BY <1>1 DEF TypeOK
<1>5. \A b \in Call \ {c} : call'[b] = call[b]
  BY <1>1 DEF TypeOK
<1>6. SpanCalls'
  BY <1>1, <1>3, <1>4, <1>5 DEF TypeOK, SpanInv, SpanCalls
<1>7. CreateCalls'
  <2> SUFFICES ASSUME NEW q \in Plugin, NEW b \in creating[q]
               PROVE  call'[b] = "entered" /\ \A o \in Plugin \ {q} : b \notin creating[o]
    BY <1>1 DEF CreateCalls
  <2>1. call[b] = "entered" /\ (\A o \in Plugin \ {q} : b \notin creating[o])
    BY DEF SpanInv, CreateCalls
  <2>2. b \in Call /\ b # c
    BY <1>2, <2>1, CreateAssumption DEF TypeOK
  <2> QED BY <1>5, <2>1, <2>2
\* What is still queued was queued before.
<1>8. ASSUME NEW q \in Plugin, NEW i \in 1..Len(queue'[q])
      PROVE  \E k \in 1..Len(queue[q]) :
               /\ queue'[q][i] = queue[q][k] /\ queue[q][k].call # c
               /\ k = IF q = p THEN i + 1 ELSE i
  <2>1. CASE q = p
    BY <1>4, <2>1, HeadTx
  <2>2. CASE q # p
    BY <1>3, <2>2, HeadTx
  <2> QED BY <2>1, <2>2
<1>9. QueueCalls'
  <2> SUFFICES ASSUME NEW q \in Plugin, NEW i \in 1..Len(queue'[q])
               PROVE  /\ queue'[q][i].call \in spans'[q] \cup Create
                      /\ call'[queue'[q][i].call] = "queued"
                      /\ \A o \in Plugin : \A j \in 1..Len(queue'[o]) :
                           queue'[q][i].call = queue'[o][j].call => q = o /\ i = j
    BY DEF QueueCalls
  <2>1. PICK k \in 1..Len(queue[q]) : /\ queue'[q][i] = queue[q][k] /\ queue[q][k].call # c
                                      /\ k = IF q = p THEN i + 1 ELSE i
    BY <1>8
  <2>2. queue[q][k].call \in spans[q] \cup Create /\ call[queue[q][k].call] = "queued"
    BY DEF SpanInv, QueueCalls
  <2>3. queue[q][k].call \in Call
    BY <2>2, CreateAssumption DEF TypeOK
  <2>4. ASSUME NEW o \in Plugin, NEW j \in 1..Len(queue'[o]), queue'[q][i].call = queue'[o][j].call
        PROVE  q = o /\ i = j
    <3>1. PICK l \in 1..Len(queue[o]) : queue'[o][j] = queue[o][l] /\ l = IF o = p THEN j + 1 ELSE j
      BY <1>8
    <3>2. q = o /\ k = l
      BY <2>1, <2>4, <3>1 DEF SpanInv, QueueCalls
    <3>3. i \in Nat /\ j \in Nat
      OBVIOUS
    <3> QED BY <2>1, <3>1, <3>2, <3>3
  <2> QED BY <1>3, <1>4, <1>5, <2>1, <2>2, <2>3, <2>4
<1>10. QueueOwned'
  <2>1. \A q \in Plugin : phase[q] = "closed" => Len(queue'[q]) <= drain'[q]
    <3>1. phase[p] = "closed" => Len(queue'[p]) <= drain'[p]
      <4>1. drain[p] \in Nat /\ Len(queue'[p]) = Len(queue[p]) - 1 /\ Len(queue[p]) \in Nat \ {0}
        BY <1>4, HeadTx DEF TypeOK
      <4>2. phase[p] = "closed" => Len(queue[p]) <= drain[p]
        BY DEF SpanInv, QueueOwned
      <4> QED BY <1>4, <4>1, <4>2 DEF CountDown
    <3> QED BY <1>3, <3>1 DEF SpanInv, QueueOwned
  <2> QED BY <1>1, <1>3, <2>1 DEF TypeOK, SpanInv, QueueOwned
<1> QED BY <1>6, <1>7, <1>9, <1>10 DEF SpanInv

LEMMA SpanStep == TypeOK /\ SpanInv /\ [Next]_vars /\ [InTime]_vars => SpanInv'
<1> SUFFICES ASSUME TypeOK, SpanInv, [Next]_vars, [InTime]_vars PROVE SpanInv'
  OBVIOUS
<1> USE DEF fileVars, lockVars, lifeVars, queueVars, callVars, Phase, SpanCalls, CreateCalls, QueueCalls, QueueOwned
<1>1. ASSUME UNCHANGED <<lifeVars, lockVars, queue, drain, callVars>> PROVE SpanInv'
  BY <1>1 DEF SpanInv
<1>2. ASSUME NEW p \in Plugin, Acquire(p) PROVE SpanInv'
  BY <1>2 DEF Acquire, SpanInv, TypeOK
<1>3. ASSUME NEW p \in Plugin, AcquireFails(p) PROVE SpanInv'
  BY <1>3 DEF AcquireFails, SpanInv, TypeOK
<1>4. ASSUME NEW p \in Plugin, Load(p) PROVE SpanInv'
  BY <1>4 DEF Load, SpanInv, TypeOK
<1>5. ASSUME NEW p \in Plugin, StartWrite(p) \/ Rename(p) PROVE SpanInv'
  BY <1>5, <1>1 DEF StartWrite, Rename
<1>6. ASSUME NEW p \in Plugin, FailWrite(p) PROVE SpanInv'
  BY <1>6, SettleStep DEF FailWrite
<1>7. ASSUME NEW p \in Plugin, Publish(p) PROVE SpanInv'
  BY <1>7, SettleStep DEF Publish, TypeOK
<1>8. ASSUME NEW p \in Plugin, Dispose(p) PROVE SpanInv'
  BY <1>8 DEF Dispose, SpanInv, TypeOK
<1>9. ASSUME NEW p \in Plugin, Close(p) PROVE SpanInv'
  <2>1. Len(queue[p]) \in Nat
    BY DEF TypeOK
  <2> QED BY <1>9, <2>1 DEF Close, SpanInv, TypeOK
<1>10. ASSUME NEW p \in Plugin, Release(p) PROVE SpanInv'
  <2>1. queue[p] = <<>>
    <3>1. queue[p] \in Seq(Transaction) /\ Len(queue[p]) <= 0
      BY <1>10 DEF Release, Releasing, SpanInv, TypeOK
    <3> QED BY <3>1
  <2>2. Len(<<>>) = 0
    OBVIOUS
  <2>3. /\ phase' = [phase EXCEPT ![p] = IF p \in owned THEN "removing" ELSE "gone"]
        /\ phase[p] = "closed" /\ owned' = owned \ {p} /\ writable' = writable \ {p}
        /\ UNCHANGED <<queue, drain, call, spans, creating>>
    BY <1>10 DEF Release, Releasing
  <2>4. SpanCalls'
    BY <2>3 DEF SpanInv, TypeOK
  <2>5. CreateCalls' /\ QueueCalls'
    BY <2>3 DEF SpanInv
  <2>6. QueueOwned'
    BY <2>1, <2>3 DEF SpanInv, TypeOK
  <2> QED BY <2>4, <2>5, <2>6 DEF SpanInv
<1>11. ASSUME NEW p \in Plugin, RemoveLock(p) \/ RemoveLockFails(p) PROVE SpanInv'
  <2>1. CASE RemoveLock(p)
    BY <2>1 DEF RemoveLock, SpanInv, TypeOK
  <2>2. CASE RemoveLockFails(p)
    BY <2>2 DEF RemoveLockFails, SpanInv, TypeOK
  <2> QED BY <1>11, <2>1, <2>2
<1>12. ASSUME NEW p \in Plugin, Crash(p) PROVE SpanInv'
  <2>1. /\ queue' = [queue EXCEPT ![p] = <<>>] /\ spans' = [spans EXCEPT ![p] = {}]
        /\ creating' = [creating EXCEPT ![p] = {}] /\ phase' = [phase EXCEPT ![p] = "crashed"]
        /\ call' = [c \in Call |-> IF c \in HeldBy(p) THEN "lost" ELSE call[c]]
        /\ owned' = owned \ {p} /\ writable' = writable \ {p} /\ drain' = [drain EXCEPT ![p] = 0]
    BY <1>12 DEF Crash
  <2>2. /\ queue'[p] = <<>> /\ spans'[p] = {} /\ creating'[p] = {} /\ phase'[p] = "crashed"
        /\ \A q \in Plugin \ {p} : /\ queue'[q] = queue[q] /\ spans'[q] = spans[q] /\ creating'[q] = creating[q]
                                    /\ phase'[q] = phase[q] /\ drain'[q] = drain[q]
    BY <2>1 DEF TypeOK
  \* Whatever the others hold is not in the hands of p.
  <2>3. ASSUME NEW q \in Plugin \ {p}, NEW c \in HeldBy(q) PROVE c \in Call /\ call'[c] = call[c]
    <3>1. c \in Call
      BY CreateAssumption DEF HeldBy, SpanInv, TypeOK
    <3>2. c \notin HeldBy(p)
      <4>4. DOMAIN queue[q] = 1..Len(queue[q]) /\ DOMAIN queue[p] = 1..Len(queue[p])
        BY DEF TypeOK
      <4>1. CASE c \in spans[q]
        BY <4>1 DEF HeldBy, SpanInv, TypeOK
      <4>2. CASE c \in creating[q]
        <5>1. c \in Create /\ call[c] = "entered" /\ c \notin creating[p]
          BY <4>2 DEF SpanInv, TypeOK
        <5>2. c \notin spans[p]
          BY <5>1 DEF SpanInv
        <5>3. \A i \in DOMAIN queue[p] : queue[p][i].call # c
          BY <5>1, <4>4 DEF SpanInv
        <5> QED BY <5>1, <5>2, <5>3 DEF HeldBy
      <4>3. ASSUME NEW i \in 1..Len(queue[q]), c = queue[q][i].call PROVE c \notin HeldBy(p)
        <5>1. c \in spans[q] \cup Create /\ call[c] = "queued"
          BY <4>3 DEF SpanInv
        <5>2. c \notin spans[p]
          BY <5>1 DEF SpanInv
        <5>3. c \notin creating[p]
          BY <5>1 DEF SpanInv
        <5>4. \A j \in DOMAIN queue[p] : queue[p][j].call # c
          BY <4>3, <4>4 DEF SpanInv
        <5> QED BY <5>2, <5>3, <5>4 DEF HeldBy
      <4> QED BY <4>1, <4>2, <4>3, <4>4 DEF HeldBy
    <3> QED BY <2>1, <3>1, <3>2
  <2>4. \A q \in Plugin : \A i \in 1..Len(queue[q]) : queue[q][i].call \in HeldBy(q)
    BY DEF HeldBy, TypeOK
  <2>5. SpanCalls' /\ CreateCalls'
    <3>1. ASSUME NEW q \in Plugin, NEW c \in spans'[q] PROVE q # p /\ c \in spans[q] /\ call'[c] = call[c]
      BY <2>2, <2>3, <3>1 DEF HeldBy
    <3>2. ASSUME NEW q \in Plugin, NEW c \in creating'[q] PROVE q # p /\ c \in creating[q] /\ call'[c] = call[c]
      BY <2>2, <2>3, <3>2 DEF HeldBy
    <3>3. SpanCalls'
      BY <2>2, <3>1 DEF SpanInv
    <3>4. CreateCalls'
      BY <2>2, <3>2 DEF SpanInv
    <3> QED BY <3>3, <3>4
  <2>6. QueueCalls'
    <3>1. Len(<<>>) = 0
      OBVIOUS
    <3>2. \A q \in Plugin : \A i \in 1..Len(queue'[q]) :
            q # p /\ queue'[q] = queue[q] /\ spans'[q] = spans[q] /\ call'[queue[q][i].call] = call[queue[q][i].call]
      BY <2>2, <2>3, <2>4, <3>1
    <3> QED BY <3>2 DEF SpanInv
  <2>7. QueueOwned'
    BY <2>1, <2>2 DEF SpanInv, TypeOK
  <2> QED BY <2>5, <2>6, <2>7 DEF SpanInv
<1>13. ASSUME NEW p \in Plugin, NEW c \in Call, Enter(c, p) PROVE SpanInv'
  <2>1. /\ call[c] = "idle" /\ c \notin Create /\ phase[p] \in {"open", "draining"}
        /\ call' = [call EXCEPT ![c] = "entered"] /\ spans' = [spans EXCEPT ![p] = @ \cup {c}]
        /\ UNCHANGED <<phase, owned, writable, queue, drain, creating>>
    BY <1>13 DEF Enter, EnterAllowed
  <2>2. \A q \in Plugin : c \notin spans[q] /\ c \notin creating[q]
    BY <2>1 DEF SpanInv
  <2>3. \A q \in Plugin : \A i \in 1..Len(queue[q]) : queue[q][i].call # c
    BY <2>1 DEF SpanInv
  <2>4. \A b \in Call : b # c => call'[b] = call[b]
    BY <2>1 DEF TypeOK
  <2>5. \A q \in Plugin : spans'[q] = IF q = p THEN spans[q] \cup {c} ELSE spans[q]
    BY <2>1 DEF TypeOK
  <2>6. SpanCalls'
    BY <2>1, <2>2, <2>4, <2>5 DEF SpanInv, TypeOK
  <2>7. CreateCalls'
    BY <2>1, <2>2, <2>4, CreateAssumption DEF SpanInv, TypeOK
  <2>8. QueueCalls'
    <3>1. ASSUME NEW q \in Plugin, NEW i \in 1..Len(queue[q])
          PROVE  queue[q][i].call \in spans'[q] \cup Create /\ call'[queue[q][i].call] = "queued"
      <4>1. queue[q][i].call \in spans[q] \cup Create /\ call[queue[q][i].call] = "queued" /\ queue[q][i].call # c
        BY <2>3 DEF SpanInv
      <4>2. queue[q][i].call \in Call
        BY <4>1, CreateAssumption DEF TypeOK
      <4> QED BY <2>4, <2>5, <4>1, <4>2
    <3> QED BY <2>1, <3>1 DEF SpanInv
  <2>9. QueueOwned'
    BY <2>1 DEF SpanInv
  <2> QED BY <2>6, <2>7, <2>8, <2>9 DEF SpanInv
<1>14. ASSUME NEW p \in Plugin, NEW c \in Call, AcceptCreate(c, p) PROVE SpanInv'
  BY <1>14 DEF AcceptCreate, SpanInv, TypeOK
<1>15. ASSUME NEW p \in Plugin, NEW c \in Call, Save(c, p) PROVE SpanInv'
  <2> PICK kind \in Kind, t \in Task : Transact(c, p, kind, t)
    BY <1>15 DEF Save
  <2> DEFINE tx == [call |-> c, kind |-> kind, task |-> t]
  <2>1. /\ queue' = [queue EXCEPT ![p] = Append(queue[p], tx)]
        /\ call' = [call EXCEPT ![c] = "queued"]
        /\ creating' = [creating EXCEPT ![p] = @ \ {c}]
        /\ c \in spans[p] \cup creating[p] /\ call[c] = "entered" /\ p \in writable
        /\ UNCHANGED <<spans, phase, owned, writable, drain>>
    BY DEF Transact, TypeOK
  <2>2. /\ Len(queue'[p]) = Len(queue[p]) + 1
        /\ queue'[p][Len(queue[p]) + 1] = tx
        /\ \A i \in 1..Len(queue[p]) : queue'[p][i] = queue[p][i]
        /\ Len(queue[p]) \in Nat
    <3>1. queue[p] \in Seq(Transaction) /\ tx \in Transaction
      BY DEF TypeOK, Transaction
    <3>2. queue'[p] = Append(queue[p], tx)
      BY <2>1 DEF TypeOK
    <3> QED BY <3>1, <3>2
  <2>3. \A q \in Plugin \ {p} : queue'[q] = queue[q]
    BY <2>1 DEF TypeOK
  <2>4. SpanCalls' /\ CreateCalls'
    BY <2>1, CreateAssumption DEF SpanInv, TypeOK
  \* What is queued was queued before, or is the new one at the end.
  <2>5. ASSUME NEW q \in Plugin, NEW i \in 1..Len(queue'[q])
        PROVE  \/ /\ i \in 1..Len(queue[q]) /\ queue'[q][i] = queue[q][i] /\ queue[q][i].call # c
                  /\ call'[queue[q][i].call] = "queued"
               \/ q = p /\ i = Len(queue[p]) + 1 /\ queue'[q][i].call = c
    <3>1. \A j \in 1..Len(queue[q]) : queue[q][j].call # c /\ call'[queue[q][j].call] = "queued"
      BY <2>1, CreateAssumption DEF SpanInv, TypeOK
    <3>2. CASE q = p
      BY <2>2, <3>1, <3>2
    <3>3. CASE q # p
      BY <2>3, <3>1, <3>3
    <3> QED BY <3>2, <3>3
  <2>6. QueueCalls'
    <3>1. c \in spans[p] \cup Create /\ call'[c] = "queued"
      BY <2>1 DEF TypeOK
    <3>2. ASSUME NEW q \in Plugin, NEW i \in 1..Len(queue'[q])
          PROVE  queue'[q][i].call \in spans[q] \cup Create /\ call'[queue'[q][i].call] = "queued"
      BY <2>5, <3>1 DEF SpanInv
    <3>3. ASSUME NEW q \in Plugin, NEW i \in 1..Len(queue'[q]),
                 NEW o \in Plugin, NEW j \in 1..Len(queue'[o]), queue'[q][i].call = queue'[o][j].call
          PROVE  q = o /\ i = j
      <4>1. CASE /\ i \in 1..Len(queue[q]) /\ queue'[q][i] = queue[q][i] /\ queue[q][i].call # c
                 /\ j \in 1..Len(queue[o]) /\ queue'[o][j] = queue[o][j]
        BY <3>3, <4>1 DEF SpanInv
      <4>2. CASE /\ q = p /\ i = Len(queue[p]) + 1 /\ queue'[q][i].call = c
                 /\ o = p /\ j = Len(queue[p]) + 1
        BY <4>2
      <4> QED BY <2>5, <3>3, <4>1, <4>2
    <3> QED BY <2>1, <3>2, <3>3
  <2>7. QueueOwned'
    <3>1. phase[p] # "closed"
      <4>1. ~UNCHANGED vars
        BY <2>2 DEF vars
      <4> QED BY <2>2, <4>1 DEF InTime
    <3> QED BY <2>1, <2>3, <3>1 DEF SpanInv, TypeOK
  <2> QED BY <2>4, <2>6, <2>7 DEF SpanInv
<1>16. ASSUME NEW c \in Call, GiveUp(c) PROVE SpanInv'
  <2>1. /\ call' = [call EXCEPT ![c] = "failed"] /\ call[c] = "entered"
        /\ spans' = [p \in Plugin |-> spans[p] \ {c}] /\ creating' = [p \in Plugin |-> creating[p] \ {c}]
        /\ UNCHANGED <<lockVars, lifeVars, queueVars>>
    BY <1>16 DEF GiveUp
  <2>2. SpanCalls' /\ CreateCalls' /\ QueueOwned'
    BY <2>1, CreateAssumption DEF SpanInv, TypeOK
  <2>3. QueueCalls'
    <3>1. \A p \in Plugin : \A i \in 1..Len(queue[p]) : queue[p][i].call # c /\ queue[p][i].call \in Call
      BY <2>1, CreateAssumption DEF SpanInv, TypeOK
    <3> QED BY <2>1, <3>1 DEF SpanInv, TypeOK
  <2> QED BY <2>2, <2>3 DEF SpanInv
<1>17. CASE OperatorUnlock
  BY <1>17 DEF OperatorUnlock, SpanInv
<1>18. CASE UNCHANGED vars
  BY <1>18, <1>1 DEF vars
<1> QED
  BY <1>2, <1>3, <1>4, <1>5, <1>6, <1>7, <1>8, <1>9, <1>10, <1>11, <1>12, <1>13, <1>14,
     <1>15, <1>16, <1>17, <1>18
  DEF Next, Open, Work, Shutdown

LEMMA InitSpan == Init => SpanInv
<1> SUFFICES ASSUME Init PROVE SpanInv
  OBVIOUS
<1>1. \A p \in Plugin : queue[p] = <<>> /\ spans[p] = {} /\ creating[p] = {} /\ phase[p] = "new"
  BY DEF Init
<1>2. Len(<<>>) = 0
  OBVIOUS
<1> QED BY <1>1, <1>2 DEF Init, SpanInv, SpanCalls, CreateCalls, QueueCalls, QueueOwned

\* Nothing is written after the lock is given up: shutdown (engine.ts dispose,
\* store.ts dispose) drains every save, those of createTask included, as long as
\* none is queued behind the ones it waits for.
THEOREM StoreWritesUnderLock == Spec /\ [][InTime]_vars => []WriteUnderLock
<1>1. TypeOK /\ SpanInv => WriteUnderLock
  BY DEF TypeOK, SpanInv, QueueOwned, WriteUnderLock
<1> QED BY <1>1, InitSpan, SpanStep, StoreTypeCorrect, PTL DEF Spec

-----------------------------------------------------------------------------
(* The memory and the file *)

\* A rename is made by the one owner, from a memory that is the file.
LEMMA RenameFromFile ==
  ASSUME TypeOK, SpanInv, LockInv, VisibleIsDurable, NEW p \in Plugin, Rename(p)
  PROVE  /\ owned = {p} /\ p \in writable
         /\ disk = memory[p]
         /\ disk' = Change(disk, Head(queue[p]))
         /\ Head(queue[p]) \in Transaction
<1>1. queue[p] # <<>> /\ p \in writable /\ p \in owned
  BY DEF Rename, TypeOK, SpanInv, QueueOwned
<1>2. owned = {p}
  BY <1>1 DEF LockInv, Holders
<1>3. Head(queue[p]) \in Transaction
  BY <1>1, TxType
<1> QED BY <1>1, <1>2, <1>3 DEF Rename, VisibleIsDurable

LEMMA VisibleStep ==
  TypeOK /\ SpanInv /\ LockInv /\ VisibleIsDurable /\ [Next]_vars => VisibleIsDurable'
<1> SUFFICES ASSUME TypeOK, SpanInv, LockInv, VisibleIsDurable, [Next]_vars
             PROVE  VisibleIsDurable'
  OBVIOUS
<1> USE DEF fileVars, lockVars, lifeVars, queueVars, callVars
<1>1. ASSUME UNCHANGED <<disk, memory, queue, io>>, writable' \subseteq writable
      PROVE  VisibleIsDurable'
  BY <1>1 DEF VisibleIsDurable, Change
<1>2. ASSUME NEW p \in Plugin, Open(p) PROVE VisibleIsDurable'
  <2>1. CASE Acquire(p) \/ AcquireFails(p)
    BY <2>1, <1>1 DEF Acquire, AcquireFails
  <2>2. CASE Load(p)
    <3>1. queue[p] = <<>> /\ io[p] # "renamed" /\ p \notin writable
      BY <2>2 DEF Load, TypeOK, SpanInv, QueueOwned
    <3>2. UNCHANGED <<disk, io, queue>> /\ \A q \in Plugin \ {p} : memory'[q] = memory[q]
      BY <2>2 DEF Load, TypeOK
    <3>3. CASE writable' = writable
      BY <3>1, <3>2, <3>3 DEF VisibleIsDurable, TypeOK, Change
    <3>4. CASE writable' = writable \cup {p} /\ memory' = [memory EXCEPT ![p] = LoadedTasks]
      <4>1. memory'[p] = disk
        BY <3>4 DEF LoadedTasks, TypeOK
      <4> QED BY <3>1, <3>2, <3>4, <4>1 DEF VisibleIsDurable, TypeOK, Change
    <3> QED BY <2>2, <3>3, <3>4 DEF Load
  <2> QED BY <1>2, <2>1, <2>2 DEF Open
<1>3. ASSUME NEW p \in Plugin, StartWrite(p) PROVE VisibleIsDurable'
  BY <1>3 DEF StartWrite, VisibleIsDurable, TypeOK, Change
<1>4. ASSUME NEW p \in Plugin, FailWrite(p) PROVE VisibleIsDurable'
  BY <1>4 DEF FailWrite, Settle, VisibleIsDurable, TypeOK, Change
<1>5. ASSUME NEW p \in Plugin, Rename(p) PROVE VisibleIsDurable'
  <2>1. \A q \in writable : q = p
    BY <1>5, RenameFromFile DEF SpanInv, QueueOwned
  <2> QED BY <1>5, <2>1, RenameFromFile DEF Rename, VisibleIsDurable, TypeOK
<1>6. ASSUME NEW p \in Plugin, Publish(p) PROVE VisibleIsDurable'
  BY <1>6 DEF Publish, NextMemory, Settle, VisibleIsDurable, TypeOK, Change
<1>7. ASSUME NEW p \in Plugin, Dispose(p) \/ Shutdown(p) PROVE VisibleIsDurable'
  BY <1>7, <1>1 DEF Dispose, Shutdown, Close, Release, RemoveLock, RemoveLockFails
<1>8. ASSUME NEW p \in Plugin, Crash(p) PROVE VisibleIsDurable'
  BY <1>8 DEF Crash, VisibleIsDurable, TypeOK, Change
<1>9. ASSUME NEW p \in Plugin, NEW c \in Call, Enter(c, p) \/ AcceptCreate(c, p)
      PROVE  VisibleIsDurable'
  BY <1>9, <1>1 DEF Enter, AcceptCreate
<1>10. ASSUME NEW p \in Plugin, NEW c \in Call, Save(c, p) PROVE VisibleIsDurable'
  BY <1>10 DEF Save, Transact, VisibleIsDurable, TypeOK, Change
<1>11. ASSUME NEW c \in Call, GiveUp(c) PROVE VisibleIsDurable'
  BY <1>11, <1>1 DEF GiveUp
<1>12. CASE OperatorUnlock
  BY <1>12, <1>1 DEF OperatorUnlock
<1>13. CASE UNCHANGED vars
  BY <1>13, <1>1 DEF vars
<1> QED
  BY <1>2, <1>3, <1>4, <1>5, <1>6, <1>7, <1>8, <1>9, <1>10, <1>11, <1>12, <1>13
  DEF Next, Work

StoreInv == TypeOK /\ SpanInv /\ LockInv /\ VisibleIsDurable

LEMMA StoreInvariant == Spec /\ [][InTime]_vars => []StoreInv
<1>1. Init => SpanInv /\ LockInv /\ VisibleIsDurable
  BY InitSpan DEF Init, LockInv, Holders, VisibleIsDurable
<1> QED BY <1>1, InitType, NextType, SpanStep, LockStep, VisibleStep, PTL DEF Spec, StoreInv

\* What the board shows is in the file, or about to be published from it: the
\* order of writeBody() and this.tasks = next in store.ts, while no createTask
\* saves behind the last save that a shutdown waits for.
THEOREM StoreVisibleIsDurable == Spec /\ [][InTime]_vars => []VisibleIsDurable
BY StoreInvariant, PTL DEF StoreInv

\* Only a rename changes the file.
LEMMA OnlyRenameWrites ==
  ASSUME Next, disk' # disk
  PROVE  \E p \in Plugin : Rename(p)
<1> USE DEF fileVars, lockVars, lifeVars, queueVars, callVars
<1>1. ASSUME NEW p \in Plugin, Open(p) \/ Dispose(p) PROVE disk' = disk
  BY <1>1 DEF Open, Acquire, AcquireFails, Load, Dispose
<1>2. ASSUME NEW p \in Plugin, StartWrite(p) \/ FailWrite(p) \/ Publish(p)
      PROVE  disk' = disk
  BY <1>2 DEF StartWrite, FailWrite, Publish
<1>3. ASSUME NEW p \in Plugin, Shutdown(p) PROVE disk' = disk
  BY <1>3 DEF Shutdown, Close, Release, RemoveLock, RemoveLockFails
<1>4. ASSUME NEW p \in Plugin, Crash(p) PROVE disk' = disk
  BY <1>4 DEF Crash
<1>5. ASSUME NEW p \in Plugin, NEW c \in Call,
             Enter(c, p) \/ AcceptCreate(c, p) \/ Save(c, p)
      PROVE  disk' = disk
  BY <1>5 DEF Enter, AcceptCreate, Save, Transact
<1>6. ASSUME NEW c \in Call, GiveUp(c) PROVE disk' = disk
  BY <1>6 DEF GiveUp
<1>7. CASE OperatorUnlock
  BY <1>7 DEF OperatorUnlock
<1> QED BY <1>1, <1>2, <1>3, <1>4, <1>5, <1>6, <1>7 DEF Next, Work

\* One save never takes another task's save with it, and a file that does not
\* parse is never written over (transaction, writeBody), while no createTask saves
\* behind the last save that a shutdown waits for.
THEOREM StoreSavesOneTask == Spec /\ [][InTime]_vars => SaveTouchesOneTask
<1>1. ASSUME StoreInv, [Next]_vars
      PROVE  /\ disk = Corrupt => disk' = Corrupt
             /\ \A t, u \in Task :
                  disk # Corrupt /\ disk[t] # disk'[t] /\ disk[u] # disk'[u] => t = u
  <2>1. CASE disk' = disk
    BY <2>1
  <2>2. CASE disk' # disk
    <3>1. PICK p \in Plugin : Rename(p)
      BY <1>1, <2>2, OnlyRenameWrites DEF vars, fileVars
    <3>2. /\ disk = memory[p] /\ disk' = Change(disk, Head(queue[p]))
          /\ Head(queue[p]) \in Transaction
      BY <1>1, <3>1, RenameFromFile DEF StoreInv
    <3>3. disk \in Board
      BY <1>1, <3>2 DEF StoreInv, TypeOK
    <3>4. disk # Corrupt
      BY <3>3, CorruptAssumption DEF Board
    <3> QED BY <3>2, <3>3, <3>4 DEF Change, Board, Transaction
  <2> QED BY <2>1, <2>2
<1> QED
  BY <1>1, StoreInvariant, PTL DEF Spec, SaveTouchesOneTask

-----------------------------------------------------------------------------
(* The store implements the durable board *)

\* A call reaches the file with its own rename and no earlier: of the calls that
\* wait in a queue, only one whose rename is made has been applied.
AppliedInv ==
    /\ \A p \in Plugin : io[p] = "renamed" => Head(queue[p]).call \in applied
    /\ \A p \in Plugin : \A i \in 1..Len(queue[p]) :
         queue[p][i].call \in applied => i = 1 /\ io[p] = "renamed"
    /\ \A c \in Call : call[c] \in {"idle", "entered"} => c \notin applied

\* A settled transaction leaves calls behind it that have not been applied.
LEMMA AppliedSettle ==
  ASSUME TypeOK, SpanInv, AppliedInv, NEW p \in Plugin, queue[p] # <<>>,
         NEW outcome \in {"done", "failed"}, Settle(p, outcome), applied' = applied
  PROVE  AppliedInv'
<1> DEFINE c == Head(queue[p]).call
<1>1. /\ queue' = [queue EXCEPT ![p] = Tail(queue[p])]
      /\ io' = [io EXCEPT ![p] = "idle"]
      /\ call' = [call EXCEPT ![c] = outcome]
  BY DEF Settle
<1>2. queue'[p] = Tail(queue[p]) /\ io'[p] = "idle"
  BY <1>1 DEF TypeOK
<1>3. \A q \in Plugin \ {p} : queue'[q] = queue[q] /\ io'[q] = io[q]
  BY <1>1 DEF TypeOK
<1>4. \A i \in 1..Len(queue'[p]) : queue'[p][i].call \notin applied
  <2> TAKE i \in 1..Len(queue'[p])
  <2>1. queue'[p][i] = queue[p][i + 1] /\ i + 1 \in 1..Len(queue[p])
    BY <1>2, HeadTx
  <2>2. i \in Nat /\ i # 0 /\ i + 1 # 1
    BY <1>2, HeadTx DEF TypeOK
  <2> QED BY <2>1, <2>2 DEF AppliedInv
<1>5. \A b \in Call : call'[b] \in {"idle", "entered"} => call'[b] = call[b]
  BY <1>1 DEF TypeOK
<1> QED BY <1>2, <1>3, <1>4, <1>5 DEF AppliedInv, TypeOK

LEMMA AppliedStep ==
  StoreInv /\ AppliedInv /\ [Next]_vars => AppliedInv'
<1> SUFFICES ASSUME StoreInv, AppliedInv, [Next]_vars PROVE AppliedInv'
  OBVIOUS
<1> USE DEF fileVars, lockVars, lifeVars, queueVars, callVars, StoreInv
<1>1. ASSUME UNCHANGED <<applied, queue, io, call>> PROVE AppliedInv'
  BY <1>1 DEF AppliedInv
<1>2. ASSUME NEW p \in Plugin, Open(p) \/ Dispose(p) PROVE AppliedInv'
  BY <1>2, <1>1 DEF Open, Acquire, AcquireFails, Load, Dispose
<1>3. ASSUME NEW p \in Plugin, StartWrite(p) PROVE AppliedInv'
  BY <1>3 DEF StartWrite, AppliedInv, TypeOK
<1>4. ASSUME NEW p \in Plugin, FailWrite(p) PROVE AppliedInv'
  BY <1>4, AppliedSettle DEF FailWrite
<1>5. ASSUME NEW p \in Plugin, Rename(p) PROVE AppliedInv'
  <2> DEFINE c == Head(queue[p]).call
  <2>1. /\ applied' = applied \cup {c} /\ io' = [io EXCEPT ![p] = "renamed"]
        /\ UNCHANGED <<queue, call>>
    BY <1>5 DEF Rename
  <2>2. queue[p] # <<>> /\ queue[p] \in Seq(Transaction)
    BY <1>5 DEF Rename, TypeOK
  <2>3. 1 \in 1..Len(queue[p]) /\ c = queue[p][1].call
    BY <2>2
  <2>4. c \in Call /\ call[c] = "queued"
    BY <2>2, HeadTx
  <2>5. \A i \in 1..Len(queue[p]) : queue[p][i].call = c => i = 1
    BY <2>3 DEF SpanInv, QueueCalls
  <2>6. \A q \in Plugin \ {p} : \A i \in 1..Len(queue[q]) : queue[q][i].call # c
    BY <2>2, HeadTx
  <2> QED BY <2>1, <2>4, <2>5, <2>6 DEF AppliedInv, TypeOK
<1>6. ASSUME NEW p \in Plugin, Publish(p) PROVE AppliedInv'
  BY <1>6, AppliedSettle DEF Publish, TypeOK
<1>7. ASSUME NEW p \in Plugin, Shutdown(p) PROVE AppliedInv'
  BY <1>7, <1>1 DEF Shutdown, Close, Release, RemoveLock, RemoveLockFails
<1>8. ASSUME NEW p \in Plugin, Crash(p) PROVE AppliedInv'
  BY <1>8 DEF Crash, AppliedInv, TypeOK
<1>9. ASSUME NEW p \in Plugin, NEW c \in Call, Enter(c, p) \/ AcceptCreate(c, p)
      PROVE  AppliedInv'
  BY <1>9 DEF Enter, AcceptCreate, AppliedInv, TypeOK
<1>10. ASSUME NEW p \in Plugin, NEW c \in Call, Save(c, p) PROVE AppliedInv'
  <2> PICK kind \in Kind, t \in Task : Transact(c, p, kind, t)
    BY <1>10 DEF Save
  <2> DEFINE tx == [call |-> c, kind |-> kind, task |-> t]
  <2>1. /\ queue' = [queue EXCEPT ![p] = Append(queue[p], tx)]
        /\ call' = [call EXCEPT ![c] = "queued"]
        /\ call[c] = "entered"
        /\ UNCHANGED <<applied, io>>
    BY DEF Transact
  <2>2. c \notin applied
    BY <2>1 DEF AppliedInv
  <2>3. queue[p] \in Seq(Transaction) /\ tx \in Transaction /\ queue'[p] = Append(queue[p], tx)
    BY <2>1 DEF TypeOK, Transaction
  <2>4. \A i \in 1..Len(queue'[p]) :
          \/ queue'[p][i] = tx
          \/ i \in 1..Len(queue[p]) /\ queue'[p][i] = queue[p][i]
    <3>1. /\ Len(queue'[p]) = Len(queue[p]) + 1 /\ Len(queue[p]) \in Nat
          /\ queue'[p][Len(queue[p]) + 1] = tx
          /\ \A i \in 1..Len(queue[p]) : queue'[p][i] = queue[p][i]
      BY <2>3
    <3> QED BY <3>1
  <2>5. queue[p] # <<>> => Head(queue'[p]) = Head(queue[p])
    BY <2>3
  <2>6. \A q \in Plugin \ {p} : queue'[q] = queue[q]
    BY <2>1 DEF TypeOK
  <2>7. \A q \in Plugin : io[q] = "renamed" => Head(queue'[q]).call \in applied
    BY <2>5, <2>6 DEF AppliedInv, TypeOK
  <2>8. \A q \in Plugin : \A i \in 1..Len(queue'[q]) :
          queue'[q][i].call \in applied => i = 1 /\ io[q] = "renamed"
    BY <2>2, <2>4, <2>6 DEF AppliedInv
  <2> QED BY <2>1, <2>7, <2>8 DEF AppliedInv, TypeOK
<1>11. ASSUME NEW c \in Call, GiveUp(c) PROVE AppliedInv'
  BY <1>11 DEF GiveUp, AppliedInv, TypeOK
<1>12. CASE OperatorUnlock
  BY <1>12, <1>1 DEF OperatorUnlock
<1>13. CASE UNCHANGED vars
  BY <1>13, <1>1 DEF vars
<1> QED
  BY <1>2, <1>3, <1>4, <1>5, <1>6, <1>7, <1>8, <1>9, <1>10, <1>11, <1>12, <1>13
  DEF Next, Work

\* The calls that were told that they saved.
Acknowledged == {c \in Call : call[c] = "done"}

\* Every step is a save, an acknowledgement, or nothing to the durable board.
LEMMA BoardStep ==
  ASSUME StoreInv, AppliedInv, [Next]_vars
  PROVE  [Durable!Next]_(Durable!vars)
<1> USE DEF fileVars, lockVars, lifeVars, queueVars, callVars, StoreInv
<1>1. ASSUME disk' = disk, applied' = applied, Acknowledged' = Acknowledged
      PROVE  [Durable!Next]_(Durable!vars)
  BY <1>1 DEF Durable!vars, Acknowledged
<1>2. ASSUME NEW p \in Plugin, Open(p) \/ Dispose(p) \/ Shutdown(p) \/ StartWrite(p)
      PROVE  [Durable!Next]_(Durable!vars)
  <2>1. UNCHANGED <<disk, applied, call>>
    BY <1>2 DEF Open, Acquire, AcquireFails, Load, Dispose, StartWrite,
                Shutdown, Close, Release, RemoveLock, RemoveLockFails
  <2> QED BY <2>1, <1>1 DEF Acknowledged
<1>3. ASSUME NEW p \in Plugin, FailWrite(p) PROVE [Durable!Next]_(Durable!vars)
  <2> DEFINE c == Head(queue[p]).call
  <2>1. call' = [call EXCEPT ![c] = "failed"] /\ UNCHANGED <<disk, applied>>
    BY <1>3 DEF FailWrite, Settle
  <2>2. c \in Call /\ call[c] = "queued"
    BY <1>3, HeadTx DEF FailWrite
  <2>3. Acknowledged' = Acknowledged
    BY <2>1, <2>2 DEF Acknowledged, TypeOK
  <2> QED BY <2>1, <2>3, <1>1
<1>4. ASSUME NEW p \in Plugin, Rename(p) PROVE [Durable!Next]_(Durable!vars)
  <2> DEFINE tx == Head(queue[p])
  <2>1. /\ disk = memory[p] /\ disk' = Change(disk, tx) /\ tx \in Transaction
        /\ queue[p] # <<>>
    BY <1>4, RenameFromFile DEF Rename, TypeOK
  <2>2. disk # Corrupt
    BY <2>1, CorruptAssumption DEF TypeOK, Board
  <2>3. tx.call \in Call /\ tx.task \in Task
    BY <2>1 DEF Transaction
  <2>4. tx.call \notin applied
    <3>1. 1 \in 1..Len(queue[p]) /\ tx = queue[p][1]
      BY <2>1 DEF TypeOK
    <3>2. io[p] # "renamed"
      BY <1>4 DEF Rename
    <3> QED BY <3>1, <3>2 DEF AppliedInv
  <2>5. applied' = applied \cup {tx.call} /\ Acknowledged' = Acknowledged
    BY <1>4 DEF Rename, Acknowledged
  <2>6. \E v \in {tx.call, Absent} : disk' = [disk EXCEPT ![tx.task] = v]
    BY <2>1 DEF Change
  <2>7. Durable!Save(tx.call, tx.task)
    BY <2>2, <2>4, <2>5, <2>6 DEF Durable!Save, Acknowledged
  <2> QED BY <2>3, <2>7 DEF Durable!Next
<1>5. ASSUME NEW p \in Plugin, Publish(p) PROVE [Durable!Next]_(Durable!vars)
  <2> DEFINE c == Head(queue[p]).call
  <2>1. /\ call' = [call EXCEPT ![c] = "done"] /\ UNCHANGED <<disk, applied>>
        /\ io[p] = "renamed"
    BY <1>5 DEF Publish, Settle
  <2>2. queue[p] # <<>>
    BY <2>1 DEF TypeOK
  <2>3. c \in Call /\ c \in applied
    BY <2>1, <2>2, HeadTx DEF AppliedInv, TypeOK
  <2>4. Acknowledged' = Acknowledged \cup {c}
    BY <2>1, <2>3 DEF Acknowledged, TypeOK
  <2>5. \E b \in Call : Durable!Acknowledge(b)
    BY <2>1, <2>3, <2>4 DEF Durable!Acknowledge, Acknowledged
  <2> QED BY <2>5 DEF Durable!Next
<1>6. ASSUME NEW p \in Plugin, Crash(p) PROVE [Durable!Next]_(Durable!vars)
  <2>1. \A c \in HeldBy(p) : c \in Call => call[c] # "done"
    <3>1. DOMAIN queue[p] = 1..Len(queue[p])
      BY DEF TypeOK
    <3> QED BY <3>1 DEF HeldBy, SpanInv, SpanCalls, CreateCalls, QueueCalls
  <2>2. Acknowledged' = Acknowledged
    BY <1>6, <2>1 DEF Crash, Acknowledged
  <2> QED BY <1>6, <2>2, <1>1 DEF Crash
<1>7. ASSUME NEW p \in Plugin, NEW c \in Call,
             Enter(c, p) \/ AcceptCreate(c, p) \/ Save(c, p)
      PROVE  [Durable!Next]_(Durable!vars)
  <2>1. /\ call[c] # "done" /\ UNCHANGED <<disk, applied>>
        /\ \E s \in {"entered", "queued"} : call' = [call EXCEPT ![c] = s]
    BY <1>7 DEF Enter, AcceptCreate, Save, Transact
  <2>2. Acknowledged' = Acknowledged
    BY <2>1 DEF Acknowledged, TypeOK
  <2> QED BY <2>1, <2>2, <1>1
<1>8. ASSUME NEW c \in Call, GiveUp(c) PROVE [Durable!Next]_(Durable!vars)
  <2>1. Acknowledged' = Acknowledged
    BY <1>8 DEF GiveUp, Acknowledged, TypeOK
  <2> QED BY <1>8, <2>1, <1>1 DEF GiveUp
<1>9. CASE OperatorUnlock \/ UNCHANGED vars
  <2>1. UNCHANGED <<disk, applied, call>>
    BY <1>9 DEF OperatorUnlock, vars
  <2> QED BY <2>1, <1>1 DEF Acknowledged
<1> QED
  BY <1>2, <1>3, <1>4, <1>5, <1>6, <1>7, <1>8, <1>9 DEF Next, Work

\* The store of store.ts is the durable board its callers rely on: each call
\* changes one task at most once, in one step, and is told only afterwards.
\* This too is for shutdowns behind whose last save no createTask saves.
THEOREM StoreImplementsBoard == Spec /\ [][InTime]_vars => RefinesDurableBoard
<1>1. Init => Durable!Init
  BY DEF Init, NoTasks, Durable!Init
<1>2. Init => AppliedInv
  BY DEF Init, AppliedInv
<1>3. StoreInv /\ AppliedInv /\ [Next]_vars => [Durable!Next]_(Durable!vars)
  BY BoardStep
<1> QED
  BY <1>1, <1>2, <1>3, AppliedStep, StoreInvariant, PTL DEF Spec, Durable!Spec, RefinesDurableBoard
=============================================================================
