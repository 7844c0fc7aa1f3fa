------------------------------ MODULE TaskQueue ------------------------------
(***************************************************************************)
(* The queue of the todo plugin: the engine of src/todo/server/engine.ts   *)
(* for tasks that run one agent (no collaboration) and are not merged.     *)
(*                                                                         *)
(* A repository runs one task at a time.  A task is queued by the user,    *)
(* begun by the repository's job chain, prepared (worktree, then session), *)
(* runs until its session's turn ends, and is captured for review.  Users  *)
(* cancel, retry, continue and delete tasks meanwhile; the daemon's events *)
(* (turn started, turn ended, permission) arrive when they like; the       *)
(* plugin may die and recover.                                             *)
(*                                                                         *)
(* Three things make this hard.  A save (engine write, store replace) is   *)
(* the whole record, computed from what memory says when it is asked for   *)
(* and visible only when its turn in the store's queue comes: the variable *)
(* saves, and the Land actions.  Some handlers hold the task's lock from   *)
(* the read to the end of the save; prepareAndSend and recoverOne do not.  *)
(* And every call to git and to the daemon is an await.                    *)
(*                                                                         *)
(* Abstractions.  A session is known by the operation that created it.  A  *)
(* creation that fails either had its effect by then or never has it.  The *)
(* request to stop a turn is left out: in the model a turn may end at any  *)
(* time, with any outcome.  Saves do not fail (TaskStore has that).  The   *)
(* lock of a task is granted in order, events first.  An await whose       *)
(* result nothing can disturb (the lock is held and the state is not read again) is one   *)
(* step with the code around it.  A turn that ends while the plugin is     *)
(* down is one whose event is still unhandled at the crash.                *)
(***************************************************************************)
EXTENDS Naturals, Sequences, FiniteSets, TaskStatus

CONSTANTS
    Task,        \* the tasks on the board
    Repo,        \* the repositories
    repoOf,      \* the repository of each task
    order,       \* the tasks by creation time, a sequence
    UserOps,     \* what users do besides starting tasks
    Outcomes,    \* how turns may end
    MaxOps,      \* bound: operations, the rounds of all tasks together
    MaxTurns,    \* bound: turns of one session
    MaxEvents,   \* bound: events sent and not handled, of one kind of queue
    MaxCopies,   \* bound: jobs of one task that wait in the chain
    MaxFaults,   \* bound: calls to git or the daemon that fail
    MaxCrashes   \* bound: deaths of the plugin's process

Op == 1..MaxOps
NoOp == 0
NoReview == [op |-> NoOp, turn |-> 0]

ASSUME TaskAssumption ==
    /\ repoOf \in [Task -> Repo]
    /\ order \in Seq(Task)
    /\ \A t \in Task : \E i \in DOMAIN order : order[i] = t
ASSUME UserAssumption ==
    UserOps \subseteq {"cancel", "retry", "continue", "delete", "chat", "permission", "edit"}
ASSUME OutcomesAssumption == Outcomes \subseteq TurnKind
ASSUME BoundAssumption ==
    /\ MaxOps \in Nat /\ MaxTurns \in Nat \ {0} /\ MaxEvents \in Nat
    /\ MaxCopies \in Nat \ {0}
    /\ MaxFaults \in Nat /\ MaxCrashes \in Nat

VARIABLES
    task,      \* the records in memory: what list(), get() and tryGet() return
    saves,     \* saves asked for and not finished, oldest first
    lock,      \* who holds each task's lock, and what it read before its await
    inbox,     \* daemon events whose handlers wait for each task's lock
    known,     \* startedTurn and permissions: the newest turn of a session, an open request
    turns,     \* turn ends that no task has consumed yet
    events,    \* events the daemon has sent and the plugin has not handled
    jobs,      \* the job chain of each repository; the head is the running job
    pc,        \* where the running job of each task is, and its operation
    settle,    \* the cancellation of each task that is being settled
    recovery,  \* where recover() is
    session,   \* the daemon's sessions
    worktree,  \* tasks whose worktree exists on disk
    rounds,    \* the task of each operation so far
    created,   \* history: how often each operation was asked to create a session
    granted,   \* history: how often a user queued each task
    faults,    \* faults so far
    crashes    \* crashes so far

boardVars == <<task, saves, lock>>
eventVars == <<inbox, known, turns, events>>
runVars == <<jobs, pc, settle>>
worldVars == <<session, worktree>>
countVars == <<rounds, created, granted, faults, crashes>>
vars == <<boardVars, eventVars, runVars, recovery, worldVars, countVars>>

-----------------------------------------------------------------------------
(* Records *)

\* "deleted" stands for a task that is no longer on the board.
Record == [status : Status \cup {"deleted"}, op : {NoOp} \cup Op, agent : {NoOp} \cup Op,
           wt : BOOLEAN, review : [op : {NoOp} \cup Op, turn : 0..MaxTurns],
           outcome : {"none"} \cup TurnKind, outTurn : 0..MaxTurns]

Draft == [status |-> "draft", op |-> NoOp, agent |-> NoOp, wt |-> FALSE,
          review |-> NoReview, outcome |-> "none", outTurn |-> 0]

\* begin(): a new operation, and nothing left of the round before.
Begun(r, o) == [Draft EXCEPT !.status = "preparing", !.op = o, !.wt = r.wt]

\* mutation
RequeuedWithReview(r) == [Draft EXCEPT !.status = "queued", !.wt = r.wt, !.review = r.review]

\* requeue(): the saved snapshot without its operation.
Requeued(r) == [Draft EXCEPT !.status = "queued", !.wt = r.wt]

\* The record after the end of a turn, without a review.
Ended(r, e, s) == [r EXCEPT !.status = s, !.outcome = e.outcome, !.outTurn = e.turn]

\* A save: the record, its task, and the handler that waits for it.
Save(t, r, by) == [task |-> t, rec |-> r, by |-> by]

Exec(t) == IsExecution(task[t].status)
SameRepo(t, u) == repoOf[t] = repoOf[u]

\* findByAgent
TasksOf(o) == {t \in Task : task[t].agent = o /\ o # NoOp}

Free == [by |-> "free", op |-> NoOp, event |-> <<>>]
Locked(t) == lock[t].by # "free"

\* The lock is a chain of promises: a request goes behind the events that wait.
Grants(t) == ~Locked(t) /\ inbox[t] = <<>>

Holds(t, by) == [lock EXCEPT ![t] = [by |-> by, op |-> task[t].op, event |-> <<>>]]
Unlock(t) == [lock EXCEPT ![t] = Free]

Run(t) == [kind |-> "run", task |-> t]
Hold(t) == [kind |-> "hold", task |-> t]

Off == [step |-> "off", op |-> NoOp, agent |-> NoOp]
NoRun == [at |-> "off", op |-> NoOp]
NoRecovery == [step |-> "off", at |-> 0, agent |-> NoOp, seen |-> "none"]
Unknown == [turn |-> 0, ask |-> FALSE]
NoSession == [state |-> "none", turn |-> 0]

Event(kind, o, n, outcome) == [kind |-> kind, agent |-> o, turn |-> n, outcome |-> outcome]

\* What inspect() reports.
Seen(o) == IF o = NoOp THEN "none" ELSE session[o].state
Active(seen) == seen \in {"busy", "permission"}
Exists(seen) == seen \in {"busy", "permission", "idle"}

\* mutation
FoundNothing(o) == NoOp

\* findByOperation()
FoundBy(o) == IF Exists(Seen(o)) THEN o ELSE NoOp

\* The session of a record: its agent, or the one its operation is found by.
SessionOf(r) == IF r.agent # NoOp THEN r.agent ELSE FoundBy(r.op)

\* mutation
NeverInPrepare(t) == FALSE

\* prepareAndSend() has not come to its finally block.
InPrepare(t) == pc[t].at \in {"ensure", "locate", "create", "link"}

Init ==
    /\ task = [t \in Task |-> Draft]
    /\ saves = <<>>
    /\ lock = [t \in Task |-> Free]
    /\ inbox = [t \in Task |-> <<>>]
    /\ known = [o \in Op |-> Unknown]
    /\ turns = {}
    /\ events = <<>>
    /\ jobs = [r \in Repo |-> <<>>]
    /\ pc = [t \in Task |-> NoRun]
    /\ settle = [t \in Task |-> Off]
    /\ recovery = NoRecovery
    /\ session = [o \in Op |-> NoSession]
    /\ worktree = {}
    /\ rounds = <<>>
    /\ created = [o \in Op |-> 0]
    /\ granted = [t \in Task |-> 0]
    /\ faults = 0
    /\ crashes = 0

-----------------------------------------------------------------------------
(* tick(), settleCancel() and replay() *)

\* mutation
BusyUntilMerged(mem) == {repoOf[t] : t \in {u \in Task :
    IsExecution(mem[u].status) \/ mem[u].status \in {"merging", "awaiting_review"}}}

\* Repositories with a task in execution or merging: tick() schedules nothing there.
BusyIn(mem) == {repoOf[t] : t \in {u \in Task : IsExecution(mem[u].status) \/ mem[u].status = "merging"}}

\* Every tick() adds a job; the copies find the task begun, or queued again.
Copies(t) == Cardinality({i \in DOMAIN jobs[repoOf[t]] :
    /\ jobs[repoOf[t]][i] = Run(t)
    /\ i > 1 \/ pc[t] = NoRun})

\* tick(): one more job for the oldest queued task of every free repository.
Ticked(mem) ==
    [r \in Repo |->
        LET queued == SelectSeq(order, LAMBDA t : repoOf[t] = r /\ mem[t].status = "queued")
        IN  IF r \in BusyIn(mem) \/ queued = <<>> THEN jobs[r]
            ELSE IF Copies(Head(queued)) = MaxCopies THEN jobs[r]
            ELSE Append(jobs[r], Run(Head(queued)))]

\* settleCancel(): one settlement per task at a time.
SettleFrom(t, r) ==
    [settle EXCEPT ![t] =
        IF @ # Off THEN @
        ELSE [step |-> IF r.agent = NoOp THEN "find" ELSE "stop", op |-> r.op, agent |-> r.agent]]

\* The same, when memory says that the task is being canceled.
SettleIfCanceling(t, mem) ==
    IF mem[t].status = "canceling" /\ mem[t].op # NoOp THEN SettleFrom(t, mem[t]) ELSE settle

TurnsOf(o) == {e \in turns : e.agent = o}

\* The ends of turns S in the order of the turns.
InOrder(S) == {q \in [1..Cardinality(S) -> S] :
                  \A i, j \in 1..Cardinality(S) : i < j => q[i].turn < q[j].turn}

\* replay(): what was heard of a session before a task was known to own it.
Replayed(t, o) ==
    {[inbox EXCEPT ![t] = @ \o (IF known[o].ask THEN <<Event("ask", o, 0, "none")>> ELSE <<>>) \o q] :
        q \in InOrder(TurnsOf(o))}

-----------------------------------------------------------------------------
(* A save lands: the store has it on disk and in memory, and the handler   *)
(* that waits for it goes on.                                              *)

Memory == [task EXCEPT ![Head(saves).task] = Head(saves).rec]

Lands(by) == saves # <<>> /\ Head(saves).by \in by

\* write(): publish, and forget the turns of the session of a canceled or deleted task.
Publish ==
    LET r == Head(saves).rec
        o == IF r.status = "deleted" THEN task[Head(saves).task].agent ELSE r.agent
    IN
    /\ task' = Memory
    /\ saves' = Tail(saves)
    /\ known' = IF r.status \in {"canceled", "deleted"} /\ o # NoOp
                THEN [known EXCEPT ![o] = Unknown] ELSE known
    /\ UNCHANGED <<turns, events, recovery, worldVars, countVars>>

\* startTask, retry, continue, deleteTask, and the cancel of a task that never ran.
LandUser ==
    /\ Lands({"user"})
    /\ Publish
    /\ lock' = Unlock(Head(saves).task)
    /\ jobs' = Ticked(Memory)
    /\ UNCHANGED <<inbox, pc, settle>>

\* applyPermission and reconcile schedule nothing.
LandQuiet ==
    /\ Lands({"quiet"})
    /\ Publish
    /\ lock' = Unlock(Head(saves).task)
    /\ UNCHANGED <<inbox, runVars>>

\* The rest of cancel(): a prepare without a session settles the task itself.
LandCancel ==
    LET t == Head(saves).task
        r == Head(saves).rec
    IN  /\ Lands({"cancel"})
        /\ Publish
        /\ lock' = Unlock(t)
        /\ settle' = IF r.op # NoOp /\ (r.agent # NoOp \/ ~InPrepare(t)) THEN SettleFrom(t, r) ELSE settle
        /\ jobs' = Ticked(Memory)
        /\ UNCHANGED <<inbox, pc>>

\* The rest of applyTurn().
LandTurn ==
    LET t == Head(saves).task
    IN  /\ Lands({"turn"})
        /\ Publish
        /\ lock' = Unlock(t)
        /\ settle' = SettleIfCanceling(t, Memory)
        /\ jobs' = Ticked(Memory)
        /\ UNCHANGED <<inbox, pc>>

\* The rest of settleCancelNow().
LandSettle ==
    LET t == Head(saves).task
    IN  /\ Lands({"settle"})
        /\ Publish
        /\ lock' = Unlock(t)
        /\ settle' = [settle EXCEPT ![t] = Off]
        /\ jobs' = Ticked(Memory)
        /\ UNCHANGED <<inbox, pc>>

\* begin() is over and prepareAndSend() asks for the worktree.
LandBegin ==
    LET t == Head(saves).task
    IN  /\ Lands({"begin"})
        /\ Publish
        /\ lock' = Unlock(t)
        /\ pc' = [pc EXCEPT ![t] = [at |-> "ensure", op |-> Head(saves).rec.op]]
        /\ UNCHANGED <<inbox, jobs, settle>>

-----------------------------------------------------------------------------
(* The job of a task: execute() = begin(), prepareAndSend(), wait *)

\* The finally block of prepareAndSend(), then the next place of the job.
Finally(t, at, mem) ==
    /\ pc' = [pc EXCEPT ![t].at = at]
    /\ settle' = IF mem[t].op = pc[t].op THEN SettleIfCanceling(t, mem) ELSE settle

StillPreparing(t) == task[t].op = pc[t].op /\ task[t].status = "preparing"

Fault == faults < MaxFaults /\ faults' = faults + 1

\* mutation
JobInChain(t) == \E i \in DOMAIN jobs[repoOf[t]] : jobs[repoOf[t]][i] = Run(t)

\* exclusive(): a job of the chain runs when those before it have ended.
HasTurn(t) == jobs[repoOf[t]] # <<>> /\ Head(jobs[repoOf[t]]) = Run(t)

\* A queued callback may have waited behind a merge or a recovered execution.
MayBegin(t) ==
    /\ task[t].status = "queued"
    /\ \A u \in Task \ {t} : SameRepo(t, u) => ~Exec(u) /\ task[u].status # "merging"

\* The head of the chain begins, or finds that it may not and ends.
Begin(t) ==
    LET r == repoOf[t]
        o == Len(rounds) + 1
    IN  /\ HasTurn(t)
        /\ pc[t] = NoRun /\ Grants(t)
        /\ IF MayBegin(t)
           THEN /\ o \in Op
                /\ rounds' = Append(rounds, t)
                /\ saves' = Append(saves, Save(t, Begun(task[t], o), "begin"))
                /\ lock' = Holds(t, "begin")
                /\ pc' = [pc EXCEPT ![t] = [at |-> "begin", op |-> o]]
                /\ UNCHANGED jobs
           ELSE /\ jobs' = [jobs EXCEPT ![r] = Tail(@)]
                /\ UNCHANGED <<rounds, saves, lock, pc>>
        /\ UNCHANGED <<task, eventVars, settle, recovery, worldVars,
                       created, granted, faults, crashes>>

\* ensureWorktree() returned; the location is saved while the task still prepares.
EnsureDone(t) ==
    /\ pc[t].at = "ensure"
    /\ worktree' = worktree \cup {t}
    /\ IF StillPreparing(t)
       THEN /\ saves' = Append(saves, Save(t, [task[t] EXCEPT !.wt = TRUE, !.agent = NoOp], "locate"))
            /\ pc' = [pc EXCEPT ![t].at = "locate"]
            /\ UNCHANGED settle
       ELSE Finally(t, "hold", task) /\ UNCHANGED saves
    /\ UNCHANGED <<task, lock, eventVars, jobs, recovery, session, countVars>>

\* The worktree could not be prepared.
EnsureFails(t) ==
    /\ pc[t].at = "ensure"
    /\ Fault
    /\ Finally(t, "failing", task)
    /\ UNCHANGED <<boardVars, eventVars, jobs, recovery, worldVars, rounds, created, granted, crashes>>

\* The location is saved: ask the daemon for a session, once per operation.
LandLocate ==
    LET t == Head(saves).task
    IN  /\ Lands({"locate"})
        /\ task' = Memory
        /\ saves' = Tail(saves)
        /\ IF Memory[t].op = pc[t].op /\ Memory[t].status = "preparing"
           THEN /\ pc' = [pc EXCEPT ![t].at = "create"]
                /\ created' = [created EXCEPT ![pc[t].op] = @ + 1]
                /\ UNCHANGED settle
           ELSE Finally(t, "hold", Memory) /\ UNCHANGED created
        /\ UNCHANGED <<lock, eventVars, jobs, recovery, worldVars, rounds, granted, faults, crashes>>

\* What prepareAndSend() saves of a new session: a cancel that came first is kept.
LinkedRecord(r, o) ==
    [r EXCEPT !.agent = o, !.status = IF @ = "canceling" THEN "canceling" ELSE "running"]

\* The answer arrives: the session is recorded unless the task has moved on.
CreateReturns(t) ==
    LET o == pc[t].op
    IN  /\ pc[t].at = "create" /\ session[o].state # "none"
        /\ IF task[t].op = o /\ task[t].status \in {"preparing", "canceling"}
           THEN /\ saves' = Append(saves, Save(t, LinkedRecord(task[t], o), "link"))
                /\ pc' = [pc EXCEPT ![t].at = "link"]
                /\ UNCHANGED settle
           ELSE Finally(t, "hold", task) /\ UNCHANGED saves
        /\ UNCHANGED <<task, lock, eventVars, jobs, recovery, worldVars, countVars>>

\* No answer: the session may exist or not.
CreateFails(t) ==
    /\ pc[t].at = "create"
    /\ Fault
    /\ Finally(t, "failing", task)
    /\ UNCHANGED <<boardVars, eventVars, jobs, recovery, worldVars, rounds, created, granted, crashes>>

\* The session is on the record: replay what was heard of it before.
LandLink ==
    LET t == Head(saves).task
        canceled == Head(saves).rec.status = "canceling"
    IN  /\ Lands({"link"})
        /\ task' = Memory
        /\ saves' = Tail(saves)
        /\ inbox' \in IF canceled THEN {inbox} ELSE Replayed(t, pc[t].op)
        /\ Finally(t, "hold", Memory)
        /\ UNCHANGED <<lock, known, turns, events, jobs, recovery, worldVars, countVars>>

\* failDispatch() looks for the session the failed call may have made.
FailDispatch(t) ==
    LET r == task[t]
        found == FoundBy(r.op)
    IN  /\ pc[t].at = "failing" /\ settle[t] = Off /\ Grants(t)
        /\ IF ~Exec(t)
           THEN pc' = [pc EXCEPT ![t].at = "hold"] /\ UNCHANGED <<saves, lock>>
           ELSE /\ saves' = Append(saves,
                      IF found = NoOp
                      THEN Save(t, [r EXCEPT !.status = "failed"], "fail")
                      ELSE Save(t, [LinkedRecord(r, found) EXCEPT !.agent =
                                        IF r.agent = NoOp THEN found ELSE r.agent], "found"))
                /\ lock' = Holds(t, "fail")
                /\ pc' = [pc EXCEPT ![t].at = "fail"]
        /\ UNCHANGED <<task, eventVars, jobs, settle, recovery, worldVars, countVars>>

\* The search fails too: the task stays as it is.
SearchFails(t) ==
    /\ pc[t].at = "failing" /\ settle[t] = Off /\ Grants(t) /\ Exec(t)
    /\ Fault
    /\ pc' = [pc EXCEPT ![t].at = "hold"]
    /\ UNCHANGED <<boardVars, eventVars, jobs, settle, recovery, worldVars,
                   rounds, created, granted, crashes>>

LandFail ==
    LET t == Head(saves).task
    IN  /\ Lands({"fail", "found"})
        /\ Publish
        /\ lock' = Unlock(t)
        /\ pc' = [pc EXCEPT ![t].at = "hold"]
        /\ inbox' \in IF Head(saves).by = "found" THEN Replayed(t, Head(saves).rec.agent) ELSE {inbox}
        /\ UNCHANGED <<jobs, settle>>

\* waitUntil(): the job ends when its task is not in execution any more.
JobEnds(r) ==
    /\ jobs[r] # <<>>
    /\ LET j == Head(jobs[r])
       IN  /\ ~Exec(j.task)
           /\ j.kind = "run" => pc[j.task].at = "hold"
           /\ pc' = IF j.kind = "run" THEN [pc EXCEPT ![j.task] = NoRun] ELSE pc
    /\ jobs' = [jobs EXCEPT ![r] = Tail(@)]
    /\ UNCHANGED <<boardVars, eventVars, settle, recovery, worldVars, countVars>>

-----------------------------------------------------------------------------
(* Users.  The RPCs wait until recover() is over. *)

Accepts(t) == recovery = NoRecovery /\ Grants(t)

\* A change made under the lock, from the record in memory.
UserSave(t, r, by) ==
    /\ saves' = Append(saves, Save(t, r, by))
    /\ lock' = Holds(t, by)

\* startTask and startQueue
Start(t) ==
    /\ Accepts(t) /\ CanEnqueue(task[t].status)
    /\ UserSave(t, [task[t] EXCEPT !.status = "queued"], "user")
    /\ granted' = [granted EXCEPT ![t] = @ + 1]
    /\ UNCHANGED <<task, eventVars, runVars, recovery, worldVars, rounds, created, faults, crashes>>

\* A task with no run is canceled at once; the others go through canceling.
Cancel(t) ==
    LET r == task[t]
        noRun == ~Exec(t) /\ r.agent = NoOp /\ r.op = NoOp
    IN  /\ "cancel" \in UserOps /\ Accepts(t) /\ CanCancel(r.status) /\ r.status # "canceling"
        /\ IF noRun THEN UserSave(t, [r EXCEPT !.status = "canceled"], "user")
                    ELSE UserSave(t, [r EXCEPT !.status = "canceling"], "cancel")
        /\ UNCHANGED <<task, eventVars, runVars, recovery, worldVars, countVars>>

\* cancel() of a task that is already canceling: the page calls it "Retry stop".
RetryStop(t) ==
    LET r == task[t]
    IN  /\ "cancel" \in UserOps /\ Accepts(t) /\ r.status = "canceling"
        /\ r.op # NoOp /\ (r.agent # NoOp \/ ~InPrepare(t))
        /\ settle' = SettleFrom(t, r)
        /\ UNCHANGED <<boardVars, eventVars, jobs, pc, recovery, worldVars, countVars>>

\* releaseRun(): no session of the round before is at work.
Released(t) == ~Active(Seen(SessionOf(task[t])))

\* retry and continue: queue another round once the session before has stopped.
Requeue(t) ==
    /\ Accepts(t)
    /\ \/ "retry" \in UserOps /\ CanRetry(task[t].status)
       \/ "continue" \in UserOps /\ CanContinue(task[t].status)
    /\ Released(t)
    /\ UserSave(t, Requeued(task[t]), "user")
    /\ granted' = [granted EXCEPT ![t] = @ + 1]
    /\ granted[t] < MaxOps
    /\ UNCHANGED <<task, eventVars, runVars, recovery, worldVars, rounds, created, faults, crashes>>

\* archiveTask(): the sessions of the task, when anything of it is on record.
ArchivedOf(t) ==
    IF task[t].wt \/ task[t].agent # NoOp
    THEN [o \in Op |-> IF o <= Len(rounds) /\ session[o].state # "none" /\ rounds[o] = t
                       THEN [session[o] EXCEPT !.state = "gone"] ELSE session[o]]
    ELSE session

\* mutation
KeepWorktree(t) == worktree

WithoutWorktree(t) == IF task[t].wt THEN worktree \ {t} ELSE worktree

\* deleteTask: stop, archive the sessions, remove the worktree, drop the record.
Delete(t) ==
    /\ "delete" \in UserOps /\ Accepts(t) /\ CanDelete(task[t].status)
    /\ Released(t)
    /\ session' = ArchivedOf(t)
    /\ worktree' = WithoutWorktree(t)
    /\ UserSave(t, [Draft EXCEPT !.status = "deleted"], "user")
    /\ UNCHANGED <<task, eventVars, runVars, recovery, countVars>>

\* A step of the deletion fails: the stop, the archiving of some session, the removal
\* of the worktree, or of its branch.  The record stays as it is.
DeleteFails(t) ==
    /\ "delete" \in UserOps /\ Accepts(t) /\ CanDelete(task[t].status)
    /\ Fault
    /\ \/ UNCHANGED worldVars
       \/ /\ Released(t)
          /\ \E gone \in SUBSET Op :
                session' = [o \in Op |-> IF o \in gone THEN ArchivedOf(t)[o] ELSE session[o]]
          /\ UNCHANGED worktree
       \/ /\ Released(t)
          /\ session' = ArchivedOf(t) /\ worktree' = WithoutWorktree(t)
    /\ UserSave(t, task[t], "quiet")
    /\ UNCHANGED <<task, eventVars, runVars, recovery, rounds, created, granted, crashes>>

\* reconcile() finds that the files or the target have moved since the review.
Reconcile(t) ==
    /\ "edit" \in UserOps /\ Grants(t)
    /\ task[t].status = "awaiting_review"
    /\ UserSave(t, [task[t] EXCEPT !.status = "needs_check", !.review = NoReview], "quiet")
    /\ UNCHANGED <<task, eventVars, runVars, recovery, worldVars, countVars>>

-----------------------------------------------------------------------------
(* settleCancelNow() *)

\* Whether a settlement goes on, gives up, or finds its task elsewhere.
SettleTo(t, step, o) == settle' = [settle EXCEPT ![t].step = step, ![t].agent = o]
GiveUp(t) == settle' = [settle EXCEPT ![t] = Off]

\* watchCollaborations(), every two seconds and with each list(): settles what is
\* left canceling, without the lock and whether or not recover() is over.
Watch(t) ==
    LET r == task[t]
    IN  /\ r.status = "canceling" /\ r.op # NoOp /\ ~InPrepare(t)
        /\ settle' = SettleFrom(t, r)
        /\ UNCHANGED <<boardVars, eventVars, jobs, pc, recovery, worldVars, countVars>>

SettleFind(t) ==
    /\ settle[t].step = "find"
    /\ LET o == FoundBy(settle[t].op)
       IN  SettleTo(t, IF o = NoOp THEN "mark" ELSE "stop", o)
    /\ UNCHANGED <<boardVars, eventVars, jobs, pc, recovery, worldVars, countVars>>

Stopped(o) == ~Active(Seen(o))

\* Stop the session and look: one that is still at work leaves the task canceling.
SettleStop(t) ==
    /\ settle[t].step = "stop"
    /\ IF Stopped(settle[t].agent) THEN SettleTo(t, "mark", settle[t].agent) ELSE GiveUp(t)
    /\ UNCHANGED <<boardVars, eventVars, jobs, pc, recovery, worldVars, countVars>>

\* The daemon cannot be asked: the task stays canceling.
SettleFails(t) ==
    /\ settle[t].step \in {"find", "stop"}
    /\ Fault
    /\ GiveUp(t)
    /\ UNCHANGED <<boardVars, eventVars, jobs, pc, recovery, worldVars, rounds, created, granted, crashes>>

\* Under the lock: still the same cancellation?
SettleMark(t) ==
    /\ settle[t].step = "mark" /\ Grants(t)
    /\ IF task[t].status = "canceling" /\ task[t].op = settle[t].op
       THEN /\ UserSave(t, [task[t] EXCEPT !.status = "canceled",
                                           !.agent = IF @ = NoOp THEN settle[t].agent ELSE @], "settle")
            /\ settle' = [settle EXCEPT ![t].step = "saving"]
            /\ UNCHANGED jobs
       ELSE /\ GiveUp(t)
            /\ jobs' = Ticked(task)
            /\ UNCHANGED <<saves, lock>>
    /\ UNCHANGED <<task, eventVars, pc, recovery, worldVars, countVars>>

-----------------------------------------------------------------------------
(* The daemon's events *)

ToOwner(e) == [t \in Task |-> IF t \in TasksOf(e.agent) THEN Append(inbox[t], e) ELSE inbox[t]]

\* onTurnStarted, onTurnEnded, onPermissionRequested, onPermissionResolved
Deliver ==
    LET e == Head(events) IN
    /\ events # <<>>
    /\ events' = Tail(events)
    /\ known' = [known EXCEPT ![e.agent] =
            CASE e.kind = "started" -> [@ EXCEPT !.turn = e.turn]
              [] e.kind = "ended"   -> @
              [] OTHER              -> [@ EXCEPT !.ask = (e.kind = "ask")]]
    /\ turns' = IF e.kind = "ended" THEN turns \cup {e} ELSE turns
    /\ inbox' = IF e.kind = "started" THEN inbox ELSE ToOwner(e)
    /\ \A t \in Task : Len(inbox'[t]) <= MaxEvents
    /\ UNCHANGED <<boardVars, runVars, recovery, worldVars, countVars>>

\* applyPermission(): the lock is taken, the status decides.
HandlePermission(t) ==
    LET e == Head(inbox[t])
        next == ReducePermission(task[t].status, e.kind = "ask")
    IN  /\ ~Locked(t) /\ inbox[t] # <<>> /\ e.kind \in {"ask", "answer"}
        /\ inbox' = [inbox EXCEPT ![t] = Tail(@)]
        /\ IF next # task[t].status
           THEN UserSave(t, [task[t] EXCEPT !.status = next], "quiet")
           ELSE UNCHANGED <<saves, lock>>
        /\ UNCHANGED <<task, known, turns, events, runVars, recovery, worldVars, countVars>>

\* applyTurn() ends without a save.
TurnOver(t) ==
    /\ settle' = SettleIfCanceling(t, task)
    /\ jobs' = Ticked(task)

\* Nothing to do for this end of a turn: canceled, superseded, known already, reviewed already.
Passed(t, e) ==
    \/ task[t].status = "canceling"
    \/ known[e.agent].turn \notin {0, e.turn}
    \/ task[t].outTurn = e.turn
    \/ task[t].status = "awaiting_review" /\ task[t].review.turn = e.turn
    \/ /\ task[t].status # "awaiting_review"
       /\ ReduceTurn(task[t].status, e.outcome) = "ignored"

\* applyTurn(): the handler has the lock.
HandleTurn(t) ==
    LET e == Head(inbox[t])
        r == task[t]
        next == ReduceTurn(r.status, e.outcome)
        Consume == turns' = turns \ {e}
        Saving(rec) == UserSave(t, rec, "turn") /\ UNCHANGED <<jobs, settle>>
    IN  /\ ~Locked(t) /\ inbox[t] # <<>> /\ e.kind = "ended"
        /\ inbox' = [inbox EXCEPT ![t] = Tail(@)]
        /\ IF r.agent # e.agent \/ r.op = NoOp
           THEN TurnOver(t) /\ UNCHANGED <<turns, saves, lock>>
           ELSE IF Passed(t, e)
           THEN Consume /\ TurnOver(t) /\ UNCHANGED <<saves, lock>>
           ELSE \* A later turn: the binding still holds, or "edit" moved the files.
                \/ /\ r.status = "awaiting_review"
                   /\ Consume
                   /\ \/ Saving(Ended(r, e, r.status))
                      \/ "edit" \in UserOps /\ Saving([Ended(r, e, "needs_check") EXCEPT !.review = NoReview])
                \/ /\ r.status # "awaiting_review" /\ next # "awaiting_review"
                   /\ Consume /\ Saving(Ended(r, e, next))
                \/ /\ r.status # "awaiting_review" /\ next = "awaiting_review"
                   /\ IF r.wt
                      THEN /\ lock' = [lock EXCEPT ![t] = [by |-> "capture", op |-> r.op, event |-> <<e>>]]
                           /\ UNCHANGED <<turns, saves, jobs, settle>>
                      ELSE Consume /\ Saving(Ended(r, e, "needs_check"))
        /\ UNCHANGED <<task, known, events, pc, recovery, worldVars, countVars>>

\* What applyTurn() checks again after the capture.
StillTheTurn(t, e) ==
    /\ task[t].agent = e.agent /\ task[t].op = lock[t].op
    /\ Exec(t) /\ task[t].status # "canceling"
    /\ known[e.agent].turn \in {0, e.turn}

Reviewed(r, e) == [Ended(r, e, "awaiting_review") EXCEPT !.review = [op |-> r.op, turn |-> e.turn]]

\* The result is committed and compared: it becomes the review, unless it moved meanwhile.
CaptureDone(t) ==
    LET e == lock[t].event[1]
    IN  /\ lock[t].by = "capture"
        /\ turns' = turns \ {e}
        /\ IF StillTheTurn(t, e)
           THEN /\ \/ saves' = Append(saves, Save(t, Reviewed(task[t], e), "turn"))
                   \/ "edit" \in UserOps /\ saves' = Append(saves, Save(t, Ended(task[t], e, "needs_check"), "turn"))
                /\ lock' = Holds(t, "turn")
                /\ UNCHANGED <<jobs, settle>>
           ELSE /\ lock' = Unlock(t)
                /\ TurnOver(t)
                /\ UNCHANGED saves
        /\ UNCHANGED <<task, inbox, known, events, pc, recovery, worldVars, countVars>>

\* git fails: the status and the operation are looked at, the newest turn is not.
CaptureFails(t) ==
    LET e == lock[t].event[1]
    IN  /\ lock[t].by = "capture"
        /\ Fault
        /\ turns' = turns \ {e}
        /\ IF Exec(t) /\ task[t].op = lock[t].op
           THEN /\ saves' = Append(saves, Save(t, Ended(task[t], e, "needs_check"), "turn"))
                /\ lock' = Holds(t, "turn")
                /\ UNCHANGED <<jobs, settle>>
           ELSE /\ lock' = Unlock(t)
                /\ TurnOver(t)
                /\ UNCHANGED saves
        /\ UNCHANGED <<task, inbox, known, events, pc, recovery, worldVars,
                       rounds, created, granted, crashes>>

-----------------------------------------------------------------------------
(* recover(): every task in turn, without its lock *)

At == order[recovery.at]
NextVisit == [NoRecovery EXCEPT !.step = "visit", !.at = recovery.at + 1]
Visiting == recovery.step = "visit" /\ recovery.at <= Len(order)

RecoverSave(r) ==
    /\ saves' = Append(saves, Save(At, r, "recover"))
    /\ recovery' = [recovery EXCEPT !.step = "saving"]

\* mutation
QueuedAgain(r, o, s) == Requeued(r)

\* What a look at the session makes of a task: one that is unknown, or cannot be
\* asked for, leaves the agent on record, and the failed call the status too.
Recovered(r, o, s) ==
    [r EXCEPT !.status = IF s = "unchanged" THEN @ ELSE s,
              !.agent = IF o = NoOp THEN @ ELSE o]

\* applyStoredOutcome(): a completed turn is not captured after a restart.
StoredOutcome(r) ==
    [r EXCEPT !.status = IF r.outcome = "completed" THEN "needs_check" ELSE r.outcome]

RecoverSkips(t) == task[t].status # "canceling" /\ ~Exec(t)

RecoverSkip ==
    /\ Visiting /\ RecoverSkips(At)
    /\ recovery' = NextVisit
    /\ UNCHANGED <<boardVars, eventVars, runVars, worldVars, countVars>>

\* A cancel is finished, never undone.
RecoverCancel ==
    /\ Visiting /\ task[At].status = "canceling"
    /\ IF task[At].op = NoOp
       THEN RecoverSave([task[At] EXCEPT !.status = "canceled"]) /\ UNCHANGED settle
       ELSE /\ settle' = SettleFrom(At, task[At])
            /\ recovery' = [recovery EXCEPT !.step = "settling"]
            /\ UNCHANGED saves
    /\ UNCHANGED <<task, lock, eventVars, jobs, pc, worldVars, countVars>>

RecoverSettled ==
    /\ recovery.step = "settling" /\ settle[At] = Off
    /\ recovery' = NextVisit
    /\ UNCHANGED <<boardVars, eventVars, runVars, worldVars, countVars>>

Look(o, seen) == recovery' = [recovery EXCEPT !.step = "decide", !.agent = o, !.seen = seen]

\* A task in execution: its stored outcome, or a look at its session, if it is found.
RecoverExec ==
    LET r == task[At]
    IN  /\ Visiting /\ Exec(At) /\ r.status # "canceling"
        /\ \/ /\ r.op = NoOp
              /\ RecoverSave([r EXCEPT !.status = "needs_check"])
           \/ /\ r.op # NoOp /\ r.outcome # "none"
              /\ RecoverSave(StoredOutcome(r))
           \/ /\ r.op # NoOp /\ r.outcome = "none"
              /\ Look(SessionOf(r), Seen(SessionOf(r)))
              /\ UNCHANGED saves
        /\ UNCHANGED <<task, lock, eventVars, runVars, worldVars, countVars>>

\* The daemon cannot be asked for the session, or for its state.
RecoverFails ==
    LET r == task[At]
    IN  /\ Visiting /\ Exec(At) /\ r.status # "canceling"
        /\ r.op # NoOp /\ r.outcome = "none"
        /\ Fault
        /\ \E o \in {r.agent, SessionOf(r)} : Look(o, "failed")
        /\ UNCHANGED <<boardVars, eventVars, runVars, worldVars, rounds, created, granted, crashes>>

\* The answer is written over what memory says by then.
RecoverDecide ==
    /\ recovery.step = "decide"
    /\ RecoverSave(Recovered(task[At], recovery.agent, RecoverExecution(recovery.seen)))
    /\ UNCHANGED <<task, lock, eventVars, runVars, worldVars, countVars>>

LandRecover ==
    /\ Lands({"recover"}) /\ recovery.step = "saving"
    /\ task' = Memory
    /\ saves' = Tail(saves)
    /\ recovery' = NextVisit
    /\ UNCHANGED <<lock, eventVars, runVars, worldVars, countVars>>

\* Tasks still in execution hold their repository's chain; the queue goes on.
RecoverEnds ==
    LET held(r) == SelectSeq(order, LAMBDA t : repoOf[t] = r /\ Exec(t))
        chains == [r \in Repo |-> [i \in DOMAIN held(r) |-> Hold(held(r)[i])]]
    IN  /\ recovery.step = "visit" /\ recovery.at > Len(order)
        /\ recovery' = NoRecovery
        /\ jobs' = [r \in Repo |-> Ticked(task)[r] \o chains[r]]
        /\ UNCHANGED <<boardVars, eventVars, pc, settle, worldVars, countVars>>

\* The process dies and a new one recovers: what the store has on disk survives.
Crash ==
    /\ crashes < MaxCrashes /\ crashes' = crashes + 1
    /\ task' \in {task} \cup (IF saves = <<>> THEN {} ELSE {Memory})
    /\ saves' = <<>>
    /\ lock' = [t \in Task |-> Free]
    /\ inbox' = [t \in Task |-> <<>>]
    /\ known' = [o \in Op |-> Unknown]
    /\ turns' = {}
    /\ events' = <<>>
    /\ jobs' = [r \in Repo |-> <<>>]
    /\ pc' = [t \in Task |-> NoRun]
    /\ settle' = [t \in Task |-> Off]
    /\ recovery' = [NoRecovery EXCEPT !.step = "visit", !.at = 1]
    /\ UNCHANGED <<worldVars, rounds, created, granted, faults>>

-----------------------------------------------------------------------------
(* The daemon *)

Tells(e) == Len(events) < MaxEvents /\ events' = Append(events, e)

Session(o, from, to, n) ==
    /\ session[o].state = from
    /\ session' = [session EXCEPT ![o] = [state |-> to, turn |-> n]]
    /\ UNCHANGED <<boardVars, inbox, known, turns, runVars, recovery, worktree, countVars>>

\* The request for a session takes effect: its first turn starts.
Open(o) ==
    /\ \E t \in Task : pc[t] = [at |-> "create", op |-> o]
    /\ Session(o, "none", "busy", 1)
    /\ Tells(Event("started", o, 1, "none"))

EndTurn(o) ==
    /\ Session(o, "busy", "idle", session[o].turn)
    /\ \E k \in Outcomes : Tells(Event("ended", o, session[o].turn, k))

\* A user talks to a session that is idle.
Chat(o) ==
    /\ "chat" \in UserOps /\ session[o].turn < MaxTurns
    /\ Session(o, "idle", "busy", session[o].turn + 1)
    /\ Tells(Event("started", o, session[o].turn + 1, "none"))

AskPermission(o) ==
    /\ "permission" \in UserOps
    /\ Session(o, "busy", "permission", session[o].turn)
    /\ Tells(Event("ask", o, 0, "none"))

AnswerPermission(o) ==
    /\ Session(o, "permission", "busy", session[o].turn)
    /\ Tells(Event("answer", o, 0, "none"))

-----------------------------------------------------------------------------
Land == LandUser \/ LandQuiet \/ LandCancel \/ LandTurn \/ LandSettle
        \/ LandBegin \/ LandLocate \/ LandLink \/ LandFail \/ LandRecover

Job(t) == Begin(t) \/ EnsureDone(t) \/ CreateReturns(t) \/ FailDispatch(t)

JobFault(t) == EnsureFails(t) \/ CreateFails(t) \/ SearchFails(t)

User(t) == Start(t) \/ Cancel(t) \/ RetryStop(t) \/ Requeue(t)
           \/ Delete(t) \/ DeleteFails(t) \/ Reconcile(t)

SettleStep(t) == Watch(t) \/ SettleFind(t) \/ SettleStop(t) \/ SettleMark(t)

Handle(t) == HandlePermission(t) \/ HandleTurn(t) \/ CaptureDone(t)

Recover == RecoverSkip \/ RecoverCancel \/ RecoverSettled \/ RecoverExec
           \/ RecoverDecide \/ RecoverEnds

\* Between two tasks recover() does not wait for anything, so nothing else runs.
Plugin ==
    /\ recovery.step # "visit"
    /\ \/ Land \/ Deliver
       \/ \E t \in Task : Job(t) \/ JobFault(t) \/ User(t) \/ SettleStep(t) \/ SettleFails(t)
                          \/ Handle(t) \/ CaptureFails(t)
       \/ \E r \in Repo : JobEnds(r)

Daemon(o) == Open(o) \/ EndTurn(o) \/ Chat(o) \/ AskPermission(o) \/ AnswerPermission(o)

Next == Plugin \/ Recover \/ RecoverFails \/ Crash \/ \E o \in Op : Daemon(o)

Spec == Init /\ [][Next]_vars

\* The runtime goes on with every handler; requests are answered; turns end; users, faults and crashes may never come.
Fairness ==
    /\ WF_vars(Land) /\ WF_vars(Deliver) /\ WF_vars(Recover)
    /\ \A t \in Task : /\ WF_vars(Job(t)) /\ WF_vars(Handle(t)) /\ WF_vars(SettleStep(t))
    /\ \A r \in Repo : WF_vars(JobEnds(r))
    /\ \A o \in Op : WF_vars(Open(o)) /\ WF_vars(EndTurn(o)) /\ WF_vars(AnswerPermission(o))

FairSpec == Spec /\ Fairness

-----------------------------------------------------------------------------
(* Properties *)

IsEvent(e) ==
    /\ e.kind \in {"started", "ended", "ask", "answer"}
    /\ e.agent \in Op /\ e.turn \in 0..MaxTurns
    /\ e.outcome \in {"none"} \cup TurnKind

IsQueueOfEvents(q) == DOMAIN q = 1..Len(q) /\ \A i \in DOMAIN q : IsEvent(q[i])

IsJob(j, r) == j.kind \in {"run", "hold"} /\ j.task \in Task /\ repoOf[j.task] = r

\* Every variable has its type; in particular a save is a whole record of the
\* board (engine.ts:1775), and a lock that is held names its section.
TypeOK ==
    /\ task \in [Task -> Record]
    /\ \A i \in DOMAIN saves : saves[i].task \in Task /\ saves[i].rec \in Record
    /\ \A t \in Task : /\ lock[t].by \in {"free", "user", "quiet", "cancel", "begin", "fail",
                                         "settle", "turn", "capture"}
                       /\ lock[t].op \in {NoOp} \cup Op
                       /\ lock[t].by = "capture" => IsEvent(lock[t].event[1])
                       /\ IsQueueOfEvents(inbox[t])
                       /\ pc[t].at \in {"off", "begin", "ensure", "locate", "create", "link",
                                        "failing", "fail", "hold"}
                       /\ pc[t].op \in {NoOp} \cup Op
                       /\ settle[t].step \in {"off", "find", "stop", "mark", "saving"}
                       /\ settle[t].op \in {NoOp} \cup Op /\ settle[t].agent \in {NoOp} \cup Op
    /\ known \in [Op -> [turn : 0..MaxTurns, ask : BOOLEAN]]
    /\ \A e \in turns : IsEvent(e)
    /\ IsQueueOfEvents(events)
    /\ \A r \in Repo : \A i \in DOMAIN jobs[r] : IsJob(jobs[r][i], r)
    /\ recovery.step \in {"off", "visit", "settling", "decide", "saving"}
    /\ recovery.at \in 0..(Len(order) + 1)
    /\ session \in [Op -> [state : {"none", "busy", "permission", "idle", "gone"}, turn : 0..MaxTurns]]
    /\ worktree \subseteq Task
    /\ rounds \in Seq(Task) /\ Len(rounds) <= MaxOps
    /\ created \in [Op -> Nat] /\ granted \in [Task -> Nat]
    /\ faults \in 0..MaxFaults /\ crashes \in 0..MaxCrashes

AtWork == {"preparing", "running", "needs_attention"}

\* "A repository runs one task at a time" (engine.ts:121): of the tasks of one
\* repository at most one is being prepared or runs.  A second one may be
\* canceling (the session of a task under review that is being stopped).
OneTaskAtWork ==
    \A t, u \in Task : SameRepo(t, u) /\ task[t].status \in AtWork /\ task[u].status \in AtWork => t = u

\* The same for the sessions themselves, which no lock of the plugin covers: at
\* most one session per repository is in the turn that the queue started.
OneSessionAtWork ==
    \A o, p \in Op :
        /\ o <= Len(rounds) /\ p <= Len(rounds)
        /\ SameRepo(rounds[o], rounds[p])
        /\ \A q \in {o, p} : Active(session[q].state) /\ session[q].turn = 1
        => o = p

\* A session at work in the turn the queue started belongs to a task in
\* execution: nothing the queue started goes on behind its back.
NoOrphan ==
    \A o \in Op : Active(session[o].state) /\ session[o].turn = 1 =>
        Exec(rounds[o]) /\ task[rounds[o]].op = o

\* A review on record is of the current round and of a turn that has ended, and
\* the task keeps the session and the worktree it was taken from: what accept()
\* would merge is what the screen shows (README.md:43).
ReviewIsCurrent ==
    \A t \in Task : LET r == task[t] IN
        r.status = "awaiting_review" \/ r.review # NoReview =>
            /\ r.review.op = r.op /\ r.agent = r.op /\ r.wt
            /\ r.review.turn \in 1..session[r.op].turn
            /\ session[r.op].turn = r.review.turn => ~Active(session[r.op].state)

\* "Restart never resends a saved operation" (README.md:53): the daemon is asked
\* for a session at most once per operation, and there are no more operations of
\* a task than times a user queued it, whatever crashes and is lost.
NoResend ==
    /\ \A o \in Op : created[o] <= 1
    /\ \A t \in Task :
          Cardinality({o \in DOMAIN rounds : rounds[o] = t /\ created[o] > 0}) <= granted[t]

\* "Only complete cleanup removes the record" (README.md:38): a task that is
\* deleted leaves no worktree and no session at work.
DeletedIsClean ==
    \A t \in Task : task[t].status = "deleted" =>
        /\ t \notin worktree
        /\ \A o \in DOMAIN rounds : rounds[o] = t => ~Active(session[o].state)

\* "A live run stays canceling until its agent and collaboration run stop"
\* (engine.ts:299): nothing but the end of the cancel ends it.
CancelSticks ==
    [][\A t \in Task : task[t].status = "canceling" => task'[t].status \in {"canceling", "canceled"}]_vars

\* A queued task is begun, or withdrawn by its user ("closing the sidebar does
\* not stop the queue", README.md:3), also behind a task whose cancel was answered
\* while its session was still at work: the poll comes back to it until the turn is
\* over (engine.ts:1447).  Nothing is begun once the bound on operations is reached.
QueuedStarts ==
    \A t \in Task : task[t].status = "queued" ~> task[t].status # "queued" \/ Len(rounds) = MaxOps

\* What a status says of the repository's slot.
Phase(s) == CASE s = "queued"    -> "waiting"
              [] s \in AtWork    -> "holding"
              [] s = "canceling" -> "stopping"
              [] OTHER           -> "out"

Slot == INSTANCE RepoSlot WITH phase <- [t \in Task |-> Phase(task[t].status)]

\* The queue hands out each repository's slot as RepoSlot says: a task waits for
\* it, takes it only when nobody is at work there, and gives it up for good
\* (engine.ts:121, engine.ts:884).
RefinesRepoSlot == Slot!Spec
=============================================================================
