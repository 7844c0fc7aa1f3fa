---------------------------- MODULE BridgeRounds ----------------------------
(* The rounds of the Dot bridge: src/dot-bridge/server/engine.ts over       *)
(* src/dot-bridge/shared/machine.ts.                                        *)
(*                                                                          *)
(* Every handler of the engine changes the durable state in one serial      *)
(* `store.mutate`, so it is one action; dispatchTick alone decides on a     *)
(* snapshot and commits later.  The events the handlers emit are added by   *)
(* BridgeDelivery, which extends this module.                               *)
(*                                                                          *)
(* Data.  Tasks are numbered in the order they are created, so their number *)
(* is their place in the queue; a round is its number within its task, the  *)
(* current one is the last.  Messages of Dot only shift the sequence        *)
(* numbers of the user's, so a position is the number of user messages it   *)
(* covers.  Tasks are text tasks (the installed plugin has no Git port),    *)
(* the bridge listens and Dot has confirmed the connection.  A client that  *)
(* names an old revision, or repeats an operation, changes nothing.         *)
EXTENDS Naturals, Sequences, FiniteSets

CONSTANTS
  NTasks,        \* tasks a user may create
  MaxRounds,     \* bound: rounds of all tasks together
  MaxMessages,   \* bound: user messages of a task
  MaxCap,        \* largest value the user gives to the in-flight limit
  Reports        \* the kinds of progress Dot reports

ASSUME RoundsAssumption ==
  /\ {NTasks, MaxRounds, MaxMessages, MaxCap} \subseteq Nat \ {0}
  /\ Reports \subseteq {"running", "failed", "stopped"}

VARIABLES
  tasks,    \* the tasks in state.json
  route,    \* a verified task_changed subscription is active
  cap,      \* getMaxInFlight()
  plan      \* dispatchTick between its snapshot and its commit: <<task, round>> pairs

roundVars == <<tasks, route, cap, plan>>

Tasks == 1 .. NTasks

-----------------------------------------------------------------------------
(* Rounds *)

Working == {"claimed", "running"}
Occupying == {"dispatched"} \cup Working
Terminal == {"completed", "failed", "stopped"}
Statuses == {"queued"} \cup Occupying \cup Terminal

NoResult == [read |-> 0, covers |-> FALSE, given |-> FALSE]
NoWait == [known |-> FALSE, retries |-> 0]

(* "running" also stands for "waiting_user": no guard tells them apart. *)
NewRound == [status |-> "queued", claimed |-> FALSE, stop |-> FALSE, reported |-> FALSE,
             closed |-> FALSE, read |-> 0, result |-> NoResult, wait |-> NoWait]

NoTask == [rounds |-> <<>>, status |-> "queued", messages |-> 0, canceled |-> FALSE]

Exists(t) == tasks[t].rounds # <<>>
Newest(task) == Len(task.rounds)
Current(task) == task.rounds[Len(task.rounds)]
Holds(task) == task.rounds # <<>> /\ Current(task).status \in Occupying
(* MaxRounds bounds the rounds that are opened. *)
MayOpen == Cardinality(UNION {{t} \X DOMAIN tasks[t].rounds : t \in Tasks}) < MaxRounds
InFlight == Cardinality({t \in Tasks : Holds(tasks[t])})

(* replaceRound and replaceRoundRaw: the first also mirrors the status.     *)
(* What no code reads again is left out: the reminders of a round that is   *)
(* no longer dispatched, and of a superseded round everything but its       *)
(* status and the stop that Dot has to report (the rest is only shown).     *)
WithRound(task, r, round) == [task EXCEPT !.rounds[r] = round]
WithStatus(task, round) ==
  [WithRound(task, Newest(task), [round EXCEPT !.wait = IF round.status = "dispatched" THEN @ ELSE NoWait])
     EXCEPT !.status = round.status]

(* A result covers the latest input or it does not, whoever saved last. *)
Recompute(task) ==
  LET result == Current(task).result
  IN  IF result.given
      THEN [task EXCEPT !.rounds[Newest(task)].result.covers = result.read >= task.messages]
      ELSE task

AppendUserMessage(task) == Recompute([task EXCEPT !.messages = @ + 1])

(* Dot works on it, was asked to stop, and has not said that it did. *)
MustStop(round) == round.stop /\ round.claimed /\ ~round.reported

Superseded(round) ==
  [round EXCEPT !.read = 0, !.result = NoResult, !.closed = FALSE, !.stop = @ /\ round.claimed]

OpenRound(task) ==
  [task EXCEPT !.rounds = Append([r \in DOMAIN @ |-> Superseded(@[r])], NewRound), !.status = "queued"]
RetryRound(task) == [OpenRound(task) EXCEPT !.canceled = FALSE]

Save(t, task) ==
  /\ tasks' = [tasks EXCEPT ![t] = Recompute(task)]
  /\ UNCHANGED <<route, cap, plan>>

-----------------------------------------------------------------------------
(* The user and the Paseo provider *)

CreateTask(t) ==
  /\ ~Exists(t) /\ (\A u \in Tasks : u < t => Exists(u)) /\ MayOpen
  /\ Save(t, [OpenRound(NoTask) EXCEPT !.messages = 1])

AddMessage(t) ==
  LET task == AppendUserMessage(tasks[t])
  IN  /\ Exists(t) /\ tasks[t].messages < MaxMessages
      /\ Save(t, task)

(* A chat input opens the round that carries it, unless it steers an open   *)
(* one or a stop of the open one is not acknowledged yet.                   *)
Prompt(t, steer) ==
  LET old == tasks[t]
      base == IF old.status = "completed" THEN OpenRound(old)
              ELSE IF old.status \in {"failed", "stopped"} THEN RetryRound(old) ELSE old
      task == AppendUserMessage(base)
  IN  /\ Exists(t) /\ old.messages < MaxMessages
      /\ steer => ~Current(old).stop /\ old.status \notin Terminal
      /\ Current(old).stop => old.status \in Terminal
      /\ old.status \in Terminal => MayOpen
      /\ Save(t, task)

CreateRound(t) ==
  /\ Exists(t) /\ Current(tasks[t]).status = "completed" /\ MayOpen
  /\ Save(t, OpenRound(tasks[t]))

Retryable(round) == round.status \in {"failed", "stopped"}

Retry(t) ==
  /\ Exists(t) /\ Retryable(Current(tasks[t])) /\ MayOpen
  /\ Save(t, RetryRound(tasks[t]))

(* A round nobody has claimed ends here; a claimed one when Dot says so. *)
Unclaimed(round) == \/ round.status = "queued"
                    \/ round.status = "dispatched" /\ ~round.claimed

Cancel(t) ==
  LET old == tasks[t]
      round == Current(old)
      asked == [round EXCEPT !.stop = TRUE]
      task == IF Unclaimed(round)
              THEN [WithStatus(old, [asked EXCEPT !.status = "stopped"]) EXCEPT !.canceled = TRUE]
              ELSE WithStatus(old, asked)
  IN  /\ Exists(t) /\ (Unclaimed(round) \/ round.status \in Occupying)
      /\ Save(t, task)

CloseLocal(t) ==
  LET round == Current(tasks[t])
      task == WithStatus(tasks[t], [round EXCEPT !.status = "stopped", !.closed = TRUE])
  IN  /\ Exists(t) /\ round.claimed /\ round.stop /\ round.status \in Occupying
      /\ Save(t, task)

SetCap(c) == c # cap /\ cap' = c /\ UNCHANGED <<tasks, route, plan>>

-----------------------------------------------------------------------------
(* Dot *)

Claim(t) ==
  LET round == Current(tasks[t])
  IN  /\ Exists(t) /\ ~round.claimed /\ round.status = "dispatched"
      /\ Save(t, WithStatus(tasks[t], [round EXCEPT !.status = "claimed", !.claimed = TRUE]))

(* What a report may no longer do: it names an older round, the round is    *)
(* over, or it has read less than an earlier report.                        *)
HistoryOnly(task, r, kind, read) ==
  LET round == task.rounds[r]
  IN  \/ r # Newest(task)
      \/ round.status \in Terminal
      \/ kind = "running" /\ read < round.read

ReportProgress(t, r, kind, read) ==
  LET old == tasks[t]
      round == old.rounds[r]
      seen == [round EXCEPT !.read = IF r = Newest(old) /\ read > @ THEN read ELSE @,
                            !.reported = @ \/ (kind = "stopped" /\ round.stop)]
      task == IF HistoryOnly(old, r, kind, read) THEN WithRound(old, r, seen)
              ELSE WithStatus(old, [seen EXCEPT !.status = kind])
  IN  /\ round.claimed
      /\ task # old
      /\ Save(t, task)

(* A result ends the current round, even one reported failed or stopped; of *)
(* an older round, or one closed locally, it is kept as history.            *)
AcceptsClosed(task, r) == r = Newest(task)
Accepts(task, r) == r = Newest(task) /\ ~task.rounds[r].closed

SubmitResult(t, r, read) ==
  LET old == tasks[t]
      round == old.rounds[r]
      given == [round EXCEPT !.result = [read |-> read, covers |-> read >= old.messages, given |-> TRUE],
                             !.read = IF read > @ THEN read ELSE @]
      task == IF Accepts(old, r) THEN WithStatus(old, [given EXCEPT !.status = "completed"])
              ELSE IF r = Newest(old) THEN WithRound(old, r, given) ELSE old
  IN  /\ round.claimed
      /\ task # old
      /\ Save(t, task)

(* A subscription to task_changed whose endpoint answered the challenge *)
Subscribe == route' = TRUE /\ UNCHANGED <<tasks, cap, plan>>

(* The subscription is removed or expires. *)
Unsubscribe == route /\ route' = FALSE /\ UNCHANGED <<tasks, cap, plan>>

-----------------------------------------------------------------------------
(* dispatchTick *)

Free == IF InFlight < cap THEN cap - InFlight ELSE 0

(* The oldest n of a set of tasks *)
Oldest(S, n) == {t \in S : Cardinality({u \in S : u < t}) < n}

Queued == {t \in Tasks : Exists(t) /\ Current(tasks[t]).status = "queued" /\ ~tasks[t].canceled}

(* The commit looks again: the route, the room, and that each candidate is  *)
(* still the queued round that was looked at.                               *)
CandidatesIfAllFit == IF Cardinality(Queued) <= Free THEN {<<t, Newest(tasks[t])>> : t \in Queued} ELSE {}
Candidates == {<<t, Newest(tasks[t])>> : t \in Oldest(Queued, Free)}
StillThere(chosen) == {t \in Tasks : <<t, Newest(tasks[t])>> \in chosen}
StillQueued(chosen) == {t \in Queued : <<t, Newest(tasks[t])>> \in chosen}
Sent(chosen) == IF route THEN Oldest(StillQueued(chosen), Free) ELSE {}

SendOut(S) ==
  tasks' = [t \in Tasks |->
             IF t \in S
             THEN Recompute(WithStatus(tasks[t], [Current(tasks[t]) EXCEPT !.status = "dispatched"]))
             ELSE tasks[t]]

DispatchLook ==
  /\ plan = {} /\ route /\ Candidates # {}
  /\ plan' = Candidates
  /\ UNCHANGED <<tasks, route, cap>>

DispatchCommit == /\ plan # {} /\ plan' = {}
                  /\ SendOut(Sent(plan))
                  /\ UNCHANGED <<route, cap>>

(* The daemon is restarted: a decision that was not committed is forgotten. *)
Forget == plan # {} /\ plan' = {} /\ UNCHANGED <<tasks, route, cap>>

-----------------------------------------------------------------------------
Init ==
  /\ tasks = [t \in Tasks |-> NoTask]
  /\ route \in BOOLEAN /\ cap \in 1 .. MaxCap /\ plan = {}

UserStep(t) == \/ CreateTask(t) \/ AddMessage(t) \/ CreateRound(t) \/ Retry(t)
               \/ Cancel(t) \/ CloseLocal(t)
               \/ \E steer \in BOOLEAN : Prompt(t, steer)

DotStep(t) == \/ Claim(t)
              \/ \E r \in DOMAIN tasks[t].rounds, read \in 0 .. tasks[t].messages :
                   \/ SubmitResult(t, r, read)
                   \/ \E kind \in Reports : ReportProgress(t, r, kind, read)

Next == \/ \E t \in Tasks : UserStep(t) \/ DotStep(t)
        \/ \E c \in 1 .. MaxCap : SetCap(c)
        \/ Subscribe \/ Unsubscribe
        \/ DispatchLook \/ DispatchCommit \/ Forget

Spec == Init /\ [][Next]_roundVars

(* dispatchTick runs on an interval, and the daemon is not restarted in     *)
(* every one of its pauses.                                                 *)
FairSpec == Spec /\ WF_roundVars(DispatchLook) /\ SF_roundVars(DispatchCommit)

-----------------------------------------------------------------------------
(* Properties *)

RoundType == [status : Statuses, claimed : BOOLEAN, stop : BOOLEAN, reported : BOOLEAN,
              closed : BOOLEAN, read : 0 .. MaxMessages,
              result : [read : 0 .. MaxMessages, covers : BOOLEAN, given : BOOLEAN],
              wait : [known : BOOLEAN, retries : Nat]]
(* The variables stay in their types. *)
TypeOK ==
  /\ \A t \in Tasks :
       /\ Len(tasks[t].rounds) <= MaxRounds
       /\ \A r \in DOMAIN tasks[t].rounds : tasks[t].rounds[r] \in RoundType
       /\ tasks[t].status \in Statuses /\ tasks[t].messages \in 0 .. MaxMessages
       /\ tasks[t].canceled \in BOOLEAN
  /\ route \in BOOLEAN /\ cap \in 1 .. MaxCap
  /\ plan \subseteq Tasks \X (1 .. MaxRounds)

(* The status a task shows, and the handlers branch on, is that of its      *)
(* current round, whichever of the two replace functions saved last.        *)
StatusMirrors == \A t \in Tasks : Exists(t) => tasks[t].status = Current(tasks[t]).status

(* A result on show says it covers the latest input exactly when it does,   *)
(* after late results, late messages and reports of later reading.          *)
CoverageCurrent ==
  \A t \in Tasks : Exists(t) =>
    LET result == Current(tasks[t]).result
    IN  result.given => (result.covers <=> result.read >= tasks[t].messages)

(* A round that was replaced or closed locally keeps its status, whatever   *)
(* reports and results about it arrive later.                               *)
Fenced(task, r) == r < Len(task.rounds) \/ task.rounds[r].closed
FencedStays ==
  [][\A t \in Tasks : \A r \in DOMAIN tasks[t].rounds :
       Fenced(tasks[t], r) => tasks'[t].rounds[r].status = tasks[t].rounds[r].status]_roundVars

(* The rounds implement the ledger: one open round per task, never more out *)
(* than the limit when one is handed out, and no round resumed.             *)
PhaseOf(round) == CASE round.status = "queued" -> "waiting"
                    [] round.status \in Occupying -> "out"
                    [] OTHER -> "over"
Ledger == INSTANCE RoundLedger WITH
            ledger <- [t \in Tasks |-> [r \in DOMAIN tasks[t].rounds |-> PhaseOf(tasks[t].rounds[r])]],
            limit <- cap
RefinesLedger == Ledger!Spec

(* With a route and a free slot no queued task waits for ever, whatever is  *)
(* canceled, retried or created beside it.                                  *)
QueuedIsDispatched ==
  \A t \in Tasks : t \in Queued ~> t \notin Queued \/ ~route \/ Free = 0
=============================================================================
