----------------------------- MODULE AgentMerge -----------------------------
(* Merging an accepted task: accept, startAgentMerge, syncAgentMerge and    *)
(* cleanup of src/todo/server/engine.ts, with the handlers of turn events   *)
(* and the recovery they meet.                                              *)
(*                                                                          *)
(* The plugin never merges.  It sends one command to the session that made  *)
(* the result, watches that session, and believes Git alone.  The session   *)
(* runs further turns that its user asks for; its events come when they     *)
(* like, and none comes of what happened while the plugin was down.         *)
(*                                                                          *)
(* The tasks are of one repository and have been captured for review; what  *)
(* TaskQueue models of them is left out.  A task has one session, known by  *)
(* the task; its turns are counted, turn 1 made the result.  A save lands   *)
(* at once.  What runs under a task's lock without an await that another    *)
(* step could use is one step.  The lock of a task and the queue of Git     *)
(* calls are granted in any order, events in theirs.  A session that waits  *)
(* for a permission is busy.                                                *)
EXTENDS Naturals, Sequences, FiniteSets

CONSTANTS
  Task,         \* the tasks of one repository
  Window,       \* windows of the user: each has one call under way
  Outcomes,     \* how turns may end
  Effects,      \* what turns may do to the branch and the target
  MaxRequests,  \* bound: merge requests of all tasks together
  MaxActs,      \* bound: turns that users ask for, sessions they close, cleanups they repeat
  MaxFaults,    \* bound: calls to the daemon or Git that fail
  MaxCrashes    \* bound: deaths of the plugin's process

ASSUME MergeAssumption ==
  /\ Task \cap Window = {} /\ Task # {} /\ Outcomes # {}
  /\ "free" \notin Task \cup Window /\ IsFiniteSet(Window)
  /\ Outcomes \subseteq {"completed", "failed", "canceled"}
  /\ Effects \subseteq {"edit", "commit", "rewrite", "land"}
  /\ {MaxRequests, MaxActs, MaxFaults, MaxCrashes} \subseteq Nat

VARIABLES
  task,     \* the records: status, review, newest outcome, request, cleanup
  started,  \* startedTurn: the newest turn of each session, 0 when not known
  lock,     \* who holds the lock of each task
  git,      \* whose Git call is under way
  call,     \* the accept of each window: its task and what it does next
  sync,     \* the sync of each task: what it does next, is it a recovery, does recover() wait for it
  clean,    \* the cleanup that a window or a sync carries out
  recov,    \* tasks that recover() has still to visit
  late,     \* tasks whose command was sent more than 30 seconds ago
  events,   \* events of each session that the plugin has not seen
  inbox,    \* events whose handlers wait for the lock of the task
  session,  \* the sessions: state, newest turn, commands not begun
  tree,     \* the branch and the worktree of each task
  fresh,    \* tasks since whose review the target has not moved
  landed,   \* history: tasks whose accepted result was put into the target
  back,     \* history: tasks that a turn has brought back to merging
  requests, commands, acts, faults, crashes

memory == <<started, lock, git, call, sync, clean, recov, inbox>>
world == <<session, tree, fresh, landed>>
counts == <<requests, commands, acts, faults, crashes>>
vars == <<task, memory, late, events, world, back, counts>>

Free == "free"
ReviewTurn == 1
LastTurn == 1 + MaxRequests + MaxActs
Turn == 0 .. LastTurn

Request == [prev : Turn, turn : Turn, outcome : Outcomes \cup {"none"}, seen : BOOLEAN]
NoRequest == [prev |-> 0, turn |-> 0, outcome |-> "none", seen |-> FALSE]
Steps == [sessions : BOOLEAN, worktree : BOOLEAN, branch : BOOLEAN]
NothingDone == [sessions |-> FALSE, worktree |-> FALSE, branch |-> FALSE]

NoCall == [task |-> Free, step |-> "off"]
NoSync == [step |-> "off", recovering |-> FALSE, awaited |-> FALSE]
NoClean == [task |-> Free, step |-> "off", done |-> NothingDone]

Asked(t) == task[t].req # NoRequest
Merging(t) == task[t].status = "merging"
CanAccept(t) == task[t].status \in {"awaiting_review", "merge_failed"} /\ task[t].review

Becomes(t, r) == task' = [task EXCEPT ![t] = r]
With(t, status) == [task[t] EXCEPT !.status = status]

(* A call that fails, as far as the bound allows. *)
Fault == faults < MaxFaults /\ faults' = faults + 1

-----------------------------------------------------------------------------
(* The sessions and Git *)

Busy == {"busy", "worked"}
Idle(t) == session[t].state \notin Busy
Exists(t) == session[t].state # "archived"

Begins(t, waiting) ==
  /\ session[t].state = "idle"
  /\ session' = [session EXCEPT ![t] = [state |-> "busy", turn |-> @.turn + 1, waiting |-> waiting]]
  /\ events' = [events EXCEPT ![t] = Append(@, [turn |-> session[t].turn + 1, outcome |-> "none"])]
  /\ UNCHANGED <<task, memory, late, tree, fresh, landed, back, requests, commands, faults, crashes>>

(* A session begins the next command it has received, or what its user asks. *)
StartTurn(t) == session[t].waiting > 0 /\ Begins(t, session[t].waiting - 1) /\ UNCHANGED acts
AskTurn(t) == acts < MaxActs /\ acts' = acts + 1 /\ Begins(t, session[t].waiting)

EndTurn(t) ==
  /\ ~Idle(t) /\ session' = [session EXCEPT ![t].state = "idle"]
  /\ \E o \in Outcomes :
       events' = [events EXCEPT ![t] = Append(@, [turn |-> session[t].turn, outcome |-> o])]
  /\ UNCHANGED <<task, memory, late, tree, fresh, landed, back, counts>>

(* The user closes a session. *)
CloseSession(t) ==
  /\ session[t].state = "idle" /\ acts < MaxActs /\ acts' = acts + 1
  /\ session' = [session EXCEPT ![t].state = "archived", ![t].waiting = 0]
  /\ UNCHANGED <<task, memory, late, events, tree, fresh, landed, back, requests, commands, faults, crashes>>

(* What a turn leaves behind: edits, commits, or commits that rewrite the   *)
(* branch; and its branch in the target.                                    *)
Changed(b, e) ==
  CASE e = "edit" -> [b EXCEPT !.clean = FALSE]
    [] e = "commit" -> [b EXCEPT !.clean = TRUE, !.moved = TRUE, !.inTarget = FALSE, !.proved = FALSE]
    [] e = "rewrite" -> [b EXCEPT !.clean = TRUE, !.moved = TRUE, !.inTarget = FALSE, !.proved = FALSE, !.holds = FALSE]
    [] e = "land" -> [b EXCEPT !.inTarget = TRUE]
Results(b) == {Changed(b, e) : e \in Effects}
              \cup {Changed(Changed(b, e), "land") : e \in Effects \cap {"commit", "rewrite"}}

Work(t) ==
  /\ session[t].state = "busy" /\ tree[t].worktree
  /\ session' = [session EXCEPT ![t].state = "worked"]
  /\ \E b \in Results(tree[t]) :
       /\ tree' = [tree EXCEPT ![t] = b]
       /\ IF b.inTarget THEN /\ fresh' = {}
                             /\ landed' = IF b.holds THEN landed \cup {t} ELSE landed
                        ELSE UNCHANGED <<fresh, landed>>
  /\ UNCHANGED <<task, memory, late, events, back, counts>>

(* bindingIntact and verifyAgentMerge: the worktree is clean, the tip is    *)
(* the accepted result and the target where it was; or the tip contains it, *)
(* and the target the tip.                                                  *)
Intact(t) == tree[t].worktree /\ tree[t].clean /\ ~tree[t].moved /\ t \in fresh
(* A mutant: it is enough that the branch is merged. *)
TipMerged(t) == tree[t].worktree /\ tree[t].clean /\ tree[t].inTarget
Verified(t) == tree[t].worktree /\ tree[t].clean /\ tree[t].holds /\ tree[t].inTarget

(* reconcile(), for the page and with every tick: a result whose branch or  *)
(* target has moved, or of which Git tells nothing, is not to be accepted.  *)
Unreviewed(t) == [With(t, "needs_check") EXCEPT !.review = FALSE]
Reconcile(t) ==
  /\ lock[t] = Free /\ task[t].status = "awaiting_review" /\ task[t].review
  /\ (~Intact(t) /\ UNCHANGED faults) \/ Fault
  /\ Becomes(t, Unreviewed(t))
  /\ UNCHANGED <<memory, late, events, world, back, requests, commands, acts, crashes>>

-----------------------------------------------------------------------------
(* accept and startAgentMerge *)

(* The calls of the page wait for recover(), events and polls do not. *)
NotAwaited == \A t \in Task : ~sync[t].awaited
Ready == recov = {} /\ NotAwaited

Accept(w, t) ==
  /\ Ready /\ call[w] = NoCall /\ clean[w] = NoClean /\ lock[t] = Free /\ CanAccept(t)
  /\ requests + Cardinality({v \in Window : call[v] # NoCall}) < MaxRequests
  /\ call' = [call EXCEPT ![w] = [task |-> t, step |-> "idle"]]
  /\ UNCHANGED <<task, started, lock, git, sync, clean, recov, inbox, late, events, world, back, counts>>

AcceptAt(w, step) == call[w].step = step
AcceptGoes(w, step) == call' = [call EXCEPT ![w].step = step]
AcceptEnds(w) ==
  /\ call' = [call EXCEPT ![w] = NoCall]
  /\ lock' = [t \in Task |-> IF lock[t] = w THEN Free ELSE lock[t]]
  /\ git' = IF git = w THEN Free ELSE git

AcceptIdle(w) ==
  /\ AcceptAt(w, "idle")
  /\ \/ Idle(call[w].task) /\ AcceptGoes(w, "lock") /\ UNCHANGED <<lock, git, faults>>
     \/ ~Idle(call[w].task) /\ AcceptEnds(w) /\ UNCHANGED faults
     \/ Fault /\ AcceptEnds(w)
  /\ UNCHANGED <<task, started, sync, clean, recov, inbox, late, events, world, back, requests, commands, acts, crashes>>

AcceptLock(w) ==
  /\ AcceptAt(w, "lock") /\ lock[call[w].task] = Free
  /\ lock' = [lock EXCEPT ![call[w].task] = w] /\ AcceptGoes(w, "git")
  /\ UNCHANGED <<task, started, git, sync, clean, recov, inbox, late, events, world, back, counts>>

(* A mutant: the merge is begun outside the queue of Git calls. *)
NoQueue(w) == UNCHANGED git
TakeGit(w) == git = Free /\ git' = w
NotBusy(t) == \A u \in Task \ {t} : ~Merging(u)
AcceptLook(w) ==
  LET t == call[w].task IN
  /\ AcceptAt(w, "git")
  /\ \/ CanAccept(t) /\ NotBusy(t) /\ TakeGit(w) /\ AcceptGoes(w, "alone") /\ UNCHANGED lock
     \/ ~(CanAccept(t) /\ NotBusy(t)) /\ git = Free /\ AcceptEnds(w)
  /\ UNCHANGED <<task, started, sync, clean, recov, inbox, late, events, world, back, counts>>

AcceptAlone(w) ==
  /\ AcceptAt(w, "alone")
  /\ \/ Exists(call[w].task) /\ Idle(call[w].task) /\ AcceptGoes(w, "save") /\ UNCHANGED <<lock, git, faults>>
     \/ ~(Exists(call[w].task) /\ Idle(call[w].task)) /\ AcceptEnds(w) /\ UNCHANGED faults
     \/ Fault /\ AcceptEnds(w)
  /\ UNCHANGED <<task, started, sync, clean, recov, inbox, late, events, world, back, requests, commands, acts, crashes>>

(* The newest turn that is known: it is not the turn of the command. *)
Previous(t) == IF started[t] # 0 THEN started[t] ELSE task[t].last
AcceptSave(w) ==
  LET t == call[w].task IN
  /\ AcceptAt(w, "save")
  /\ \/ /\ Intact(t) /\ requests' = requests + 1
        /\ Becomes(t, [With(t, "merging") EXCEPT !.req = [NoRequest EXCEPT !.prev = Previous(t)]])
        /\ late' = late \ {t} /\ back' = back \ {t}
        /\ AcceptGoes(w, "send") /\ UNCHANGED <<lock, git, faults>>
     \/ ~Intact(t) /\ AcceptEnds(w) /\ UNCHANGED <<task, late, back, requests, faults>>
     \/ Fault /\ AcceptEnds(w) /\ UNCHANGED <<task, late, back, requests>>
  /\ UNCHANGED <<started, sync, clean, recov, inbox, events, world, commands, acts, crashes>>

(* A send that fails may have reached the session all the same. *)
AcceptSend(w) ==
  /\ AcceptAt(w, "send") /\ AcceptEnds(w)
  /\ \/ /\ commands' = commands + 1 /\ (Fault \/ UNCHANGED faults)
        /\ session' = [session EXCEPT ![call[w].task].waiting = IF Exists(call[w].task) THEN @ + 1 ELSE @]
     \/ Fault /\ UNCHANGED <<session, commands>>
  /\ UNCHANGED <<task, started, sync, clean, recov, inbox, late, events, tree, fresh, landed, back, requests, acts, crashes>>

Elapse(t) ==
  /\ Merging(t) /\ t \notin late /\ late' = late \cup {t}
  /\ UNCHANGED <<task, memory, events, world, back, counts>>

-----------------------------------------------------------------------------
(* syncAgentMerge.  One at a time for a task: a second one joins the first. *)

Ask(t, recovering) ==
  sync' = IF sync[t] = NoSync
          THEN [sync EXCEPT ![t] = [step |-> "lock", recovering |-> recovering, awaited |-> recovering]]
          ELSE [sync EXCEPT ![t].awaited = @ \/ recovering]

Poll(t) ==
  /\ Merging(t) /\ sync[t] = NoSync /\ Ask(t, FALSE)
  /\ UNCHANGED <<task, started, lock, git, call, clean, recov, inbox, late, events, world, back, counts>>

(* A mutant: what was interrupted is sent again. *)
RecoverAndResend(t) ==
  /\ t \in recov /\ NotAwaited /\ recov' = recov \ {t}
  /\ IF Merging(t)
     THEN /\ Ask(t, TRUE) /\ commands' = commands + 1
          /\ session' = [session EXCEPT ![t].waiting = @ + 1]
     ELSE UNCHANGED <<sync, commands, session>>
  /\ UNCHANGED <<task, started, lock, git, call, clean, inbox, late, events, tree, fresh, landed, back, requests, acts, faults, crashes>>
(* recover(), task by task: a sync that is under way is joined, and remains *)
(* what it is.                                                              *)
RecoverMerge(t) ==
  /\ t \in recov /\ NotAwaited /\ recov' = recov \ {t}
  /\ IF Merging(t) THEN Ask(t, TRUE) ELSE UNCHANGED sync
  /\ UNCHANGED <<task, started, lock, git, call, clean, inbox, late, events, world, back, counts>>

SyncAt(t, step) == sync[t].step = step
SyncEnds(t) == sync' = [sync EXCEPT ![t] = NoSync] /\ lock' = [lock EXCEPT ![t] = Free]

(* The turn that is on, unless it is known to be an older one. *)
Observed(t) ==
  LET r == task[t].req n == session[t].turn
  IN  [r EXCEPT !.seen = TRUE, !.turn = IF n \in {r.prev, ReviewTurn} THEN @ ELSE n]

Silent(t) == ~task[t].req.seen /\ task[t].req.outcome = "none"
(* A mutant: the gap may last for ever. *)
GapForEver(t) == Silent(t) /\ ~sync[t].recovering
InGap(t) == Silent(t) /\ ~sync[t].recovering /\ t \notin late

SyncInspect(t) ==
  /\ SyncAt(t, "lock") /\ lock[t] = Free
  /\ \/ ~Merging(t) /\ SyncEnds(t) /\ UNCHANGED <<task, faults>>
     \/ Merging(t) /\ Fault /\ SyncEnds(t) /\ UNCHANGED task
     \/ /\ Merging(t) /\ UNCHANGED faults
        /\ \/ ~Idle(t) /\ Becomes(t, [task[t] EXCEPT !.req = Observed(t)]) /\ SyncEnds(t)
           \/ ~Exists(t) /\ Becomes(t, With(t, "needs_check")) /\ SyncEnds(t)
           \/ Exists(t) /\ Idle(t) /\ InGap(t) /\ SyncEnds(t) /\ UNCHANGED task
           \/ /\ Exists(t) /\ Idle(t) /\ ~InGap(t)
              /\ IF task[t].req.outcome \in {"failed", "canceled"}
                 THEN Becomes(t, With(t, "merge_failed")) /\ SyncEnds(t)
                 ELSE /\ sync' = [sync EXCEPT ![t].step = "verify", ![t].recovering = @ \/ Silent(t)]
                      /\ lock' = [lock EXCEPT ![t] = t] /\ UNCHANGED task
  /\ UNCHANGED <<started, git, call, clean, recov, inbox, late, events, world, back, requests, commands, acts, crashes>>

(* What becomes of a task whose merge Git does not confirm. *)
Unproven(t) ==
  IF sync[t].recovering THEN With(t, "needs_check")
  ELSE IF task[t].req.outcome # "none" THEN With(t, "merge_failed") ELSE task[t]

Cleaning(t, d) == [task |-> t, done |-> d,
  step |-> IF ~d.sessions THEN "idle" ELSE IF ~d.worktree THEN "worktree" ELSE IF ~d.branch THEN "branch" ELSE "save"]

SyncVerify(t) ==
  /\ SyncAt(t, "verify") /\ git = Free
  /\ \/ /\ Verified(t) /\ Becomes(t, With(t, "merged"))
        /\ tree' = [tree EXCEPT ![t].proved = TRUE] /\ started' = [started EXCEPT ![t] = 0]
        /\ sync' = [sync EXCEPT ![t].step = "clean"] /\ clean' = [clean EXCEPT ![t] = Cleaning(t, NothingDone)]
        /\ lock' = [lock EXCEPT ![t] = Free]
        /\ UNCHANGED faults
     \/ /\ ~Verified(t) /\ Becomes(t, Unproven(t)) /\ SyncEnds(t)
        /\ UNCHANGED <<tree, started, clean, faults>>
     \/ /\ Fault /\ Becomes(t, With(t, "needs_check")) /\ SyncEnds(t)
        /\ UNCHANGED <<tree, started, clean>>
  /\ UNCHANGED <<git, call, recov, inbox, late, events, session, fresh, landed, back, requests, commands, acts, crashes>>

-----------------------------------------------------------------------------
(* cleanup, by the sync that saw the merge or by a user who tries again *)

CleanAgain(w, t) ==
  /\ Ready /\ call[w] = NoCall /\ clean[w] = NoClean
  /\ task[t].status = "merged" /\ \E s \in DOMAIN task[t].done : ~task[t].done[s]
  /\ acts < MaxActs /\ acts' = acts + 1
  /\ clean' = [clean EXCEPT ![w] = Cleaning(t, task[t].done)]
  /\ UNCHANGED <<task, started, lock, git, call, sync, recov, inbox, late, events, world, back, requests, commands, faults, crashes>>

CleanAt(a, step) == clean[a].step = step
CleanDid(a, step) == clean' = [clean EXCEPT ![a] = Cleaning(@.task, [@.done EXCEPT ![step] = TRUE])]
CleanFails(a) == clean' = [clean EXCEPT ![a].step = "save"]

CleanIdle(a) ==
  /\ CleanAt(a, "idle")
  /\ \/ Idle(clean[a].task) /\ clean' = [clean EXCEPT ![a].step = "archive"] /\ UNCHANGED faults
     \/ ~Idle(clean[a].task) /\ CleanFails(a) /\ UNCHANGED faults
     \/ Fault /\ CleanFails(a)
  /\ UNCHANGED <<task, started, lock, git, call, sync, recov, inbox, late, events, world, back, requests, commands, acts, crashes>>

CleanArchive(a) ==
  /\ CleanAt(a, "archive")
  /\ \/ /\ session' = [session EXCEPT ![clean[a].task] = [@ EXCEPT !.state = "archived", !.waiting = 0]]
        /\ CleanDid(a, "sessions") /\ UNCHANGED faults
     \/ Fault /\ CleanFails(a) /\ UNCHANGED session
  /\ UNCHANGED <<task, started, lock, git, call, sync, recov, inbox, late, events, tree, fresh, landed, back, requests, commands, acts, crashes>>

(* git worktree remove refuses a worktree that is not clean. *)
CleanWorktree(a) ==
  LET t == clean[a].task IN
  /\ CleanAt(a, "worktree") /\ git = Free
  /\ \/ /\ tree[t].worktree => tree[t].clean
        /\ tree' = [tree EXCEPT ![t].worktree = FALSE] /\ CleanDid(a, "worktree") /\ UNCHANGED faults
     \/ tree[t].worktree /\ ~tree[t].clean /\ CleanFails(a) /\ UNCHANGED <<tree, faults>>
     \/ Fault /\ CleanFails(a) /\ UNCHANGED tree
  /\ UNCHANGED <<task, started, lock, git, call, sync, recov, inbox, late, events, session, fresh, landed, back, requests, commands, acts, crashes>>

(* The branch goes only if its tip is the one that was verified. *)
(* A mutant: the branch of a merged task is deleted, whatever its tip. *)
AnyTip(t) == ~tree[t].worktree
Deletable(t) == tree[t].proved /\ ~tree[t].worktree /\ tree[t].inTarget
BranchMayGo(t) == ~tree[t].branch \/ Deletable(t)
CleanBranch(a) ==
  LET t == clean[a].task IN
  /\ CleanAt(a, "branch") /\ git = Free
  /\ \/ /\ BranchMayGo(t) /\ tree' = [tree EXCEPT ![t].branch = FALSE]
        /\ CleanDid(a, "branch") /\ UNCHANGED faults
     \/ ~BranchMayGo(t) /\ CleanFails(a) /\ UNCHANGED <<tree, faults>>
     \/ Fault /\ CleanFails(a) /\ UNCHANGED tree
  /\ UNCHANGED <<task, started, lock, git, call, sync, recov, inbox, late, events, session, fresh, landed, back, requests, commands, acts, crashes>>

CleanSave(a) ==
  LET t == clean[a].task IN
  /\ CleanAt(a, "save") /\ lock[t] = Free
  /\ Becomes(t, [task[t] EXCEPT !.done = clean[a].done])
  /\ clean' = [clean EXCEPT ![a] = NoClean]
  /\ sync' = IF a \in Task THEN [sync EXCEPT ![a] = NoSync] ELSE sync
  /\ UNCHANGED <<started, lock, git, call, recov, inbox, late, events, world, back, counts>>

-----------------------------------------------------------------------------
(* The events of a session *)

Waits(e, merge) == [turn |-> e.turn, outcome |-> e.outcome, merge |-> merge]

(* What is done at once: the newest turn is noted, and the handler goes for *)
(* the lock; it is settled here which part of applyTurn it will run.        *)
Deliver(t) ==
  /\ events[t] # <<>> /\ events' = [events EXCEPT ![t] = Tail(@)]
  /\ LET e == Head(events[t]) IN
     IF e.outcome = "none"
     THEN /\ started' = [started EXCEPT ![t] = e.turn]
          /\ inbox' = IF Asked(t) THEN [inbox EXCEPT ![t] = Append(@, Waits(e, TRUE))] ELSE inbox
     ELSE /\ inbox' = [inbox EXCEPT ![t] = Append(@, Waits(e, Merging(t)))]
          /\ UNCHANGED started
  /\ UNCHANGED <<task, lock, git, call, sync, clean, recov, late, world, back, counts>>

(* The handlers, with the lock of the task. *)
NotOfCommand(t, n) == n \in {task[t].req.prev, ReviewTurn}

HandleStarted(t, e) ==
  IF /\ task[t].review /\ task[t].status \in {"merging", "merge_failed", "needs_check"}
     /\ ~NotOfCommand(t, e.turn)
  THEN /\ Becomes(t, [With(t, "merging") EXCEPT !.req = [@ EXCEPT !.turn = e.turn, !.outcome = "none", !.seen = FALSE]])
       /\ back' = IF Merging(t) THEN back ELSE back \cup {t}
  ELSE UNCHANGED <<task, back>>

Counts(t, n) == ~NotOfCommand(t, n) /\ task[t].req.turn \in {0, n}
EndsMerge(t, n) == Merging(t) /\ Counts(t, n)

(* A turn of a task that waits for its user: is the review still good? *)
ChecksReview(t, e) ==
  /\ CanAccept(t) /\ started[t] \in {0, e.turn} /\ e.turn \notin {task[t].last, ReviewTurn}
AfterReview(t, e, intact) ==
  IF intact THEN [task[t] EXCEPT !.last = e.turn] ELSE [Unreviewed(t) EXCEPT !.last = e.turn]

Handle(t) ==
  /\ lock[t] = Free /\ inbox[t] # <<>> /\ inbox' = [inbox EXCEPT ![t] = Tail(@)]
  /\ LET e == Head(inbox[t]) IN
     \/ e.outcome = "none" /\ HandleStarted(t, e) /\ UNCHANGED <<sync, faults>>
     \/ /\ e.outcome # "none" /\ e.merge /\ Ask(t, FALSE) /\ UNCHANGED <<back, faults>>
        /\ IF EndsMerge(t, e.turn)
           THEN Becomes(t, [task[t] EXCEPT !.req = [@ EXCEPT !.turn = e.turn, !.outcome = e.outcome]])
           ELSE UNCHANGED task
     \/ /\ e.outcome # "none" /\ ~e.merge /\ UNCHANGED <<sync, back>>
        /\ \/ ChecksReview(t, e) /\ Becomes(t, AfterReview(t, e, Intact(t))) /\ UNCHANGED faults
           \/ ChecksReview(t, e) /\ Becomes(t, AfterReview(t, e, FALSE)) /\ Fault
           \/ ~ChecksReview(t, e) /\ UNCHANGED <<task, faults>>
  /\ UNCHANGED <<started, lock, git, call, clean, recov, late, events, world, requests, commands, acts, crashes>>

(* The process dies and starts again: what it knew and had not handled is   *)
(* gone; the records, the sessions and Git stay.                            *)
Crash ==
  /\ crashes < MaxCrashes /\ crashes' = crashes + 1
  /\ started' = [t \in Task |-> 0] /\ lock' = [t \in Task |-> Free] /\ git' = Free
  /\ call' = [w \in Window |-> NoCall] /\ sync' = [t \in Task |-> NoSync]
  /\ clean' = [a \in Window \cup Task |-> NoClean]
  /\ events' = [t \in Task |-> <<>>] /\ inbox' = [t \in Task |-> <<>>]
  /\ recov' = Task
  /\ UNCHANGED <<task, late, world, back, requests, commands, acts, faults>>

-----------------------------------------------------------------------------
Init ==
  /\ task = [t \in Task |-> [status |-> "awaiting_review", review |-> TRUE, last |-> ReviewTurn,
                              req |-> NoRequest, done |-> NothingDone]]
  /\ started = [t \in Task |-> ReviewTurn] /\ lock = [t \in Task |-> Free] /\ git = Free
  /\ call = [w \in Window |-> NoCall] /\ sync = [t \in Task |-> NoSync]
  /\ clean = [a \in Window \cup Task |-> NoClean] /\ recov = {} /\ late = {}
  /\ events = [t \in Task |-> <<>>] /\ inbox = [t \in Task |-> <<>>]
  /\ session = [t \in Task |-> [state |-> "idle", turn |-> ReviewTurn, waiting |-> 0]]
  /\ tree = [t \in Task |-> [clean |-> TRUE, moved |-> FALSE, holds |-> TRUE, inTarget |-> FALSE,
                              proved |-> FALSE, worktree |-> TRUE, branch |-> TRUE]]
  /\ fresh = Task /\ landed = {} /\ back = {}
  /\ requests = 0 /\ commands = 0 /\ acts = 0 /\ faults = 0 /\ crashes = 0

SessionStep(t) == StartTurn(t) \/ AskTurn(t) \/ EndTurn(t) \/ Work(t) \/ CloseSession(t)
AcceptStep(w) == \/ AcceptIdle(w) \/ AcceptLock(w) \/ AcceptLook(w)
                 \/ AcceptAlone(w) \/ AcceptSave(w) \/ AcceptSend(w)
SyncStep(t) == SyncInspect(t) \/ SyncVerify(t)
CleanStep(a) == CleanIdle(a) \/ CleanArchive(a) \/ CleanWorktree(a) \/ CleanBranch(a) \/ CleanSave(a)

Next ==
  \/ \E t \in Task : \/ SessionStep(t) \/ SyncStep(t) \/ Elapse(t) \/ Poll(t) \/ RecoverMerge(t)
                     \/ Deliver(t) \/ Handle(t) \/ Reconcile(t)
  \/ \E w \in Window : AcceptStep(w) \/ \E t \in Task : Accept(w, t) \/ CleanAgain(w, t)
  \/ \E a \in Window \cup Task : CleanStep(a)
  \/ Crash

Spec == Init /\ [][Next]_vars

(* Sessions go on and end their turns, timers fire, answers come, and both  *)
(* locks are queues, so that whoever waits for one gets it.                 *)
Fairness ==
  /\ \A t \in Task : /\ WF_vars(StartTurn(t)) /\ WF_vars(EndTurn(t)) /\ WF_vars(Elapse(t))
                     /\ WF_vars(Poll(t)) /\ WF_vars(RecoverMerge(t)) /\ WF_vars(Deliver(t))
                     /\ SF_vars(Handle(t)) /\ SF_vars(SyncStep(t))
  /\ \A w \in Window : SF_vars(AcceptStep(w))
  /\ \A a \in Window \cup Task : SF_vars(CleanStep(a))

FairSpec == Spec /\ Fairness

-----------------------------------------------------------------------------
(* Properties *)

Actor == Window \cup Task

Outcome == Outcomes \cup {"none"}
Record == [status : {"awaiting_review", "merging", "merged", "merge_failed", "needs_check"},
           review : BOOLEAN, last : Turn, req : Request, done : Steps]
SessionRow == [state : Busy \cup {"idle", "archived"}, turn : Turn, waiting : 0 .. MaxRequests]
TreeRow == [clean : BOOLEAN, moved : BOOLEAN, holds : BOOLEAN, inTarget : BOOLEAN,
            proved : BOOLEAN, worktree : BOOLEAN, branch : BOOLEAN]
CallRow == [task : Task \cup {Free}, step : {"off", "idle", "lock", "git", "alone", "save", "send"}]
SyncRow == [step : {"off", "lock", "verify", "clean"}, recovering : BOOLEAN, awaited : BOOLEAN]
CleanRow == [task : Task \cup {Free}, done : Steps,
             step : {"off", "idle", "archive", "worktree", "branch", "save"}]

(* The variables stay in their types. *)
PluginOK ==
  /\ task \in [Task -> Record] /\ started \in [Task -> Turn]
  /\ lock \in [Task -> Actor \cup {Free}] /\ git \in Actor \cup {Free}
  /\ call \in [Window -> CallRow] /\ sync \in [Task -> SyncRow] /\ clean \in [Actor -> CleanRow]
  /\ recov \subseteq Task /\ late \subseteq Task /\ back \subseteq Task
EventsOK ==
  /\ events \in [Task -> Seq([turn : Turn, outcome : Outcome])]
  /\ inbox \in [Task -> Seq([turn : Turn, outcome : Outcome, merge : BOOLEAN])]
WorldOK ==
  /\ session \in [Task -> SessionRow] /\ tree \in [Task -> TreeRow]
  /\ fresh \subseteq Task /\ landed \subseteq Task
CountsOK ==
  /\ requests \in 0 .. MaxRequests /\ commands \in 0 .. MaxRequests
  /\ acts \in 0 .. MaxActs /\ faults \in 0 .. MaxFaults /\ crashes \in 0 .. MaxCrashes
TypeOK == PluginOK /\ EventsOK /\ WorldOK /\ CountsOK

(* No command is ever sent twice: not after an answer that was lost, not    *)
(* after a restart.                                                         *)
CommandOnce == commands <= requests

(* A task is merged only when the accepted result is in the target, whatever *)
(* the session says and whatever it did to its branch.                      *)
MergedIsProven == \A t \in Task : task[t].status = "merged" => t \in landed

(* Two tasks of one repository are merging at a time only when a later turn *)
(* of its session has brought one of them back.                             *)
OneMerge == \A t, u \in Task : Merging(t) /\ Merging(u) /\ t # u => {t, u} \cap back # {}

(* The worktree goes after the session that may use it, the branch after    *)
(* the worktree, and no commit of the branch is lost.                       *)
CleanedInOrder ==
  \A t \in Task : /\ ~tree[t].worktree => session[t].state = "archived"
                  /\ ~tree[t].branch => ~tree[t].worktree
NothingLost == \A t \in Task : ~tree[t].branch => t \in landed /\ tree[t].inTarget

(* A merge that nobody disturbs comes to an end: the queue of the repository *)
(* waits for it, and a merging task can neither be canceled nor deleted.    *)
Undisturbed == acts = 0 /\ crashes = 0
MergeEndsUndisturbed == \A t \in Task : Merging(t) ~> ~Merging(t) \/ ~Undisturbed

(* So does a merge beside a restart: the test at tests/engine.test.ts:802   *)
(* "keeps an interrupted idle merge for inspection when Git cannot prove    *)
(* success".                                                                *)
MergeEnds == \A t \in Task : Merging(t) ~> ~Merging(t)
=============================================================================
