--------------------------- MODULE BridgeDelivery ---------------------------
(* The outbox of the Dot bridge over its rounds: the events the handlers of *)
(* src/dot-bridge/server/engine.ts add to state.json in the mutation that   *)
(* changes a task, deliverTick that posts them to Dot, and the reminders of *)
(* a round nobody claims.                                                   *)
(*                                                                          *)
(* deliverTick reads a snapshot, posts one event after another, and commits *)
(* what became of all of them together: until then its decisions live in    *)
(* memory, beside every other handler, and die with the daemon.             *)
(*                                                                          *)
(* Events that are settled leave `events`; the code keeps them, and no      *)
(* handler reads them again.  Time is not counted: a delay that is over is  *)
(* a step that may be taken.                                                *)
EXTENDS BridgeRounds

CONSTANTS
  MaxAttempts,   \* POSTs of an event before it is given up (8 in the code)
  MaxReminders,  \* automatic reminders of an unclaimed round (3 in the code)
  MaxOutbox,     \* bound: events in the outbox when another one is added
  MaxRefused     \* bound: events refused for their address at one time

ASSUME DeliveryAssumption ==
  {MaxAttempts, MaxReminders, MaxOutbox} \subseteq Nat \ {0} /\ MaxRefused \in Nat

VARIABLES
  events,   \* the outbox in state.json, without the events that are settled
  told,     \* history: what notices that were delivered or given up have said
  tick      \* deliverTick: where it is and what it has decided

outbox == <<events, told, tick>>
vars == <<roundVars, outbox>>

-----------------------------------------------------------------------------
(* Events *)

AwaitingClaim(task) ==
  LET round == Current(task)
  IN  /\ round.status = "dispatched"
      /\ ~round.claimed /\ ~round.stop /\ ~task.canceled

NeedsWake(task) ==
  LET round == Current(task)
  IN  /\ ~round.stop /\ ~task.canceled
      /\ \/ round.status \in Occupying
         \/ round.status = "completed" /\ round.result.given /\ ~round.result.covers
      /\ round.read < task.messages

(* A notice to stop is about the round, whatever has been written since. *)
Event(t, task, kind, recovery) ==
  [task |-> t, round |-> Newest(task), kind |-> kind,
   seq |-> IF kind = "wake" THEN task.messages ELSE 0,
   recovery |-> recovery, status |-> "pending", attempts |-> 0]

(* emitTaskChanged: a stop is always announced, a wake-up when it is needed *)
News(t, task) == Event(t, task, "wake", FALSE)
Wake(t, task) == IF NeedsWake(task) THEN <<News(t, task)>> ELSE <<>>
Stop(t, task) == <<Event(t, task, "cancel", FALSE)>>
Remind(t, task) == Event(t, task, "wake", TRUE)

IsWakeFor(e, t, task) ==
  e.task = t /\ e.round = Newest(task) /\ e.kind = "wake" /\ e.seq >= task.messages
HasPendingWake(t, task) ==
  \E i \in DOMAIN events : events[i].status = "pending" /\ IsWakeFor(events[i], t, task)
WakeOnce(t, task) == IF HasPendingWake(t, task) THEN <<>> ELSE Wake(t, task)

(* Local closure lets the next round begin before the stop is acknowledged: *)
(* the closed round must still be told to stop.                             *)
NeededUntilClaimed(e) ==
  IF e.kind = "cancel" THEN tasks[e.task].rounds[e.round].stop
  ELSE e.round = Newest(tasks[e.task]) /\ AwaitingClaim(tasks[e.task])
NeededForCurrent(e) ==
  /\ e.round = Newest(tasks[e.task])
  /\ e.kind = "cancel" \/ NeedsWake(tasks[e.task])
NotificationNeeded(e) ==
  LET task == tasks[e.task]
      round == task.rounds[e.round]
  IN  IF e.kind = "cancel" THEN /\ round.stop /\ ~round.reported
                                /\ e.round = Newest(task) \/ round.claimed
      ELSE IF e.recovery THEN e.round = Newest(task) /\ AwaitingClaim(task)
      ELSE e.round = Newest(task) /\ NeedsWake(task)

(* The values of a function over numbers, in the order of its arguments: an *)
(* event for each of some tasks, or what is left of the outbox              *)
InOrder(f) ==
  LET S == DOMAIN f
      Nth(k) == CHOOSE x \in S : Cardinality({y \in S : y < x}) = k - 1
  IN  [k \in 1 .. Cardinality(S) |-> f[Nth(k)]]

Fits(new) == Len(events) + Len(new) <= MaxOutbox
Emit(new) == Fits(new) /\ events' = events \o new /\ UNCHANGED <<told, tick>>
Quiet == UNCHANGED outbox

-----------------------------------------------------------------------------
(* The handlers of BridgeRounds with what they announce *)

Tells(t) == /\ \/ AddMessage(t) \/ CreateRound(t) \/ Retry(t)
               \/ \E steer \in BOOLEAN : Prompt(t, steer)
            /\ Emit(Wake(t, tasks'[t]))

Stops(t) == /\ Cancel(t) \/ CloseLocal(t)
            /\ Emit(Stop(t, tasks'[t]))

Answers(t) ==
  \/ Claim(t) /\ Quiet
  \/ \E r \in DOMAIN tasks[t].rounds, read \in 0 .. tasks[t].messages :
       \/ \E kind \in Reports : ReportProgress(t, r, kind, read) /\ Quiet
       \/ /\ SubmitResult(t, r, read)
          /\ IF Accepts(tasks[t], r) /\ read < tasks[t].messages
             THEN Emit(WakeOnce(t, tasks'[t])) ELSE Quiet

(* Subscribing again tells every task that still needs it. *)
Subscribes ==
  LET again == {t \in Tasks : Exists(t) /\ NeedsWake(tasks[t]) /\ ~HasPendingWake(t, tasks[t])}
      new == InOrder([t \in again |-> News(t, tasks[t])])
  IN  /\ Subscribe /\ Emit(new)
      /\ route => again # {}

(* An event that waits for a round only now dispatched comes from an older  *)
(* build: it is made obsolete, and the dispatch is announced afresh.        *)
Supersede(S) ==
  [i \in DOMAIN events |->
     IF /\ events[i].task \in S /\ events[i].round = Newest(tasks[events[i].task])
        /\ events[i].status = "pending"
     THEN [events[i] EXCEPT !.status = "obsolete"] ELSE events[i]]

(* The pause of dispatchTick is left to BridgeRounds. *)
Dispatches ==
  LET S == Sent(Candidates)
      new == InOrder([t \in {u \in S : NeedsWake(tasks'[u])} |-> News(t, tasks'[t])])
  IN  /\ S # {} /\ SendOut(S) /\ Fits(new)
      /\ events' = Supersede(S) \o new
      /\ UNCHANGED <<route, cap, plan, told, tick>>

(* The mark that the wait has timed out is only shown to the user. *)
Rewake(t) ==
  /\ Exists(t) /\ AwaitingClaim(tasks[t]) /\ route /\ Current(tasks[t]).wait.known
  /\ ~HasPendingWake(t, tasks[t])
  /\ Save(t, tasks[t]) /\ Emit(<<Remind(t, tasks[t])>>)

-----------------------------------------------------------------------------
(* deliverTick *)

Idle == [on |-> FALSE, next |-> 0, upto |-> 0, live |-> FALSE, decided |-> <<>>]

(* The tasks recoverUnclaimed reminds of once their delays have passed *)
OverdueAgain(t) ==
  /\ Exists(t) /\ AwaitingClaim(tasks[t]) /\ Current(tasks[t]).wait.known
  /\ Current(tasks[t]).wait.retries < MaxReminders /\ route
Overdue(t) ==
  /\ Exists(t) /\ AwaitingClaim(tasks[t]) /\ Current(tasks[t]).wait.known
  /\ Current(tasks[t]).wait.retries < MaxReminders
  /\ ~HasPendingWake(t, tasks[t]) /\ route

Reminded(t) == [tasks[t] EXCEPT !.rounds[Newest(tasks[t])].wait.retries = @ + 1]

(* Reminders first, then the snapshot of the outbox and of the route *)
TickStart(due) ==
  LET new == InOrder([t \in due |-> Remind(t, tasks[t])])
  IN
  /\ tick = Idle /\ Fits(new)
  /\ tasks' = [t \in Tasks |-> IF t \in due THEN Recompute(Reminded(t)) ELSE tasks[t]]
  /\ events' = events \o new
  /\ events' # <<>>
  /\ tick' = [on |-> TRUE, next |-> 1, upto |-> Len(events'), live |-> route,
              decided |-> [i \in DOMAIN events' |-> "none"]]
  /\ UNCHANGED <<route, cap, plan, told>>

(* An event whose callback address was refused was never sent: it is looked *)
(* at again.                                                                *)
Considered(e) == e.status = "pending" \/ e.status = "refused"

(* Settled, waiting for its next attempt, or without a route: passed over *)
Passed(e) == \/ ~Considered(e)
             \/ e.attempts > 0
             \/ NotificationNeeded(e) /\ ~tick.live
PassedTo(i) == \A j \in tick.next .. i - 1 : Passed(events[j])

(* An answer that is lost counts as a failure. *)
Replies(e) == {"delivered", "gone"} \cup (IF e.attempts + 1 < MaxAttempts THEN {"retry"} ELSE {})
Refusal(e) == IF e.status = "refused" THEN "none" ELSE "refused"
MayRefuse(i) ==
  Cardinality({j \in DOMAIN tick.decided \ {i} :
                 tick.decided[j] = "refused" \/ events[j].status = "refused"}) < MaxRefused

(* One event: its address is looked up (which may refuse it, and during     *)
(* which the need for it may end), and it is posted if it is still needed.  *)
TickPost ==
  /\ tick.on
  /\ \E i \in tick.next .. tick.upto :
       LET e == events[i]
           decide(d) == tick' = [tick EXCEPT !.next = i + 1, !.decided[i] = d]
       IN  /\ PassedTo(i) /\ Considered(e)
           /\ \/ tick.live /\ MayRefuse(i) /\ decide(Refusal(e))
              \/ ~NotificationNeeded(e) /\ decide("obsolete")
              \/ NotificationNeeded(e) /\ tick.live /\ \E d \in Replies(e) : decide(d)
  /\ UNCHANGED <<roundVars, events, told>>

(* What a decision makes of an event.  A retry schedules the next attempt   *)
(* but leaves the status, and a refused event with attempts is never looked *)
(* at again.                                                                *)
Outcome(e, d) ==
  IF e.status = "obsolete" \/ d = "none" THEN e
  ELSE IF d = "retry" THEN [e EXCEPT !.attempts = @ + 1,
                                     !.status = IF @ = "refused" THEN "gone" ELSE @]
  ELSE [e EXCEPT !.status = d]

Leaves(e) == e.status \in {"delivered", "gone", "obsolete"}
Said(e) == e.status \in {"delivered", "gone"}

Committed(i) == IF i <= tick.upto THEN Outcome(events[i], tick.decided[i]) ELSE events[i]

StartsWait(t) ==
  /\ Exists(t) /\ AwaitingClaim(tasks[t]) /\ ~Current(tasks[t]).wait.known
  /\ \E i \in DOMAIN events : LET e == Committed(i)
                              IN  e.status = "delivered" /\ e.task = t /\ e.round = Newest(tasks[t])

(* What the history still has to remember *)
Knows(t) == told[t].wake = <<Newest(tasks[t]), tasks[t].messages>>

TickCommit ==
  /\ tick.on /\ PassedTo(tick.upto + 1)
  /\ tick' = Idle
  /\ tasks' = [t \in Tasks |->
                IF StartsWait(t) THEN [tasks[t] EXCEPT !.rounds[Newest(tasks[t])].wait.known = TRUE]
                ELSE tasks[t]]
  /\ events' = InOrder([i \in {j \in DOMAIN events : ~Leaves(Committed(j))} |-> Committed(i)])
  /\ told' = [t \in Tasks |->
       LET said == {i \in DOMAIN events : Said(Committed(i)) /\ events[i].task = t}
           stops == {events[i].round : i \in {j \in said : events[j].kind = "cancel"}}
       IN  [wake |-> IF Knows(t) \/ \E i \in said : IsWakeFor(events[i], t, tasks[t])
                     THEN <<Newest(tasks[t]), tasks[t].messages>> ELSE <<0, 0>>,
            stops |-> {r \in told[t].stops \cup stops : MustStop(tasks[t].rounds[r])}]]
  /\ UNCHANGED <<route, cap, plan>>

(* The daemon is restarted: what was decided or posted but not committed is *)
(* forgotten, and posted again.                                             *)
Restart == tick # Idle /\ tick' = Idle /\ UNCHANGED <<roundVars, events, told>>

-----------------------------------------------------------------------------
(* A store written by an older build may hold an event for a round that is  *)
(* still queued.                                                            *)
DeliveryInit ==
  LET old == [OpenRound(NoTask) EXCEPT !.messages = 1]
  IN  /\ \/ tasks = [t \in Tasks |-> NoTask] /\ events = <<>>
         \/ tasks = [t \in Tasks |-> IF t = 1 THEN old ELSE NoTask] /\ events = <<Event(1, old, "wake", FALSE)>>
      /\ told = [t \in Tasks |-> [wake |-> <<0, 0>>, stops |-> {}]]
      /\ route \in BOOLEAN /\ cap \in 1 .. MaxCap
      /\ plan = {} /\ tick = Idle

TickStep == (\E due \in SUBSET {t \in Tasks : Overdue(t)} : TickStart(due)) \/ TickPost \/ TickCommit

DeliveryNext ==
  \/ \E t \in Tasks : Tells(t) \/ Stops(t) \/ Answers(t) \/ Rewake(t) \/ (CreateTask(t) /\ Quiet)
  \/ (\E c \in 1 .. MaxCap : SetCap(c)) /\ Quiet
  \/ Subscribes \/ (Unsubscribe /\ Quiet)
  \/ Dispatches
  \/ TickStep \/ Restart

DeliverySpec == DeliveryInit /\ [][DeliveryNext]_vars

-----------------------------------------------------------------------------
(* Properties *)

EventType == [task : Tasks, round : 1 .. MaxRounds, kind : {"wake", "cancel"},
              seq : 0 .. MaxMessages, recovery : BOOLEAN,
              status : {"pending", "refused", "obsolete"}, attempts : 0 .. MaxAttempts]

(* The outbox and the tick keep their types; the tick stays within what it  *)
(* has read.                                                                *)
DeliveryTypeOK ==
  /\ TypeOK
  /\ \A i \in DOMAIN events : events[i] \in EventType
  /\ tick.on \in BOOLEAN /\ tick.upto <= Len(events) /\ tick.next <= tick.upto + 1

(* While a round is in work and Dot has to read something, a notice that    *)
(* says so is in the outbox, or was delivered or given up: none is dropped  *)
(* as obsolete and none is swallowed by an older one.                       *)
Announced(t) ==
  \/ \E i \in DOMAIN events : events[i].status # "obsolete" /\ IsWakeFor(events[i], t, tasks[t])
  \/ Knows(t)
WakeNotLost ==
  \A t \in Tasks : Holds(tasks[t]) /\ NeedsWake(tasks[t]) => Announced(t)

(* engine.ts:1375 says the same of a completed round: a result that does    *)
(* not cover the latest user message "must wake the dot to read the rest".  *)
UncoveredWakes ==
  \A t \in Tasks : Exists(t) /\ NeedsWake(tasks[t]) => Announced(t)

(* Dot is told to stop every claimed round whose stop it has not reported,  *)
(* also after a local close let the next round begin.                       *)
StopNotLost ==
  \A t \in Tasks : \A r \in DOMAIN tasks[t].rounds :
    MustStop(tasks[t].rounds[r]) =>
          \/ r \in told[t].stops
          \/ \E i \in DOMAIN events : events[i].task = t /\ events[i].round = r /\ events[i].kind = "cancel"

(* Notices do not pile up: of what the handlers, the scheduler, the user    *)
(* and a fresh subscription announce, two notices that say the same of one  *)
(* round wait together only when the address of one was refused before: a   *)
(* refused notice is no longer pending to hasPendingWake, though deliverTick *)
(* looks at it again (engine.ts:1667).                                      *)
SameNotice(a, b) ==
  a.kind = "wake" /\ <<a.task, a.round, a.kind, a.seq>> = <<b.task, b.round, b.kind, b.seq>>
OneNotice ==
  \A i, j \in DOMAIN events :
    /\ i # j /\ SameNotice(events[i], events[j])
    /\ Considered(events[i]) /\ Considered(events[j])
    => "refused" \in {events[i].status, events[j].status}

(* README.md:154 says it without the exception: "pending notifications are  *)
(* not duplicated".                                                         *)
NotDuplicated ==
  \A i, j \in DOMAIN events :
    /\ SameNotice(events[i], events[j])
    /\ Considered(events[i]) /\ Considered(events[j])
    => i = j
=============================================================================
