# Verification of paseo-plugins

TLA+ specifications of the concurrent cores of this repository, model-checked
with TLC and, where it pays, proved with TLAPS. The reference is the code; every
definition that stands for code is tied to its lines by `PROJECT.json` (`map`).
Paths below are relative to `src/`.

The repository is a collection of Paseo plugins. Three of them carry a
concurrent core: **todo** (a queue of coding tasks over git worktrees and agent
sessions), **dot-bridge** (a queue of rounds served to a remote worker over
callbacks and MCP) and **shared-tools** (sign-ins and a gateway for MCP servers
that several machines share).

## Inventory

| Component | State it keeps | Operations | Status |
| --- | --- | --- | --- |
| todo: task store (`todo/server/store.ts`) | `state.json`, the `state.lock` directory, tasks in memory, a queue of transactions | open, insert, replace, remove, dispose | modelled, proved: `TaskStore`, `DurableBoard` |
| todo: task queue (`todo/server/engine.ts`) | task records, a lock and a job chain as promise tails, remembered events, pending cancels | start, cancel, retry, continue, delete, prepare and send, turn and permission events, capture, reconcile, recover | partly: `TaskQueue`, `TaskStatus`, `RepoSlot` |
| todo: agent merge (`todo/server/engine.ts`) | merge request, pending syncs, cleanup steps | accept, send the command, poll, verify, clean up | partly: `AgentMerge` |
| todo: collaboration | run, phase, control, acceptance | launch, sync, decide, solidify, cancel, recover | not modelled yet |
| todo: git, daemon port | none of their own (git, the daemon) | worktree, capture, snapshot; create, inspect, cancel, find | as answers in `TaskQueue` and `AgentMerge` |
| todo: page | what it shows | RPC calls | its calls are the user actions |
| dot-bridge: rounds (`dot-bridge/shared/machine.ts`, `server/engine.ts`) | tasks, rounds, messages, claims, results | create, dispatch, claim, progress, result, stop, close, retry, next round | partly: `BridgeRounds`, `RoundLedger` |
| dot-bridge: event delivery (`server/engine.ts`) | outbox, subscriptions, reminders | emit, deliver, retry, give up, remind | partly: `BridgeDelivery` |
| dot-bridge: store (`server/store.ts`) | `state.json`, a lock that is reclaimed from a dead owner through a ticket | open, reclaim, mutate, dispose | partly: `BridgeLock` |
| dot-bridge: files, commands, permissions, remote center, adapters, page | journals, processes, one-use permissions | apply, run, stop, ask, answer | not modelled |
| shared-tools: sign-in (`server/oauth.ts`) | grants, flows, a refresh per server | start, complete, cancel, sign out, rename, refresh | partly: `SignIns` |
| shared-tools: gateway (`server/gateway.ts`) | devices, sessions, active requests | authorize, forward, revoke, narrow, delete, reconcile | partly: `SharedGateway` |
| shared-tools: service, skills | files of the providers | synchronise | not modelled: formatting and file copies |
| magpie, usage-glance, provider-update, the small adapters, scripts | little or none | requests, parsing, presentation | not modelled: no concurrent state |
| director, file-upload, response-speed, agy-quota | | | archived sources, not modelled |

How the todo parts interact: the page calls the engine; the engine changes a
task by writing a whole new record through the store and awaiting the save; it
calls git and the daemon and awaits their answers; the daemon sends events of
its sessions (turn started, turn ended, permission asked, permission resolved)
on a channel of their own. Every `await` is a point where everything else can
run.

How the dot-bridge parts interact: user and Dot call handlers of one engine;
each handler is one serial mutation of `state.json` that also adds to the
outbox; two timers, dispatch and delivery, look at a snapshot, work without the
lock of the file and commit later. The store hands the file to one process.

How the shared-tools parts interact: the service queues saves of its
configuration; sign-ins and the gateway run beside that queue and take part in
it at times. A new agent asks for the headers of a shared server, which may
refresh a token; a request of another machine passes the gateway's checks, which
read devices in memory and the configuration from its file.

What is hard, and what makes each part correct:

- *Store.* Two daemons on one directory; a crash before or after the rename; a
  write that fails with others waiting behind it; a shutdown over calls in
  flight. Correct when there is one owner at a time, nothing is written without
  the lock, what is shown can be read back, one save changes one task, and an
  unreadable file is left alone.
- *Queue.* Cancels, retries and deletions at every await; answers that are old
  when they are used; a session that exists although its creation failed; events
  of an earlier session; a crash at every point. Correct when a repository runs
  one task (and one session) at a time, no session runs on without its task, a
  review is of the round on record, no operation is sent twice, a cancel is
  final, a deleted task leaves nothing, and a queued task is begun.
- *Merge.* A command that may have arrived although sending it failed, an idle
  gap that looks like a failed merge, two accepted tasks of one repository, a
  user who goes on chatting. Correct when a command is sent once, one task of a
  repository merges, merged means proven by git, cleanup loses nothing.
- *Collaboration.* Several sessions behind one task, stopped one by one; host
  decisions that move a task back into execution.
- *Rounds.* Late reports of an old round, a dispatch decided on a snapshot.
  Correct when an old round stays as it is, the limit holds, coverage is right.
- *Delivery.* A notification that is on its way while the round is claimed,
  stopped or replaced; answers that are lost. Correct when no wake-up and no
  stop is lost and reminders do not pile up.
- *Reclaimed locks.* Two processes reclaim, one dies or pauses between two calls
  of the file system. Correct when a live lock is never taken away and a
  leftover never shuts the store.
- *Sign-in.* Sign-out, rename and cancel beside an exchange or a refresh; saves
  that overtake each other. Correct when what is signed out stays out, what was
  reported is kept, and the token that is kept is the one the server honours.
- *Gateway.* A permission taken away while a request waits at an await; several
  reconciliations at once. Correct when what was taken is cut, and stays cut.

`PROJECT.json` lists each hazard at its line with the properties that cover it.

## Modules

todo:

- `TaskStatus` — the pure functions of `todo/shared/machine.ts`: statuses, which
  operation is allowed in which, what a turn or a recovery makes of one.
- `DurableBoard` — abstract: the board is one durable map; a call changes one
  task, in one step, at most once, and is told only when the change is there.
- `TaskStore` — the store and the engine's spans. An instance is opened
  (`Acquire`, `Load`, or `AcquireFails`), admits transactions of calls
  (`Enter`, `AcceptCreate`, `Transact`, `GiveUp`), runs them one by one
  (`StartWrite`, `FailWrite`, `Rename`, `Publish`), and is shut down (`Dispose`
  waits for the spans, `Close` and `Release` for the queue's tail as it is then,
  `RemoveLock` removes the directory). `Crash` may come anywhere;
  `OperatorUnlock` is the operator who deletes a stale lock as README.md allows.
  A saved task is abstracted to the call that saved it.
- `RepoSlot` — abstract: each repository's slot is waited for, held alone, left.
- `TaskQueue` — the engine for single-agent tasks. `task` is the memory, `saves`
  the saves that are asked for and not yet visible (one action per handler and
  save: `Land...`). `lock` and `inbox` are the promise chains of `lockTask`;
  `jobs` those of `exclusive`; `pc` is where `execute`/`prepareAndSend` of a task
  stands; `settle` where its cancel is being settled, and `Watch` the poll that
  comes back to a task left canceling; `recovery` where `recover()` is; `known`
  and `turns` are what the engine remembers of events; `session`, `worktree` and
  `events` are the daemon and the disk. Operations are numbered; a session has the
  number of the operation that created it.
- `AgentMerge` — an accepted task: `Accept` and `AcceptStep` (the call of a
  window), `SyncStep` (`startAgentMerge` and `syncAgentMerge`, await by await),
  `CleanStep`, `Poll`, `RecoverMerge`, `Reconcile`, the turn events (`Deliver`,
  `Handle`) and the session itself (`SessionStep`), which alone touches the branch
  and the target. Git is abstracted to the three relations the code asks for: is
  the accepted commit in the branch, is it in the target, is the worktree clean.

dot-bridge:

- `RoundLedger` — abstract: the rounds of a task follow one another; each is
  handed out once, within the limit, and never resumed when it is over.
- `BridgeRounds` — one action per handler of user (`CreateTask`, messages,
  `NextRound`, retry, cancel, close) and Dot (claim, progress, result), the limit
  and the subscription, and the dispatch in two steps: `DispatchLook` takes the
  snapshot, `DispatchCommit` commits a plan that may be old by then.
- `BridgeDelivery` — extends `BridgeRounds` with the outbox: what every handler
  announces, `deliverTick` (`TickStep`: take, post each event, commit), reminders
  and `Restart`. `told` is history: what notices that ended have said.
- `BridgeLock` — one action per file-system call of acquiring, reclaiming, using
  and releasing the lock, with `Load` (a file that cannot be read leaves the store
  open and read-only) and `Migrate` (a file of an older version is written back);
  `Elapse` lets a directory or ticket get old, `Crash` kills a process anywhere.
  `file` counts the writes of the state. `alone` is history, for `AloneGetsIn`.

shared-tools:

- `SignIns` — `Start`, `Bound` (the listener), `Complete`/`Exchange` by callback
  or paste, `Denied`, `Cancel`, `SignOut`, `Rename`, `Refresh`/`RefreshStep`, the
  queue of saves (`SaveStep`, `SaveFails`) and `Crash`. The authorization server
  is `live`: it issues a version per exchange or refresh and honours the last
  one. `told`, `over`, `signedOut` and `mishap` are history.
- `SharedGateway` — `Arrive` and `RequestStep` (a request from check to check; a
  check of the configuration reads the file twice, for the switch and for the
  server), `Leave`, `Sweep` (idle sessions), `Revoke`, `UpdateProviders`, `Delete`,
  `SaveConfig` and their saves in the gateway's queue (`wanted` is the switch in
  memory, `kept` in gateway.json, `missed` says that a change of the settings was
  not written), `Listen`, `Configure` (an editor changes the configuration, or the
  page, which has it reconciled at once), `Walk` (a reconciliation), `Crash`.

The modules `MC...` give the finite instances, the modules `...Proofs` the
theorems. Operators marked `\* mutation` are plausible mistakes; `PROJECT.json`
names, for each property, the definition such an operator replaces to break it.

## Runs

| Run | Instance | Shows |
| --- | --- | --- |
| `store_safety` | two instances, two tasks, three calls, one of them `createTask` | one owner, writes under the lock, memory is the file or one rename behind it, a save changes one task, an unreadable file is untouched, `TaskStore` implements `DurableBoard`, a shutdown that began ends |
| `queue_slot` | two tasks, one repository, cancel and retry | one task at work, no session without its task, `TaskQueue` implements `RepoSlot`, a queued task is begun, also behind a cancel that left its session at work |
| `queue_delete` | two tasks; retry, continue, delete, edit; one failing call | a failed or lost creation never leaves a second session at work; a deleted task leaves nothing |
| `queue_round` | one task, every user action but delete, two rounds, two turns, one failing call, one crash | a review is of the current round and of a turn that ended; nothing is sent twice |
| `bridge_rounds` | two tasks or two rounds of one, two messages, a limit of one or two | an old round stays as it is, `BridgeRounds` implements `RoundLedger`, a queued task is sent when there is room |
| `bridge_delivery` | one task, two rounds, two messages, reports of progress, one attempt per event, one refused address, restarts | no wake-up of a round in work and no stop is lost; two notices that say the same wait together only when an address was refused |
| `bridge_lock` | three processes, two of which die anywhere, one file that cannot be read or written, a state file of this or an older version, three writes of it | one owner, a writer never undoes another's change, a live lock is kept, a leftover never shuts the store |
| `bridge_takeover` | three processes, the lock of a dead owner, one of the processes dies with a ticket | the finding below |
| `merge_pair` | two tasks, two windows, two requests, one crash | a command is sent once, one of the tasks merges at a time |
| `merge_proof` | one task, a user who chats, closes the session or repeats the cleanup, turns that edit, rewrite or land, one failing call | merged is proven, cleanup loses nothing, an undisturbed merge ends |
| `sign_ins` | two names, two sign-ins, three versions of a token, five calls, two failures | signed out stays out, done is kept, kept is current, a pending sign-in is heard, refreshes end, the queue moves |
| `gateway` | one device, two providers, two requests, a server that moves and is then taken away, three calls or failures | what was taken is cut, a finished reconciliation leaves what it allowed, a gateway switched off by a call whose write worked listens no more and serves nobody, what is denied ends while it listens |

Bounds. Two instances of the store are a holder and a successor (or rival); two
tasks make every conflict over a slot, a limit or a merge; two rounds are enough
for an old session, event or report to meet a new round, two turns for a chat to
follow the turn that was captured; two sign-ins are one that replaces the other;
two requests are one upstream and one at a check. Crashes and faults are bounded
by one or two each, since each recovery path starts from the saved state alone.
`MaxOps`, `MaxTurns`, `MaxEvents`, `MaxRounds`, `MaxMessages`, `MaxRequests`,
`MaxCalls` and the other names with `Max` bound what users and the environment
do; each is explained where it is declared, and its value is in the `.cfg`. Some
are limits of the code (`MaxTries`, `MaxReclaims`, `MaxAttempts`,
`MaxReminders`, `MaxActive`), mostly with a smaller value. In `BridgeLock` the
attempts have the values of the code: `AloneGetsIn` is about running out of them.
`MaxCopies` is the number of jobs of one task that wait on the chain: each tick
adds one, and with two a copy finds its task begun, or canceled and queued again.

A run leaves out an input where the property is known to fail with it (see
*Deviations*): `queue_slot` has no crash and no failing call, `queue_delete` no
cancel. `bridge_delivery` has no report but progress, since stopped and failed
rounds make its state space too large, and one attempt per event, so an event
whose answer is lost is given up and not retried. All runs stop when the bounds
are reached or users have no more to ask, so deadlock is not checked; the
liveness properties say what has to go on.

Symmetry. `bridge_lock`, `bridge_takeover` and `merge_pair` permute processes,
tasks or windows, which the specifications treat alike, and check safety only.
`TaskQueue`, `BridgeRounds` and `SignIns` order their tasks or flows, so they
have none, and no run with a liveness property uses symmetry.

Fairness. `TaskStore`: file operations and the handlers' awaits end, and `dispose`
goes on. `TaskQueue`: the runtime goes on with every handler, the timer of the
poll for canceling tasks fires (every two seconds, `engine.ts:1440`), the daemon
answers its requests, turns end and permission requests are answered; that turns
end is what the queue itself relies on, since a repository waits for its running
task by design. Without the poll `QueuedStarts` is false: a cancel whose stop was
answered while the turn was still on is looked at again by nobody else.
`BridgeRounds`: the timer of the dispatch (weak for the look, strong for the
commit, because an unsubscription in between calls it off). `AgentMerge`: turns
begin and end, timers fire, events arrive; what needs a lock or the queue of git
calls is strongly fair, because these are granted in order. `SignIns`: exchanges,
refreshes and saves get on (requests have time limits). `SharedGateway`: a
reconciliation gets on; the end of a stream is not fair, since a client may hold
one for ever. Nothing is assumed of users, faults or crashes.

## What is proved

Every theorem holds for any value of the constants, under the named assumptions
of the module (`...Assumption`), which say only that bounds are numbers and that
`None`-like values are not data. Reading the models for the proofs also put them
right: case distinctions with overlapping guards (which TLA+ leaves undefined) in
`TaskQueue` and `BridgeDelivery` are now exclusive.

`TaskStoreProofs`:

- `StoreTypeCorrect`: `TypeOK` is inductive.
- `StoreOneOwner`: from `LockInv`: whoever has created the lock directory, or is
  about to remove it, is alone, and the directory exists. `OneOwner` alone is not
  inductive, since an instance between giving up ownership and removing the
  directory is not an owner and still removes it.
- `StoreWritesUnderLock`, for the behaviours that are `InTime` (no `createTask`
  queues its save behind those a shutdown waits for; any number of them otherwise):
  from `SpanInv`: a call in a transaction queue is inside its span or is a
  `createTask`, a span keeps its instance from closing, a closed instance has no
  more calls queued than it waits for, and a non-empty queue belongs to an owner.
- `StoreVisibleIsDurable`, same hypothesis: memory is the file, or one
  transaction behind it between rename and publication; needs `LockInv` (nobody
  else writes) and `SpanInv` (nobody writes late).
- `StoreSavesOneTask`, same hypothesis: a step that changes the file changes one
  task, and never an unreadable file.
- `StoreImplementsBoard`, same hypothesis: `TaskStore` implements `DurableBoard`
  (the file is the board, the calls that are done are the acknowledged ones). A
  rename is a `Save`, a publication is an `Acknowledge`, everything else a
  stutter. On top of the above it needs `AppliedInv`: of the calls that wait in a
  queue only the head can have reached the file, and only once its rename is made.

`Spec /\ [][InTime]_vars` excludes just the steps of deviation 1 below: without it
the statements are false. With one `createTask` in flight TLC finds them true of
every behaviour, since the save that a closing instance waits for is then its.

`TaskQueueProofs`: `QueueInvariant` is the inductive invariant of the queue,
`QueueNoResend` (whatever users, faults and crashes do, an operation asks the
daemon for one session at most, and a task for no more than users queued it)
follows from it. Its parts: `TypesInv`; `SavesInv`, a save that waits belongs to
the lock section or job that asked for it and that one waits for it (without it a
landing save could move a job that has gone on); `OnceInv`, an operation about to
create its session has created none; and `CreditInv`, the sessions made, being
prepared and queued are together at most the operations granted. Each step is
shown to have one of three shapes (it adds a claim with the grant, drops one, or
keeps them), so that the last two parts are proved once per shape. A save of
`recover()` writes an old answer over what memory says by then; that this never
puts a task back in the queue needs `ReviveInv`, which is inductive beside the
others: while `recover()` walks the board no save that queues a task is waiting.

The other theorems of this module assume `MaxCrashes = 0`: they are about a plugin
from its first start on, for any users and any faults. After a restart those
about tasks and sessions at work are false, since `recover()` works on what it
read before (deviations 3 and 6). They rest on four more invariants:

- `SlotInv`: a task at work has a job past its begin, and a job is the head of its
  repository's chain (`Rides`); until `prepareAndSend` is over no turn and no
  settlement can speak of its operation, and nobody but a cancel holds the task
  (`Dispatched`); what a save or a settlement carries is of the task's own
  operations (`Sound`), and a save that waits may not put a task to work that has
  no job (`Placed`). `QueueOneTaskAtWork` follows, since two tasks of one
  repository cannot both be the head. In `QueueRefinesRepoSlot` the only steps that
  move the slot are the saves that land, and the lemma `LandRefines` shows which
  move each of them is.
- `WorkInv`: a session in its first turn (`Fresh`) is the one of its task's
  operation on record, with its job at work (`Runs`); the end of a turn is told
  after it, wherever the event is by now: at the daemon, remembered, waiting for
  the lock, or captured (`Hears`, `Past`); and whatever is about to end a round,
  a settlement or a save, ends one whose first turn is over (`Settled`, `Ends`).
  From it `QueueNoOrphan` and `QueueOneSessionAtWork`.
- `ReviewInv`: what a record with a review says depends only on the record and on
  sessions, which never go back (`SessionsGoOn`), so a save that is asked for with
  a current record is still current when it lands; and a task whose turn is being
  captured has its worktree, which nobody takes while the capture has the lock.
  From it `QueueReviewIsCurrent`; `queue_round` also checks the statement with one
  crash, which the proof leaves out.
- `CleanInv`: what is not on record was never made, but for a worktree whose
  location is about to be saved (`Tidy`), and a save forgets a location only by
  deleting a task of which nothing is left (`Leaves`). `QueueDeletedIsClean`
  follows for the behaviours that are `LocatedFirst`: users cancel as they like,
  but not a task whose worktree is being made or whose location is not yet saved.
  Such a cancel is deviation 5, and with it the statement is false.

`BridgeRoundsProofs`: the invariant is `TasksInv` (every task is `WellFormed`:
it shows the status of its current round, older rounds are over, a round closed
here is stopped; and `Covered`: what a result says of its coverage is so) and
`BoundsInv`. From it `RoundsTypeCorrect`, `RoundsStatusMirrors`,
`RoundsCoverageCurrent`, `RoundsFencedStays`, and the refinement
`RoundsImplementLedger`. The last one's hard step is `DispatchCommit`: what is
committed is taken from a stale plan, so the lemma `SentFits` shows that what the
commit looks at again keeps the limit: of the plan it sends the oldest tasks that
are still queued, as many as there is room for now (`OldestBound`, by an injection
into that room).

`BridgeDeliveryProofs`: `DInv` is the inductive invariant of the outbox, on top of
the one of the rounds. The properties alone are not inductive, because what
`deliverTick` decides takes effect only when it commits. So an event counts only
if it `Stands`: it is not obsolete and the tick in progress has not decided that it
is. The parts are:
- `WakeInv`: a task in work that needs to be told has such a wake-up, or the last
  notice said it (`HasNews`). A reminder does not count (`IsNews`): it is obsolete
  as soon as the round is claimed, while Dot still has something to read;
- `StopInv`: the same of a stop (`HasStop`), and `UnstoppedInv`: a round that
  nobody has claimed is not asked to stop, so that a dispatch, which makes the
  events of the rounds it sends obsolete, takes no stop away;
- `ReminderInv`: of the events that wait unrefused no two say the same, and
  `AliveInv`: what an event is about exists. A handler asks `HasPendingWake` before
  it announces again, or announces what has a number of its own;
- `OutboxInv`: the types, and that a tick has decided about what
  it has read and about nothing else, and about no more attempts than there are.

Three shapes of steps are proved once. A handler only appends to the outbox
(`StepKeeps`): whatever it makes needed it announces, and what was needed before
keeps its events. That holds because a handler makes nothing else needed
(`AnswerKeeps`, `Lenient`: reports, results and saves only take needs away).
`TickPost` may decide that an event is obsolete only while nobody needs it, and
no later step can make that same event needed again: a new message, round or
subscription brings an event of its own, which is behind the snapshot. `TickCommit`
lets go what is settled and keeps the rest in order (`InOrderLists`: a list of the
kept events that names each once); what leaves without having been said did not
stand. From it `DeliveryTypeCorrect`, `DeliveryWakeNotLost`, `DeliveryStopNotLost`
and `DeliveryOneNotice`, for any number of restarts, refused addresses and lost
answers.

`BridgeLockProofs`: `BridgeTypeCorrect` is about every behaviour; `OneOwner`,
`WriterIsCurrent` and `LiveLockKept` about those that are `Careful`, wherever
processes die or pause, recoverers with their tickets included: no rename of a
stale ticket takes the ticket of a living process (`TicketSpared`), and no lock
directory is without an owner past the grace period while the process that makes
or removes it lives (`GraceHeld`). The argument has two layers: the ticket belongs
to the one process at work with it (`TicketInv`), so one process at most is about
to retire a lock, and that lock is still stale then (`LockInv`); from one owner it
follows that memory is the file (`MemoryInv`). The two conditions are on single
steps, and each excludes a step that the code can take: what `TicketSpared`
excludes is the rename of the finding, so without it the statements are false, and
the theorem says that this rename and the pause are the only ways to it. The run
`bridge_lock` assumes neither but starts without a leftover of an earlier
recoverer, and then no third recoverer is left to meet a buried ticket.
`BridgeAloneGetsIn` needs no hypothesis but that there is an attempt after
the first and two to take the ticket (the code has 8 and 5). Its invariant
(`AloneInv`) follows the opener: beside it the others are done or have lost the
lock and only leave, what it finds stays stale until it has retired it, since
nobody else touches the disk and dead processes stay dead, and then it is gone,
so that the next attempt makes the lock.

`SignInsProofs`: the invariant conjoins the types with
- `QueueInv`: whoever waits for a save is where it asked for it, nobody waits
  twice, and a pasted exchange holds the service's queue;
- `GrantInv`: in each of memory, file and file being written (`HeldInv`) a flow's
  grant has one name only and a version the server has issued; a code that was
  granted is nowhere yet (`CodesInv`); a sign-out that is under way has taken its
  grant from memory and from what it writes (`SignOutInv`); what is signed out is
  nowhere, the save in progress included (`GoneInv`);
- `KeepInv`: what was reported as done is in memory and in file, by the order of
  the saves;
- `CurrentInv`: for a regular flow (no mishap, not given up), memory, the file and
  the server agree as far as the stage of its refresh says (`MemoryInv`,
  `FollowInv`, `FreshInv`), and what a refresh writes is what the server honours
  (`WrittenInv`);
- `PendingIsHeard`, which is inductive beside the others.
From it `SignInsTypeCorrect`, `SignedOutStaysOut`, `DoneStaysKept`,
`KeptStaysCurrent` and `PendingStaysHeard`. Each property needs the others' parts:
that a signed-out grant stays out rests on where a refresh of it may still be.

`SharedGatewayProofs`: `RevokedInv` (who is revoked in memory or file was revoked
by an answered call, one whose write failed, or the one that holds the queue; and
then nothing is left beyond what is being torn down), `NarrowedInv` (sessions and
registered requests belong to the present grant of their device and provider),
`OffInv` (a closed gateway has nothing left, and one that listens is switched on,
or has a call in its queue, or missed a write) and `SettledInv` (whatever is open
or registered while a reconciliation walks, and is not on its list any more, was
allowed by the configuration it read or a later one). From
them `GatewayTypeCorrect`, `GatewayRevokedIsCut`, `GatewayNarrowedIsCut`,
`GatewayOffIsEmpty` and `GatewaySettledIsCut`.

`AgentMergeProofs`: `MergeInvariant` conjoins the types with
- `GitInv`: the window that has looked at the other tasks of the repository holds
  the queue of Git calls until its command is sent, so only one decides at a time
  (`OnlyCommitted`);
- `AloneInv`: while it decides, another task can become merging only because a
  turn of its session brings it back; with `GitInv` this makes `OneMerge`
  inductive;
- `SendInv`: a command has a request of its own, and so has the one about to be
  sent; `BudgetInv` and `TurnInv` count the calls that may still make a request,
  and the turns that may still begin, for the types;
- `ProofInv`: what is merged, verified or without a branch has its result in the
  target. A verified tip stays in the target while it is the tip: a turn that
  moves the branch ends the verification (`ResultsRow`);
- `CleanInv`: a cleanup past its first step, and a record that says so, has its
  session closed, and sessions stay closed.
From it `MergeTypeCorrect`, `MergeCommandOnce`, `MergeOneMerge`,
`MergeMergedIsProven`, `MergeCleanedInOrder` and `MergeNothingLost`, for any
number of crashes, faults and turns. The assumption that there are finitely many
windows is there to count their calls.

Only model-checked: all liveness (`DisposeEnds`, `QueuedStarts`,
`QueuedIsDispatched`, `MergeEndsUndisturbed`, `RefreshEnds`, `QueueMoves`,
`DeniedEnds`), which is beyond this prover. Every other property that a passing
run checks is the statement of a theorem, some of them under the hypotheses named
above: `InTime`, `LocatedFirst`, `Careful` or no crash, where the statement is
false otherwise (deviations 1, 3, 5 and 6, the finding), and no crash for
`ReviewIsCurrent`, where with a crash only the run speaks.

## Finding

`bridge_takeover`: `reclaimStale` takes a dead recoverer's ticket over by renaming
whatever is at its path by then (`dot-bridge/server/store.ts:254`). Two recoverers
read the ticket of a dead one; the first buries it and makes its own; the second
buries that one and makes another. Both retire "the" dead lock, and the second
retires the live one that a process has made in between. `store.ts:231` says a
live lock is never deleted out from under its owner, `store.ts:238` that a
recoverer can never delete another's fresh ticket.

## Deviations

Met while modelling; each has a configuration beside the listed runs, and
`tlc -config X.cfg M` shows the behaviour, where one is named.

1. `TaskStore_creates`: `createTask` saves outside any span
   (`todo/server/engine.ts:203`); with two in flight, shutdown releases the lock
   before the second is written.
2. `TaskQueue_lostcancel`: `prepareAndSend` saves without the task lock over a
   record it read before (`engine.ts:946`, `:970`); a pending cancel is
   overwritten.
3. `TaskQueue_staleanswer`: `recoverOne` writes a decision from an old inspection
   over the current record (`engine.ts:813`); a task under review runs again
   beside the next one.
4. `TaskQueue_stall`: a preparation that fails (`engine.ts:1033`) ticks nobody;
   the next queued task waits for a user.
5. `TaskQueue_leak`: a task canceled during its first `ensureWorktree`
   (`engine.ts:945`) is deleted without its worktree and branch.
6. `TaskQueue_orphan`: during `recover()` an event starts the next task, which
   `recover()` then visits and gives up (`engine.ts:789`) while its session is
   being created; the session is dropped and runs on.
7. `AgentMerge_stuck`: after a restart a poll begins the sync of a merging task;
   `recover()` joins that one (`engine.ts:667`), which does not know that it is a
   recovery, so a merge whose turn ended while the plugin was down stays merging.
   The property of `merge_proof` therefore speaks of undisturbed merges. Also: a
   later turn of a failed merge's session puts the task back to merging, which
   `OneMerge` excludes; a chat turn that was observed disables the 30-second limit
   of a command that was lost; and the end of an older turn can count as the
   command's when the start of a chat turn was never delivered.
8. `BridgeDelivery_uncovered`: a delivery tick that saw the round stopped decides
   that its wake-up is obsolete; a result that does not cover the latest message
   arrives before the commit, and its own wake-up
   (`dot-bridge/server/engine.ts:1376`) is not added, since that event is still
   pending; nobody is woken. `WakeNotLost` therefore speaks of rounds in work.
   Also: an address refused once, then retried, is left as failed
   (`engine.ts:1666`).
9. `SignIns_renamed`: a rename during a refresh drops the refreshed token, and a
   second refresh sends the same one (`shared-tools/server/oauth.ts:471`). Also: a
   sign-in in flight completes after a cancel, a sign-out or a rename
   (`oauth.ts:391`); when callback and pasted address race, the second one sets
   the result to failed although the first has signed in; and a listener bound
   after a cancel stays open.
10. `shared-tools/README.md:80` says a revocation works at once. When its save
    fails, a second call answers without cutting or saving anything
    (`RevokeCutsAtOnce` in `SharedGateway`), only the timer of the reconciliation
    cuts, and a restart revives the device. Narrowing a device does the same.
11. `BridgeDelivery_duplicate`: a notice refused for its address is not pending to
    `hasPendingWake` (`dot-bridge/server/engine.ts:1917`), so the next reminder adds
    another that says the same; but `deliverTick` looks at refused notices again
    (`engine.ts:1667`) and posts both once the address is allowed.
    `dot-bridge/README.md:154` says pending notifications are not duplicated.
    `OneNotice` therefore exempts a pair of which one was refused.
12. `SharedGateway_stillon`: `saveConfig` changes the settings in memory before it
    writes them (`shared-tools/server/gateway.ts:424`). When the write of "off"
    fails, the gateway listens on, and the same call again finds nothing moved
    (`gateway.ts:428`), writes, and answers success: gateway.json says off, and the
    gateway listens with its sessions open until it is restarted, against
    `shared-tools/README.md:108`. `OffIsEmpty` therefore speaks of gateways whose
    writes of the settings succeeded.

## Not modelled

- `TaskStore`: nothing that changes state is left out.
- `TaskQueue`: merging and cleanup (they are in `AgentMerge`), collaboration,
  editing a draft, the lookup of a repository's identity (taken as answered) and
  its failure, several daemons' answers out of order, the limits on remembered
  turns and events (50 and the recency limit), failing saves (they are in
  `TaskStore`), and the daemon's stop request as a separate message: a turn may
  end at any time with any outcome, which includes that it was stopped.
- `AgentMerge`: the Git commands of one verification (`git.ts:392-417`) are one
  step. The code asks for the two heads again at the end and gives up when they have
  moved (`git.ts:412`), so only a worktree that is no longer clean could pass
  unseen, and no property is about that; the merge of a
  collaboration, records of older builds that are
  merging without a request, and retry, continue or delete of a failed merge. A
  save lands at once.
- `BridgeRounds`, `BridgeDelivery`: Git verification, attachments, permissions,
  operation receipts (a repeated operation changes nothing), the connection test,
  signatures and the rotation of their secret, pruning of old events, and a round
  an older build left canceled and dispatched. Time is not counted: a delay that
  is over is a step that may be taken. The address lookup and the post are one
  step.
- `BridgeLock`: a process has one token, its name; pids are not used again; an
  empty owner file and its age are looked at together. A change whose write fails
  leaves file and memory as they were and is left out; so are secrets.
- `SignIns`: authorizations borrowed from other clients and the Codex sign-in. The
  authorization server is the strictest one (codes and refresh tokens work once; a
  token request that fails may have used its code or left it for the next attempt),
  the port of the listener is free, and loading the file is one step.
- `SharedGateway`: one shared server, whose permissions and MCP switches are one
  set of providers; device creation, connections to other centers, the state shown
  on the page. That the port may be taken is a choice of `Listen`; the request that
  keeps a session's stream open is its GET.
- Collaboration, git, the adapters and the pages, as the inventory says.

## Plan

What the project would take up next: `TaskCollab`, as far as its control fits a
small instance; and the theorems of `TaskQueue` about tasks and sessions at work
for a plugin that restarts, once `recover()` looks again before it writes.
