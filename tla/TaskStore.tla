------------------------------ MODULE TaskStore ------------------------------
(***************************************************************************)
(* The todo plugin's task store (src/todo/server/store.ts) and the spans   *)
(* of the engine above it (enter, whenIdle and dispose of                  *)
(* src/todo/server/engine.ts).                                             *)
(*                                                                         *)
(* Several plugin instances (a daemon that restarts, a plugin that is      *)
(* reloaded, a second daemon) may be pointed at one data directory.  An    *)
(* instance opens the store by creating the lock directory, loads the      *)
(* file, then runs its transactions one after another: each builds the     *)
(* next list of tasks from memory, writes it beside the file, renames it   *)
(* over the file and only then publishes it to memory.  Shutdown waits for *)
(* the spans in flight, then for the tail of the transaction queue, and    *)
(* then removes the lock directory.                                        *)
(*                                                                         *)
(* A saved task is abstracted to the call that saved it last, so that a    *)
(* save that undoes another one is visible in the file.                    *)
(***************************************************************************)
EXTENDS Naturals, Sequences

CONSTANTS
    Plugin,    \* plugin instances; each one is opened at most once
    Task,      \* task identifiers
    Call,      \* calls that save something, each with one transaction
    Create,    \* the calls that are createTask: they save outside any span
    Absent,    \* the task is not on the board
    Corrupt    \* the file does not parse

ASSUME CreateAssumption == Create \subseteq Call
ASSUME AbsentAssumption == Absent \notin Call
ASSUME CorruptAssumption == Corrupt \notin [Task -> Call \cup {Absent}]

VARIABLES
    disk,       \* state.json: the board saved last, or Corrupt
    applied,    \* history: calls whose transaction reached the file
    lockDir,    \* the lock directory exists
    owned,      \* instances that created the lock directory (owned and token)
    writable,   \* instances that admit transactions
    phase,      \* life of each instance
    loadError,  \* why the board cannot be written, or "none"
    memory,     \* the tasks each instance shows
    queue,      \* transactions admitted and not finished, oldest first
    io,         \* what the transaction at the head of the queue has done
    drain,      \* transactions that dispose() still waits for
    call,       \* progress of each call
    spans,      \* calls inside enter() ... release(); spanDepth is its size
    creating    \* createTask calls past their first check, in no span

fileVars == <<disk, applied>>
lockVars == <<lockDir, owned, writable>>
lifeVars == <<phase, loadError>>
queueVars == <<memory, queue, io, drain>>
callVars == <<call, spans, creating>>
vars == <<fileVars, lockVars, lifeVars, queueVars, callVars>>

Board == [Task -> Call \cup {Absent}]
NoTasks == [t \in Task |-> Absent]

Phase == {"new", "locked", "open", "draining", "closed", "removing", "gone", "crashed"}
Kind == {"insert", "replace", "remove"}
Transaction == [call : Call, kind : Kind, task : Task]

\* An instance that runs: it was opened, and neither disposed of nor killed.
Alive(p) == phase[p] \notin {"new", "gone", "crashed"}

Init ==
    /\ disk \in {NoTasks, Corrupt}
    /\ applied = {}
    /\ lockDir = FALSE
    /\ owned = {}
    /\ writable = {}
    /\ phase = [p \in Plugin |-> "new"]
    /\ loadError = [p \in Plugin |-> "none"]
    /\ memory = [p \in Plugin |-> NoTasks]
    /\ queue = [p \in Plugin |-> <<>>]
    /\ io = [p \in Plugin |-> "idle"]
    /\ drain = [p \in Plugin |-> 0]
    /\ call = [c \in Call |-> "idle"]
    /\ spans = [p \in Plugin |-> {}]
    /\ creating = [p \in Plugin |-> {}]

-----------------------------------------------------------------------------
(* Opening *)

\* mkdir is exclusive, and a lock that exists is never stolen.
LockStolen == TRUE \* mutation
LockFree == ~lockDir

\* acquire()
Acquire(p) ==
    /\ phase[p] = "new"
    /\ LockFree
    /\ lockDir' = TRUE
    /\ owned' = owned \cup {p}
    /\ phase' = [phase EXCEPT ![p] = "locked"]
    /\ UNCHANGED <<fileVars, writable, loadError, queueVars, callVars>>

\* open() catches: the lock is taken, or the directory cannot be written.  The
\* engine runs over a board that is empty and read-only.
AcquireFails(p) ==
    /\ phase[p] = "new"
    /\ \E error \in {"store-locked", "store-invalid"} :
         /\ error = "store-locked" => lockDir
         /\ loadError' = [loadError EXCEPT ![p] = error]
    /\ phase' = [phase EXCEPT ![p] = "open"]
    /\ UNCHANGED <<fileVars, lockVars, queueVars, callVars>>

\* What load() makes of the file.
LoadNothing == NoTasks \* mutation
LoadedTasks == disk

FileParses == disk # Corrupt

\* load(), then writable = loadError === null.  A file that cannot be read shows
\* an empty board too, whatever is in it.
Load(p) ==
    /\ phase[p] = "locked"
    /\ phase' = [phase EXCEPT ![p] = "open"]
    /\ \/ /\ FileParses
          /\ loadError' = [loadError EXCEPT ![p] = "none"]
          /\ memory' = [memory EXCEPT ![p] = LoadedTasks]
          /\ writable' = writable \cup {p}
       \/ /\ loadError' = [loadError EXCEPT ![p] = "store-invalid"]
          /\ memory' = [memory EXCEPT ![p] = NoTasks]
          /\ UNCHANGED writable
    /\ UNCHANGED <<fileVars, lockDir, owned, queue, io, drain, callVars>>

-----------------------------------------------------------------------------
(* Calls into the engine *)

EnterAfterClose(p) == Alive(p) \* mutation

\* enter(): refused once closed, or when draining with no span left.  While
\* draining, work inside an open span may still open another one.
EnterAllowed(p) ==
    \/ phase[p] = "open"
    \/ phase[p] = "draining" /\ spans[p] # {}

Enter(c, p) ==
    /\ call[c] = "idle"
    /\ c \notin Create
    /\ EnterAllowed(p)
    /\ call' = [call EXCEPT ![c] = "entered"]
    /\ spans' = [spans EXCEPT ![p] = @ \cup {c}]
    /\ UNCHANGED <<fileVars, lockVars, lifeVars, queueVars, creating>>

\* createTask checks disposed and loadError once, before it asks git about the
\* repository.  It opens no span.
AcceptCreate(c, p) ==
    /\ call[c] = "idle"
    /\ c \in Create
    /\ phase[p] = "open"
    /\ loadError[p] = "none"
    /\ call' = [call EXCEPT ![c] = "entered"]
    /\ creating' = [creating EXCEPT ![p] = @ \cup {c}]
    /\ UNCHANGED <<fileVars, lockVars, lifeVars, queueVars, spans>>

\* dispose() has nothing left to wait for: it goes on to release() in the same
\* turn of the event loop, before any handler resumes from an I/O callback.
Releasing(p) == phase[p] = "closed" /\ drain[p] = 0

\* transaction(): admitted when the store is writable and owned at this moment.
Transact(c, p, kind, t) ==
    /\ call[c] = "entered"
    /\ \/ c \in spans[p]
       \/ c \in creating[p] /\ kind = "insert"
    /\ p \in writable \cap owned
    /\ ~Releasing(p)
    /\ queue' = [queue EXCEPT ![p] = Append(@, [call |-> c, kind |-> kind, task |-> t])]
    /\ call' = [call EXCEPT ![c] = "queued"]
    /\ creating' = [creating EXCEPT ![p] = @ \ {c}]
    /\ UNCHANGED <<fileVars, lockVars, lifeVars, memory, io, drain, spans>>

\* The call ends without a save: the store is not writable, or the handler had
\* nothing to write.
GiveUp(c) ==
    /\ call[c] = "entered"
    /\ call' = [call EXCEPT ![c] = "failed"]
    /\ spans' = [p \in Plugin |-> spans[p] \ {c}]
    /\ creating' = [p \in Plugin |-> creating[p] \ {c}]
    /\ UNCHANGED <<fileVars, lockVars, lifeVars, queueVars>>

-----------------------------------------------------------------------------
(* The transaction queue *)

\* The change functions of insert, replace and remove: an insert needs a new
\* id, the others one that is on the board.
Applies(board, tx) == (board[tx.task] = Absent) <=> (tx.kind = "insert")
Change(board, tx) ==
    [board EXCEPT ![tx.task] = IF tx.kind = "remove" THEN Absent ELSE tx.call]

\* dispose() waits for the transactions that were ahead of it.
CountDown(n) == IF n > 0 THEN n - 1 ELSE 0

\* The caller's span is released when its save has settled.
StayInSpan(p, c) == spans \* mutation
LeaveSpan(p, c) == [spans EXCEPT ![p] = @ \ {c}]

\* The promise of the head transaction settles: the queue moves on, and its
\* caller leaves the span it was in.
Settle(p, outcome) ==
    LET c == Head(queue[p]).call IN
    /\ queue' = [queue EXCEPT ![p] = Tail(@)]
    /\ io' = [io EXCEPT ![p] = "idle"]
    /\ drain' = [drain EXCEPT ![p] = CountDown(@)]
    /\ call' = [call EXCEPT ![c] = outcome]
    /\ spans' = LeaveSpan(p, c)

StartWrite(p) ==
    /\ queue[p] # <<>>
    /\ io[p] = "idle"
    /\ Applies(memory[p], Head(queue[p]))
    /\ io' = [io EXCEPT ![p] = "writing"]
    /\ UNCHANGED <<fileVars, lockVars, lifeVars, memory, queue, drain, callVars>>

\* A write that fails resolves as one that succeeded.
SwallowFailedWrite(p) == \* mutation
    /\ io[p] = "writing"
    /\ Settle(p, "done")
    /\ UNCHANGED <<fileVars, lockVars, lifeVars, memory, creating>>

\* The change function throws, or writing the temporary file or the rename
\* fails; the file and the memory stay as they are.
FailWrite(p) ==
    /\ queue[p] # <<>>
    /\ \/ io[p] = "idle" /\ ~Applies(memory[p], Head(queue[p]))
       \/ io[p] = "writing"
    /\ Settle(p, "failed")
    /\ UNCHANGED <<fileVars, lockVars, lifeVars, memory, creating>>

\* rename(tmp, file)
Rename(p) ==
    /\ io[p] = "writing"
    /\ disk' = Change(memory[p], Head(queue[p]))
    /\ applied' = applied \cup {Head(queue[p]).call}
    /\ io' = [io EXCEPT ![p] = "renamed"]
    /\ UNCHANGED <<lockVars, lifeVars, memory, queue, drain, callVars>>

\* this.tasks = next, and the caller resumes.
KeepMemory(p) == memory \* mutation
NextMemory(p) == [memory EXCEPT ![p] = Change(@, Head(queue[p]))]

Publish(p) ==
    /\ io[p] = "renamed"
    /\ memory' = NextMemory(p)
    /\ Settle(p, "done")
    /\ UNCHANGED <<fileVars, lockVars, lifeVars, creating>>

-----------------------------------------------------------------------------
(* Shutdown, crash and the operator *)

Dispose(p) ==
    /\ phase[p] = "open"
    /\ phase' = [phase EXCEPT ![p] = "draining"]
    /\ UNCHANGED <<fileVars, lockVars, loadError, queueVars, callVars>>

\* whenIdle() has resolved: closed = true, and store.dispose() takes the tail of
\* the queue as it is now and waits for it.
Close(p) ==
    /\ phase[p] = "draining"
    /\ spans[p] = {}
    /\ phase' = [phase EXCEPT ![p] = "closed"]
    /\ drain' = [drain EXCEPT ![p] = Len(queue[p])]
    /\ UNCHANGED <<fileVars, lockVars, loadError, memory, queue, io, callVars>>

\* release(): the flags go down in one step; the directory is removed afterwards.
Release(p) ==
    /\ Releasing(p)
    /\ phase' = [phase EXCEPT ![p] = IF p \in owned THEN "removing" ELSE "gone"]
    /\ owned' = owned \ {p}
    /\ writable' = writable \ {p}
    /\ UNCHANGED <<fileVars, lockDir, loadError, queueVars, callVars>>

RemoveLock(p) ==
    /\ phase[p] = "removing"
    /\ lockDir' = FALSE
    /\ phase' = [phase EXCEPT ![p] = "gone"]
    /\ UNCHANGED <<fileVars, owned, writable, loadError, queueVars, callVars>>

\* rm failed: dispose() rejects and the directory stays for the operator.
RemoveLockFails(p) ==
    /\ phase[p] = "removing"
    /\ phase' = [phase EXCEPT ![p] = "gone"]
    /\ UNCHANGED <<fileVars, lockVars, loadError, queueVars, callVars>>

\* Calls that are in the hands of an instance.
HeldBy(p) ==
    spans[p] \cup creating[p] \cup {queue[p][i].call : i \in DOMAIN queue[p]}

\* The process dies.  What it renamed stays, the lock directory stays.
Crash(p) ==
    /\ Alive(p)
    /\ phase' = [phase EXCEPT ![p] = "crashed"]
    /\ owned' = owned \ {p}
    /\ writable' = writable \ {p}
    /\ queue' = [queue EXCEPT ![p] = <<>>]
    /\ io' = [io EXCEPT ![p] = "idle"]
    /\ drain' = [drain EXCEPT ![p] = 0]
    /\ call' = [c \in Call |-> IF c \in HeldBy(p) THEN "lost" ELSE call[c]]
    /\ spans' = [spans EXCEPT ![p] = {}]
    /\ creating' = [creating EXCEPT ![p] = {}]
    /\ UNCHANGED <<fileVars, lockDir, loadError, memory>>

\* The README lets an operator delete a stale lock by hand, when no process of
\* the plugin uses the directory.
OperatorUnlock ==
    /\ lockDir
    /\ \A p \in Plugin : ~Alive(p) /\ queue[p] = <<>>
    /\ lockDir' = FALSE
    /\ UNCHANGED <<fileVars, owned, writable, lifeVars, queueVars, callVars>>

-----------------------------------------------------------------------------
Open(p) == Acquire(p) \/ AcquireFails(p) \/ Load(p)
Work(p) == StartWrite(p) \/ FailWrite(p) \/ Rename(p) \/ Publish(p)
Shutdown(p) == Close(p) \/ Release(p) \/ RemoveLock(p) \/ RemoveLockFails(p)
Save(c, p) == \E kind \in Kind, t \in Task : Transact(c, p, kind, t)

Next ==
    \/ \E p \in Plugin :
         \/ Open(p) \/ Work(p) \/ Dispose(p) \/ Shutdown(p) \/ Crash(p)
         \/ \E c \in Call : Enter(c, p) \/ AcceptCreate(c, p) \/ Save(c, p)
    \/ \E c \in Call : GiveUp(c)
    \/ OperatorUnlock

Spec == Init /\ [][Next]_vars

\* File operations and a handler's awaits all end, and dispose() goes on.
Finish(c) == GiveUp(c) \/ \E p \in Plugin : Save(c, p)

FairSpec ==
    /\ Spec
    /\ \A p \in Plugin : WF_vars(Work(p)) /\ WF_vars(Shutdown(p))
    /\ \A c \in Call : WF_vars(Finish(c))

-----------------------------------------------------------------------------
(* Properties *)

\* Every variable has its type (the fields of TaskStore and the span counter),
\* and a write under way belongs to a transaction.
TypeOK ==
    /\ disk \in Board \cup {Corrupt}
    /\ applied \subseteq Call
    /\ lockDir \in BOOLEAN
    /\ owned \subseteq Plugin
    /\ writable \subseteq Plugin
    /\ phase \in [Plugin -> Phase]
    /\ loadError \in [Plugin -> {"none", "store-locked", "store-invalid"}]
    /\ memory \in [Plugin -> Board]
    /\ queue \in [Plugin -> Seq(Transaction)]
    /\ io \in [Plugin -> {"idle", "writing", "renamed"}]
    /\ \A p \in Plugin : io[p] # "idle" => queue[p] # <<>>
    /\ drain \in [Plugin -> Nat]
    /\ call \in [Call -> {"idle", "entered", "queued", "done", "failed", "lost"}]
    /\ spans \in [Plugin -> SUBSET Call]
    /\ creating \in [Plugin -> SUBSET Create]

\* Two instances never own one data directory, and an owner's lock directory is
\* there: acquire() never steals, release() only removes its own lock.
OneOwner ==
    \A p \in owned : lockDir /\ owned = {p}

\* Nothing is written to the file by an instance that has given up the lock:
\* dispose() waits for every save in flight before it releases the directory.
WriteUnderLock ==
    \A p \in Plugin : io[p] # "idle" => p \in owned

\* What the board shows can be read back after a crash: memory is the file, or
\* the file is ahead of it by the one transaction about to be published.
VisibleIsDurable ==
    \A p \in writable :
      disk = IF io[p] = "renamed" THEN Change(memory[p], Head(queue[p])) ELSE memory[p]

\* A save never takes another task's save with it, whichever instance made it
\* and whatever that instance had read before; and a file that does not parse is
\* left as it is, by every instance.
SaveTouchesOneTask ==
    [][/\ disk = Corrupt => disk' = Corrupt
       /\ \A t, u \in Task :
            disk # Corrupt /\ disk[t] # disk'[t] /\ disk[u] # disk'[u] => t = u]_vars

\* Shutdown ends: every span and every save it waits for ends.
DisposeEnds ==
    \A p \in Plugin : phase[p] = "draining" ~> phase[p] \in {"gone", "crashed"}

-----------------------------------------------------------------------------
\* The board as its callers know it: the file, the calls that reached it, and
\* the calls that were told so.
Durable == INSTANCE DurableBoard WITH
    board <- disk,
    acknowledged <- {c \in Call : call[c] = "done"}

\* The store implements the durable map its callers rely on.
RefinesDurableBoard == Durable!Spec
=============================================================================
