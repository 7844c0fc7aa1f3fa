----------------------------- MODULE BridgeLock -----------------------------
(* The lock of the bridge's data directory: src/dot-bridge/server/store.ts. *)
(*                                                                          *)
(* The lock is a directory, state.lock, that holds the token of its owner.  *)
(* A process that finds it held by a dead owner retires it; the ticket,     *)
(* state.lock.reclaim, is to keep those that retire it apart.  Every call   *)
(* of the file system is a step, so that other processes, and crashes, come *)
(* between any two of them.                                                 *)
(*                                                                          *)
(* A process opens the store once, so its token is its name, and the pid of *)
(* a dead process is not used again.  A directory that was renamed aside is *)
(* gone.  A file that is read and found empty is looked at again for its    *)
(* age at once.  The state file counts its writes; version 0 is one that an *)
(* older program left, in a shape that load() migrates.                     *)
EXTENDS Naturals, FiniteSets

CONSTANTS
  Process,     \* processes that open the store
  Ghost,       \* processes that died earlier, one of which may own the lock
  Nobody,      \* no owner: the owner file is missing or empty
  MaxTries,    \* attempts after the first (8 in the code)
  MaxReclaims, \* attempts to take the ticket (5 in the code)
  Stalls,      \* may a process pause for longer than the grace period?
  MaxWrites,   \* bound: changes of the file
  MaxFaults,   \* bound: owner and state files that cannot be read or written
  MaxCrashes   \* bound: processes that die

ASSUME LockAssumption ==
  /\ Nobody \notin Process \cup Ghost /\ Process \cap Ghost = {}
  /\ {MaxTries, MaxReclaims, MaxWrites, MaxFaults, MaxCrashes} \subseteq Nat
  /\ Stalls \in BOOLEAN

VARIABLES
  lock,     \* the directory state.lock: is it there, whose, older than the grace period
  ticket,   \* the file state.lock.reclaim: is it there, who made it, is it written, is it old
  file,     \* the version of state.json
  pc,       \* what each process is about to do
  tries,    \* its failed attempts to make the directory
  claims,   \* its attempts to take the ticket in this round
  seen,     \* the owner it read first, with the ticket in its hand
  memory,   \* the version of state.json it holds
  alone,    \* history: nothing but leftovers stood in its way when it opened
  faults, crashes

disk == <<lock, ticket, file>>
local == <<tries, claims, seen, memory>>
vars == <<disk, pc, local, alone, faults, crashes>>

NoLock == [there |-> FALSE, owner |-> Nobody, old |-> FALSE]
NewLock == [there |-> TRUE, owner |-> Nobody, old |-> FALSE]
NoTicket == [there |-> FALSE, maker |-> Nobody, full |-> FALSE, old |-> FALSE]
NewTicket(p) == [there |-> TRUE, maker |-> p, full |-> FALSE, old |-> FALSE]

(* Every step but a crash is the step of one process. *)
Goes(p, from, to) == pc[p] = from /\ pc' = [pc EXCEPT ![p] = to]

IsDead(p) == p \in Ghost \/ (p \in Process /\ pc[p] = "dead")

Opening == {"try", "stale", "ticket", "held", "bury", "fill", "look", "again", "retire",
            "untick", "rmticket", "own", "clean", "rmclean"}
Inside == {"load", "migrate", "unread", "in", "check", "write"}
Leaving == {"release", "unlink", "rmdir"}
Done == {"idle", "refused", "lost", "closed", "dead"}

-----------------------------------------------------------------------------
(* acquire *)

(* Nothing but what dead processes left behind, and long ago. *)
LeftOver ==
  /\ lock.there => IF lock.owner = Nobody THEN lock.old ELSE IsDead(lock.owner)
  /\ ticket.there => IF ticket.full THEN IsDead(ticket.maker) ELSE ticket.old
Quiet(p) == \A q \in Process \ {p} : pc[q] \in Done

Open(p) ==
  /\ Goes(p, "idle", "try")
  /\ alone' = [q \in Process |-> q = p /\ Quiet(p) /\ LeftOver]
  /\ UNCHANGED <<disk, local, faults, crashes>>

MoreTries(p) == tries[p] < MaxTries
TryLock(p) ==
  /\ \/ /\ ~lock.there /\ lock' = NewLock
        /\ Goes(p, "try", "own")
        /\ UNCHANGED tries
     \/ /\ lock.there /\ MoreTries(p) /\ tries' = [tries EXCEPT ![p] = @ + 1]
        /\ Goes(p, "try", "stale")
        /\ UNCHANGED lock
     \/ /\ lock.there /\ ~MoreTries(p)
        /\ Goes(p, "try", "refused")
        /\ UNCHANGED <<lock, tries>>
  /\ UNCHANGED <<ticket, file, claims, seen, memory, alone, faults, crashes>>

(* A mutant: what has no owner is taken for dead at once. *)
StaleAtOnce == IF lock.owner = Nobody THEN lock.there ELSE IsDead(lock.owner)
(* A lock without an owner is stale once it is old: it may be in the making. *)
Stale == IF lock.owner = Nobody THEN lock.there /\ lock.old ELSE IsDead(lock.owner)

LookStale(p) ==
  /\ Goes(p, "stale", IF Stale THEN "ticket" ELSE "refused")
  /\ claims' = [claims EXCEPT ![p] = 0]
  /\ UNCHANGED <<disk, tries, seen, memory, alone, faults, crashes>>

(* reclaimStale: make the ticket, or look at the one that is there *)
TakeTicket(p) ==
  /\ \/ /\ claims[p] = MaxReclaims
        /\ Goes(p, "ticket", "try")
        /\ UNCHANGED <<ticket, claims>>
     \/ /\ claims[p] < MaxReclaims /\ claims' = [claims EXCEPT ![p] = @ + 1]
        /\ \/ ~ticket.there /\ ticket' = NewTicket(p) /\ Goes(p, "ticket", "fill")
           \/ ticket.there /\ Goes(p, "ticket", "held") /\ UNCHANGED ticket
  /\ UNCHANGED <<lock, file, tries, seen, memory, alone, faults, crashes>>

(* A mutant: a ticket that its maker never filled stays. *)
FullIsStale == ticket.there /\ ticket.full /\ IsDead(ticket.maker)
TicketStale == ticket.there /\ (IF ticket.full THEN IsDead(ticket.maker) ELSE ticket.old)

LookTicket(p) ==
  /\ Goes(p, "held", IF TicketStale THEN "bury" ELSE "try")
  /\ UNCHANGED <<disk, local, alone, faults, crashes>>

(* The rename takes whatever ticket is there by now. *)
BuryTicket(p) ==
  /\ Goes(p, "bury", "ticket") /\ ticket' = NoTicket
  /\ UNCHANGED <<lock, file, local, alone, faults, crashes>>

(* The token goes into the file that was created, wherever it is now. *)
FillTicket(p) ==
  /\ Goes(p, "fill", "look")
  /\ ticket' = IF ticket.there /\ ticket.maker = p THEN [ticket EXCEPT !.full = TRUE] ELSE ticket
  /\ UNCHANGED <<lock, file, local, alone, faults, crashes>>

LookOwner(p) ==
  /\ Goes(p, "look", "again") /\ seen' = [seen EXCEPT ![p] = lock.owner]
  /\ UNCHANGED <<disk, tries, claims, memory, alone, faults, crashes>>

(* A mutant: the owner is still the same, dead or not. *)
SameOwner(p) == lock.owner = seen[p]
MayRetire(p) == lock.owner = seen[p] /\ Stale
LookAgain(p) ==
  /\ Goes(p, "again", IF MayRetire(p) THEN "retire" ELSE "untick")
  /\ seen' = [seen EXCEPT ![p] = Nobody]
  /\ UNCHANGED <<disk, tries, claims, memory, alone, faults, crashes>>

(* The rename takes whatever lock is there by now. *)
Retire(p) ==
  /\ Goes(p, "retire", "untick") /\ lock' = NoLock
  /\ UNCHANGED <<ticket, file, local, alone, faults, crashes>>

LeaveTicket(p) ==
  /\ Goes(p, "untick", IF ticket.full /\ ticket.maker = p THEN "rmticket" ELSE "try")
  /\ UNCHANGED <<disk, local, alone, faults, crashes>>

RemoveTicket(p) ==
  /\ Goes(p, "rmticket", "try") /\ ticket' = NoTicket
  /\ UNCHANGED <<lock, file, local, alone, faults, crashes>>

(* The directory is there: record the owner in it.  When that fails, the    *)
(* directory is removed if it is still without one.                         *)
WriteOwner(p) ==
  /\ \/ /\ lock.there /\ lock' = [lock EXCEPT !.owner = p, !.old = FALSE]
        /\ Goes(p, "own", "load") /\ UNCHANGED faults
     \/ ~lock.there /\ Goes(p, "own", "clean") /\ UNCHANGED <<lock, faults>>
     \/ /\ faults < MaxFaults /\ faults' = faults + 1
        /\ Goes(p, "own", "clean") /\ UNCHANGED lock
  /\ UNCHANGED <<ticket, file, local, alone, crashes>>

CleanUp(p) ==
  /\ Goes(p, "clean", IF lock.owner = Nobody THEN "rmclean" ELSE "refused")
  /\ alone' = [alone EXCEPT ![p] = FALSE]
  /\ UNCHANGED <<disk, local, faults, crashes>>

RemoveUnowned(p) ==
  /\ Goes(p, "rmclean", "refused") /\ lock' = NoLock
  /\ UNCHANGED <<ticket, file, local, alone, faults, crashes>>

(* load: a store whose file cannot be read, or not be migrated, is open but *)
(* not writable; its process has the lock all the same.                     *)
LoadFails(p, from) ==
  /\ faults < MaxFaults /\ faults' = faults + 1
  /\ Goes(p, from, "unread") /\ UNCHANGED memory

Load(p) ==
  /\ \/ /\ Goes(p, "load", IF file = 0 THEN "migrate" ELSE "in")
        /\ memory' = [memory EXCEPT ![p] = file] /\ UNCHANGED faults
     \/ LoadFails(p, "load")
  /\ UNCHANGED <<disk, tries, claims, seen, alone, crashes>>

(* The migrated state is written back, without a look at the lock.          *)
Migrate(p) ==
  /\ \/ /\ Goes(p, "migrate", "in")
        /\ file' = file + 1 /\ memory' = [memory EXCEPT ![p] = file + 1] /\ UNCHANGED faults
     \/ LoadFails(p, "migrate") /\ UNCHANGED file
  /\ UNCHANGED <<lock, ticket, tries, claims, seen, alone, crashes>>

-----------------------------------------------------------------------------
(* mutate and dispose.  Changes are made one after another (the queue).     *)

Mutate(p) ==
  /\ file < MaxWrites /\ Goes(p, "in", "check")
  /\ UNCHANGED <<disk, local, alone, faults, crashes>>

OwnsLock(p) == lock.owner = p
CheckLock(p) ==
  /\ Goes(p, "check", IF OwnsLock(p) THEN "write" ELSE "lost")
  /\ UNCHANGED <<disk, local, alone, faults, crashes>>

(* A mutant: the state in memory is not replaced by what was written. *)
WriteAndForget(p) ==
  /\ Goes(p, "write", "in") /\ file' = file + 1
  /\ UNCHANGED <<lock, ticket, local, alone, faults, crashes>>
(* What is written is computed from what the process holds in memory. *)
WriteFile(p) ==
  /\ Goes(p, "write", "in")
  /\ file' = file + 1 /\ memory' = [memory EXCEPT ![p] = file + 1]
  /\ UNCHANGED <<lock, ticket, tries, claims, seen, alone, faults, crashes>>

Dispose(p) ==
  /\ \E from \in {"in", "lost", "unread"} : Goes(p, from, "release")
  /\ UNCHANGED <<disk, local, alone, faults, crashes>>

Release(p) ==
  /\ Goes(p, "release", IF OwnsLock(p) THEN "unlink" ELSE "closed")
  /\ UNCHANGED <<disk, local, alone, faults, crashes>>

(* The recursive removal: first the owner file, then the directory. *)
UnlinkOwner(p) ==
  /\ Goes(p, "unlink", "rmdir")
  /\ lock' = IF lock.there THEN NewLock ELSE lock
  /\ UNCHANGED <<ticket, file, local, alone, faults, crashes>>

RemoveLock(p) ==
  /\ Goes(p, "rmdir", "closed")
  /\ lock' = IF lock.owner = Nobody THEN NoLock ELSE lock
  /\ UNCHANGED <<ticket, file, local, alone, faults, crashes>>

-----------------------------------------------------------------------------
(* The surroundings *)

Crash(p) ==
  /\ pc[p] \notin {"idle", "dead"} /\ crashes < MaxCrashes
  /\ crashes' = crashes + 1 /\ pc' = [pc EXCEPT ![p] = "dead"]
  /\ tries' = [tries EXCEPT ![p] = 0] /\ claims' = [claims EXCEPT ![p] = 0]
  /\ seen' = [seen EXCEPT ![p] = Nobody] /\ memory' = [memory EXCEPT ![p] = 0]
  /\ UNCHANGED <<disk, alone, faults>>

(* Ten seconds pass.  Without stalls no acquisition takes that long. *)
Elapse ==
  /\ Stalls \/ \A p \in Process : pc[p] \notin Opening \cup Leaving
  /\ lock' = [lock EXCEPT !.old = lock.there]
  /\ ticket' = [ticket EXCEPT !.old = ticket.there]
  /\ <<lock, ticket>>' # <<lock, ticket>>
  /\ UNCHANGED <<file, pc, local, alone, faults, crashes>>

-----------------------------------------------------------------------------
Init ==
  /\ lock \in {NoLock} \cup [there : {TRUE}, owner : Ghost, old : {TRUE}]
  /\ ticket = NoTicket /\ file \in {0, 1}
  /\ pc = [p \in Process |-> "idle"]
  /\ tries = [p \in Process |-> 0] /\ claims = [p \in Process |-> 0]
  /\ seen = [p \in Process |-> Nobody] /\ memory = [p \in Process |-> 0]
  /\ alone = [p \in Process |-> FALSE]
  /\ faults = 0 /\ crashes = 0

Acquire(p) == \/ Open(p) \/ TryLock(p) \/ LookStale(p) \/ WriteOwner(p) \/ CleanUp(p)
              \/ RemoveUnowned(p) \/ Load(p) \/ Migrate(p)
Reclaim(p) == \/ TakeTicket(p) \/ LookTicket(p) \/ BuryTicket(p) \/ FillTicket(p) \/ LookOwner(p)
              \/ LookAgain(p) \/ Retire(p) \/ LeaveTicket(p) \/ RemoveTicket(p)
Use(p) == \/ Mutate(p) \/ CheckLock(p) \/ WriteFile(p) \/ Dispose(p) \/ Release(p)
          \/ UnlinkOwner(p) \/ RemoveLock(p)

Next == Elapse \/ \E p \in Process : Acquire(p) \/ Reclaim(p) \/ Use(p) \/ Crash(p)

Spec == Init /\ [][Next]_vars

-----------------------------------------------------------------------------
(* Properties *)

Owner == Process \cup Ghost \cup {Nobody}

(* The variables stay in their types. *)
TypeOK ==
  /\ lock \in [there : BOOLEAN, owner : Owner, old : BOOLEAN]
  /\ ticket \in [there : BOOLEAN, maker : Process \cup {Nobody}, full : BOOLEAN, old : BOOLEAN]
  /\ file \in Nat
  /\ pc \in [Process -> Opening \cup Inside \cup Leaving \cup Done]
  /\ tries \in [Process -> 0 .. MaxTries] /\ claims \in [Process -> 0 .. MaxReclaims]
  /\ seen \in [Process -> Owner] /\ memory \in [Process -> Nat]
  /\ alone \in [Process -> BOOLEAN]
  /\ faults \in 0 .. MaxFaults /\ crashes \in 0 .. MaxCrashes

(* The store has one owner: no two living processes are inside it. *)
OneOwner == \A p, q \in Process : pc[p] \in Inside /\ pc[q] \in Inside => p = q

(* A process that has passed its check and is about to write, or is about   *)
(* to write the migrated state without one, holds the latest state in       *)
(* memory, so that its write undoes nobody's change.                        *)
WriterIsCurrent == \A p \in Process : pc[p] \in {"migrate", "write"} => memory[p] = file

(* A crash never shuts the store for good: a process that opens it when     *)
(* only old leftovers of dead processes are there gets in.                  *)
AloneGetsIn == \A p \in Process : alone[p] => pc[p] # "refused"

(* The lock of a process that has got in stays its own until it releases it *)
(* or dies: store.ts:231-232 says a live lock "is never deleted out from    *)
(* under its owner".                                                        *)
LiveLockKept ==
  [][\A p \in Process : pc[p] \in Inside /\ pc'[p] \in Inside /\ lock.owner = p => lock'.owner = p]_vars
=============================================================================
