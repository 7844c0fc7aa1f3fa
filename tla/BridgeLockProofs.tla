-------------------------- MODULE BridgeLockProofs --------------------------
(* Proofs about BridgeLock, for any processes, leftovers and bounds.  That  *)
(* the variables keep their types, and that leftovers never shut the store  *)
(* (the last part), holds in every behaviour.  That the lock has one owner  *)
(* holds as long as two things do not happen, wherever processes pause and  *)
(* die: a rename that takes the ticket of a recoverer that lives, and a     *)
(* lock directory that is without an owner for longer than the grace        *)
(* period while the process that makes or removes it lives.                 *)
(*                                                                          *)
(* The argument has two layers.  The ticket belongs to the one living       *)
(* process that is at work with it, or to a dead one (TicketInv); so one    *)
(* process at most is about to retire a lock, and the lock it retires is    *)
(* still stale then, since whoever makes or has a lock keeps it from being  *)
(* stale (LockInv).  From one owner at a time it follows that what an owner *)
(* holds in memory is what the file holds (MemoryInv).                      *)
EXTENDS BridgeLock, TLAPS

WithTicket == {"fill", "look", "again", "retire", "untick", "rmticket"}
Making == {"own", "clean", "rmclean", "rmdir"}
Having == Inside \cup {"release", "unlink"}

Places == Opening \cup Inside \cup Leaving \cup Done
LockType == [there : BOOLEAN, owner : Owner, old : BOOLEAN]
TicketType == [there : BOOLEAN, maker : Process \cup {Nobody}, full : BOOLEAN, old : BOOLEAN]

ControlType ==
  /\ lock \in LockType /\ ticket \in TicketType /\ pc \in [Process -> Places]
  /\ tries \in [Process -> 0 .. MaxTries] /\ claims \in [Process -> 0 .. MaxReclaims]
  /\ seen \in [Process -> Owner] /\ alone \in [Process -> BOOLEAN]
  /\ faults \in 0 .. MaxFaults /\ crashes \in 0 .. MaxCrashes
  /\ file \in Nat /\ memory \in [Process -> Nat]

(* The rename of a stale ticket takes that of no living process.            *)
TicketSpared == \A p \in Process : BuryTicket(p) => ~ticket.there \/ IsDead(ticket.maker)
(* Nobody lives that has been making a lock for longer than the grace       *)
(* period, or removing one.                                                 *)
GraceHeld == Elapse => \A p \in Process : pc[p] \notin Making
Careful == TicketSpared /\ GraceHeld

TicketInv ==
  /\ ticket.there => ticket.maker \in Process /\ pc[ticket.maker] \in WithTicket \cup {"dead"}
  /\ \A p \in Process : /\ pc[p] \in WithTicket => ticket.there /\ ticket.maker = p
                        /\ pc[p] \in WithTicket \ {"fill"} => ticket.full

LockInv ==
  /\ lock.owner # Nobody => lock.there
  /\ \A p \in Process : /\ pc[p] \in Making => lock.there /\ lock.owner = Nobody /\ ~lock.old
                        /\ pc[p] \in Having => lock.there /\ lock.owner = p
                        /\ pc[p] = "retire" => Stale
                        /\ pc[p] # "lost"
  /\ \A p, q \in Process : pc[p] \in Making /\ pc[q] \in Making => p = q

MemoryInv ==
  \A p \in Process : pc[p] \in {"migrate", "in", "check", "write"} => memory[p] = file

BridgeInv == ControlType /\ TicketInv /\ LockInv /\ MemoryInv

-----------------------------------------------------------------------------
(* Types *)

(* What the steps make of a lock and of a ticket. *)
LEMMA Records ==
  /\ NoLock \in LockType /\ NewLock \in LockType
  /\ NoTicket \in TicketType
  /\ \A p \in Process : NewTicket(p) \in TicketType
  /\ \A t \in TicketType : [t EXCEPT !.full = TRUE] \in TicketType
BY DEF NoLock, NewLock, NoTicket, NewTicket, LockType, TicketType, Owner

LEMMA Move ==
  ASSUME pc \in [Process -> Places], NEW p \in Process, NEW from, NEW to \in Places, Goes(p, from, to)
  PROVE  pc' \in [Process -> Places]
BY DEF Goes

LEMMA BridgeInitControl == Init => ControlType
<1> SUFFICES ASSUME Init PROVE ControlType
  OBVIOUS
<1>1. lock \in LockType /\ ticket \in TicketType
  BY Records DEF Init, LockType, Owner
<1>2. pc \in [Process -> Places] /\ seen \in [Process -> Owner] /\ file \in Nat
  BY DEF Init, Places, Done, Owner
<1> QED BY <1>1, <1>2, LockAssumption DEF Init, ControlType

LEMMA ControlStep == ControlType /\ [Next]_vars => ControlType'
<1> SUFFICES ASSUME ControlType, [Next]_vars PROVE ControlType'
  OBVIOUS
<1>1. \A x \in {"try", "stale", "ticket", "held", "bury", "fill", "look", "again", "retire", "untick",
                "rmticket", "own", "clean", "rmclean", "load", "migrate", "unread", "in", "check", "write",
                "release", "unlink", "rmdir", "idle", "refused", "lost", "closed", "dead"} : x \in Places
  BY DEF Places, Opening, Inside, Leaving, Done
<1>2. lock.owner \in Owner /\ Nobody \in Owner
  BY DEF ControlType, LockType, Owner
<1> USE LockAssumption DEF ControlType, disk, local
<1>3. CASE UNCHANGED vars
  BY <1>3 DEF vars
<1>4. CASE Elapse
  <2>1. lock' \in LockType /\ ticket' \in TicketType
    BY <1>4 DEF Elapse, LockType, TicketType
  <2> QED BY <1>4, <2>1 DEF Elapse
<1>5. ASSUME NEW p \in Process, Acquire(p) PROVE ControlType'
  <2>1. pc' \in [Process -> Places]
    BY <1>1, <1>5, Move DEF Acquire, Open, TryLock, LookStale, WriteOwner, CleanUp, RemoveUnowned, Load, Migrate, LoadFails
  <2>2. lock' \in LockType
    <3>1. CASE WriteOwner(p)
      <4>1. lock' = lock \/ lock' = [lock EXCEPT !.owner = p, !.old = FALSE]
        BY <3>1 DEF WriteOwner
      <4> QED BY <4>1 DEF LockType, Owner
    <3>2. CASE ~WriteOwner(p)
      BY <1>5, <3>2, Records DEF Acquire, Open, TryLock, LookStale, CleanUp, RemoveUnowned, Load, Migrate, LoadFails
    <3> QED BY <3>1, <3>2
  <2>3. tries' \in [Process -> 0 .. MaxTries]
    BY <1>5 DEF Acquire, Open, TryLock, MoreTries, LookStale, WriteOwner, CleanUp, RemoveUnowned, Load, Migrate, LoadFails
  <2>4. claims' \in [Process -> 0 .. MaxReclaims]
    BY <1>5 DEF Acquire, Open, TryLock, LookStale, WriteOwner, CleanUp, RemoveUnowned, Load, Migrate, LoadFails
  <2>6. alone' \in [Process -> BOOLEAN]
    <3>1. CASE Open(p)
      BY <3>1 DEF Open
    <3>2. CASE ~Open(p)
      BY <1>5, <3>2 DEF Acquire, TryLock, LookStale, WriteOwner, CleanUp, RemoveUnowned, Load, Migrate, LoadFails
    <3> QED BY <3>1, <3>2
  <2>5. faults' \in 0 .. MaxFaults /\ UNCHANGED <<ticket, seen, crashes>>
    BY <1>5 DEF Acquire, Open, TryLock, LookStale, WriteOwner, CleanUp, RemoveUnowned, Load, Migrate, LoadFails
  <2>7. file' \in Nat /\ memory' \in [Process -> Nat]
    BY <1>5 DEF Acquire, Open, TryLock, LookStale, WriteOwner, CleanUp, RemoveUnowned, Load, Migrate, LoadFails
  <2> QED BY <2>1, <2>2, <2>3, <2>4, <2>5, <2>6, <2>7
<1>6. ASSUME NEW p \in Process, Reclaim(p) PROVE ControlType'
  <2> USE DEF Reclaim, TakeTicket, LookTicket, BuryTicket, FillTicket, LookOwner, LookAgain,
              Retire, LeaveTicket, RemoveTicket
  <2>1. pc' \in [Process -> Places]
    BY <1>1, <1>6, Move
  <2>2. lock' \in LockType /\ ticket' \in TicketType
    BY <1>6, Records
  <2>3. claims' \in [Process -> 0 .. MaxReclaims] /\ seen' \in [Process -> Owner]
    BY <1>2, <1>6
  <2>4. UNCHANGED <<tries, alone, faults, crashes, file, memory>>
    BY <1>6
  <2> QED BY <2>1, <2>2, <2>3, <2>4
<1>7. ASSUME NEW p \in Process, Use(p) PROVE ControlType'
  <2> USE DEF Use, Mutate, CheckLock, WriteFile, Dispose, Release, UnlinkOwner, RemoveLock
  <2>1. pc' \in [Process -> Places]
    BY <1>1, <1>7, Move
  <2>2. lock' \in LockType
    BY <1>7, Records
  <2>3. UNCHANGED <<ticket, tries, claims, seen, alone, faults, crashes>>
    BY <1>7
  <2>4. file' \in Nat /\ memory' \in [Process -> Nat]
    BY <1>7
  <2> QED BY <2>1, <2>2, <2>3, <2>4
<1>8. ASSUME NEW p \in Process, Crash(p) PROVE ControlType'
  BY <1>1, <1>2, <1>8 DEF Crash
<1> QED BY <1>3, <1>4, <1>5, <1>6, <1>7, <1>8 DEF Next

-----------------------------------------------------------------------------
(* The ticket *)

(* A step of p that leaves the ticket alone, and p outside the work with it. *)
LEMMA TicketAlone ==
  ASSUME ControlType, TicketInv, NEW p \in Process, UNCHANGED ticket,
         pc' = [pc EXCEPT ![p] = pc'[p]], pc[p] \notin WithTicket \cup {"dead"}, pc'[p] \notin WithTicket
  PROVE  TicketInv'
BY DEF ControlType, TicketInv

LEMMA TicketStep == ControlType /\ TicketInv /\ [Next]_vars /\ [Careful]_vars => TicketInv'
<1> SUFFICES ASSUME ControlType, TicketInv, [Next]_vars, [Careful]_vars PROVE TicketInv'
  OBVIOUS
<1> USE LockAssumption DEF WithTicket, disk, local, Goes
<1>1. CASE UNCHANGED vars
  BY <1>1 DEF vars, TicketInv
<1>2. CASE Elapse
  BY <1>2 DEF Elapse, TicketInv, ControlType, TicketType
<1>3. ASSUME NEW p \in Process, Acquire(p) PROVE TicketInv'
  BY <1>3, TicketAlone DEF Acquire, Open, TryLock, LookStale, WriteOwner, CleanUp, RemoveUnowned, Load,
                           Migrate, LoadFails, ControlType
<1>4. ASSUME NEW p \in Process, Reclaim(p) PROVE TicketInv'
  <2>1. CASE TakeTicket(p)
    BY <2>1 DEF TakeTicket, NewTicket, TicketInv, ControlType
  <2>2. CASE LookTicket(p)
    BY <2>2, TicketAlone DEF LookTicket, ControlType
  <2>3. CASE BuryTicket(p)
    <3>1. pc[p] = "bury" /\ pc' = [pc EXCEPT ![p] = "ticket"] /\ ticket' = NoTicket
      BY <2>3 DEF BuryTicket
    <3>2. ~ticket.there \/ IsDead(ticket.maker)
      BY <2>3, <3>1 DEF Careful, TicketSpared, vars, ControlType
    <3>3. \A q \in Process : pc[q] \notin WithTicket
      BY <3>2 DEF TicketInv, IsDead
    <3> QED BY <3>1, <3>3 DEF TicketInv, ControlType, NoTicket
  <2>4. CASE FillTicket(p)
    BY <2>4 DEF FillTicket, TicketInv, ControlType, TicketType
  <2>5. CASE LookOwner(p) \/ LookAgain(p) \/ Retire(p)
    BY <2>5 DEF LookOwner, LookAgain, Retire, TicketInv, ControlType
  <2>6. CASE LeaveTicket(p)
    BY <2>6 DEF LeaveTicket, TicketInv, ControlType
  <2>7. CASE RemoveTicket(p)
    BY <2>7 DEF RemoveTicket, NoTicket, TicketInv, ControlType
  <2> QED BY <1>4, <2>1, <2>2, <2>3, <2>4, <2>5, <2>6, <2>7 DEF Reclaim
<1>5. ASSUME NEW p \in Process, Use(p) PROVE TicketInv'
  BY <1>5, TicketAlone DEF Use, Mutate, CheckLock, WriteFile, Dispose, Release, UnlinkOwner, RemoveLock, ControlType
<1>6. ASSUME NEW p \in Process, Crash(p) PROVE TicketInv'
  BY <1>6 DEF Crash, TicketInv, ControlType
<1> QED BY <1>1, <1>2, <1>3, <1>4, <1>5, <1>6 DEF Next

-----------------------------------------------------------------------------
(* The lock *)

(* A step of p that leaves the lock alone and does not enter a guarded part *)
(* of its program leaves the lock in order, and a lock that was stale so.   *)
LEMMA LockAlone ==
  ASSUME ControlType, LockInv, NEW p \in Process, UNCHANGED lock,
         pc' = [pc EXCEPT ![p] = pc'[p]],
         pc[p] # "dead",
         pc'[p] \in Making => pc[p] \in Making,
         pc'[p] \in Having => pc[p] \in Having,
         pc'[p] = "retire" => Stale,
         pc'[p] # "lost"
  PROVE  LockInv'
<1>1. Stale => Stale'
  BY LockAssumption DEF ControlType, Stale, IsDead
<1> QED BY <1>1, LockAssumption DEF ControlType, LockInv

LEMMA LockStep ==
  ControlType /\ TicketInv /\ LockInv /\ [Next]_vars /\ [Careful]_vars => LockInv'
<1> SUFFICES ASSUME ControlType, TicketInv, LockInv, [Next]_vars, [Careful]_vars PROVE LockInv'
  OBVIOUS
<1> USE LockAssumption DEF Making, Having, Inside, disk, local, Goes
<1>1. CASE UNCHANGED vars
  BY <1>1 DEF vars, LockInv, Stale, IsDead
<1>2. CASE Elapse
  <2>1. \A p \in Process : pc[p] \notin Making
    BY <1>2 DEF Careful, GraceHeld, Elapse, vars
  <2>2. lock' = [lock EXCEPT !.old = lock.there] /\ UNCHANGED pc
    BY <1>2 DEF Elapse
  <2>3. lock'.owner = lock.owner /\ lock'.there = lock.there /\ lock'.old = lock.there
    BY <2>2 DEF ControlType, LockType
  <2>4. Stale => Stale'
    BY <2>2, <2>3 DEF Stale, IsDead
  <2> QED BY <2>1, <2>2, <2>3, <2>4 DEF LockInv
<1>3. ASSUME NEW p \in Process, Acquire(p) PROVE LockInv'
  <2>1. CASE Open(p) \/ LookStale(p) \/ CleanUp(p) \/ Load(p) \/ Migrate(p)
    BY <2>1, LockAlone DEF Open, LookStale, CleanUp, Load, Migrate, LoadFails, ControlType
  <2>2. CASE TryLock(p)
    <3>1. CASE lock.there
      BY <2>2, <3>1, LockAlone DEF TryLock, ControlType
    <3>2. CASE ~lock.there
      <4>1. \A q \in Process : pc[q] \notin Making \cup Having \cup {"retire"}
        BY <3>2 DEF LockInv, Stale
      <4> QED BY <2>2, <3>2, <4>1 DEF TryLock, LockInv, ControlType, NewLock
    <3> QED BY <3>1, <3>2
  <2>3. CASE WriteOwner(p)
    <3>1. ~Stale /\ pc[p] = "own" /\ lock.there
      BY <2>3 DEF WriteOwner, LockInv, Stale
    <3>2. CASE UNCHANGED lock /\ pc' = [pc EXCEPT ![p] = "clean"]
      BY <3>1, <3>2, LockAlone DEF ControlType
    <3>3. CASE lock' = [lock EXCEPT !.owner = p, !.old = FALSE] /\ pc' = [pc EXCEPT ![p] = "load"]
      BY <3>1, <3>3 DEF LockInv, ControlType, LockType
    <3> QED BY <2>3, <3>1, <3>2, <3>3 DEF WriteOwner
  <2>4. CASE RemoveUnowned(p)
    <3>1. ~Stale /\ pc[p] = "rmclean"
      BY <2>4 DEF RemoveUnowned, LockInv, Stale
    <3> QED BY <2>4, <3>1 DEF RemoveUnowned, LockInv, ControlType, NoLock
  <2> QED BY <1>3, <2>1, <2>2, <2>3, <2>4 DEF Acquire
<1>4. ASSUME NEW p \in Process, Reclaim(p) PROVE LockInv'
  <2>1. CASE Retire(p)
    <3>1. Stale /\ pc[p] = "retire"
      BY <2>1 DEF Retire, LockInv
    <3>2. \A q \in Process : pc[q] \notin Making \cup Having
      BY <3>1 DEF LockInv, Stale, IsDead
    <3>3. \A q \in Process \ {p} : pc[q] # "retire"
      BY <3>1 DEF TicketInv, WithTicket
    <3> QED BY <2>1, <3>1, <3>2, <3>3 DEF Retire, LockInv, ControlType, NoLock
  <2>2. CASE ~Retire(p)
    BY <1>4, <2>2, LockAlone
       DEF Reclaim, TakeTicket, LookTicket, BuryTicket, FillTicket, LookOwner, LookAgain,
           MayRetire, LeaveTicket, RemoveTicket, ControlType
  <2> QED BY <2>1, <2>2
<1>5. ASSUME NEW p \in Process, Use(p) PROVE LockInv'
  <2>1. CASE Mutate(p) \/ CheckLock(p) \/ WriteFile(p)
    <3>1. pc[p] \in Having /\ OwnsLock(p)
      BY <2>1 DEF Mutate, CheckLock, WriteFile, LockInv, OwnsLock
    <3> QED BY <2>1, <3>1, LockAlone DEF Mutate, CheckLock, WriteFile, ControlType
  <2>2. CASE Dispose(p) \/ Release(p)
    <3>1. pc[p] \in Having /\ OwnsLock(p)
      BY <2>2 DEF Dispose, Release, LockInv, OwnsLock
    <3> QED BY <2>2, <3>1, LockAlone DEF Dispose, Release, ControlType
  <2>3. CASE UnlinkOwner(p)
    <3>1. lock.there /\ lock.owner = p /\ ~Stale /\ pc[p] = "unlink"
      BY <2>3 DEF UnlinkOwner, LockInv, Stale, IsDead
    <3>2. \A q \in Process \ {p} : pc[q] \notin Making \cup Having
      BY <3>1 DEF LockInv
    <3> QED BY <2>3, <3>1, <3>2 DEF UnlinkOwner, LockInv, ControlType, NewLock
  <2>4. CASE RemoveLock(p)
    <3>1. lock.owner = Nobody /\ ~Stale /\ pc[p] = "rmdir"
      BY <2>4 DEF RemoveLock, LockInv, Stale
    <3>2. \A q \in Process \ {p} : pc[q] \notin Making \cup Having
      BY <3>1 DEF LockInv
    <3> QED BY <2>4, <3>1, <3>2 DEF RemoveLock, LockInv, ControlType, NoLock
  <2> QED BY <1>5, <2>1, <2>2, <2>3, <2>4 DEF Use
<1>6. ASSUME NEW p \in Process, Crash(p) PROVE LockInv'
  BY <1>6, LockAlone DEF Crash, ControlType
<1> QED BY <1>1, <1>2, <1>3, <1>4, <1>5, <1>6 DEF Next

-----------------------------------------------------------------------------
(* The file *)

LEMMA MemoryStep ==
  ControlType /\ LockInv /\ MemoryInv /\ [Next]_vars => MemoryInv'
<1> SUFFICES ASSUME ControlType, LockInv, MemoryInv, [Next]_vars PROVE MemoryInv'
  OBVIOUS
<1> USE LockAssumption DEF ControlType, MemoryInv, disk, local, Goes
<1>1. CASE UNCHANGED vars \/ Elapse
  BY <1>1 DEF vars, Elapse
<1>2. ASSUME NEW p \in Process, UNCHANGED <<file, memory>>, pc' = [pc EXCEPT ![p] = pc'[p]],
             pc'[p] \notin {"migrate", "in", "check", "write"}
      PROVE  MemoryInv'
  BY <1>2
<1>3. ASSUME NEW p \in Process, Acquire(p) PROVE MemoryInv'
  <2>1. CASE Load(p)
    BY <2>1, <1>2 DEF Load, LoadFails
  <2>2. CASE Migrate(p)
    <3>1. \A q \in Process \ {p} : pc[q] \notin Inside
      BY <2>2 DEF Migrate, LoadFails, LockInv, Having, Inside
    <3> QED BY <1>2, <2>2, <3>1 DEF Migrate, LoadFails, Inside
  <2>3. CASE ~Load(p) /\ ~Migrate(p)
    BY <1>2, <1>3, <2>3 DEF Acquire, Open, TryLock, LookStale, WriteOwner, CleanUp, RemoveUnowned
  <2> QED BY <2>1, <2>2, <2>3
<1>4. ASSUME NEW p \in Process, Reclaim(p) PROVE MemoryInv'
  BY <1>2, <1>4 DEF Reclaim, TakeTicket, LookTicket, BuryTicket, FillTicket, LookOwner, LookAgain,
                    Retire, LeaveTicket, RemoveTicket
<1>5. ASSUME NEW p \in Process, Use(p) PROVE MemoryInv'
  <2>1. CASE WriteFile(p)
    <3>1. \A q \in Process \ {p} : pc[q] \notin Inside
      BY <2>1 DEF WriteFile, LockInv, Having, Inside
    <3> QED BY <2>1, <3>1 DEF WriteFile, Inside
  <2>2. CASE Mutate(p) \/ CheckLock(p)
    BY <2>2 DEF Mutate, CheckLock
  <2>3. CASE Dispose(p) \/ Release(p) \/ UnlinkOwner(p) \/ RemoveLock(p)
    BY <1>2, <2>3 DEF Dispose, Release, UnlinkOwner, RemoveLock
  <2> QED BY <1>5, <2>1, <2>2, <2>3 DEF Use
<1>6. ASSUME NEW p \in Process, Crash(p) PROVE MemoryInv'
  BY <1>6 DEF Crash
<1> QED BY <1>1, <1>3, <1>4, <1>5, <1>6 DEF Next

-----------------------------------------------------------------------------
(* The theorems *)

LEMMA BridgeInvariant == Spec /\ [][Careful]_vars => []BridgeInv
<1>1. Init => TicketInv
  BY DEF Init, TicketInv, NoTicket, WithTicket
<1>2. Init => LockInv
  <2> SUFFICES ASSUME Init PROVE LockInv
    OBVIOUS
  <2>1. lock.owner # Nobody => lock.there
    <3>1. CASE lock = NoLock
      BY <3>1 DEF NoLock
    <3>2. CASE lock \in [there : {TRUE}, owner : Ghost, old : {TRUE}]
      BY <3>2
    <3> QED BY <3>1, <3>2 DEF Init
  <2>2. \A p \in Process : pc[p] = "idle"
    BY DEF Init
  <2> QED BY <2>1, <2>2 DEF LockInv, Making, Having, Inside
<1>3. Init => MemoryInv
  BY LockAssumption DEF Init, MemoryInv
<1> QED
  BY <1>1, <1>2, <1>3, BridgeInitControl, ControlStep, TicketStep, LockStep, MemoryStep, PTL DEF Spec, BridgeInv

(* Every action keeps every variable of the store, the lock and the ticket  *)
(* in its type, in every behaviour.                                         *)
THEOREM BridgeTypeCorrect == Spec => []TypeOK
<1>1. ControlType => TypeOK
  BY DEF ControlType, LockType, TicketType, Places, TypeOK
<1> QED BY <1>1, BridgeInitControl, ControlStep, PTL DEF Spec

(* No two living processes are inside the store, however many recover the   *)
(* lock of a dead owner beside each other, and wherever they die or pause,  *)
(* as long as the rename of reclaimStale (store.ts:254) takes no living     *)
(* recoverer's ticket and no lock is without an owner past the grace period *)
(* while the process that makes or removes it lives.                        *)
THEOREM BridgeOneOwner == Spec /\ [][Careful]_vars => []OneOwner
<1>1. BridgeInv => OneOwner
  BY DEF BridgeInv, LockInv, Having, OneOwner
<1> QED BY <1>1, BridgeInvariant, PTL

(* Under the same hypothesis, a change that mutate() writes, or the state   *)
(* that load() migrates, undoes nobody's change.                            *)
THEOREM BridgeWriterIsCurrent == Spec /\ [][Careful]_vars => []WriterIsCurrent
<1>1. BridgeInv => WriterIsCurrent
  BY DEF BridgeInv, MemoryInv, WriterIsCurrent
<1> QED BY <1>1, BridgeInvariant, PTL

(* Under the same hypothesis, nobody deletes the lock of a living owner     *)
(* that is inside the store: the two exceptions are the only ways to it.    *)
THEOREM BridgeLiveLockKept == Spec /\ [][Careful]_vars => LiveLockKept
<1>1. ASSUME BridgeInv, BridgeInv', [Next]_vars
      PROVE  [\A p \in Process : pc[p] \in Inside /\ pc'[p] \in Inside /\ lock.owner = p => lock'.owner = p]_vars
  BY <1>1 DEF BridgeInv, LockInv, Having
<1> QED BY <1>1, BridgeInvariant, PTL DEF Spec, LiveLockKept
-----------------------------------------------------------------------------
(* A leftover never shuts the store, whatever stalls or dies, as long as    *)
(* there is an attempt after the first, and two to take the ticket.         *)

LeftTicket == ticket.there => TicketStale

(* A process that lost the lock never has it again.                         *)
LostInv == \A p \in Process : /\ pc[p] = "lost" => lock.owner # p
                              /\ pc[p] = "idle" => tries[p] = 0

(* Nobody acquires beside a process that opened alone; what it finds is     *)
(* stale until it has retired it, and then it is gone.                      *)
Beside(p, q) == pc[q] \in Done \cup {"release"} /\ (pc[q] \in {"lost", "release"} => lock.owner # q)
OnItsWay(p) ==
  /\ pc[p] \notin {"refused", "rmclean"}
  /\ pc[p] = "try" => ~lock.there \/ (tries[p] = 0 /\ Stale /\ LeftTicket)
  /\ pc[p] = "stale" => Stale /\ LeftTicket
  /\ pc[p] = "ticket" => Stale /\ LeftTicket /\ (claims[p] = 0 \/ (claims[p] = 1 /\ ~ticket.there))
  /\ pc[p] \in {"held", "bury"} => Stale /\ TicketStale /\ claims[p] = 1
  /\ pc[p] \in {"fill", "look"} => Stale
  /\ pc[p] = "again" => Stale /\ seen[p] = lock.owner
  /\ pc[p] \in {"untick", "rmticket"} => ~lock.there
AloneInv ==
  \A p \in Process : alone[p] => OnItsWay(p) /\ \A q \in Process \ {p} : Beside(p, q)

LEMMA LostStep == ControlType /\ LostInv /\ [Next]_vars => LostInv'
<1> SUFFICES ASSUME ControlType, LostInv, [Next]_vars PROVE LostInv'
  OBVIOUS
<1> USE LockAssumption DEF ControlType, LostInv, disk, local, Goes
<1>1. CASE UNCHANGED vars \/ Elapse
  BY <1>1 DEF vars, Elapse, LockType
<1>2. ASSUME NEW p \in Process, Acquire(p) PROVE LostInv'
  <2>1. CASE TryLock(p) \/ RemoveUnowned(p)
    BY <2>1 DEF TryLock, RemoveUnowned, NewLock, NoLock
  <2>2. CASE WriteOwner(p)
    <3>1. /\ pc' = [pc EXCEPT ![p] = pc'[p]] /\ pc'[p] \notin {"lost", "idle"}
          /\ lock'.owner \in {lock.owner, p} /\ UNCHANGED tries
      BY <2>2 DEF WriteOwner, LockType
    <3> QED BY <3>1
  <2>3. CASE Open(p) \/ LookStale(p) \/ CleanUp(p) \/ Load(p) \/ Migrate(p)
    BY <2>3 DEF Open, LookStale, CleanUp, Load, Migrate, LoadFails
  <2> QED BY <1>2, <2>1, <2>2, <2>3 DEF Acquire
<1>3. ASSUME NEW p \in Process, Reclaim(p) PROVE LostInv'
  BY <1>3 DEF Reclaim, TakeTicket, LookTicket, BuryTicket, FillTicket, LookOwner, LookAgain,
              Retire, LeaveTicket, RemoveTicket, NoLock
<1>4. ASSUME NEW p \in Process, Use(p) PROVE LostInv'
  BY <1>4 DEF Use, Mutate, CheckLock, OwnsLock, WriteFile, Dispose, Release, UnlinkOwner, RemoveLock, NoLock, NewLock
<1>5. ASSUME NEW p \in Process, Crash(p) PROVE LostInv'
  BY <1>5 DEF Crash
<1> QED BY <1>1, <1>2, <1>3, <1>4, <1>5 DEF Next

(* What is stale stays stale while the disk stays as it is, or gets older.  *)
LEMMA StaleStays ==
  ASSUME ControlType,
         UNCHANGED <<lock, ticket>> \/ Elapse,
         \A q \in Process : pc[q] = "dead" => pc'[q] = "dead"
  PROVE  (Stale => Stale') /\ (TicketStale => TicketStale') /\ (LeftTicket => LeftTicket')
         /\ lock'.owner = lock.owner /\ lock'.there = lock.there /\ ticket'.there = ticket.there
<1>1. CASE UNCHANGED <<lock, ticket>>
  BY <1>1 DEF Stale, TicketStale, LeftTicket, IsDead
<1>2. CASE Elapse
  BY <1>2 DEF ControlType, LockType, TicketType, Elapse, Stale, TicketStale, LeftTicket, IsDead
<1> QED BY <1>1, <1>2

LEMMA AloneStep ==
  ASSUME MaxTries # 0, MaxReclaims \notin {0, 1}
  PROVE  ControlType /\ LostInv /\ AloneInv /\ [Next]_vars => AloneInv'
<1> SUFFICES ASSUME ControlType, LostInv, AloneInv, [Next]_vars, NEW p \in Process, alone'[p]
             PROVE  OnItsWay(p)' /\ \A q \in Process \ {p} : Beside(p, q)'
  BY DEF AloneInv
<1> USE LockAssumption DEF ControlType
<1>1. CASE UNCHANGED vars \/ Elapse
  <2>1. UNCHANGED <<pc, tries, claims, seen, alone>>
    BY <1>1 DEF vars, local, Elapse
  <2>2. UNCHANGED <<lock, ticket>> \/ Elapse
    BY <1>1 DEF vars, disk
  <2> QED BY <2>1, <2>2, StaleStays DEF AloneInv, OnItsWay, Beside
<1>2. CASE Open(p)
  <2>1. Quiet(p) /\ LeftOver /\ UNCHANGED <<lock, ticket, tries, claims, seen>> /\ pc[p] = "idle"
        /\ pc' = [pc EXCEPT ![p] = "try"]
    BY <1>2 DEF Open, Goes, disk, local
  <2>2. ~lock.there \/ (tries[p] = 0 /\ Stale /\ LeftTicket)
    BY <2>1 DEF LeftOver, Stale, LeftTicket, TicketStale, LostInv
  <2>3. \A q \in Process : pc[q] = "dead" => pc'[q] = "dead"
    BY <2>1
  <2>4. pc'[p] = "try" /\ (~lock'.there \/ (tries'[p] = 0 /\ Stale' /\ LeftTicket'))
    BY <2>1, <2>2, <2>3, StaleStays
  <2>5. \A q \in Process \ {p} : Beside(p, q)'
    BY <2>1 DEF Quiet, Beside, LostInv, Done
  <2> QED BY <2>4, <2>5 DEF OnItsWay
<1>3. ASSUME NEW r \in Process, Open(r), r # p PROVE FALSE
  BY <1>3 DEF Open
<1>4. ASSUME NEW r \in Process, r # p, Acquire(r) \/ Reclaim(r) \/ Use(r) \/ Crash(r), ~Open(r)
      PROVE  OnItsWay(p)' /\ \A q \in Process \ {p} : Beside(p, q)'
  <2>1. alone[p]
    BY <1>4 DEF Acquire, TryLock, LookStale, WriteOwner, CleanUp, RemoveUnowned, Load, Migrate, LoadFails, Reclaim, TakeTicket,
                LookTicket, BuryTicket, FillTicket, LookOwner, LookAgain, Retire, LeaveTicket, RemoveTicket,
                Use, Mutate, CheckLock, WriteFile, Dispose, Release, UnlinkOwner, RemoveLock, Crash, local
  <2>2. OnItsWay(p) /\ (\A q \in Process \ {p} : Beside(p, q)) /\ Beside(p, r)
    BY <1>4, <2>1 DEF AloneInv
  <2>3. (Dispose(r) /\ pc[r] = "lost") \/ (Release(r) /\ ~OwnsLock(r)) \/ Crash(r)
    <3>1. pc[r] \in {"idle", "refused", "lost", "closed", "dead", "release"}
          /\ (pc[r] \in {"lost", "release"} => lock.owner # r)
      BY <2>2 DEF Beside, Done
    <3>2. ~Acquire(r)
      BY <1>4, <3>1 DEF Acquire, TryLock, LookStale, WriteOwner, CleanUp, RemoveUnowned, Load, Migrate, LoadFails, Goes
    <3>3. ~Reclaim(r)
      BY <3>1 DEF Reclaim, TakeTicket, LookTicket, BuryTicket, FillTicket, LookOwner, LookAgain, Retire,
                  LeaveTicket, RemoveTicket, Goes
    <3>4. CASE Use(r)
      BY <3>1, <3>4 DEF Use, Mutate, CheckLock, OwnsLock, WriteFile, Dispose, Release, UnlinkOwner, RemoveLock, Goes
    <3> QED BY <1>4, <3>2, <3>3, <3>4
  <2>4. /\ UNCHANGED <<lock, ticket>> /\ tries'[p] = tries[p] /\ claims'[p] = claims[p] /\ seen'[p] = seen[p]
        /\ pc' = [pc EXCEPT ![r] = pc'[r]] /\ pc[r] # "dead" /\ pc'[r] \in {"release", "closed", "dead"}
        /\ pc'[r] = "release" => lock.owner # r
    BY <1>4, <2>2, <2>3 DEF Dispose, Release, Crash, Goes, disk, local, Beside
  <2>5. /\ pc'[p] = pc[p] /\ \A q \in Process : pc[q] = "dead" => pc'[q] = "dead"
        /\ \A q \in Process \ {r} : pc'[q] = pc[q]
    BY <1>4, <2>4
  <2>6. OnItsWay(p)'
    BY <2>2, <2>4, <2>5, StaleStays DEF OnItsWay
  <2>7. \A q \in Process \ {p} : Beside(p, q)'
    BY <2>2, <2>4, <2>5 DEF Beside, Done
  <2> QED BY <2>6, <2>7
<1>5. ASSUME Acquire(p) \/ Reclaim(p) \/ Use(p) \/ Crash(p), ~Open(p)
      PROVE  OnItsWay(p)' /\ \A q \in Process \ {p} : Beside(p, q)'
  <2>1. alone[p] /\ ~CleanUp(p)
    BY <1>5 DEF Acquire, TryLock, LookStale, WriteOwner, CleanUp, RemoveUnowned, Load, Migrate, LoadFails, Reclaim, TakeTicket,
                LookTicket, BuryTicket, FillTicket, LookOwner, LookAgain, Retire, LeaveTicket, RemoveTicket,
                Use, Mutate, CheckLock, WriteFile, Dispose, Release, UnlinkOwner, RemoveLock, Crash, local
  <2>2. OnItsWay(p) /\ \A q \in Process \ {p} : Beside(p, q)
    BY <2>1 DEF AloneInv
  <2>3. /\ pc' = [pc EXCEPT ![p] = pc'[p]] /\ pc[p] # "dead"
        /\ lock'.owner \in {lock.owner, Nobody, p}
    <3> USE DEF Goes, disk, NoLock, NewLock
    <3>1. CASE Acquire(p)
      <4>1. CASE WriteOwner(p)
        BY <4>1 DEF WriteOwner, LockType
      <4> QED BY <1>5, <3>1, <4>1 DEF Acquire, TryLock, LookStale, CleanUp, RemoveUnowned, Load, Migrate, LoadFails
    <3>2. CASE Reclaim(p)
      BY <3>2 DEF Reclaim, TakeTicket, LookTicket, BuryTicket, FillTicket, LookOwner, LookAgain, Retire,
                  LeaveTicket, RemoveTicket
    <3>3. CASE Use(p)
      BY <3>3 DEF Use, Mutate, CheckLock, WriteFile, Dispose, Release, UnlinkOwner, RemoveLock
    <3>4. CASE Crash(p)
      BY <3>4 DEF Crash
    <3> QED BY <1>5, <3>1, <3>2, <3>3, <3>4
  <2>4. \A q \in Process \ {p} : Beside(p, q)'
    BY <2>2, <2>3 DEF Beside
  <2>5. \A q \in Process : pc[q] = "dead" => pc'[q] = "dead"
    BY <2>3
  <2>6. OnItsWay(p)'
    <3> USE DEF Goes, OnItsWay, disk, local
    <3>1. CASE UNCHANGED <<lock, ticket>>
      <4>1. (Stale => Stale') /\ (TicketStale => TicketStale') /\ (LeftTicket => LeftTicket')
        BY <2>5, <3>1, StaleStays
      <4>2. CASE TryLock(p)
        BY <2>2, <3>1, <4>1, <4>2 DEF TryLock, MoreTries
      <4>3. CASE LookStale(p) \/ LookTicket(p)
        BY <2>2, <3>1, <4>1, <4>3 DEF LookStale, LookTicket
      <4>6. CASE TakeTicket(p)
        BY <2>2, <3>1, <4>1, <4>6 DEF TakeTicket, LeftTicket
      <4>7. CASE BuryTicket(p)
        BY <2>2, <3>1, <4>1, <4>7 DEF BuryTicket, LeftTicket, NoTicket
      <4>4. CASE FillTicket(p) \/ LookOwner(p) \/ LookAgain(p) \/ Retire(p) \/ LeaveTicket(p) \/ RemoveTicket(p)
        BY <2>2, <3>1, <4>1, <4>4
           DEF FillTicket, LookOwner, LookAgain, MayRetire, Retire, LeaveTicket, RemoveTicket, NoLock
      <4>5. CASE WriteOwner(p) \/ RemoveUnowned(p) \/ Load(p) \/ Migrate(p) \/ Use(p) \/ Crash(p)
        BY <2>2, <4>5 DEF WriteOwner, RemoveUnowned, Load, Migrate, LoadFails, Use, Mutate, CheckLock, WriteFile, Dispose, Release,
                          UnlinkOwner, RemoveLock, Crash
      <4> QED BY <1>5, <2>1, <4>2, <4>3, <4>4, <4>5, <4>6, <4>7 DEF Acquire, Reclaim
    <3>2. CASE UNCHANGED lock /\ ticket' # ticket
      <4>1. Stale => Stale'
        BY <2>5, <3>2 DEF Stale, IsDead
      <4>2. TakeTicket(p) \/ BuryTicket(p) \/ FillTicket(p) \/ RemoveTicket(p)
        BY <1>5, <2>1, <3>2 DEF Acquire, Reclaim, TryLock, LookStale, WriteOwner, RemoveUnowned, Load, Migrate, LoadFails, LookTicket,
              LookOwner, LookAgain, Retire, LeaveTicket, Use, Mutate, CheckLock, WriteFile, Dispose, Release,
              UnlinkOwner, RemoveLock, Crash
      <4> QED BY <2>2, <3>2, <4>1, <4>2
              DEF TakeTicket, BuryTicket, FillTicket, RemoveTicket, NoTicket, LeftTicket
    <3>3. CASE lock' # lock
      <4>1. TryLock(p) \/ WriteOwner(p) \/ RemoveUnowned(p) \/ Retire(p) \/ UnlinkOwner(p) \/ RemoveLock(p)
        BY <1>5, <2>1, <3>3 DEF Acquire, Reclaim, LookStale, Load, Migrate, LoadFails, TakeTicket, LookTicket, BuryTicket, FillTicket,
              LookOwner, LookAgain, LeaveTicket, RemoveTicket, Use, Mutate, CheckLock, WriteFile, Dispose, Release, Crash
      <4> QED BY <2>2, <3>3, <4>1 DEF TryLock, WriteOwner, RemoveUnowned, Retire, UnlinkOwner, RemoveLock, NoLock
    <3> QED BY <3>1, <3>2, <3>3
  <2> QED BY <2>4, <2>6
<1> QED BY <1>1, <1>2, <1>3, <1>4, <1>5 DEF Next

(* A crash never shuts the store for good: a process that opens it when     *)
(* only old leftovers of dead processes are there gets in, within the       *)
(* attempts of acquire and reclaimStale.                                    *)
THEOREM BridgeAloneGetsIn == ASSUME MaxTries # 0, MaxReclaims \notin {0, 1} PROVE Spec => []AloneGetsIn
<1>1. Init => LostInv /\ AloneInv
  BY DEF Init, LostInv, AloneInv
<1>2. AloneInv => AloneGetsIn
  BY DEF AloneInv, OnItsWay, AloneGetsIn
<1> QED
  BY <1>1, <1>2, BridgeInitControl, ControlStep, LostStep, AloneStep, PTL DEF Spec
=============================================================================
