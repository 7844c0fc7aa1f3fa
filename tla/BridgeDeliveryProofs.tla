------------------------ MODULE BridgeDeliveryProofs ------------------------
(***************************************************************************)
(* Proofs about BridgeDelivery, for any number of tasks, rounds, messages, *)
(* attempts and reminders, any room in the outbox and any reports: no      *)
(* wake-up of a round in work is lost, every claimed round is told to      *)
(* stop, and notices do not pile up, although deliverTick decides about    *)
(* a snapshot beside every other handler and may die before it commits.    *)
(*                                                                         *)
(* The facts about tasks are those of BridgeRoundsProofs.                  *)
(***************************************************************************)
EXTENDS BridgeDelivery, BridgeRoundsProofs

-----------------------------------------------------------------------------
(* InOrder lists every value of a function over finitely many numbers once *)

LEMMA RankTellsApart ==
  ASSUME NEW S, S \subseteq Nat, IsFiniteSet(S), NEW x \in S, NEW y \in S, x < y
  PROVE  Cardinality(Before(S, x)) # Cardinality(Before(S, y))
<1>1. \A v \in Before(S, x) : v \in Before(S, y)
  BY DEF Before
<1>2. x \in Before(S, y) /\ x \notin Before(S, x)
  BY DEF Before
<1>3. IsFiniteSet(Before(S, y))
  BY FS_Subset DEF Before
<1> QED BY <1>1, <1>2, <1>3, FS_Subset

LEMMA RankBound ==
  ASSUME NEW S, S \subseteq Nat, IsFiniteSet(S), NEW x \in S
  PROVE  Cardinality(Before(S, x)) \in 0 .. Cardinality(S) - 1
<1>1. Before(S, x) \in SUBSET (S \ {x})
  BY DEF Before
<1>2. IsFiniteSet(S \ {x}) /\ Cardinality(S \ {x}) = Cardinality(S) - 1
  BY FS_RemoveElement
<1>3. IsFiniteSet(Before(S, x)) /\ Cardinality(Before(S, x)) <= Cardinality(S) - 1
  BY <1>1, <1>2, FS_Subset
<1>4. Cardinality(Before(S, x)) \in Nat /\ Cardinality(S) \in Nat
  BY <1>3, FS_CardinalityType
<1> HIDE DEF Before
<1> QED BY <1>3, <1>4

\* Where each place of the list was taken from
Lists(f, n, at) ==
    /\ n \in Nat /\ at \in [1 .. n -> DOMAIN f]
    /\ InOrder(f) = [k \in 1 .. n |-> f[at[k]]]
    /\ \A x \in DOMAIN f : \E k \in 1 .. n : at[k] = x
    /\ \A k, l \in 1 .. n : at[k] = at[l] => k = l

LEMMA InOrderLists ==
  ASSUME NEW S, S \subseteq Nat, IsFiniteSet(S), NEW f, DOMAIN f = S
  PROVE  \E n, at : Lists(f, n, at)
<1> DEFINE n == Cardinality(S)
           rank == [x \in S |-> Cardinality(Before(S, x)) + 1]
           at == [k \in 1 .. n |-> CHOOSE x \in S : Cardinality(Before(S, x)) = k - 1]
<1>0. \A x, y \in S : x < y => Cardinality(Before(S, x)) # Cardinality(Before(S, y))
  BY ZenonT(40), RankTellsApart
<1>1. n \in Nat
  BY FS_CardinalityType
<1>2. \A x \in S : Cardinality(Before(S, x)) \in 0 .. n - 1
  BY RankBound
<1> HIDE DEF n
<1>3. rank \in [S -> 1 .. n]
  BY <1>1, <1>2
<1>4. ASSUME NEW x \in S, NEW y \in S, rank[x] = rank[y] PROVE x = y
  <2>1. Cardinality(Before(S, x)) = Cardinality(Before(S, y))
    <3> DEFINE a == Cardinality(Before(S, x))
               b == Cardinality(Before(S, y))
    <3>1. a \in Nat /\ b \in Nat /\ a + 1 = b + 1
      BY <1>2, <1>4, <1>1
    <3> HIDE DEF a, b
    <3>2. a = b
      BY <3>1
    <3> QED BY <3>2 DEF a, b
  <2>2. x \in Nat /\ y \in Nat
    OBVIOUS
  <2>3. ~(x < y) /\ ~(y < x)
    BY <2>1, <1>0
  <2> QED BY <2>2, <2>3
<1>5. rank \in Injection(S, 1 .. n)
  <2> HIDE DEF rank
  <2> QED BY <1>3, <1>4, Fun_IsInj
<1>6. IsFiniteSet(1 .. n) /\ Cardinality(1 .. n) = n
  BY <1>1, FS_Interval
<1>7. rank \in Surjection(S, 1 .. n)
  <2> HIDE DEF rank
  <2> QED BY <1>5, <1>6, FS_Injection DEF n
<1>8. ASSUME NEW k \in 1 .. n PROVE \E x \in S : rank[x] = k
  <2> HIDE DEF rank
  <2> QED BY <1>7 DEF Surjection
<1>9. ASSUME NEW k \in 1 .. n PROVE \E x \in S : Cardinality(Before(S, x)) = k - 1
  <2>1. PICK x \in S : rank[x] = k
    BY <1>8
  <2> DEFINE a == Cardinality(Before(S, x))
  <2>2. a \in 0 .. n - 1 /\ a + 1 = k
    BY <1>2, <2>1
  <2> HIDE DEF a
  <2>3. a = k - 1
    BY <1>1, <2>2
  <2> QED BY <2>3 DEF a
<1>10. \A k \in 1 .. n : at[k] \in S /\ Cardinality(Before(S, at[k])) = k - 1
  BY <1>9
<1>11. InOrder(f) = [k \in 1 .. n |-> f[at[k]]]
  BY DEF InOrder, n, Before
<1> HIDE DEF at
<1>12. ASSUME NEW x \in S PROVE \E k \in 1 .. n : at[k] = x
  <2> DEFINE k == rank[x]
  <2>1. k \in 1 .. n /\ k = Cardinality(Before(S, x)) + 1
    BY <1>3
  <2>2. Cardinality(Before(S, at[k])) = k - 1 /\ at[k] \in S
    BY <1>10, <2>1
  <2>3. Cardinality(Before(S, at[k])) = Cardinality(Before(S, x))
    <3> DEFINE a == Cardinality(Before(S, at[k]))
               b == Cardinality(Before(S, x))
    <3>1. a = k - 1 /\ k = b + 1 /\ b \in 0 .. n - 1
      BY <1>2, <2>1, <2>2
    <3> HIDE DEF a, b, k
    <3> SUFFICES a = b
      BY DEF a, b
    <3> QED BY <3>1, <1>1
  <2> HIDE DEF k
  <2>4. at[k] \in Nat /\ x \in Nat
    BY <2>2
  <2>5. at[k] = x
    <3>1. ~(at[k] < x) /\ ~(x < at[k])
      BY <2>2, <2>3, <1>0
    <3> QED BY <2>4, <3>1
  <2> QED BY <2>1, <2>5
<1>13. ASSUME NEW k \in 1 .. n, NEW l \in 1 .. n, at[k] = at[l] PROVE k = l
  <2>1. k - 1 = l - 1
    BY <1>10, <1>13
  <2> QED BY <1>1, <2>1
<1>14. at \in [1 .. n -> S]
  <2>1. at = [k \in 1 .. n |-> at[k]]
    BY DEF at
  <2> QED BY <2>1, <1>10
<1> HIDE DEF rank
<1>15. Lists(f, n, at)
  BY <1>1, <1>11, <1>12, <1>13, <1>14 DEF Lists
<1> QED BY <1>15

\* An event for each of some numbers makes a sequence of such events.
LEMMA InOrderSeq ==
  ASSUME NEW S, S \subseteq Nat, IsFiniteSet(S), NEW T, NEW f \in [S -> T]
  PROVE  /\ InOrder(f) \in Seq(T)
         /\ \A k \in 1 .. Len(InOrder(f)) : \E x \in S : InOrder(f)[k] = f[x]
         /\ \A x \in S : \E k \in 1 .. Len(InOrder(f)) : InOrder(f)[k] = f[x]
<1>1. DOMAIN f = S
  OBVIOUS
<1>2. PICK n, at : Lists(f, n, at)
  BY <1>1, InOrderLists
<1>3. /\ n \in Nat /\ at \in [1 .. n -> S] /\ InOrder(f) = [k \in 1 .. n |-> f[at[k]]]
      /\ \A x \in S : \E k \in 1 .. n : at[k] = x
  BY <1>1, <1>2 DEF Lists
<1>4. Len(InOrder(f)) = n /\ InOrder(f) \in Seq(T) /\ \A k \in 1 .. n : InOrder(f)[k] = f[at[k]]
  <2> DEFINE g == [k \in 1 .. n |-> f[at[k]]]
  <2>1. \A k \in 1 .. n : at[k] \in S /\ f[at[k]] \in T
    BY <1>3
  <2>2. g \in [1 .. n -> T] /\ \A k \in 1 .. n : g[k] = f[at[k]]
    BY <2>1
  <2> HIDE DEF g
  <2>3. g \in Seq(T) /\ Len(g) = n
    BY <1>3, <2>2
  <2>4. InOrder(f) = g
    BY <1>3 DEF g
  <2> QED BY <2>2, <2>3, <2>4
<1>5. \A k \in 1 .. n : at[k] \in S
  BY <1>3
<1>6. \A x \in S : \E k \in 1 .. n : InOrder(f)[k] = f[x]
  <2>1. ASSUME NEW x \in S PROVE \E k \in 1 .. n : InOrder(f)[k] = f[x]
    <3>1. PICK k \in 1 .. n : at[k] = x
      BY <1>3
    <3> QED BY <1>4, <3>1
  <2> QED BY <2>1
<1> QED BY <1>4, <1>5, <1>6

-----------------------------------------------------------------------------
(* What the handlers make of the need to be told *)

\* A round in work that has to be told something
Needy(task) == Holds(task) /\ NeedsWake(task)

\* Rounds that no rule about telling tells apart
Alike(a, b) ==
    /\ a.status = b.status /\ a.claimed = b.claimed /\ a.stop = b.stop
    /\ a.reported = b.reported /\ a.read = b.read
TaskAlike(a, b) ==
    /\ Len(a.rounds) = Len(b.rounds) /\ a.messages = b.messages /\ a.canceled = b.canceled
    /\ \A r \in 1 .. Len(b.rounds) : Alike(a.rounds[r], b.rounds[r])

\* A round that Dot has not claimed is not asked to stop: it is stopped here.
Unstopped(task) ==
    \A r \in 1 .. Len(task.rounds) : task.rounds[r].status \in {"queued", "dispatched"} => ~task.rounds[r].stop
\* No step takes a round or a message of a task back.
Grown(old, new) ==
    /\ Len(new.rounds) = Len(old.rounds) \/ Len(new.rounds) > Len(old.rounds)
    /\ Len(old.rounds) = 0 \/ new.messages = old.messages \/ new.messages > old.messages
\* There is a round or a message that was not there before.
Further(old, new) ==
    Grown(old, new) /\ (Len(new.rounds) > Len(old.rounds) \/ new.messages > old.messages)
\* A step asks no further round to stop.
StopsKept(old, new) ==
    \A r \in 1 .. Len(new.rounds) :
      MustStop(new.rounds[r]) => r <= Len(old.rounds) /\ MustStop(old.rounds[r])
Lenient(old, new) == Unstopped(new) /\ StopsKept(old, new)

LEMMA RecomputeAlike ==
  ASSUME NEW task \in TaskRow, task.rounds # <<>>
  PROVE  TaskAlike(Recompute(task), task)
<1> DEFINE new == Recompute(task)
           k == Newest(task)
           result == Current(task).result
           covers == result.read >= task.messages
           judged == [task.rounds[k] EXCEPT !.result = [result EXCEPT !.covers = covers]]
<1>1. k \in 1 .. Len(task.rounds) /\ task.rounds \in Seq(RoundType)
  BY DEF TaskRow, Newest
<1>2. task.rounds[k] \in RoundType /\ result = task.rounds[k].result
  BY <1>1 DEF Current, Newest
<1>3. CASE result.given
  <2>1. judged \in RoundType /\ Alike(judged, task.rounds[k])
    <3>1. covers \in BOOLEAN
      OBVIOUS
    <3> HIDE DEF covers, result
    <3>2. [result EXCEPT !.covers = covers] \in [read : 0 .. MaxMessages, covers : BOOLEAN, given : BOOLEAN]
      BY <1>2, <3>1 DEF RoundType
    <3> QED BY <1>2, <3>2 DEF RoundType, Alike
  <2>2. new = WithRound(task, k, judged)
    BY <1>2, <1>3 DEF Recompute, WithRound, TaskRow
  <2> HIDE DEF judged, k
  <2> DEFINE row == WithRound(task, k, judged)
  <2>3. /\ Len(row.rounds) = Len(task.rounds) /\ row.rounds[k] = judged
        /\ \A q \in 1 .. Len(task.rounds) : q # k => row.rounds[q] = task.rounds[q]
        /\ row.messages = task.messages /\ row.canceled = task.canceled
    BY ZenonT(40), <1>1, <2>1, RoundRow
  <2>4. new = row
    BY <2>2
  <2> HIDE DEF row, new
  <2>5. ASSUME NEW q \in 1 .. Len(task.rounds) PROVE Alike(row.rounds[q], task.rounds[q])
    BY <2>1, <2>3 DEF Alike
  <2> QED BY <2>3, <2>4, <2>5 DEF TaskAlike, new
<1>4. CASE ~result.given
  <2>1. new = task
    BY <1>4 DEF Recompute
  <2> QED BY <2>1 DEF TaskAlike, Alike
<1> QED BY <1>3, <1>4

LEMMA StatusAlike ==
  ASSUME NEW task \in TaskRow, task.rounds # <<>>, NEW round \in RoundType
  PROVE  LET new == WithStatus(task, round)  k == Newest(task) IN
         /\ Alike(new.rounds[k], round) /\ new.canceled = task.canceled
<1> DEFINE new == WithStatus(task, round)
           k == Newest(task)
           given == [round EXCEPT !.wait = IF round.status = "dispatched" THEN @ ELSE NoWait]
           kept == WithRound(task, k, given)
<1>1. k \in 1 .. Len(task.rounds)
  BY DEF TaskRow, Newest
<1>2. given \in RoundType /\ Alike(given, round)
  BY DEF RoundType, NoWait, Alike
<1>3. new = [kept EXCEPT !.status = round.status]
  BY DEF WithStatus
<1> HIDE DEF given
<1>4. /\ kept \in TaskRow /\ kept.rounds[k] = given /\ kept.canceled = task.canceled
  BY ZenonT(40), <1>1, <1>2, RoundRow
<1> HIDE DEF kept
<1>5. new.rounds = kept.rounds /\ new.canceled = kept.canceled
  BY <1>3, <1>4 DEF TaskRow
<1> HIDE DEF new, k
<1> QED BY <1>2, <1>4, <1>5 DEF new, k

LEMMA OpenAlike ==
  ASSUME NEW task \in TaskRow, Unstopped(task)
  PROVE  Lenient(task, OpenRound(task)) /\ OpenRound(task).canceled = task.canceled
<1> DEFINE new == OpenRound(task)
           n == Len(task.rounds)
           past == [r \in DOMAIN task.rounds |-> Superseded(task.rounds[r])]
<1>1. task.rounds \in Seq(RoundType) /\ n \in Nat /\ DOMAIN task.rounds = 1 .. n
  BY DEF TaskRow
<1>2. /\ Len(new.rounds) = n + 1 /\ new.rounds[n + 1] = NewRound
      /\ \A q \in 1 .. n : new.rounds[q].status = task.rounds[q].status
  BY OpenRow
<1>3. new.rounds = Append(past, NewRound) /\ new.canceled = task.canceled
  BY DEF OpenRound, TaskRow
<1>4. ASSUME NEW r \in 1 .. n
      PROVE  /\ Superseded(task.rounds[r]).stop => task.rounds[r].stop
             /\ MustStop(Superseded(task.rounds[r])) => MustStop(task.rounds[r])
  <2>1. task.rounds[r] \in RoundType
    BY <1>1
  <2>2. /\ Superseded(task.rounds[r]).claimed = task.rounds[r].claimed
        /\ Superseded(task.rounds[r]).reported = task.rounds[r].reported
        /\ Superseded(task.rounds[r]).stop = (task.rounds[r].stop /\ task.rounds[r].claimed)
    BY <2>1 DEF Superseded, RoundType
  <2> QED BY <2>2 DEF MustStop
<1>5. Len(past) = n /\ \A r \in 1 .. n : past[r] = Superseded(task.rounds[r])
  BY <1>1
<1>6. \A r \in 1 .. n : new.rounds[r] = Superseded(task.rounds[r])
  <2> HIDE DEF past
  <2>1. \A r \in 1 .. n : Append(past, NewRound)[r] = past[r]
    <3>1. past \in Seq({Superseded(task.rounds[r]) : r \in 1 .. n})
      BY <1>1, <1>5 DEF past
    <3> QED BY <3>1, <1>5
  <2> QED BY <1>3, <1>5, <2>1
<1> HIDE DEF new, past
<1>7. ~NewRound.stop /\ ~MustStop(NewRound)
  BY DEF NewRound, MustStop
<1>8. \A r \in 1 .. n + 1 : r \in 1 .. n \/ r = n + 1
  BY <1>1
<1>9. Unstopped(new)
  BY <1>1, <1>2, <1>4, <1>6, <1>7, <1>8 DEF Unstopped
<1>10. StopsKept(task, new)
  BY <1>1, <1>2, <1>4, <1>6, <1>7, <1>8 DEF StopsKept
<1> QED BY <1>3, <1>9, <1>10 DEF Lenient, new

\* What is alike needs the same.
LEMMA AlikeNeeds ==
  ASSUME NEW a \in TaskRow, NEW b \in TaskRow, TaskAlike(a, b)
  PROVE  /\ Needy(a) => Needy(b)
         /\ Newest(a) = Newest(b) /\ a.messages = b.messages
         /\ Unstopped(b) => Lenient(b, a)
<1>1. Len(a.rounds) = Len(b.rounds) /\ Len(b.rounds) \in Nat
  BY DEF TaskRow, TaskAlike
<1>2. Needy(a) => Needy(b)
  <2> SUFFICES ASSUME Needy(a) PROVE Needy(b)
    OBVIOUS
  <2>1. b.rounds # <<>> /\ Len(b.rounds) \in 1 .. Len(b.rounds)
    BY <1>1 DEF Needy, Holds, TaskRow
  <2>2. Alike(Current(a), Current(b)) /\ a.canceled = b.canceled /\ a.messages = b.messages
    BY <1>1, <2>1 DEF TaskAlike, Current
  <2> DEFINE x == Current(a)
             y == Current(b)
  <2>3. x.status \in Occupying /\ ~x.stop /\ ~a.canceled /\ x.read < a.messages
    BY DEF Needy, Holds, NeedsWake, Occupying, Working
  <2>4. y.status \in Occupying /\ ~y.stop /\ ~b.canceled /\ y.read < b.messages
    BY <2>2, <2>3 DEF Alike
  <2> HIDE DEF x, y
  <2> QED BY <2>1, <2>4 DEF Needy, Holds, NeedsWake, x, y
<1>3. Unstopped(b) => Lenient(b, a)
  BY <1>1 DEF Unstopped, Lenient, StopsKept, MustStop, TaskAlike, Alike
<1> QED BY <1>1, <1>2, <1>3 DEF TaskAlike, Newest

LEMMA LenientTrans ==
  ASSUME NEW a, NEW b, NEW c, Len(b.rounds) \in Nat, Len(c.rounds) = Len(b.rounds), Lenient(a, b), Lenient(b, c)
  PROVE  Lenient(a, c)
BY DEF Lenient, StopsKept

\* One round of a task is replaced.
OneRound(old, new, r, round) ==
    /\ old \in TaskRow /\ new \in TaskRow /\ r \in 1 .. Len(old.rounds)
    /\ Len(new.rounds) = Len(old.rounds) /\ new.messages = old.messages
    /\ old.canceled => new.canceled
    /\ \A q \in 1 .. Len(old.rounds) : q # r => new.rounds[q] = old.rounds[q]
    /\ Alike(new.rounds[r], round)
Wants(round, messages) == round.status \in Occupying /\ ~round.stop /\ round.read < messages

LEMMA OneRoundNeeds ==
  ASSUME NEW old, NEW new, NEW r, NEW round, OneRound(old, new, r, round), Unstopped(old),
         round.status \in {"queued", "dispatched"} => ~round.stop
  PROVE  /\ Unstopped(new) /\ Newest(new) = Newest(old) /\ new.messages = old.messages /\ new.rounds # <<>>
         /\ \A q \in 1 .. Len(new.rounds) : MustStop(new.rounds[q]) => q = r \/ MustStop(old.rounds[q])
         /\ (MustStop(round) => MustStop(old.rounds[r])) => Lenient(old, new)
         /\ (r = Newest(old) /\ Wants(round, old.messages) => Wants(old.rounds[r], old.messages)) => (Needy(new) => Needy(old))
<1>1. Len(old.rounds) \in Nat \ {0} /\ new.rounds # <<>> /\ old.rounds # <<>> /\ r \in 1 .. Len(old.rounds)
      /\ Len(new.rounds) = Len(old.rounds) /\ Newest(new) = Newest(old) /\ new.messages = old.messages
  BY DEF OneRound, TaskRow, Newest
<1>2. \A q \in 1 .. Len(old.rounds) : q # r => new.rounds[q] = old.rounds[q]
  BY DEF OneRound
<1>3. /\ new.rounds[r].status = round.status /\ new.rounds[r].stop = round.stop /\ new.rounds[r].read = round.read
      /\ MustStop(new.rounds[r]) = MustStop(round)
  BY DEF OneRound, Alike, MustStop
<1>4. Unstopped(new)
  BY <1>1, <1>2, <1>3 DEF Unstopped
<1>5. \A q \in 1 .. Len(new.rounds) : MustStop(new.rounds[q]) => q = r \/ MustStop(old.rounds[q])
  BY <1>1, <1>2
<1>6. ASSUME MustStop(round) => MustStop(old.rounds[r]) PROVE Lenient(old, new)
  BY <1>1, <1>3, <1>4, <1>5, <1>6 DEF Lenient, StopsKept
<1>7. ASSUME r = Newest(old) /\ Wants(round, old.messages) => Wants(old.rounds[r], old.messages), Needy(new)
      PROVE  Needy(old)
  <2> DEFINE x == new.rounds[Newest(old)]
             y == old.rounds[Newest(old)]
  <2>1. Current(new) = x /\ Current(old) = y /\ Newest(old) \in 1 .. Len(old.rounds)
    BY <1>1 DEF Current, Newest
  <2> HIDE DEF x, y
  <2>2. Wants(x, old.messages) /\ ~new.canceled
    BY <1>1, <1>7, <2>1 DEF Needy, Holds, NeedsWake, Wants, Occupying, Working
  <2>3. Wants(y, old.messages)
    <3>1. CASE r = Newest(old)
      BY <1>3, <1>7, <2>2, <3>1 DEF Wants, x, y
    <3>2. CASE r # Newest(old)
      BY <1>2, <2>1, <2>2, <3>2 DEF x, y
    <3> QED BY <3>1, <3>2
  <2>4. ~old.canceled
    BY <2>2 DEF OneRound
  <2> QED BY <1>1, <2>1, <2>3, <2>4 DEF Needy, Holds, NeedsWake, Wants
<1> QED BY <1>1, <1>4, <1>5, <1>6, <1>7

LEMMA StatusOne ==
  ASSUME NEW old \in TaskRow, old.rounds # <<>>, NEW round \in RoundType
  PROVE  OneRound(old, WithStatus(old, round), Newest(old), round)
<1> DEFINE new == WithStatus(old, round)
<1>1. Newest(old) \in 1 .. Len(old.rounds)
  BY DEF TaskRow, Newest
<1>2. /\ new \in TaskRow /\ Len(new.rounds) = Len(old.rounds)
      /\ \A q \in 1 .. Len(old.rounds) : q # Newest(old) => new.rounds[q] = old.rounds[q]
      /\ new.messages = old.messages
  BY StatusRow
<1>3. Alike(new.rounds[Newest(old)], round) /\ new.canceled = old.canceled
  BY StatusAlike
<1> HIDE DEF new
<1> QED BY <1>1, <1>2, <1>3 DEF OneRound, new

LEMMA RoundOne ==
  ASSUME NEW old \in TaskRow, NEW r \in 1 .. Len(old.rounds), NEW round \in RoundType
  PROVE  OneRound(old, WithRound(old, r, round), r, round)
<1> DEFINE new == WithRound(old, r, round)
<1>1. /\ new \in TaskRow /\ Len(new.rounds) = Len(old.rounds) /\ new.rounds[r] = round
      /\ \A q \in 1 .. Len(old.rounds) : q # r => new.rounds[q] = old.rounds[q]
      /\ new.messages = old.messages /\ new.canceled = old.canceled
  <2>1. new \in TaskRow
    BY ZenonT(40), RoundRow
  <2>2. new = [old EXCEPT !.rounds = [old.rounds EXCEPT ![r] = round]]
    BY DEF WithRound, TaskRow
  <2>3. new.rounds = [old.rounds EXCEPT ![r] = round] /\ new.messages = old.messages /\ new.canceled = old.canceled
    BY <2>2 DEF TaskRow
  <2>4. old.rounds \in Seq(RoundType)
    BY DEF TaskRow
  <2> HIDE DEF new
  <2> QED BY <2>1, <2>3, <2>4
<1> HIDE DEF new
<1> QED BY <1>1 DEF OneRound, Alike, new

\* Saving a task keeps what it needs.
LEMMA SavedNeeds ==
  ASSUME TasksInv, NEW t \in Tasks, NEW task \in TaskRow, task.rounds # <<>>, Save(t, task)
  PROVE  LET new == tasks'[t] IN
         /\ new \in TaskRow /\ new.rounds # <<>>
         /\ Needy(new) => Needy(task)
         /\ Newest(new) = Newest(task) /\ new.messages = task.messages
         /\ Unstopped(task) => Lenient(task, new)
         /\ \A old : Lenient(old, task) => Lenient(old, new)
<1> DEFINE new == Recompute(task)
<1>1. tasks'[t] = new
  BY DEF Save, TasksInv
<1>2. TaskAlike(new, task) /\ new \in TaskRow
  BY RecomputeAlike, RecomputeRow
<1> HIDE DEF new
<1>3. Len(new.rounds) = Len(task.rounds) /\ Len(task.rounds) \in Nat /\ new.rounds # <<>>
  BY <1>2 DEF TaskAlike, TaskRow
<1>4. /\ Needy(new) => Needy(task)
      /\ Newest(new) = Newest(task) /\ new.messages = task.messages
      /\ Unstopped(task) => Lenient(task, new)
  BY <1>2, AlikeNeeds
<1>5. ASSUME NEW old, Lenient(old, task) PROVE Lenient(old, new)
  <2>1. Lenient(task, new)
    BY <1>4, <1>5 DEF Lenient
  <2> QED BY <1>3, <1>5, <2>1, LenientTrans
<1> QED BY <1>1, <1>2, <1>3, <1>4, <1>5

\* What the handlers below start from
LEMMA HandlerOld ==
  ASSUME TasksInv, NEW t \in Tasks
  PROVE  /\ tasks[t] \in TaskRow /\ tasks[t].messages \in 0 .. MaxMessages
         /\ Exists(t) => /\ tasks[t].rounds # <<>> /\ Newest(tasks[t]) \in 1 .. Len(tasks[t].rounds)
                         /\ Current(tasks[t]) = tasks[t].rounds[Newest(tasks[t])] /\ Current(tasks[t]) \in RoundType
         /\ \A r \in 1 .. Len(tasks[t].rounds) :
              tasks[t].rounds[r] \in RoundType
              /\ (tasks[t].rounds[r].claimed => tasks[t].rounds[r].status \in Working \cup Terminal)
              /\ (tasks[t].rounds[r].closed => tasks[t].rounds[r].status = "stopped")
BY DEF TasksInv, Sound, WellFormed, TaskRow, Exists, Newest, Current

LEMMA MessageNeeds ==
  ASSUME TasksInv, NEW t \in Tasks, NEW base \in TaskRow, base.rounds # <<>>, base.messages < MaxMessages,
         Save(t, AppendUserMessage(base)), NEW old, Lenient(old, base)
  PROVE  /\ Lenient(old, tasks'[t]) /\ tasks'[t].messages = base.messages + 1
         /\ Len(tasks'[t].rounds) = Len(base.rounds)
<1> DEFINE more == [base EXCEPT !.messages = @ + 1]
<1>1. base.messages + 1 \in 0 .. MaxMessages
  BY RoundsAssumption DEF TaskRow
<1>2. more \in TaskRow /\ more.rounds = base.rounds /\ more.messages = base.messages + 1
  BY <1>1 DEF TaskRow
<1> HIDE DEF more
<1>3. Lenient(old, more)
  BY <1>2 DEF Lenient, StopsKept, Unstopped
<1>4. Recompute(more) \in TaskRow /\ TaskAlike(Recompute(more), more)
  BY <1>2, RecomputeRow, RecomputeAlike
<1>5. Len(Recompute(more).rounds) = Len(more.rounds) /\ Len(more.rounds) \in Nat \ {0} /\ Recompute(more).rounds # <<>>
  BY <1>2, <1>4 DEF TaskAlike, TaskRow
<1>6. Lenient(more, Recompute(more))
  BY <1>2, <1>3, <1>4, AlikeNeeds DEF Lenient
<1>7. Lenient(old, Recompute(more))
  BY <1>3, <1>5, <1>6, LenientTrans
<1>8. Save(t, Recompute(more))
  BY DEF AppendUserMessage, more
<1>9. Recompute(more).messages = base.messages + 1 /\ Newest(Recompute(more)) = Len(base.rounds)
  BY <1>2, <1>4, <1>5 DEF TaskAlike, Newest
<1>10. /\ Newest(tasks'[t]) = Newest(Recompute(more)) /\ tasks'[t].messages = Recompute(more).messages
       /\ Lenient(old, tasks'[t])
  BY <1>4, <1>5, <1>7, <1>8, SavedNeeds
<1> QED BY <1>9, <1>10 DEF Newest

LEMMA RetryAlike ==
  ASSUME NEW task \in TaskRow, Unstopped(task)
  PROVE  Lenient(task, RetryRound(task)) /\ RetryRound(task) \in TaskRow /\ RetryRound(task).rounds # <<>>
         /\ RetryRound(task).messages = task.messages /\ Len(RetryRound(task).rounds) = Len(task.rounds) + 1
<1> DEFINE open == OpenRound(task)
           new == [open EXCEPT !.canceled = FALSE]
<1>1. open \in TaskRow /\ Len(open.rounds) = Len(task.rounds) + 1 /\ open.messages = task.messages
  BY OpenRow
<1>2. Lenient(task, open)
  BY OpenAlike
<1>3. RetryRound(task) = new
  BY DEF RetryRound
<1> HIDE DEF open
<1>4. new \in TaskRow /\ new.rounds = open.rounds /\ new.messages = open.messages
  BY <1>1 DEF TaskRow
<1>5. Len(task.rounds) \in Nat
  BY DEF TaskRow
<1> HIDE DEF new
<1>6. Lenient(task, new)
  BY <1>2, <1>4 DEF Lenient, StopsKept, Unstopped
<1> QED BY <1>1, <1>3, <1>4, <1>5, <1>6

\* A message or another round asks nothing to stop.
LEMMA TellsNeeds ==
  ASSUME TasksInv, NEW t \in Tasks, Unstopped(tasks[t]),
         \/ AddMessage(t) \/ CreateRound(t) \/ Retry(t)
         \/ \E steer \in BOOLEAN : Prompt(t, steer)
  PROVE  Lenient(tasks[t], tasks'[t]) /\ Further(tasks[t], tasks'[t])
<1> DEFINE old == tasks[t]
           good(new) == Lenient(old, new) /\ Further(old, new)
<1>1. /\ old \in TaskRow /\ Lenient(old, old) /\ Len(old.rounds) \in Nat /\ old.messages \in Nat
      /\ Exists(t) => old.rounds # <<>>
  <2>1. old \in TaskRow /\ (Exists(t) => old.rounds # <<>>)
    BY HandlerOld
  <2> QED BY <2>1, RoundsAssumption DEF Lenient, StopsKept, TaskRow
<1>2. /\ OpenRound(old) \in TaskRow /\ OpenRound(old).rounds # <<>> /\ Lenient(old, OpenRound(old))
      /\ OpenRound(old).messages = old.messages /\ Len(OpenRound(old).rounds) = Len(old.rounds) + 1
  <2>1. /\ OpenRound(old) \in TaskRow /\ Len(OpenRound(old).rounds) = Len(old.rounds) + 1
        /\ OpenRound(old).messages = old.messages
    BY <1>1, OpenRow
  <2>2. Len(old.rounds) \in Nat
    BY <1>1 DEF TaskRow
  <2> QED BY <1>1, <2>1, <2>2, OpenAlike
<1>3. /\ RetryRound(old) \in TaskRow /\ RetryRound(old).rounds # <<>> /\ Lenient(old, RetryRound(old))
      /\ RetryRound(old).messages = old.messages /\ Len(RetryRound(old).rounds) = Len(old.rounds) + 1
  BY <1>1, RetryAlike
<1>4. ASSUME NEW base, base \in {old, OpenRound(old), RetryRound(old)}, Exists(t), old.messages < MaxMessages,
             Save(t, AppendUserMessage(base))
      PROVE  good(tasks'[t])
  <2>1. base \in TaskRow /\ base.rounds # <<>> /\ Lenient(old, base) /\ base.messages = old.messages
        /\ (Len(base.rounds) = Len(old.rounds) \/ Len(base.rounds) = Len(old.rounds) + 1)
    BY <1>1, <1>2, <1>3, <1>4
  <2>2. /\ Lenient(old, tasks'[t]) /\ tasks'[t].messages = base.messages + 1
        /\ Len(tasks'[t].rounds) = Len(base.rounds)
    BY <1>4, <2>1, MessageNeeds
  <2> QED BY <1>1, <2>1, <2>2 DEF Further, Grown
\* Another round, and no message
<1>41. ASSUME NEW base \in TaskRow, base.rounds # <<>>, Lenient(old, base), base.messages = old.messages,
              Len(base.rounds) = Len(old.rounds) + 1, Save(t, base)
       PROVE  good(tasks'[t])
  <2>1. /\ Lenient(old, tasks'[t]) /\ tasks'[t].messages = base.messages
        /\ Newest(tasks'[t]) = Newest(base)
    BY <1>41, SavedNeeds
  <2> QED BY <1>1, <1>41, <2>1 DEF Further, Grown, Newest
<1>5. CASE AddMessage(t)
  BY <1>4, <1>5 DEF AddMessage
<1>6. CASE CreateRound(t)
  <2>1. Save(t, OpenRound(old))
    BY <1>6 DEF CreateRound
  <2> QED BY <1>2, <1>41, <2>1
<1>7. CASE Retry(t)
  <2>1. Save(t, RetryRound(old))
    BY <1>7 DEF Retry
  <2> QED BY <1>3, <1>41, <2>1
<1>8. ASSUME NEW steer \in BOOLEAN, Prompt(t, steer) PROVE good(tasks'[t])
  <2> DEFINE base == IF old.status = "completed" THEN OpenRound(old)
                     ELSE IF old.status \in {"failed", "stopped"} THEN RetryRound(old) ELSE old
  <2>1. Exists(t) /\ old.messages < MaxMessages /\ Save(t, AppendUserMessage(base))
    BY <1>8 DEF Prompt
  <2>2. base \in {old, OpenRound(old), RetryRound(old)}
    OBVIOUS
  <2> HIDE DEF base
  <2> QED BY <1>4, <2>1, <2>2
<1> QED BY <1>5, <1>6, <1>7, <1>8

LEMMA CreateNeeds ==
  ASSUME TasksInv, NEW t \in Tasks, CreateTask(t)
  PROVE  Lenient(tasks[t], tasks'[t]) /\ ~Needy(tasks'[t]) /\ Grown(tasks[t], tasks'[t])
<1> DEFINE open == OpenRound(NoTask)
           first == [open EXCEPT !.messages = 1]
<1>1. NoTask \in TaskRow /\ NoTask.rounds = <<>> /\ Unstopped(NoTask)
  BY RoundsAssumption DEF NoTask, TaskRow, Unstopped, Statuses
<1>2. open \in TaskRow /\ Len(open.rounds) = 1 /\ open.rounds[1] = NewRound
  <2>1. Len(NoTask.rounds) = 0
    BY <1>1
  <2>2. /\ open \in TaskRow /\ Len(open.rounds) = Len(NoTask.rounds) + 1
        /\ open.rounds[Len(NoTask.rounds) + 1] = NewRound
    BY <1>1, OpenRow
  <2> HIDE DEF open
  <2> QED BY <2>1, <2>2
<1> HIDE DEF open
<1>3. first \in TaskRow /\ first.rounds = open.rounds /\ first.messages = 1
  <2>1. 1 \in 0 .. MaxMessages
    BY RoundsAssumption
  <2> QED BY <1>2, <2>1 DEF TaskRow
<1> HIDE DEF first
<1>4. Save(t, first)
  BY DEF CreateTask, first, open
<1>5. ~Needy(first)
  BY <1>2, <1>3 DEF Needy, Holds, Current, NewRound, Occupying, Working
<1>6. Lenient(tasks[t], first)
  BY <1>2, <1>3 DEF Lenient, StopsKept, Unstopped, MustStop, NewRound
<1>7. /\ Lenient(tasks[t], tasks'[t]) /\ ~Needy(tasks'[t])
      /\ Newest(tasks'[t]) = Newest(first) /\ tasks'[t].messages = first.messages
  BY <1>2, <1>3, <1>4, <1>5, <1>6, SavedNeeds
<1>8. Grown(tasks[t], tasks'[t])
  <2>1. Len(tasks[t].rounds) = 0 /\ tasks[t].messages \in Nat
    BY HandlerOld, RoundsAssumption DEF CreateTask, Exists
  <2>2. Len(tasks'[t].rounds) = 1 /\ tasks'[t].messages = 1
    BY <1>2, <1>3, <1>7 DEF Newest
  <2> QED BY <2>1, <2>2 DEF Grown
<1> QED BY <1>7, <1>8

\* A stop ends the need to be told, and asks the current round alone to stop.
LEMMA StopsNeeds ==
  ASSUME TasksInv, NEW t \in Tasks, Unstopped(tasks[t]), Cancel(t) \/ CloseLocal(t)
  PROVE  /\ Unstopped(tasks'[t]) /\ ~Needy(tasks'[t]) /\ tasks'[t].rounds # <<>> /\ Grown(tasks[t], tasks'[t])
         /\ \A r \in 1 .. Len(tasks'[t].rounds) :
              MustStop(tasks'[t].rounds[r]) =>
                r = Newest(tasks'[t]) \/ (r <= Len(tasks[t].rounds) /\ MustStop(tasks[t].rounds[r]))
<1> DEFINE old == tasks[t]
           k == Newest(old)
           round == Current(old)
           good(mid) ==
             /\ mid \in TaskRow /\ mid.rounds # <<>> /\ Unstopped(mid) /\ ~Needy(mid) /\ Newest(mid) = k
             /\ Len(mid.rounds) = Len(old.rounds) /\ mid.messages = old.messages
             /\ \A r \in 1 .. Len(mid.rounds) : MustStop(mid.rounds[r]) => r = k \/ MustStop(old.rounds[r])
<1>1. /\ Exists(t) /\ old \in TaskRow /\ old.rounds # <<>> /\ k \in 1 .. Len(old.rounds) /\ round = old.rounds[k]
      /\ round \in RoundType /\ (round.claimed => round.status \in Working \cup Terminal)
      /\ Len(old.rounds) \in Nat
  <2>1. Exists(t)
    BY DEF Cancel, CloseLocal
  <2> QED BY <2>1, HandlerOld DEF TaskRow
\* A replaced current round that wants nothing
<1>2. ASSUME NEW new \in RoundType, ~Wants(new, old.messages),
             new.status \in {"queued", "dispatched"} => ~new.stop
      PROVE  good(WithStatus(old, new))
  <2> DEFINE mid == WithStatus(old, new)
  <2>1. OneRound(old, mid, k, new)
    BY <1>1, StatusOne
  <2> HIDE DEF mid
  <2>2. mid \in TaskRow /\ Len(mid.rounds) = Len(old.rounds) /\ Alike(mid.rounds[k], new)
    BY <2>1 DEF OneRound
  <2>3. /\ Unstopped(mid) /\ Newest(mid) = k /\ mid.messages = old.messages /\ mid.rounds # <<>>
        /\ \A q \in 1 .. Len(mid.rounds) : MustStop(mid.rounds[q]) => q = k \/ MustStop(old.rounds[q])
    BY <1>2, <2>1, OneRoundNeeds
  <2>4. ~Needy(mid)
    <3> DEFINE x == mid.rounds[k]
    <3>1. Current(mid) = x
      BY <2>3 DEF Current, Newest
    <3>2. ~Wants(x, mid.messages)
      BY <1>2, <2>2, <2>3 DEF Wants, Alike
    <3> HIDE DEF x
    <3> QED BY <3>1, <3>2 DEF Needy, Holds, NeedsWake, Wants
  <2> HIDE DEF k
  <2> QED BY <2>2, <2>3, <2>4 DEF mid
<1> HIDE DEF k
<1>3. ASSUME NEW mid, good(mid), Save(t, mid)
      PROVE  /\ Unstopped(tasks'[t]) /\ ~Needy(tasks'[t]) /\ tasks'[t].rounds # <<>> /\ Grown(old, tasks'[t])
             /\ \A r \in 1 .. Len(tasks'[t].rounds) :
                  MustStop(tasks'[t].rounds[r]) =>
                    r = Newest(tasks'[t]) \/ (r <= Len(old.rounds) /\ MustStop(old.rounds[r]))
  <2> DEFINE new == tasks'[t]
  <2>1. /\ new \in TaskRow /\ new.rounds # <<>> /\ ~Needy(new) /\ Newest(new) = k /\ Lenient(mid, new)
        /\ new.messages = mid.messages
    BY <1>3, SavedNeeds
  <2> HIDE DEF new
  <2>2. Len(new.rounds) = k /\ Len(mid.rounds) = k
    BY <1>3, <2>1 DEF Newest
  <2>3. Grown(old, new)
    BY <1>3, <2>1, <2>2 DEF Grown
  <2> QED BY <1>1, <1>3, <2>1, <2>2, <2>3 DEF Lenient, StopsKept, new
<1>4. CASE Cancel(t)
  <2> DEFINE asked == [round EXCEPT !.stop = TRUE]
             ended == [asked EXCEPT !.status = "stopped"]
  <2>1. /\ asked \in RoundType /\ asked.status = round.status /\ asked.stop
        /\ ended \in RoundType /\ ended.status = "stopped"
    <3>1. asked \in RoundType /\ asked.status = round.status /\ asked.stop
      BY <1>1 DEF RoundType
    <3> HIDE DEF asked
    <3> QED BY <3>1 DEF RoundType, Statuses, Terminal
  <2>2. CASE Unclaimed(round)
    <3> DEFINE mid == WithStatus(old, ended)
               out == [mid EXCEPT !.canceled = TRUE]
    <3>1. Save(t, out)
      BY <1>4, <2>2 DEF Cancel
    <3> HIDE DEF asked, ended
    <3>2. good(mid)
      BY <1>2, <2>1 DEF Wants, Occupying, Working
    <3> HIDE DEF mid
    <3>3. out \in TaskRow /\ out.rounds = mid.rounds /\ out.canceled /\ out.messages = mid.messages
      BY <3>2 DEF TaskRow
    <3> HIDE DEF out
    <3>4. good(out)
      BY <3>2, <3>3 DEF Unstopped, Needy, NeedsWake, Newest
    <3> QED BY <1>3, <3>1, <3>4
  <2>3. CASE ~Unclaimed(round)
    <3>1. Save(t, WithStatus(old, asked)) /\ round.status \notin {"queued", "dispatched"}
      BY <1>1, <1>4, <2>3 DEF Cancel, Unclaimed, Working, Terminal
    <3> HIDE DEF asked
    <3>2. good(WithStatus(old, asked))
      BY <1>2, <2>1, <3>1 DEF Wants
    <3> QED BY <1>3, <3>1, <3>2
  <2> QED BY <2>2, <2>3
<1>5. CASE CloseLocal(t)
  <2> DEFINE ended == [round EXCEPT !.status = "stopped", !.closed = TRUE]
  <2>1. Save(t, WithStatus(old, ended))
    BY <1>5 DEF CloseLocal
  <2>2. ended \in RoundType /\ ended.status = "stopped"
    BY <1>1 DEF RoundType, Statuses, Terminal
  <2> HIDE DEF ended
  <2>3. good(WithStatus(old, ended))
    BY <1>2, <2>2 DEF Wants, Occupying, Working
  <2> QED BY <1>3, <2>1, <2>3
<1> QED BY <1>4, <1>5

\* What Dot says makes nothing wait to be told, and asks no further round to stop.
AnswerKeeps(old, new) ==
    /\ Lenient(old, new) /\ Grown(old, new)
    /\ Needy(new) => Needy(old) /\ Newest(new) = Newest(old) /\ new.messages = old.messages

LEMMA AnswersNeeds ==
  ASSUME TasksInv, NEW t \in Tasks, Unstopped(tasks[t]), DotStep(t)
  PROVE  AnswerKeeps(tasks[t], tasks'[t])
<1> DEFINE old == tasks[t]
           k == Newest(old)
           round == Current(old)
<1>1. /\ old \in TaskRow /\ old.messages \in 0 .. MaxMessages
      /\ Exists(t) => /\ old.rounds # <<>> /\ k \in 1 .. Len(old.rounds) /\ round = old.rounds[k] /\ round \in RoundType
      /\ \A r \in 1 .. Len(old.rounds) :
           old.rounds[r] \in RoundType
           /\ (old.rounds[r].claimed => old.rounds[r].status \in Working \cup Terminal)
           /\ (old.rounds[r].closed => old.rounds[r].status = "stopped")
  BY HandlerOld
<1>2. ASSUME NEW mid, NEW r, NEW new \in RoundType, OneRound(old, mid, r, new), Save(t, mid),
             new.status \in {"queued", "dispatched"} => ~new.stop,
             MustStop(new) => MustStop(old.rounds[r]),
             r = k /\ Wants(new, old.messages) => Wants(old.rounds[r], old.messages)
      PROVE  AnswerKeeps(old, tasks'[t])
  <2>1. /\ mid.rounds # <<>> /\ Newest(mid) = k /\ mid.messages = old.messages /\ Lenient(old, mid)
        /\ Needy(mid) => Needy(old)
    BY <1>2, OneRoundNeeds
  <2>2. mid \in TaskRow
    BY <1>2 DEF OneRound
  <2> HIDE DEF k
  <2>3. /\ Needy(tasks'[t]) => Needy(mid)
        /\ Newest(tasks'[t]) = k /\ tasks'[t].messages = old.messages /\ Lenient(old, tasks'[t])
    BY <1>2, <2>1, <2>2, SavedNeeds
  <2>4. Grown(old, tasks'[t])
    BY <2>3 DEF Grown, Newest, k
  <2> QED BY <2>1, <2>3, <2>4 DEF AnswerKeeps, k
<1>3. CASE Claim(t)
  <2> DEFINE claimed == [round EXCEPT !.status = "claimed", !.claimed = TRUE]
  <2>1. /\ Exists(t) /\ round.status = "dispatched" /\ Save(t, WithStatus(old, claimed)) /\ old.rounds # <<>>
        /\ k \in 1 .. Len(old.rounds) /\ round = old.rounds[k] /\ round \in RoundType
    BY <1>1, <1>3 DEF Claim
  <2>2. /\ claimed \in RoundType /\ claimed.status = "claimed" /\ claimed.stop = round.stop /\ claimed.read = round.read
    BY <2>1 DEF RoundType, Statuses, Occupying, Working
  <2>3. ~round.stop
    BY <2>1 DEF Unstopped
  <2> HIDE DEF claimed, k
  <2>4. OneRound(old, WithStatus(old, claimed), k, claimed)
    BY <1>1, <2>1, <2>2, StatusOne DEF k
  <2>5. /\ claimed.status \in {"queued", "dispatched"} => ~claimed.stop
        /\ MustStop(claimed) => MustStop(old.rounds[k])
        /\ k = k /\ Wants(claimed, old.messages) => Wants(old.rounds[k], old.messages)
    BY <2>1, <2>2, <2>3 DEF Wants, MustStop, Occupying
  <2> QED BY <1>2, <2>1, <2>2, <2>4, <2>5
<1>4. ASSUME NEW r \in DOMAIN old.rounds, NEW read \in 0 .. old.messages, NEW kind \in Reports,
             ReportProgress(t, r, kind, read)
      PROVE  AnswerKeeps(old, tasks'[t])
  <2> DEFINE was == old.rounds[r]
             seen == [was EXCEPT !.read = IF r = Newest(old) /\ read > @ THEN read ELSE @,
                                 !.reported = @ \/ (kind = "stopped" /\ was.stop)]
             moved == [seen EXCEPT !.status = kind]
  <2>1. r \in 1 .. Len(old.rounds) /\ was \in RoundType /\ Exists(t) /\ was.claimed
        /\ old.rounds # <<>> /\ was.status \in Working \cup Terminal
    BY SMTT(30), <1>1, <1>4 DEF ReportProgress, Exists, TaskRow
  <2>2. /\ seen \in RoundType /\ seen.status = was.status /\ seen.stop = was.stop /\ seen.claimed = was.claimed
        /\ seen.read >= was.read /\ (was.reported => seen.reported) /\ seen.read \in Nat /\ was.read \in Nat
    <3>1. read \in 0 .. MaxMessages
      BY <1>1, RoundsAssumption
    <3> DEFINE far == IF r = Newest(old) /\ read > was.read THEN read ELSE was.read
               ack == was.reported \/ (kind = "stopped" /\ was.stop)
    <3>2. far \in 0 .. MaxMessages /\ far >= was.read /\ far \in Nat /\ was.read \in Nat
      BY <2>1, <3>1, RoundsAssumption DEF RoundType
    <3>3. ack \in BOOLEAN /\ (was.reported => ack)
      OBVIOUS
    <3>4. seen = [was EXCEPT !.read = far, !.reported = ack]
      OBVIOUS
    <3> HIDE DEF far, ack
    <3>5. /\ seen \in RoundType /\ seen.status = was.status /\ seen.stop = was.stop /\ seen.claimed = was.claimed
          /\ seen.read = far /\ seen.reported = ack
      BY <2>1, <3>2, <3>3, <3>4 DEF RoundType
    <3> HIDE DEF seen
    <3> QED BY <3>2, <3>3, <3>5
  <2>3. MustStop(seen) => MustStop(was)
    BY <2>2 DEF MustStop
  <2>4. CASE HistoryOnly(old, r, kind, read)
    <3>1. Save(t, WithRound(old, r, seen))
      BY <1>4, <2>4 DEF ReportProgress
    <3> HIDE DEF seen
    <3>2. OneRound(old, WithRound(old, r, seen), r, seen)
      BY <1>1, <2>1, <2>2, RoundOne
    <3>3. Wants(seen, old.messages) => Wants(was, old.messages)
      BY <1>1, <2>2 DEF Wants
    <3>4. seen.status \in {"queued", "dispatched"} => ~seen.stop
      BY <2>1, <2>2 DEF Working, Terminal
    <3> HIDE DEF k
    <3> QED BY <1>2, <2>2, <2>3, <3>1, <3>2, <3>3, <3>4
  <2>5. CASE ~HistoryOnly(old, r, kind, read)
    <3>1. Save(t, WithStatus(old, moved)) /\ r = k /\ was.status \notin Terminal
      BY <1>4, <2>5 DEF ReportProgress, HistoryOnly
    <3> HIDE DEF seen
    <3>2. kind \in {"running", "failed", "stopped"}
      BY RoundsAssumption
    <3>3. /\ moved \in RoundType /\ moved.status = kind /\ moved.stop = was.stop
          /\ moved.read = seen.read /\ MustStop(moved) = MustStop(seen)
      BY <2>2, <3>2 DEF RoundType, Statuses, Occupying, Working, Terminal, MustStop
    <3> HIDE DEF moved
    <3>4. OneRound(old, WithStatus(old, moved), r, moved)
      BY <1>1, <2>1, <3>1, <3>3, StatusOne
    <3>5. Wants(moved, old.messages) => Wants(was, old.messages)
      BY <1>1, <2>1, <2>2, <3>1, <3>3 DEF Wants, Occupying, Working
    <3>6. moved.status \in {"queued", "dispatched"} => ~moved.stop
      BY <3>2, <3>3
    <3> HIDE DEF k
    <3> QED BY <1>2, <2>3, <3>1, <3>3, <3>4, <3>5, <3>6
  <2> QED BY <2>4, <2>5
<1>5. ASSUME NEW r \in DOMAIN old.rounds, NEW read \in 0 .. old.messages, SubmitResult(t, r, read)
      PROVE  AnswerKeeps(old, tasks'[t])
  <2> DEFINE was == old.rounds[r]
             given == [was EXCEPT !.result = [read |-> read, covers |-> read >= old.messages, given |-> TRUE],
                                  !.read = IF read > @ THEN read ELSE @]
             ended == [given EXCEPT !.status = "completed"]
  <2>1. r \in 1 .. Len(old.rounds) /\ was \in RoundType /\ Exists(t) /\ was.claimed
        /\ old.rounds # <<>> /\ was.status \in Working \cup Terminal
    BY <1>1, <1>5 DEF SubmitResult, Exists, TaskRow
  <2>2. /\ given \in RoundType /\ given.status = was.status /\ given.stop = was.stop /\ given.claimed = was.claimed
        /\ given.reported = was.reported /\ given.read >= was.read /\ given.read \in Nat /\ was.read \in Nat
    <3>1. read \in 0 .. MaxMessages
      BY <1>1, RoundsAssumption
    <3> DEFINE far == IF read > was.read THEN read ELSE was.read
               result == [read |-> read, covers |-> read >= old.messages, given |-> TRUE]
    <3>2. far \in 0 .. MaxMessages /\ far >= was.read /\ far \in Nat /\ was.read \in Nat
      BY <2>1, <3>1, RoundsAssumption DEF RoundType
    <3>3. result \in [read : 0 .. MaxMessages, covers : BOOLEAN, given : BOOLEAN]
      BY <3>1
    <3>4. given = [was EXCEPT !.result = result, !.read = far]
      OBVIOUS
    <3> HIDE DEF far, result
    <3>5. /\ given \in RoundType /\ given.status = was.status /\ given.stop = was.stop /\ given.claimed = was.claimed
          /\ given.reported = was.reported /\ given.read = far
      BY <2>1, <3>2, <3>3, <3>4 DEF RoundType
    <3> HIDE DEF given
    <3> QED BY <3>2, <3>5
  <2>3. MustStop(given) => MustStop(was)
    BY <2>2 DEF MustStop
  <2>4. CASE Accepts(old, r)
    <3>1. Save(t, WithStatus(old, ended)) /\ r = k
      BY <1>5, <2>4 DEF SubmitResult, Accepts
    <3> HIDE DEF given
    <3>2. ended \in RoundType /\ ended.status = "completed" /\ MustStop(ended) = MustStop(given)
      BY <2>2 DEF RoundType, Statuses, Terminal, MustStop
    <3> HIDE DEF ended
    <3>3. OneRound(old, WithStatus(old, ended), r, ended)
      BY <1>1, <2>1, <3>1, <3>2, StatusOne
    <3>4. ~Wants(ended, old.messages)
      BY <3>2 DEF Wants, Occupying, Working
    <3> HIDE DEF k
    <3> QED BY <1>2, <2>3, <3>1, <3>2, <3>3, <3>4
  <2>5. CASE ~Accepts(old, r) /\ r = k
    <3>1. Save(t, WithRound(old, r, given))
      BY <1>5, <2>5 DEF SubmitResult
    <3> HIDE DEF given
    <3>2. OneRound(old, WithRound(old, r, given), r, given)
      BY <1>1, <2>1, <2>2, RoundOne
    <3>3. Wants(given, old.messages) => Wants(was, old.messages)
      BY <1>1, <2>2 DEF Wants
    <3>4. given.status \in {"queued", "dispatched"} => ~given.stop
      BY <2>1, <2>2 DEF Working, Terminal
    <3> HIDE DEF k
    <3> QED BY <1>2, <2>2, <2>3, <3>1, <3>2, <3>3, <3>4
  <2>6. CASE ~Accepts(old, r) /\ r # k
    BY <1>5, <2>6 DEF SubmitResult
  <2> QED BY <2>4, <2>5, <2>6
<1> QED BY <1>3, <1>4, <1>5 DEF DotStep

\* Handing rounds out asks nothing to stop.
LEMMA SendNeeds ==
  ASSUME TasksInv, NEW S \in SUBSET Queued, SendOut(S), NEW t \in S, Unstopped(tasks[t])
  PROVE  Lenient(tasks[t], tasks'[t]) /\ Newest(tasks'[t]) = Newest(tasks[t]) /\ tasks'[t].messages = tasks[t].messages
<1> DEFINE old == tasks[t]
           k == Newest(old)
           sent == [Current(old) EXCEPT !.status = "dispatched"]
           mid == WithStatus(old, sent)
           new == Recompute(mid)
<1>1. t \in Tasks /\ Exists(t) /\ Current(old).status = "queued" /\ tasks'[t] = new
  BY DEF Queued, SendOut
<1>2. /\ old \in TaskRow /\ old.rounds # <<>> /\ k \in 1 .. Len(old.rounds)
      /\ Current(old) = old.rounds[k] /\ Current(old) \in RoundType
  BY <1>1, HandlerOld
<1>3. sent \in RoundType /\ sent.status = "dispatched" /\ sent.stop = Current(old).stop
      /\ MustStop(sent) = MustStop(old.rounds[k])
  BY <1>2 DEF RoundType, Statuses, Occupying, MustStop
<1>4. ~Current(old).stop
  BY <1>1, <1>2 DEF Unstopped
<1> HIDE DEF sent
<1>5. OneRound(old, mid, k, sent)
  BY <1>2, <1>3, StatusOne
<1> HIDE DEF mid
<1>6. /\ Lenient(old, mid) /\ Newest(mid) = k /\ mid.messages = old.messages /\ mid.rounds # <<>>
  BY <1>3, <1>4, <1>5, OneRoundNeeds
<1>7. mid \in TaskRow
  BY <1>5 DEF OneRound
<1>8. new \in TaskRow /\ TaskAlike(new, mid)
  BY <1>6, <1>7, RecomputeRow, RecomputeAlike
<1> HIDE DEF new
<1>9. Newest(new) = Newest(mid) /\ new.messages = mid.messages /\ Lenient(mid, new)
  BY <1>6, <1>7, <1>8, AlikeNeeds DEF Lenient
<1>10. Len(mid.rounds) \in Nat /\ Len(new.rounds) = Len(mid.rounds)
  BY <1>7, <1>8 DEF TaskAlike, TaskRow
<1>11. Lenient(old, new)
  BY <1>6, <1>9, <1>10, LenientTrans
<1> HIDE DEF k
<1> QED BY <1>1, <1>6, <1>9, <1>11 DEF k

-----------------------------------------------------------------------------
(* The outbox *)

Decisions == {"none", "refused", "obsolete", "delivered", "gone", "retry"}
TickType == [on : BOOLEAN, next : Nat, upto : Nat, live : BOOLEAN, decided : Seq(Decisions)]

\* Reminders are wake-ups.
EventRows == {e \in EventType : e.recovery => e.kind = "wake"}

\* deliverTick has decided about the events it has read, and about no others.
OutboxInv ==
    /\ events \in Seq(EventRows) /\ tick \in TickType
    /\ tick.upto <= Len(events) /\ tick.next <= tick.upto + 1 /\ Len(tick.decided) = tick.upto
    /\ tick.on => tick.next # 0
    /\ \A i \in 1 .. tick.upto : tick.decided[i] = "retry" => events[i].attempts + 1 <= MaxAttempts

\* An event that counts: it is not obsolete and deliverTick has not decided that it is.
Stands(i) == events[i].status # "obsolete" /\ (i <= tick.upto => tick.decided[i] # "obsolete")
\* A reminder does not count: it is obsolete as soon as the round is claimed.
IsNews(e, t, r, m) ==
    e.task = t /\ e.round = r /\ e.kind = "wake" /\ e.seq >= m /\ ~e.recovery
IsStop(e, t, r) == e.task = t /\ e.round = r /\ e.kind = "cancel"
HasNews(t, r, m) ==
    \/ told[t].wake = <<r, m>>
    \/ \E i \in 1 .. Len(events) : IsNews(events[i], t, r, m) /\ Stands(i)
HasStop(t, r) ==
    \/ r \in told[t].stops
    \/ \E i \in 1 .. Len(events) : IsStop(events[i], t, r) /\ Stands(i)

WakeInv == \A t \in Tasks : Needy(tasks[t]) => HasNews(t, Newest(tasks[t]), tasks[t].messages)
StopInv ==
    \A t \in Tasks : \A r \in 1 .. Len(tasks[t].rounds) : MustStop(tasks[t].rounds[r]) => HasStop(t, r)
UnstoppedInv == \A t \in Tasks : Unstopped(tasks[t])

\* What a notice says, and whether it is one that nothing has come of yet
Key(e) == <<e.task, e.round, e.seq>>
Waiting(e) == e.kind = "wake" /\ e.status = "pending"
\* An event is about a round and a message that its task has.
Behind(e, task) == e.round <= Len(task.rounds) /\ (e.kind = "wake" => e.seq <= task.messages)
Alive(e) == Behind(e, tasks[e.task])

LEMMA EventRow ==
  ASSUME NEW t \in Tasks, NEW task \in TaskRow, task.rounds # <<>>, Len(task.rounds) <= MaxRounds,
         NEW kind \in {"wake", "cancel"}, NEW recovery \in BOOLEAN
  PROVE  LET e == Event(t, task, kind, recovery) IN
         /\ e \in EventType /\ e.task = t /\ e.round = Newest(task) /\ e.kind = kind /\ e.recovery = recovery
         /\ e.status = "pending" /\ (kind = "wake" => e.seq = task.messages)
<1>1. Newest(task) \in 1 .. MaxRounds /\ task.messages \in 0 .. MaxMessages
  BY RoundsAssumption DEF TaskRow, Newest
<1>2. (IF kind = "wake" THEN task.messages ELSE 0) \in 0 .. MaxMessages /\ 0 \in 0 .. MaxAttempts
  BY <1>1, RoundsAssumption, DeliveryAssumption
<1> QED BY <1>1, <1>2 DEF Event, EventType

LEMMA NewsRow ==
  ASSUME NEW t \in Tasks, NEW task \in TaskRow, task.rounds # <<>>, Len(task.rounds) <= MaxRounds
  PROVE  /\ News(t, task) \in EventRows /\ News(t, task).status = "pending"
         /\ IsNews(News(t, task), t, Newest(task), task.messages)
         /\ News(t, task).task = t /\ Behind(News(t, task), task)
         /\ Key(News(t, task)) = <<t, Newest(task), task.messages>>
<1>1. FALSE \in BOOLEAN /\ TRUE \in BOOLEAN
      /\ "wake" \in {"wake", "cancel"} /\ "cancel" \in {"wake", "cancel"} /\ task.messages \in Nat
  BY RoundsAssumption DEF TaskRow
<1>2. LET e == Event(t, task, "wake", FALSE) IN
      /\ e \in EventType /\ e.task = t /\ e.round = Newest(task) /\ e.kind = "wake" /\ e.recovery = FALSE
      /\ e.status = "pending" /\ ("wake" = "wake" => e.seq = task.messages)
  BY ZenonT(30), <1>1, EventRow
<1> DEFINE e == News(t, task)
<1>3. /\ e \in EventType /\ e.task = t /\ e.round = Newest(task) /\ e.kind = "wake" /\ e.recovery = FALSE
      /\ e.status = "pending" /\ e.seq = task.messages
  BY <1>2 DEF News
<1> HIDE DEF e
<1>4. e.seq >= task.messages
  BY <1>1, <1>3
<1>5. IsNews(e, t, Newest(task), task.messages)
  BY <1>3, <1>4 DEF IsNews
<1>6. Behind(e, task)
  BY <1>1, <1>3 DEF Behind, Newest, TaskRow
<1> QED BY <1>3, <1>5, <1>6 DEF e, EventRows, Key

LEMMA StopRow ==
  ASSUME NEW t \in Tasks, NEW task \in TaskRow, task.rounds # <<>>, Len(task.rounds) <= MaxRounds
  PROVE  LET e == Event(t, task, "cancel", FALSE) IN
         /\ e \in EventRows /\ e.status = "pending" /\ ~Waiting(e) /\ IsStop(e, t, Newest(task))
         /\ e.task = t /\ Behind(e, task)
<1>1. FALSE \in BOOLEAN /\ TRUE \in BOOLEAN
      /\ "wake" \in {"wake", "cancel"} /\ "cancel" \in {"wake", "cancel"} /\ task.messages \in Nat
  BY RoundsAssumption DEF TaskRow
<1>2. LET e == Event(t, task, "cancel", FALSE) IN
      /\ e \in EventType /\ e.task = t /\ e.round = Newest(task) /\ e.kind = "cancel" /\ e.recovery = FALSE
      /\ e.status = "pending" /\ ("cancel" = "wake" => e.seq = task.messages)
  BY ZenonT(30), <1>1, EventRow
<1> DEFINE e == Event(t, task, "cancel", FALSE)
<1>3. /\ e \in EventType /\ e.task = t /\ e.round = Newest(task) /\ e.kind = "cancel" /\ e.recovery = FALSE
      /\ e.status = "pending"
  BY <1>2
<1> HIDE DEF e
<1>4. Behind(e, task)
  BY <1>3 DEF Behind, Newest, TaskRow
<1>5. e \in EventRows /\ e.status = "pending" /\ ~Waiting(e) /\ IsStop(e, t, Newest(task)) /\ e.task = t
  BY <1>3 DEF IsStop, EventRows, Waiting
<1> QED BY <1>4, <1>5 DEF e

LEMMA ReminderRow ==
  ASSUME NEW t \in Tasks, NEW task \in TaskRow, task.rounds # <<>>, Len(task.rounds) <= MaxRounds
  PROVE  /\ Remind(t, task) \in EventRows /\ Remind(t, task).task = t /\ Behind(Remind(t, task), task)
         /\ Key(Remind(t, task)) = <<t, Newest(task), task.messages>>
<1>1. FALSE \in BOOLEAN /\ TRUE \in BOOLEAN
      /\ "wake" \in {"wake", "cancel"} /\ "cancel" \in {"wake", "cancel"} /\ task.messages \in Nat
  BY RoundsAssumption DEF TaskRow
<1>2. LET e == Event(t, task, "wake", TRUE) IN
      /\ e \in EventType /\ e.task = t /\ e.round = Newest(task) /\ e.kind = "wake" /\ e.recovery = TRUE
      /\ e.status = "pending" /\ ("wake" = "wake" => e.seq = task.messages)
  BY ZenonT(30), <1>1, EventRow
<1> DEFINE e == Remind(t, task)
<1>3. /\ e \in EventType /\ e.task = t /\ e.round = Newest(task) /\ e.kind = "wake" /\ e.recovery = TRUE
      /\ e.seq = task.messages
  BY <1>2 DEF Remind
<1> HIDE DEF e
<1>4. Behind(e, task)
  BY <1>1, <1>3 DEF Behind, Newest, TaskRow
<1> QED BY <1>3, <1>4 DEF e, Key, EventRows

\* What follows the outbox is behind what deliverTick has read.
LEMMA Appended ==
  ASSUME NEW old \in Seq(EventRows), NEW new \in Seq(EventRows)
  PROVE  /\ old \o new \in Seq(EventRows) /\ Len(old \o new) = Len(old) + Len(new)
         /\ \A i \in 1 .. Len(old) : (old \o new)[i] = old[i]
         /\ \A k \in 1 .. Len(new) : (old \o new)[Len(old) + k] = new[k]
         /\ \A i \in 1 .. Len(old \o new) :
              i \in 1 .. Len(old) \/ \E k \in 1 .. Len(new) : i = Len(old) + k
<1>1. Len(old) \in Nat /\ Len(new) \in Nat
  OBVIOUS
<1>2. /\ old \o new \in Seq(EventRows) /\ Len(old \o new) = Len(old) + Len(new)
      /\ \A i \in 1 .. Len(old) : (old \o new)[i] = old[i]
      /\ \A k \in 1 .. Len(new) : (old \o new)[Len(old) + k] = new[k]
  OBVIOUS
<1>3. ASSUME NEW i \in 1 .. Len(old \o new), i \notin 1 .. Len(old)
      PROVE  \E k \in 1 .. Len(new) : i = Len(old) + k
  <2>1. i - Len(old) \in 1 .. Len(new) /\ i = Len(old) + (i - Len(old))
    BY <1>1, <1>2, <1>3
  <2> QED BY <2>1
<1> QED BY <1>2, <1>3

\* The tick goes on, or begins with what is in the outbox then.
TickKeeps ==
    \/ tick' = tick
    \/ \E live \in BOOLEAN :
         tick' = [on |-> TRUE, next |-> 1, upto |-> Len(events'), live |-> live,
                  decided |-> [i \in DOMAIN events' |-> "none"]]

LEMMA TickGoesOn ==
  ASSUME OutboxInv, NEW old \in Seq(EventRows), Len(old) = Len(events), NEW new \in Seq(EventRows),
         events' = old \o new, TickKeeps,
         \A i \in 1 .. Len(events) : old[i].attempts = events[i].attempts
  PROVE  /\ OutboxInv'
         /\ \A i \in 1 .. Len(events) : Stands(i) /\ old[i] = events[i] => Stands(i)'
         /\ \A i \in Len(events) + 1 .. Len(events') : events'[i].status = "pending" => Stands(i)'
<1>1. /\ events' \in Seq(EventRows) /\ Len(events') = Len(events) + Len(new)
      /\ \A i \in 1 .. Len(events) : events'[i] = old[i]
      /\ \A k \in 1 .. Len(new) : events'[Len(events) + k] = new[k]
  <2>1. /\ old \o new \in Seq(EventRows) /\ Len(old \o new) = Len(old) + Len(new)
        /\ \A i \in 1 .. Len(old) : (old \o new)[i] = old[i]
        /\ \A k \in 1 .. Len(new) : (old \o new)[Len(old) + k] = new[k]
    BY Appended
  <2> DEFINE both == old \o new
  <2>2. events' = both
    OBVIOUS
  <2> HIDE DEF both
  <2> QED BY <2>1, <2>2 DEF both
<1>2. Len(events) \in Nat /\ Len(new) \in Nat /\ tick.upto \in Nat /\ tick.upto <= Len(events)
  BY DEF OutboxInv, TickType
<1>3. CASE tick' = tick
  <2>1. OutboxInv'
    <3>1. \A i \in 1 .. tick.upto : tick.decided[i] = "retry" => events'[i].attempts + 1 <= MaxAttempts
      BY <1>1, <1>2 DEF OutboxInv
    <3> QED BY <1>1, <1>2, <1>3, <3>1 DEF OutboxInv
  <2>2. ASSUME NEW i \in 1 .. Len(events), Stands(i), old[i] = events[i] PROVE Stands(i)'
    BY <1>1, <1>3, <2>2 DEF Stands
  <2>3. ASSUME NEW i \in Len(events) + 1 .. Len(events'), events'[i].status = "pending" PROVE Stands(i)'
    BY <1>1, <1>2, <1>3, <2>3 DEF Stands
  <2> QED BY <2>1, <2>2, <2>3
<1>4. CASE tick' # tick
  <2>1. PICK live \in BOOLEAN :
          tick' = [on |-> TRUE, next |-> 1, upto |-> Len(events'), live |-> live,
                   decided |-> [i \in DOMAIN events' |-> "none"]]
    BY <1>4 DEF TickKeeps
  <2> DEFINE none == [i \in DOMAIN events' |-> "none"]
  <2>2. none \in Seq(Decisions) /\ Len(none) = Len(events') /\ \A i \in 1 .. Len(events') : none[i] = "none"
    <3>1. DOMAIN events' = 1 .. Len(events') /\ Len(events') \in Nat
      BY <1>1
    <3> QED BY <3>1 DEF Decisions
  <2>3. tick'.upto = Len(events') /\ tick'.decided = none /\ tick'.next = 1 /\ tick'.on = TRUE /\ tick'.live = live
        /\ tick' = [on |-> TRUE, next |-> 1, upto |-> Len(events'), live |-> live, decided |-> none]
    BY <2>1
  <2> HIDE DEF none
  <2>4. tick' \in TickType
    BY <1>1, <2>2, <2>3 DEF TickType
  <2>5. OutboxInv'
    BY <1>1, <2>2, <2>3, <2>4 DEF OutboxInv
  <2>6. \A i \in 1 .. Len(events') : events'[i].status # "obsolete" => Stands(i)'
    BY <2>2, <2>3 DEF Stands
  <2>7. ASSUME NEW i \in 1 .. Len(events), Stands(i), old[i] = events[i] PROVE Stands(i)'
    BY <1>1, <1>2, <2>6, <2>7 DEF Stands
  <2>8. ASSUME NEW i \in Len(events) + 1 .. Len(events'), events'[i].status = "pending" PROVE Stands(i)'
    BY <1>1, <1>2, <2>6, <2>8
  <2> QED BY <2>5, <2>7, <2>8
<1> QED BY <1>3, <1>4

\* Whatever was announced stays announced when events are added, and so is what they say.
LEMMA AppendKeeps ==
  ASSUME OutboxInv, NEW old \in Seq(EventRows), Len(old) = Len(events), NEW new \in Seq(EventRows),
         events' = old \o new, TickKeeps, told' = told,
         \A i \in 1 .. Len(events) : old[i].attempts = events[i].attempts
  PROVE  /\ \A t, r, m : HasNews(t, r, m) /\ (\A i \in 1 .. Len(events) : IsNews(events[i], t, r, m) => old[i] = events[i])
                           => HasNews(t, r, m)'
         /\ \A t, r : HasStop(t, r) /\ (\A i \in 1 .. Len(events) : IsStop(events[i], t, r) => old[i] = events[i])
                        => HasStop(t, r)'
         /\ \A k \in 1 .. Len(new) :
              /\ \A t, r, m : new[k].status = "pending" /\ IsNews(new[k], t, r, m) => HasNews(t, r, m)'
              /\ \A t, r : new[k].status = "pending" /\ IsStop(new[k], t, r) => HasStop(t, r)'
<1>1. /\ Len(events') = Len(events) + Len(new) /\ Len(events) \in Nat /\ Len(new) \in Nat
      /\ \A i \in 1 .. Len(events) : events'[i] = old[i]
      /\ \A k \in 1 .. Len(new) : events'[Len(events) + k] = new[k]
  <2>1. /\ old \o new \in Seq(EventRows) /\ Len(old \o new) = Len(old) + Len(new)
        /\ \A i \in 1 .. Len(old) : (old \o new)[i] = old[i]
        /\ \A k \in 1 .. Len(new) : (old \o new)[Len(old) + k] = new[k]
    BY Appended
  <2> DEFINE both == old \o new
  <2>2. events' = both
    OBVIOUS
  <2> HIDE DEF both
  <2>3. Len(events) \in Nat /\ Len(new) \in Nat
    BY DEF OutboxInv
  <2> QED BY <2>1, <2>2, <2>3 DEF both
<1>2. /\ \A i \in 1 .. Len(events) : Stands(i) /\ old[i] = events[i] => Stands(i)'
      /\ \A i \in Len(events) + 1 .. Len(events') : events'[i].status = "pending" => Stands(i)'
  BY TickGoesOn
<1>3. /\ \A i \in 1 .. Len(events) : i \in 1 .. Len(events')
      /\ \A k \in 1 .. Len(new) : \E i \in Len(events) + 1 .. Len(events') : i \in 1 .. Len(events') /\ events'[i] = new[k]
  <2>1. ASSUME NEW k \in 1 .. Len(new)
        PROVE  \E i \in Len(events) + 1 .. Len(events') : i \in 1 .. Len(events') /\ events'[i] = new[k]
    <3> DEFINE i == Len(events) + k
    <3>1. i \in Len(events) + 1 .. Len(events') /\ i \in 1 .. Len(events') /\ events'[i] = new[k]
      BY <1>1
    <3> HIDE DEF i
    <3> QED BY <3>1
  <2>2. \A i \in 1 .. Len(events) : i \in 1 .. Len(events')
    BY <1>1
  <2> QED BY <2>1, <2>2
<1>4. ASSUME NEW t, NEW r, NEW m, HasNews(t, r, m),
             \A i \in 1 .. Len(events) : IsNews(events[i], t, r, m) => old[i] = events[i]
      PROVE  HasNews(t, r, m)'
  <2>1. CASE told[t].wake = <<r, m>>
    BY <2>1 DEF HasNews
  <2>2. CASE \E i \in 1 .. Len(events) : IsNews(events[i], t, r, m) /\ Stands(i)
    <3>1. PICK i \in 1 .. Len(events) : IsNews(events[i], t, r, m) /\ Stands(i)
      BY <2>2
    <3>2. i \in 1 .. Len(events') /\ events'[i] = events[i] /\ Stands(i)'
      BY <1>1, <1>2, <1>3, <1>4, <3>1
    <3> QED BY <3>1, <3>2 DEF HasNews
  <2> QED BY <1>4, <2>1, <2>2 DEF HasNews
<1>5. ASSUME NEW t, NEW r, HasStop(t, r),
             \A i \in 1 .. Len(events) : IsStop(events[i], t, r) => old[i] = events[i]
      PROVE  HasStop(t, r)'
  <2>1. CASE r \in told[t].stops
    BY <2>1 DEF HasStop
  <2>2. CASE \E i \in 1 .. Len(events) : IsStop(events[i], t, r) /\ Stands(i)
    <3>1. PICK i \in 1 .. Len(events) : IsStop(events[i], t, r) /\ Stands(i)
      BY <2>2
    <3>2. i \in 1 .. Len(events') /\ events'[i] = events[i] /\ Stands(i)'
      BY <1>1, <1>2, <1>3, <1>5, <3>1
    <3> QED BY <3>1, <3>2 DEF HasStop
  <2> QED BY <1>5, <2>1, <2>2 DEF HasStop
<1>6. ASSUME NEW k \in 1 .. Len(new), NEW t, NEW r, NEW m, new[k].status = "pending", IsNews(new[k], t, r, m)
      PROVE  HasNews(t, r, m)'
  <2>1. PICK i \in 1 .. Len(events') : IsNews(events'[i], t, r, m) /\ Stands(i)'
    BY <1>1, <1>2, <1>3, <1>6
  <2> QED BY <2>1 DEF HasNews
<1>7. ASSUME NEW k \in 1 .. Len(new), NEW t, NEW r, new[k].status = "pending", IsStop(new[k], t, r)
      PROVE  HasStop(t, r)'
  <2>1. PICK i \in 1 .. Len(events') : IsStop(events'[i], t, r) /\ Stands(i)'
    BY <1>1, <1>2, <1>3, <1>7
  <2> QED BY <2>1 DEF HasStop
<1> QED BY <1>4, <1>5, <1>6, <1>7

\* What is proved of every step
ReminderInv ==
    \A i, j \in 1 .. Len(events) :
      Waiting(events[i]) /\ Waiting(events[j]) /\ Key(events[i]) = Key(events[j]) => i = j
AliveInv == \A i \in 1 .. Len(events) : Alive(events[i])
DInv == IInv /\ UnstoppedInv /\ OutboxInv /\ WakeInv /\ StopInv /\ ReminderInv /\ AliveInv

SamePlace(a, b) == a.task = b.task /\ a.round = b.round /\ a.kind = b.kind /\ a.seq = b.seq

\* What an event is about is still there when its task has grown.
LEMMA StaysAlive ==
  ASSUME IInv, IInv', NEW e \in EventRows, Alive(e), NEW new \in EventRows, SamePlace(new, e),
         \A t \in Tasks : Grown(tasks[t], tasks'[t])
  PROVE  Behind(new, tasks'[new.task])
<1> DEFINE t == e.task
           a == tasks[t]
           b == tasks'[t]
<1>1. t \in Tasks /\ e.round \in Nat \ {0} /\ e.seq \in Nat
  BY RoundsAssumption DEF EventRows, EventType
<1>2. Len(a.rounds) \in Nat /\ a.messages \in Nat
  BY <1>1, RoundsAssumption DEF IInv, TasksInv, TaskRow
<1>3. Len(b.rounds) \in Nat /\ b.messages \in Nat
  BY <1>1, RoundsAssumption DEF IInv, TasksInv, TaskRow
<1>4. Grown(a, b) /\ Behind(e, a)
  BY <1>1 DEF Alive
<1> HIDE DEF a, b
<1>5. Behind(new, b)
  BY <1>1, <1>2, <1>3, <1>4 DEF Behind, Grown, SamePlace
<1> QED BY <1>5 DEF b, SamePlace

\* A step that adds events keeps the outbox right when whatever newly needs to be
\* told, or to be stopped, is announced among them, and the events of whatever needed
\* it before stay as they are.
LEMMA StepKeeps ==
  ASSUME DInv, IInv', NEW old \in Seq(EventRows), Len(old) = Len(events), NEW new \in Seq(EventRows),
         events' = old \o new, TickKeeps, told' = told,
         \A i \in 1 .. Len(events) : old[i].attempts = events[i].attempts,
         \A t \in Tasks : Grown(tasks[t], tasks'[t]),
         \A i \in 1 .. Len(events) : SamePlace(old[i], events[i]),
         \A k \in 1 .. Len(new) : Behind(new[k], tasks'[new[k].task]),
         \A t \in Tasks : Unstopped(tasks'[t]),
         \A t \in Tasks : Needy(tasks'[t]) =>
           \/ /\ Needy(tasks[t]) /\ Newest(tasks'[t]) = Newest(tasks[t]) /\ tasks'[t].messages = tasks[t].messages
              /\ \A i \in 1 .. Len(events) : events[i].task = t => old[i] = events[i]
           \/ \E k \in 1 .. Len(new) : /\ new[k].status = "pending"
                                       /\ IsNews(new[k], t, Newest(tasks'[t]), tasks'[t].messages),
         \A t \in Tasks : \A r \in 1 .. Len(tasks'[t].rounds) : MustStop(tasks'[t].rounds[r]) =>
           \/ /\ r \in 1 .. Len(tasks[t].rounds) /\ MustStop(tasks[t].rounds[r])
              /\ \A i \in 1 .. Len(events) : IsStop(events[i], t, r) => old[i] = events[i]
           \/ \E k \in 1 .. Len(new) : new[k].status = "pending" /\ IsStop(new[k], t, r),
         \A i \in 1 .. Len(events) : Waiting(old[i]) => old[i] = events[i],
         \A k \in 1 .. Len(new) : Waiting(new[k]) =>
           \A i \in 1 .. Len(events) : ~(Waiting(old[i]) /\ Key(old[i]) = Key(new[k])),
         \A k, l \in 1 .. Len(new) : Waiting(new[k]) /\ Waiting(new[l]) /\ Key(new[k]) = Key(new[l]) => k = l
  PROVE  DInv'
<1>1. OutboxInv'
  BY TickGoesOn DEF DInv
<1>2. /\ \A t, r, m : HasNews(t, r, m) /\ (\A i \in 1 .. Len(events) : IsNews(events[i], t, r, m) => old[i] = events[i])
                        => HasNews(t, r, m)'
      /\ \A t, r : HasStop(t, r) /\ (\A i \in 1 .. Len(events) : IsStop(events[i], t, r) => old[i] = events[i])
                     => HasStop(t, r)'
      /\ \A k \in 1 .. Len(new) :
           /\ \A t, r, m : new[k].status = "pending" /\ IsNews(new[k], t, r, m) => HasNews(t, r, m)'
           /\ \A t, r : new[k].status = "pending" /\ IsStop(new[k], t, r) => HasStop(t, r)'
  BY AppendKeeps DEF DInv
<1>3. WakeInv'
  <2>1. ASSUME NEW t \in Tasks, NEW n, NEW m, Needy(tasks'[t]), n = Newest(tasks'[t]), m = tasks'[t].messages
        PROVE  HasNews(t, n, m)'
    <3>1. CASE /\ Needy(tasks[t]) /\ n = Newest(tasks[t]) /\ m = tasks[t].messages
               /\ \A i \in 1 .. Len(events) : events[i].task = t => old[i] = events[i]
      <4>1. HasNews(t, n, m)
        BY <3>1 DEF DInv, WakeInv
      <4>2. \A i \in 1 .. Len(events) : IsNews(events[i], t, n, m) => old[i] = events[i]
        BY <3>1 DEF IsNews
      <4> QED BY <1>2, <4>1, <4>2
    <3>2. CASE \E k \in 1 .. Len(new) : new[k].status = "pending" /\ IsNews(new[k], t, n, m)
      BY <1>2, <3>2
    <3> QED BY <2>1, <3>1, <3>2
  <2> QED BY <2>1 DEF WakeInv, HasNews
<1>4. StopInv'
  <2>1. ASSUME NEW t \in Tasks, NEW r \in 1 .. Len(tasks'[t].rounds), MustStop(tasks'[t].rounds[r])
        PROVE  HasStop(t, r)'
    <3>1. CASE /\ r \in 1 .. Len(tasks[t].rounds) /\ MustStop(tasks[t].rounds[r])
               /\ \A i \in 1 .. Len(events) : IsStop(events[i], t, r) => old[i] = events[i]
      <4>1. HasStop(t, r)
        BY <3>1 DEF DInv, StopInv
      <4> QED BY <1>2, <3>1, <4>1
    <3>2. CASE \E k \in 1 .. Len(new) : new[k].status = "pending" /\ IsStop(new[k], t, r)
      BY <1>2, <3>2
    <3> QED BY <2>1, <3>1, <3>2
  <2> QED BY <2>1 DEF StopInv
<1>5. ReminderInv'
  <2>1. /\ Len(old \o new) = Len(old) + Len(new)
        /\ \A i \in 1 .. Len(old) : (old \o new)[i] = old[i]
        /\ \A k \in 1 .. Len(new) : (old \o new)[Len(old) + k] = new[k]
        /\ \A i \in 1 .. Len(old \o new) :
             i \in 1 .. Len(old) \/ \E k \in 1 .. Len(new) : i = Len(old) + k
    BY Appended
  <2> DEFINE both == old \o new
             first(i) == i \in 1 .. Len(events) /\ both[i] = old[i]
             last(i) == \E k \in 1 .. Len(new) : i = Len(events) + k /\ both[i] = new[k]
  <2>2. \A i \in 1 .. Len(both) : first(i) \/ last(i)
    <3>1. \A i \in 1 .. Len(both) : i \in 1 .. Len(events) \/ \E k \in 1 .. Len(new) : i = Len(events) + k
      BY <2>1
    <3>2. \A i \in 1 .. Len(events) : both[i] = old[i]
      BY <2>1
    <3>3. \A k \in 1 .. Len(new) : both[Len(events) + k] = new[k]
      BY <2>1
    <3> HIDE DEF both
    <3> QED BY <3>1, <3>2, <3>3
  <2> HIDE DEF both
  <2>3. ASSUME NEW i \in 1 .. Len(both), NEW j \in 1 .. Len(both), Waiting(both[i]), Waiting(both[j]), Key(both[i]) = Key(both[j])
        PROVE  i = j
    <3>1. CASE first(i) /\ first(j)
      BY <2>3, <3>1 DEF DInv, ReminderInv
    <3>2. CASE first(i) /\ last(j)
      BY <2>3, <3>2
    <3>3. CASE last(i) /\ first(j)
      BY <2>3, <3>3
    <3>4. CASE last(i) /\ last(j)
      BY <2>3, <3>4
    <3> QED BY <2>2, <2>3, <3>1, <3>2, <3>3, <3>4
  <2>4. events' = both
    BY DEF both
  <2> QED BY <2>3, <2>4 DEF ReminderInv
<1>6. UnstoppedInv'
  BY DEF UnstoppedInv
<1>7. AliveInv'
  <2>1. ASSUME NEW i \in 1 .. Len(events) PROVE Behind(old[i], tasks'[old[i].task])
    <3>1. /\ events[i] \in EventRows /\ old[i] \in EventRows /\ Alive(events[i]) /\ SamePlace(old[i], events[i])
          /\ IInv
      BY DEF DInv, OutboxInv, AliveInv
    <3> QED BY <3>1, StaysAlive
  <2>2. ASSUME NEW i \in 1 .. Len(events') PROVE Behind(events'[i], tasks'[events'[i].task])
    <3>1. /\ Len(old \o new) = Len(old) + Len(new)
          /\ \A j \in 1 .. Len(old) : (old \o new)[j] = old[j]
          /\ \A k \in 1 .. Len(new) : (old \o new)[Len(old) + k] = new[k]
          /\ \A j \in 1 .. Len(old \o new) :
               j \in 1 .. Len(old) \/ \E k \in 1 .. Len(new) : j = Len(old) + k
      BY Appended
    <3>2. \/ i \in 1 .. Len(events) /\ events'[i] = old[i]
          \/ \E k \in 1 .. Len(new) : events'[i] = new[k]
      BY <3>1
    <3> QED BY <2>1, <3>2
  <2> QED BY <2>2 DEF AliveInv, Alive
<1> QED BY <1>1, <1>3, <1>4, <1>5, <1>6, <1>7 DEF DInv

-----------------------------------------------------------------------------
(* The handlers *)

\* A handler of one task, with what it announces
LEMMA HandlerKeeps ==
  ASSUME DInv, IInv', NEW t \in Tasks, \A u \in Tasks : u # t => tasks'[u] = tasks[u],
         NEW new \in Seq(EventRows), events' = events \o new, UNCHANGED <<told, tick>>,
         Grown(tasks[t], tasks'[t]),
         \A k \in 1 .. Len(new) : new[k].task = t /\ Behind(new[k], tasks'[t]),
         \A k \in 1 .. Len(new) : Waiting(new[k]) =>
           \A i \in 1 .. Len(events) : ~(Waiting(events[i]) /\ Key(events[i]) = Key(new[k])),
         Len(new) <= 1,
         Unstopped(tasks'[t]),
         Needy(tasks'[t]) =>
           \/ Needy(tasks[t]) /\ Newest(tasks'[t]) = Newest(tasks[t]) /\ tasks'[t].messages = tasks[t].messages
           \/ \E k \in 1 .. Len(new) : /\ new[k].status = "pending"
                                       /\ IsNews(new[k], t, Newest(tasks'[t]), tasks'[t].messages),
         \A r \in 1 .. Len(tasks'[t].rounds) : MustStop(tasks'[t].rounds[r]) =>
           \/ r \in 1 .. Len(tasks[t].rounds) /\ MustStop(tasks[t].rounds[r])
           \/ \E k \in 1 .. Len(new) : new[k].status = "pending" /\ IsStop(new[k], t, r)
  PROVE  DInv'
<1>1. events \in Seq(EventRows) /\ TickKeeps
  BY DEF DInv, OutboxInv, TickKeeps
<1>2. \A u \in Tasks : Unstopped(tasks'[u])
  BY DEF DInv, UnstoppedInv
<1>3. ASSUME NEW u \in Tasks, Needy(tasks'[u])
      PROVE  \/ /\ Needy(tasks[u]) /\ Newest(tasks'[u]) = Newest(tasks[u]) /\ tasks'[u].messages = tasks[u].messages
                /\ \A i \in 1 .. Len(events) : events[i].task = u => events[i] = events[i]
             \/ \E k \in 1 .. Len(new) : /\ new[k].status = "pending"
                                         /\ IsNews(new[k], u, Newest(tasks'[u]), tasks'[u].messages)
  BY <1>3
<1>4. ASSUME NEW u \in Tasks, NEW r \in 1 .. Len(tasks'[u].rounds), MustStop(tasks'[u].rounds[r])
      PROVE  \/ /\ r \in 1 .. Len(tasks[u].rounds) /\ MustStop(tasks[u].rounds[r])
                /\ \A i \in 1 .. Len(events) : IsStop(events[i], u, r) => events[i] = events[i]
             \/ \E k \in 1 .. Len(new) : new[k].status = "pending" /\ IsStop(new[k], u, r)
  BY <1>4
<1>5. /\ \A i \in 1 .. Len(events) : Waiting(events[i]) => events[i] = events[i]
      /\ \A k \in 1 .. Len(new) : Waiting(new[k]) =>
           \A i \in 1 .. Len(events) : ~(Waiting(events[i]) /\ Key(events[i]) = Key(new[k]))
      /\ \A k, l \in 1 .. Len(new) : Waiting(new[k]) /\ Waiting(new[l]) /\ Key(new[k]) = Key(new[l]) => k = l
  OBVIOUS
<1>6. /\ \A u \in Tasks : Grown(tasks[u], tasks'[u])
      /\ \A i \in 1 .. Len(events) : SamePlace(events[i], events[i])
      /\ \A k \in 1 .. Len(new) : Behind(new[k], tasks'[new[k].task])
  BY DEF Grown, SamePlace
<1> QED BY ONLY DInv, IInv', new \in Seq(EventRows), events' = events \o new, told' = told,
                <1>1, <1>2, <1>3, <1>4, <1>5, <1>6, StepKeeps

\* One task may have changed, and no event is added.
LEMMA QuietKeeps ==
  ASSUME DInv, IInv', UNCHANGED outbox,
         \A t \in Tasks : Unstopped(tasks[t]) => AnswerKeeps(tasks[t], tasks'[t])
  PROVE  DInv'
<1> DEFINE none == <<>>
<1>1. /\ events \in Seq(EventRows) /\ TickKeeps /\ none \in Seq(EventRows) /\ events' = events \o none /\ Len(none) = 0
      /\ told' = told
  BY DEF DInv, OutboxInv, TickKeeps, outbox
<1> HIDE DEF none
<1>2. \A t \in Tasks : AnswerKeeps(tasks[t], tasks'[t])
  BY DEF DInv, UnstoppedInv
<1>3. \A t \in Tasks : Unstopped(tasks'[t])
  BY <1>2 DEF AnswerKeeps, Lenient
<1>4. ASSUME NEW u \in Tasks, Needy(tasks'[u])
      PROVE  \/ /\ Needy(tasks[u]) /\ Newest(tasks'[u]) = Newest(tasks[u]) /\ tasks'[u].messages = tasks[u].messages
                /\ \A i \in 1 .. Len(events) : events[i].task = u => events[i] = events[i]
             \/ \E k \in 1 .. Len(none) : /\ none[k].status = "pending"
                                          /\ IsNews(none[k], u, Newest(tasks'[u]), tasks'[u].messages)
  BY <1>2, <1>4 DEF AnswerKeeps
<1>5. ASSUME NEW u \in Tasks, NEW r \in 1 .. Len(tasks'[u].rounds), MustStop(tasks'[u].rounds[r])
      PROVE  \/ /\ r \in 1 .. Len(tasks[u].rounds) /\ MustStop(tasks[u].rounds[r])
                /\ \A i \in 1 .. Len(events) : IsStop(events[i], u, r) => events[i] = events[i]
             \/ \E k \in 1 .. Len(none) : none[k].status = "pending" /\ IsStop(none[k], u, r)
  <2>1. Len(tasks[u].rounds) \in Nat /\ Len(tasks'[u].rounds) \in Nat
    BY DEF DInv, IInv, TasksInv, TaskRow
  <2> QED BY <1>2, <1>5, <2>1 DEF AnswerKeeps, Lenient, StopsKept
<1>6. /\ \A i \in 1 .. Len(events) : Waiting(events[i]) => events[i] = events[i]
      /\ \A k \in 1 .. Len(none) : Waiting(none[k]) =>
           \A i \in 1 .. Len(events) : ~(Waiting(events[i]) /\ Key(events[i]) = Key(none[k]))
      /\ \A k, l \in 1 .. Len(none) : Waiting(none[k]) /\ Waiting(none[l]) /\ Key(none[k]) = Key(none[l]) => k = l
  BY <1>1
<1>7. /\ \A u \in Tasks : Grown(tasks[u], tasks'[u])
      /\ \A i \in 1 .. Len(events) : SamePlace(events[i], events[i])
      /\ \A k \in 1 .. Len(none) : Behind(none[k], tasks'[none[k].task])
  BY <1>1, <1>2 DEF AnswerKeeps, SamePlace
<1> QED BY ONLY DInv, IInv', <1>1, <1>3, <1>4, <1>5, <1>6, <1>7, StepKeeps

LEMMA SameKeeps ==
  ASSUME NEW task
  PROVE  Unstopped(task) => AnswerKeeps(task, task)
BY DEF AnswerKeeps, Lenient, StopsKept, Grown

LEMMA RowNow ==
  ASSUME IInv, NEW t \in Tasks
  PROVE  tasks[t] \in TaskRow /\ Len(tasks[t].rounds) <= MaxRounds /\ Len(tasks[t].rounds) \in Nat
BY DEF IInv, TasksInv, BoundsInv, TaskRow

LEMMA TellsStep ==
  ASSUME DInv, NEW t \in Tasks, Tells(t)
  PROVE  DInv'
<1> DEFINE task == tasks'[t]
           new == Wake(t, task)
<1>1. /\ \/ AddMessage(t) \/ CreateRound(t) \/ Retry(t)
         \/ \E steer \in BOOLEAN : Prompt(t, steer)
      /\ events' = events \o new /\ UNCHANGED <<told, tick>>
  BY DEF Tells, Emit
<1>2. UserStep(t) /\ TasksInv /\ IInv
  BY <1>1 DEF UserStep, DInv, IInv
<1>3. OneMoves(t) /\ IInv'
  BY <1>2, HandlerMoves, RoundsStep DEF Next
<1>4. Lenient(tasks[t], task) /\ Further(tasks[t], task) /\ Grown(tasks[t], task)
  BY <1>1, <1>2, TellsNeeds DEF DInv, UnstoppedInv, Further
<1>5. task \in TaskRow /\ Len(task.rounds) <= MaxRounds /\ Len(task.rounds) \in Nat /\ Len(tasks[t].rounds) \in Nat
  <2>1. (tasks[t] \in TaskRow /\ Len(tasks[t].rounds) <= MaxRounds /\ Len(tasks[t].rounds) \in Nat)'
    BY <1>3 DEF IInv, TasksInv, BoundsInv, TaskRow
  <2> QED BY <1>2, <2>1, RowNow
<1>6. task.rounds # <<>>
  <2>1. tasks[t].rounds # <<>>
    BY <1>1 DEF AddMessage, CreateRound, Retry, Prompt, Exists
  <2>2. Len(tasks[t].rounds) # 0
    BY <1>2, <2>1, RowNow DEF TaskRow
  <2>3. Len(task.rounds) # 0
    BY <1>3, <1>5, <2>2 DEF OneMoves, Moves, Keeps, Ends, Opens
  <2> HIDE DEF task
  <2> QED BY <2>3
<1> HIDE DEF task
<1> DEFINE e == News(t, task)
<1>7. /\ e \in EventRows /\ e.status = "pending" /\ IsNews(e, t, Newest(task), task.messages)
      /\ e.task = t /\ Behind(e, task) /\ Key(e) = <<t, Newest(task), task.messages>>
  BY <1>5, <1>6, NewsRow
\* None of the outbox can have said it: the round or the message is new.
<1>71. ASSUME NEW i \in 1 .. Len(events), Waiting(events[i]) PROVE Key(events[i]) # Key(e)
  <2> DEFINE x == events[i]
  <2>1. x \in EventRows /\ Alive(x)
    BY DEF DInv, OutboxInv, AliveInv
  <2>2. x.round \in Nat /\ x.seq \in Nat /\ tasks[t].messages \in Nat /\ task.messages \in Nat
    BY <1>2, <1>5, <2>1, RowNow, RoundsAssumption DEF EventRows, EventType, TaskRow
  <2>3. x.task = t => x.round <= Len(tasks[t].rounds) /\ x.seq <= tasks[t].messages
    BY <1>71, <2>1 DEF Alive, Behind, Waiting
  <2>4. Newest(task) > Len(tasks[t].rounds) \/ task.messages > tasks[t].messages
    BY <1>4 DEF Further, Newest
  <2> HIDE DEF x
  <2> QED BY <1>5, <1>7, <2>2, <2>3, <2>4 DEF Key, Newest, x
<1>8. new = IF NeedsWake(task) THEN <<e>> ELSE <<>>
  BY DEF Wake
<1> HIDE DEF e, new
<1>9. /\ new \in Seq(EventRows) /\ Len(new) <= 1 /\ \A k \in 1 .. Len(new) : new[k] = e
      /\ NeedsWake(task) => 1 \in 1 .. Len(new) /\ new[1] = e
  BY <1>7, <1>8
<1>11. Needy(task) => \E k \in 1 .. Len(new) : /\ new[k].status = "pending"
                                              /\ IsNews(new[k], t, Newest(task), task.messages)
  BY <1>7, <1>9 DEF Needy
<1>12. ASSUME NEW r \in 1 .. Len(task.rounds), MustStop(task.rounds[r])
       PROVE  r \in 1 .. Len(tasks[t].rounds) /\ MustStop(tasks[t].rounds[r])
  BY <1>4, <1>5, <1>12 DEF Lenient, StopsKept
<1>13. \A u \in Tasks : u # t => tasks'[u] = tasks[u]
  BY <1>3 DEF OneMoves
<1>14. Unstopped(task)
  BY <1>4 DEF Lenient
<1>15. /\ Unstopped(tasks'[t])
       /\ Needy(tasks'[t]) =>
            \/ Needy(tasks[t]) /\ Newest(tasks'[t]) = Newest(tasks[t]) /\ tasks'[t].messages = tasks[t].messages
            \/ \E k \in 1 .. Len(new) : /\ new[k].status = "pending"
                                        /\ IsNews(new[k], t, Newest(tasks'[t]), tasks'[t].messages)
       /\ \A r \in 1 .. Len(tasks'[t].rounds) : MustStop(tasks'[t].rounds[r]) =>
            \/ r \in 1 .. Len(tasks[t].rounds) /\ MustStop(tasks[t].rounds[r])
            \/ \E k \in 1 .. Len(new) : new[k].status = "pending" /\ IsStop(new[k], t, r)
  BY <1>11, <1>12, <1>14 DEF task
<1>16. /\ Grown(tasks[t], tasks'[t])
       /\ \A k \in 1 .. Len(new) : new[k].task = t /\ Behind(new[k], tasks'[t])
       /\ \A k \in 1 .. Len(new) : Waiting(new[k]) =>
            \A i \in 1 .. Len(events) : ~(Waiting(events[i]) /\ Key(events[i]) = Key(new[k]))
  BY <1>4, <1>7, <1>71, <1>9 DEF task
<1> QED BY ONLY DInv, t \in Tasks, <1>1, <1>3, <1>9, <1>13, <1>15, <1>16, HandlerKeeps

LEMMA StopsStep ==
  ASSUME DInv, NEW t \in Tasks, Stops(t)
  PROVE  DInv'
<1> DEFINE task == tasks'[t]
           e == Event(t, task, "cancel", FALSE)
           new == Stop(t, task)
<1>1. (Cancel(t) \/ CloseLocal(t)) /\ events' = events \o new /\ UNCHANGED <<told, tick>> /\ new = <<e>>
  BY DEF Stops, Emit, Stop
<1>2. UserStep(t) /\ TasksInv /\ IInv
  BY <1>1 DEF UserStep, DInv, IInv
<1>3. OneMoves(t) /\ IInv'
  BY <1>2, HandlerMoves, RoundsStep DEF Next
<1>4. /\ Unstopped(task) /\ ~Needy(task) /\ task.rounds # <<>> /\ Grown(tasks[t], task)
      /\ \A r \in 1 .. Len(task.rounds) :
           MustStop(task.rounds[r]) => r = Newest(task) \/ (r <= Len(tasks[t].rounds) /\ MustStop(tasks[t].rounds[r]))
  BY <1>1, <1>2, StopsNeeds DEF DInv, UnstoppedInv
<1>5. task \in TaskRow /\ Len(task.rounds) <= MaxRounds /\ Len(task.rounds) \in Nat /\ Len(tasks[t].rounds) \in Nat
  <2>1. (tasks[t] \in TaskRow /\ Len(tasks[t].rounds) <= MaxRounds /\ Len(tasks[t].rounds) \in Nat)'
    BY <1>3 DEF IInv, TasksInv, BoundsInv, TaskRow
  <2> QED BY <1>2, <2>1, RowNow
<1> HIDE DEF task
<1>6. /\ e \in EventRows /\ e.status = "pending" /\ ~Waiting(e) /\ IsStop(e, t, Newest(task))
      /\ e.task = t /\ Behind(e, task)
  BY <1>4, <1>5, StopRow
<1> HIDE DEF e, new
<1>7. /\ new \in Seq(EventRows) /\ 1 \in 1 .. Len(new) /\ new[1] = e /\ Len(new) <= 1
      /\ \A k \in 1 .. Len(new) : new[k] = e
  BY <1>1, <1>6
<1>8. \A u \in Tasks : u # t => tasks'[u] = tasks[u]
  BY <1>3 DEF OneMoves
<1>9. ASSUME NEW r \in 1 .. Len(task.rounds), MustStop(task.rounds[r])
      PROVE  \/ r \in 1 .. Len(tasks[t].rounds) /\ MustStop(tasks[t].rounds[r])
             \/ \E k \in 1 .. Len(new) : new[k].status = "pending" /\ IsStop(new[k], t, r)
  BY <1>4, <1>5, <1>6, <1>7, <1>9
<1>10. /\ Unstopped(tasks'[t])
       /\ Needy(tasks'[t]) =>
            \/ Needy(tasks[t]) /\ Newest(tasks'[t]) = Newest(tasks[t]) /\ tasks'[t].messages = tasks[t].messages
            \/ \E k \in 1 .. Len(new) : /\ new[k].status = "pending"
                                        /\ IsNews(new[k], t, Newest(tasks'[t]), tasks'[t].messages)
       /\ \A r \in 1 .. Len(tasks'[t].rounds) : MustStop(tasks'[t].rounds[r]) =>
            \/ r \in 1 .. Len(tasks[t].rounds) /\ MustStop(tasks[t].rounds[r])
            \/ \E k \in 1 .. Len(new) : new[k].status = "pending" /\ IsStop(new[k], t, r)
  BY <1>4, <1>9 DEF task
<1>11. /\ Grown(tasks[t], tasks'[t])
       /\ \A k \in 1 .. Len(new) : new[k].task = t /\ Behind(new[k], tasks'[t])
       /\ \A k \in 1 .. Len(new) : Waiting(new[k]) =>
            \A i \in 1 .. Len(events) : ~(Waiting(events[i]) /\ Key(events[i]) = Key(new[k]))
  BY <1>4, <1>6, <1>7 DEF task
<1> QED BY ONLY DInv, t \in Tasks, <1>1, <1>3, <1>7, <1>8, <1>10, <1>11, HandlerKeeps

LEMMA AnswersStep ==
  ASSUME DInv, NEW t \in Tasks, Answers(t)
  PROVE  DInv'
<1> DEFINE task == tasks'[t]
<1>1. DotStep(t)
  BY DEF Answers, DotStep
<1>2. TasksInv /\ IInv
  BY DEF DInv, IInv
<1>3. OneMoves(t) /\ IInv'
  BY <1>1, <1>2, HandlerMoves, RoundsStep DEF Next
<1>4. AnswerKeeps(tasks[t], task)
  BY <1>1, <1>2, AnswersNeeds DEF DInv, UnstoppedInv
<1>5. \A u \in Tasks : u # t => tasks'[u] = tasks[u]
  BY <1>3 DEF OneMoves
<1>6. UNCHANGED outbox \/ Emit(WakeOnce(t, task))
  BY DEF Answers, Quiet
<1>7. CASE UNCHANGED outbox
  <2>1. ASSUME NEW u \in Tasks PROVE Unstopped(tasks[u]) => AnswerKeeps(tasks[u], tasks'[u])
    <3>1. CASE u = t
      BY <1>4, <3>1
    <3>2. CASE u # t
      BY <1>5, <3>2, SameKeeps
    <3> QED BY <3>1, <3>2
  <2> QED BY ONLY DInv, <1>3, <1>7, <2>1, QuietKeeps
<1>8. CASE Emit(WakeOnce(t, task))
  <2> DEFINE new == WakeOnce(t, task)
             e == News(t, task)
  <2>1. events' = events \o new /\ UNCHANGED <<told, tick>>
    BY <1>8 DEF Emit
  <2>2. task \in TaskRow /\ Len(task.rounds) <= MaxRounds /\ Len(task.rounds) \in Nat /\ Len(tasks[t].rounds) \in Nat
    <3>1. (tasks[t] \in TaskRow /\ Len(tasks[t].rounds) <= MaxRounds /\ Len(tasks[t].rounds) \in Nat)'
      BY <1>3 DEF IInv, TasksInv, BoundsInv, TaskRow
    <3> QED BY <1>2, <3>1, RowNow
  <2>3. task.rounds # <<>>
    <3>1. tasks[t].rounds # <<>>
      <4>1. tasks[t] \in TaskRow
        BY <1>2, RowNow
      <4> QED BY <1>1, <4>1 DEF DotStep, Claim, Exists, TaskRow
    <3>2. Len(tasks[t].rounds) # 0
      BY <1>2, <3>1, RowNow DEF TaskRow
    <3>3. Len(task.rounds) # 0
      BY <1>3, <2>2, <3>2 DEF OneMoves, Moves, Keeps, Ends, Opens
    <3> HIDE DEF task
    <3> QED BY <3>3
  <2> HIDE DEF task
  <2>4. /\ e \in EventRows /\ e.task = t /\ Behind(e, task)
        /\ Key(e) = <<t, Newest(task), task.messages>>
    BY <2>2, <2>3, NewsRow
  <2>5. new = <<>> \/ (new = <<e>> /\ ~HasPendingWake(t, task))
    BY DEF WakeOnce, Wake
  <2>51. task.messages \in Nat
    BY <2>2, RoundsAssumption DEF TaskRow
  <2> HIDE DEF e, new
  <2>52. ASSUME NEW i \in 1 .. Len(events), ~HasPendingWake(t, task), Waiting(events[i]) PROVE Key(events[i]) # Key(e)
    <3>1. events[i] \in EventRows /\ i \in DOMAIN events
      BY DEF DInv, OutboxInv
    <3> QED BY <2>4, <2>51, <2>52, <3>1 DEF HasPendingWake, IsWakeFor, Key, Waiting, EventRows
  <2>6. /\ new \in Seq(EventRows) /\ Len(new) <= 1
        /\ \A k \in 1 .. Len(new) : new[k] = e /\ ~HasPendingWake(t, task)
    <3>1. CASE new = <<>>
      BY <3>1
    <3>2. CASE new = <<e>> /\ ~HasPendingWake(t, task)
      BY <2>4, <3>2
    <3> QED BY <2>5, <3>1, <3>2
  <2>7. ASSUME NEW r \in 1 .. Len(task.rounds), MustStop(task.rounds[r])
        PROVE  r \in 1 .. Len(tasks[t].rounds) /\ MustStop(tasks[t].rounds[r])
    BY <1>4, <2>2, <2>7 DEF AnswerKeeps, Lenient, StopsKept
  <2>8. /\ Unstopped(tasks'[t])
        /\ Needy(tasks'[t]) =>
             \/ Needy(tasks[t]) /\ Newest(tasks'[t]) = Newest(tasks[t]) /\ tasks'[t].messages = tasks[t].messages
             \/ \E k \in 1 .. Len(new) : /\ new[k].status = "pending"
                                         /\ IsNews(new[k], t, Newest(tasks'[t]), tasks'[t].messages)
        /\ \A r \in 1 .. Len(tasks'[t].rounds) : MustStop(tasks'[t].rounds[r]) =>
             \/ r \in 1 .. Len(tasks[t].rounds) /\ MustStop(tasks[t].rounds[r])
             \/ \E k \in 1 .. Len(new) : new[k].status = "pending" /\ IsStop(new[k], t, r)
    BY <1>4, <2>7 DEF AnswerKeeps, Lenient, task
  <2>9. /\ Grown(tasks[t], tasks'[t])
        /\ \A k \in 1 .. Len(new) : new[k].task = t /\ Behind(new[k], tasks'[t])
        /\ \A k \in 1 .. Len(new) : Waiting(new[k]) =>
             \A i \in 1 .. Len(events) : ~(Waiting(events[i]) /\ Key(events[i]) = Key(new[k]))
    BY <1>4, <2>4, <2>52, <2>6 DEF AnswerKeeps, task
  <2> QED BY ONLY DInv, t \in Tasks, <1>3, <1>5, <2>1, <2>6, <2>8, <2>9, HandlerKeeps
<1> QED BY <1>6, <1>7, <1>8

LEMMA CreateStep ==
  ASSUME DInv, NEW t \in Tasks, CreateTask(t), Quiet
  PROVE  DInv'
<1>1. UserStep(t) /\ TasksInv /\ IInv
  BY DEF UserStep, DInv, IInv
<1>2. OneMoves(t) /\ IInv'
  BY <1>1, HandlerMoves, RoundsStep DEF Next
<1>3. AnswerKeeps(tasks[t], tasks'[t])
  BY <1>1, CreateNeeds DEF AnswerKeeps
<1>4. ASSUME NEW u \in Tasks PROVE Unstopped(tasks[u]) => AnswerKeeps(tasks[u], tasks'[u])
  <2>1. CASE u = t
    BY <1>3, <2>1
  <2>2. CASE u # t
    BY <1>2, <2>2, SameKeeps DEF OneMoves
  <2> QED BY <2>1, <2>2
<1> QED BY <1>2, <1>4, QuietKeeps DEF Quiet

\* The limit, and the subscription that ends
LEMMA SettingsStep ==
  ASSUME DInv, (\E c \in 1 .. MaxCap : SetCap(c)) \/ Unsubscribe, Quiet
  PROVE  DInv'
<1>1. IInv' /\ UNCHANGED tasks
  BY RoundsStep DEF DInv, Next, SetCap, Unsubscribe
<1>2. \A u \in Tasks : Unstopped(tasks[u]) => AnswerKeeps(tasks[u], tasks'[u])
  BY <1>1, SameKeeps
<1> QED BY <1>1, <1>2, QuietKeeps DEF Quiet

-----------------------------------------------------------------------------
(* Reminders, the subscription, and the waits that deliverTick keeps *)

LEMMA TasksKeep ==
  ASSUME IInv, UNCHANGED <<route, cap, plan>>, tasks' = [t \in Tasks |-> tasks'[t]],
         \A t \in Tasks : Sound(tasks'[t]) /\ Len(tasks'[t].rounds) = Len(tasks[t].rounds)
  PROVE  IInv'
<1>1. \A t \in Tasks : tasks'[t] \in TaskRow
  BY DEF Sound, WellFormed
<1>2. TasksInv'
  BY <1>1 DEF TasksInv
<1>3. BoundsInv'
  BY DEF IInv, BoundsInv
<1> QED BY <1>2, <1>3 DEF IInv

\* The wait of the current round is not what is announced.
LEMMA WaitKeeps ==
  ASSUME NEW task, Sound(task), task.rounds # <<>>, NEW wait \in [known : BOOLEAN, retries : Nat]
  PROVE  LET k == Newest(task)
             new == WithRound(task, k, [task.rounds[k] EXCEPT !.wait = wait]) IN
         /\ Sound(new) /\ new.rounds # <<>> /\ Len(new.rounds) = Len(task.rounds)
         /\ Unstopped(task) => AnswerKeeps(task, new)
<1> DEFINE k == Newest(task)
           round == [task.rounds[k] EXCEPT !.wait = wait]
           new == WithRound(task, k, round)
<1>1. WellFormed(task) /\ task \in TaskRow /\ k \in 1 .. Len(task.rounds) /\ task.rounds[k] \in RoundType
  BY DEF Sound, WellFormed, TaskRow, Newest
<1>2. round \in RoundType /\ Alike(round, task.rounds[k]) /\ round.closed = task.rounds[k].closed
      /\ round.result = task.rounds[k].result
  BY <1>1 DEF RoundType, Alike
<1> HIDE DEF round
<1>3. round.status = task.rounds[k].status /\ round.claimed = task.rounds[k].claimed
  BY <1>2 DEF Alike
<1>4. WellFormed(new) /\ new.rounds # <<>> /\ Len(new.rounds) = Len(task.rounds)
  BY <1>1, <1>2, <1>3, RoundMoves
<1>5. new.rounds[k] = round /\ new.messages = task.messages
  BY ZenonT(40), <1>1, <1>2, RoundRow
<1>6. OneRound(task, new, k, round)
  BY <1>1, <1>2, RoundOne
<1> HIDE DEF new
<1>7. Covered(new)
  <2>1. Newest(new) = k /\ Current(new) = round /\ Current(task) = task.rounds[k]
    BY <1>4, <1>5 DEF Newest, Current
  <2> QED BY <1>2, <1>5, <2>1 DEF Sound, Covered
<1>8. ASSUME Unstopped(task) PROVE AnswerKeeps(task, new)
  <2>1. task.rounds[k].status \in {"queued", "dispatched"} => ~task.rounds[k].stop
    BY <1>1, <1>8 DEF Unstopped
  <2>2. /\ round.status \in {"queued", "dispatched"} => ~round.stop
        /\ MustStop(round) => MustStop(task.rounds[k])
        /\ k = Newest(task) /\ Wants(round, task.messages) => Wants(task.rounds[k], task.messages)
    BY <1>2, <2>1 DEF Alike, MustStop, Wants
  <2>3. Grown(task, new)
    BY <1>4, <1>5 DEF Grown
  <2> QED BY <1>6, <1>8, <2>2, <2>3, OneRoundNeeds DEF AnswerKeeps
<1> QED BY <1>4, <1>7, <1>8 DEF Sound, new, round

LEMMA RecomputeKeeps ==
  ASSUME NEW task, Sound(task), task.rounds # <<>>
  PROVE  /\ Sound(Recompute(task)) /\ Recompute(task).rounds # <<>> /\ Len(Recompute(task).rounds) = Len(task.rounds)
         /\ \A old : AnswerKeeps(old, task) => AnswerKeeps(old, Recompute(task))
<1> DEFINE new == Recompute(task)
<1>1. task \in TaskRow /\ WellFormed(task) /\ Len(task.rounds) \in Nat
  BY DEF Sound, WellFormed, TaskRow
<1>2. Sound(new) /\ new.rounds # <<>> /\ Len(new.rounds) = Len(task.rounds)
  BY <1>1, MovesRefl, SavedRow
<1>3. new \in TaskRow /\ TaskAlike(new, task)
  BY <1>1, RecomputeRow, RecomputeAlike
<1> HIDE DEF new
<1>4. /\ Needy(new) => Needy(task)
      /\ Newest(new) = Newest(task) /\ new.messages = task.messages
      /\ Unstopped(task) => Lenient(task, new)
  BY <1>1, <1>3, AlikeNeeds
<1>5. ASSUME NEW old, AnswerKeeps(old, task) PROVE AnswerKeeps(old, new)
  <2>1. Lenient(old, task) /\ Unstopped(task)
    BY <1>5 DEF AnswerKeeps, Lenient
  <2>2. Lenient(old, new)
    BY <1>1, <1>2, <1>4, <2>1, LenientTrans
  <2>3. Grown(old, new)
    BY <1>2, <1>4, <1>5 DEF AnswerKeeps, Grown
  <2> QED BY <1>4, <1>5, <2>2, <2>3 DEF AnswerKeeps
<1> QED BY <1>2, <1>5 DEF new

\* Events that nothing needed, and reminders of which none is there yet
LEMMA BroadcastKeeps ==
  ASSUME DInv, IInv', NEW new \in Seq(EventRows), events' = events \o new, TickKeeps, told' = told,
         \A t \in Tasks : Unstopped(tasks[t]) => AnswerKeeps(tasks[t], tasks'[t]),
         \A k \in 1 .. Len(new) : new[k].task \in Tasks /\ Behind(new[k], tasks[new[k].task]),
         \A k \in 1 .. Len(new) : Waiting(new[k]) =>
           \A i \in 1 .. Len(events) : ~(Waiting(events[i]) /\ Key(events[i]) = Key(new[k])),
         \A k, l \in 1 .. Len(new) : Waiting(new[k]) /\ Waiting(new[l]) /\ Key(new[k]) = Key(new[l]) => k = l
  PROVE  DInv'
<1>1. events \in Seq(EventRows)
  BY DEF DInv, OutboxInv
<1>2. \A t \in Tasks : AnswerKeeps(tasks[t], tasks'[t])
  BY DEF DInv, UnstoppedInv
<1>3. \A t \in Tasks : Unstopped(tasks'[t])
  BY <1>2 DEF AnswerKeeps, Lenient
<1>4. ASSUME NEW u \in Tasks, Needy(tasks'[u])
      PROVE  \/ /\ Needy(tasks[u]) /\ Newest(tasks'[u]) = Newest(tasks[u]) /\ tasks'[u].messages = tasks[u].messages
                /\ \A i \in 1 .. Len(events) : events[i].task = u => events[i] = events[i]
             \/ \E k \in 1 .. Len(new) : /\ new[k].status = "pending"
                                         /\ IsNews(new[k], u, Newest(tasks'[u]), tasks'[u].messages)
  BY <1>2, <1>4 DEF AnswerKeeps
<1>5. ASSUME NEW u \in Tasks, NEW r \in 1 .. Len(tasks'[u].rounds), MustStop(tasks'[u].rounds[r])
      PROVE  \/ /\ r \in 1 .. Len(tasks[u].rounds) /\ MustStop(tasks[u].rounds[r])
                /\ \A i \in 1 .. Len(events) : IsStop(events[i], u, r) => events[i] = events[i]
             \/ \E k \in 1 .. Len(new) : new[k].status = "pending" /\ IsStop(new[k], u, r)
  <2>1. Len(tasks[u].rounds) \in Nat /\ Len(tasks'[u].rounds) \in Nat
    BY DEF DInv, IInv, TasksInv, TaskRow
  <2> QED BY <1>2, <1>5, <2>1 DEF AnswerKeeps, Lenient, StopsKept
<1>6. \A i \in 1 .. Len(events) : Waiting(events[i]) => events[i] = events[i]
  OBVIOUS
<1>7. /\ \A u \in Tasks : Grown(tasks[u], tasks'[u])
      /\ \A i \in 1 .. Len(events) : SamePlace(events[i], events[i])
  BY <1>2 DEF AnswerKeeps, SamePlace
<1>8. ASSUME NEW k \in 1 .. Len(new) PROVE Behind(new[k], tasks'[new[k].task])
  <2>1. new[k] \in EventRows /\ Alive(new[k]) /\ IInv /\ SamePlace(new[k], new[k])
    BY DEF Alive, DInv, SamePlace
  <2> QED BY <1>7, <2>1, StaysAlive
<1> QED BY <1>1, <1>3, <1>4, <1>5, <1>6, <1>7, <1>8, StepKeeps

\* A reminder is only made when none of the same message waits.
LEMMA NoneWaits ==
  ASSUME DInv, NEW t \in Tasks, ~HasPendingWake(t, tasks[t]), NEW i \in 1 .. Len(events), Waiting(events[i])
  PROVE  Key(events[i]) # <<t, Newest(tasks[t]), tasks[t].messages>>
<1>1. events[i] \in EventRows /\ i \in DOMAIN events
  BY DEF DInv, OutboxInv
<1>2. tasks[t].messages \in Nat
  BY RoundsAssumption DEF DInv, IInv, TasksInv, TaskRow
<1> QED BY <1>1, <1>2 DEF HasPendingWake, IsWakeFor, Key, Waiting, EventRows

LEMMA SubscribesStep ==
  ASSUME DInv, Subscribes
  PROVE  DInv'
<1> DEFINE again == {t \in Tasks : Exists(t) /\ NeedsWake(tasks[t]) /\ ~HasPendingWake(t, tasks[t])}
           f == [t \in again |-> News(t, tasks[t])]
           new == InOrder(f)
<1>1. Subscribe /\ events' = events \o new /\ UNCHANGED <<told, tick>>
  BY DEF Subscribes, Emit
<1>2. IInv' /\ UNCHANGED tasks
  BY <1>1, RoundsStep DEF DInv, Next, Subscribe
<1>3. again \subseteq Nat /\ IsFiniteSet(again)
  BY TasksFinite
<1>4. ASSUME NEW t \in again
      PROVE  /\ f[t] \in EventRows /\ f[t].task = t /\ t \in Tasks /\ Behind(f[t], tasks[t])
             /\ Key(f[t]) = <<t, Newest(tasks[t]), tasks[t].messages>> /\ ~HasPendingWake(t, tasks[t])
  <2>1. tasks[t] \in TaskRow /\ Len(tasks[t].rounds) <= MaxRounds /\ tasks[t].rounds # <<>>
    BY RowNow DEF DInv, Exists
  <2>2. f[t] = News(t, tasks[t]) /\ t \in Tasks
    OBVIOUS
  <2>3. ~HasPendingWake(t, tasks[t])
    OBVIOUS
  <2> HIDE DEF f, again
  <2> QED BY <2>1, <2>2, <2>3, NewsRow
<1>5. f \in [again -> EventRows]
  BY <1>4
<1> HIDE DEF f, again
<1>6. new \in Seq(EventRows)
  BY ONLY <1>3, <1>5, InOrderSeq
<1>61. DOMAIN f = again
  BY <1>5
<1>62. PICK n, at : Lists(f, n, at)
  BY <1>3, <1>61, InOrderLists
<1>63. /\ n \in Nat /\ at \in [1 .. n -> again] /\ new = [k \in 1 .. n |-> f[at[k]]]
       /\ \A k, l \in 1 .. n : at[k] = at[l] => k = l
  BY <1>61, <1>62 DEF Lists
<1> HIDE DEF new
<1>64. Len(new) = n /\ \A k \in 1 .. n : new[k] = f[at[k]] /\ at[k] \in again
  BY <1>63
<1>71. \A k \in 1 .. Len(new) : new[k].task \in Tasks /\ Behind(new[k], tasks[new[k].task])
  BY <1>4, <1>64
<1>72. ASSUME NEW k \in 1 .. Len(new), NEW i \in 1 .. Len(events), Waiting(events[i]) PROVE Key(events[i]) # Key(new[k])
  <2>1. /\ at[k] \in Tasks /\ ~HasPendingWake(at[k], tasks[at[k]])
        /\ Key(new[k]) = <<at[k], Newest(tasks[at[k]]), tasks[at[k]].messages>>
    BY <1>4, <1>64
  <2> QED BY <1>72, <2>1, NoneWaits
<1>73. ASSUME NEW k \in 1 .. Len(new), NEW l \in 1 .. Len(new), Key(new[k]) = Key(new[l]) PROVE k = l
  BY <1>4, <1>63, <1>64, <1>73 DEF Key
<1>7. /\ \A k \in 1 .. Len(new) : Waiting(new[k]) =>
           \A i \in 1 .. Len(events) : ~(Waiting(events[i]) /\ Key(events[i]) = Key(new[k]))
      /\ \A k, l \in 1 .. Len(new) : Waiting(new[k]) /\ Waiting(new[l]) /\ Key(new[k]) = Key(new[l]) => k = l
  BY <1>72, <1>73
<1>8. \A u \in Tasks : Unstopped(tasks[u]) => AnswerKeeps(tasks[u], tasks'[u])
  BY <1>2, SameKeeps
<1> QED BY <1>1, <1>2, <1>6, <1>7, <1>71, <1>8, BroadcastKeeps DEF TickKeeps

LEMMA RemindRow ==
  ASSUME IInv, NEW t \in Tasks, tasks[t].rounds # <<>>
  PROVE  /\ Remind(t, tasks[t]) \in EventRows /\ Remind(t, tasks[t]).task = t /\ Behind(Remind(t, tasks[t]), tasks[t])
         /\ Key(Remind(t, tasks[t])) = <<t, Newest(tasks[t]), tasks[t].messages>>
<1> DEFINE task == tasks[t]
<1>1. task \in TaskRow /\ task.rounds # <<>> /\ Len(task.rounds) <= MaxRounds
  BY RowNow
<1> HIDE DEF task
<1>2. /\ Remind(t, task) \in EventRows /\ Key(Remind(t, task)) = <<t, Newest(task), task.messages>>
      /\ Remind(t, task).task = t /\ Behind(Remind(t, task), task)
  BY <1>1, ReminderRow
<1> QED BY <1>2 DEF task

LEMMA RewakeStep ==
  ASSUME DInv, NEW t \in Tasks, Rewake(t)
  PROVE  DInv'
<1> DEFINE e == Remind(t, tasks[t])
           new == <<e>>
<1>1. /\ Exists(t) /\ ~HasPendingWake(t, tasks[t]) /\ Save(t, tasks[t])
      /\ events' = events \o new /\ UNCHANGED <<told, tick>>
  BY DEF Rewake, Emit
<1>2. /\ tasks[t] \in TaskRow /\ Len(tasks[t].rounds) <= MaxRounds /\ tasks[t].rounds # <<>> /\ Sound(tasks[t])
      /\ tasks \in [Tasks -> TaskRow] /\ IInv
  BY <1>1, RowNow DEF DInv, IInv, TasksInv, Exists
<1>3. tasks' = [tasks EXCEPT ![t] = Recompute(tasks[t])] /\ UNCHANGED <<route, cap, plan>>
  BY <1>1 DEF Save
<1>4. Sound(Recompute(tasks[t])) /\ Len(Recompute(tasks[t]).rounds) = Len(tasks[t].rounds)
      /\ (Unstopped(tasks[t]) => AnswerKeeps(tasks[t], Recompute(tasks[t])))
  BY <1>2, RecomputeKeeps, SameKeeps
<1>5. IInv'
  <2>1. \A u \in Tasks : Sound(tasks'[u]) /\ Len(tasks'[u].rounds) = Len(tasks[u].rounds)
    BY <1>2, <1>3, <1>4 DEF IInv, TasksInv
  <2>2. tasks' = [u \in Tasks |-> tasks'[u]]
    BY <1>2, <1>3
  <2> QED BY <1>2, <1>3, <2>1, <2>2, TasksKeep
<1>6. ASSUME NEW u \in Tasks, Unstopped(tasks[u]) PROVE AnswerKeeps(tasks[u], tasks'[u])
  <2>1. CASE u = t
    BY <1>2, <1>3, <1>4, <1>6, <2>1
  <2>2. CASE u # t
    <3>1. tasks'[u] = tasks[u]
      BY <1>2, <1>3, <2>2
    <3> QED BY <1>6, <3>1, SameKeeps
  <2> QED BY <2>1, <2>2
<1>7. /\ e \in EventRows /\ Key(e) = <<t, Newest(tasks[t]), tasks[t].messages>>
      /\ e.task = t /\ Behind(e, tasks[t])
  BY <1>2, RemindRow
<1> HIDE DEF e
<1>8. new \in Seq(EventRows) /\ \A k \in 1 .. Len(new) : k = 1 /\ new[k] = e
  BY <1>7
<1> HIDE DEF new
<1>9. \A i \in 1 .. Len(events) : ~(Waiting(events[i]) /\ Key(events[i]) = Key(e))
  BY <1>1, <1>7, NoneWaits
<1>10. \A k \in 1 .. Len(new) : new[k].task \in Tasks /\ Behind(new[k], tasks[new[k].task])
  BY <1>7, <1>8
<1> QED BY <1>1, <1>5, <1>6, <1>8, <1>9, <1>10, BroadcastKeeps DEF TickKeeps

LEMMA TickStartStep ==
  ASSUME DInv, NEW due \in SUBSET {t \in Tasks : Overdue(t)}, TickStart(due)
  PROVE  DInv'
<1> DEFINE f == [t \in due |-> Remind(t, tasks[t])]
           new == InOrder(f)
           row(t) == Recompute(Reminded(t))
<1>1. /\ tasks' = [t \in Tasks |-> IF t \in due THEN row(t) ELSE tasks[t]]
      /\ events' = events \o new /\ UNCHANGED <<route, cap, plan, told>>
      /\ tick' = [on |-> TRUE, next |-> 1, upto |-> Len(events'), live |-> route,
                  decided |-> [i \in DOMAIN events' |-> "none"]]
  BY DEF TickStart
<1>2. IInv /\ due \subseteq Tasks
  BY DEF DInv
<1>3. ASSUME NEW t \in due
      PROVE  /\ Exists(t) /\ tasks[t].rounds # <<>> /\ ~HasPendingWake(t, tasks[t])
             /\ tasks[t] \in TaskRow /\ Len(tasks[t].rounds) <= MaxRounds /\ Sound(tasks[t])
  BY <1>2, RowNow DEF Overdue, Exists, IInv, TasksInv
<1>4. ASSUME NEW t \in due
      PROVE  /\ Sound(row(t)) /\ Len(row(t).rounds) = Len(tasks[t].rounds)
             /\ Unstopped(tasks[t]) => AnswerKeeps(tasks[t], row(t))
  <2> DEFINE task == tasks[t]
             k == Newest(task)
             round == task.rounds[k]
             wait == [round.wait EXCEPT !.retries = @ + 1]
             mid == WithRound(task, k, [round EXCEPT !.wait = wait])
  <2>1. k \in 1 .. Len(task.rounds) /\ round \in RoundType /\ task \in TaskRow
    BY <1>3 DEF TaskRow, Newest
  <2>2. wait \in [known : BOOLEAN, retries : Nat]
    BY <2>1 DEF RoundType
  <2>3. Reminded(t) = mid
    BY <2>1 DEF Reminded, WithRound, TaskRow, RoundType
  <2> HIDE DEF wait
  <2>4. /\ Sound(mid) /\ mid.rounds # <<>> /\ Len(mid.rounds) = Len(task.rounds)
        /\ Unstopped(task) => AnswerKeeps(task, mid)
    BY <1>3, <2>2, WaitKeeps
  <2> HIDE DEF mid, task
  <2>5. /\ Sound(Recompute(mid)) /\ Len(Recompute(mid).rounds) = Len(mid.rounds)
        /\ \A old : AnswerKeeps(old, mid) => AnswerKeeps(old, Recompute(mid))
    BY <2>4, RecomputeKeeps
  <2> QED BY <2>3, <2>4, <2>5 DEF task
<1> HIDE DEF row
<1>5. IInv'
  <2>1. \A t \in Tasks : Sound(tasks'[t]) /\ Len(tasks'[t].rounds) = Len(tasks[t].rounds)
    BY <1>1, <1>2, <1>4 DEF IInv, TasksInv
  <2>2. tasks' = [t \in Tasks |-> tasks'[t]]
    BY <1>1
  <2> QED BY <1>1, <1>2, <2>1, <2>2, TasksKeep
<1>6. ASSUME NEW t \in Tasks, Unstopped(tasks[t]) PROVE AnswerKeeps(tasks[t], tasks'[t])
  <2>1. CASE t \in due
    BY <1>1, <1>4, <1>6, <2>1
  <2>2. CASE t \notin due
    BY <1>1, <1>6, <2>2, SameKeeps
  <2> QED BY <2>1, <2>2
<1>7. ASSUME NEW t \in due
      PROVE  /\ f[t] \in EventRows /\ f[t].task = t /\ Key(f[t]) = <<t, Newest(tasks[t]), tasks[t].messages>>
             /\ Behind(f[t], tasks[t])
  <2>1. t \in Tasks /\ tasks[t].rounds # <<>>
    BY <1>2, <1>3
  <2>2. f[t] = Remind(t, tasks[t])
    OBVIOUS
  <2> HIDE DEF f
  <2> QED BY <1>2, <2>1, <2>2, RemindRow
<1>8. f \in [due -> EventRows] /\ DOMAIN f = due
  BY <1>7
<1> HIDE DEF f
<1>9. due \subseteq Nat /\ IsFiniteSet(due)
  BY <1>2, TasksFinite
<1>101. new \in Seq(EventRows)
  <2>1. f \in [due -> EventRows]
    BY <1>8
  <2> QED BY ONLY <1>9, <2>1, InOrderSeq
<1>102. PICK n, at : Lists(f, n, at)
  BY <1>8, <1>9, InOrderLists
<1>103. /\ n \in Nat /\ at \in [1 .. n -> due] /\ new = [k \in 1 .. n |-> f[at[k]]]
        /\ \A k, l \in 1 .. n : at[k] = at[l] => k = l
  BY <1>8, <1>102 DEF Lists
<1>10. new \in Seq(EventRows) /\ \A k \in 1 .. Len(new) : \E t \in due : new[k] = f[t]
  <2> HIDE DEF new
  <2>1. Len(new) = n /\ \A k \in 1 .. n : new[k] = f[at[k]] /\ at[k] \in due
    BY <1>103
  <2> QED BY <1>101, <2>1
<1>11. \A k, l \in 1 .. Len(new) : Waiting(new[k]) /\ Waiting(new[l]) /\ Key(new[k]) = Key(new[l]) => k = l
  <2> HIDE DEF new
  <2>3. Len(new) = n
    BY <1>103
  <2>4. \A k \in 1 .. n : new[k].task = at[k]
    BY <1>7, <1>103
  <2>5. ASSUME NEW k \in 1 .. n, NEW l \in 1 .. n, Key(new[k]) = Key(new[l]) PROVE k = l
    BY <1>103, <2>4, <2>5 DEF Key
  <2> QED BY <2>3, <2>5
<1> HIDE DEF new
<1>12. ASSUME NEW k \in 1 .. Len(new), NEW i \in 1 .. Len(events), Waiting(events[i]) PROVE Key(events[i]) # Key(new[k])
  <2>1. PICK t \in due : new[k] = f[t]
    BY <1>10
  <2> QED BY <1>2, <1>3, <1>7, <1>12, <2>1, NoneWaits
<1>13. TickKeeps
  BY <1>1, <1>2 DEF TickKeeps, IInv, BoundsInv
<1>14. \A k \in 1 .. Len(new) : new[k].task \in Tasks /\ Behind(new[k], tasks[new[k].task])
  BY <1>2, <1>7, <1>10
<1> QED BY <1>1, <1>5, <1>6, <1>10, <1>11, <1>12, <1>13, <1>14, BroadcastKeeps

\* The dispatch: the events of the rounds it hands out are made anew.
LEMMA DispatchesStep ==
  ASSUME DInv, Dispatches
  PROVE  DInv'
<1> DEFINE S == Sent(Candidates)
           need == {u \in S : NeedsWake(tasks'[u])}
           f == [t \in need |-> News(t, tasks'[t])]
           new == InOrder(f)
           old == Supersede(S)
<1>1. /\ SendOut(S) /\ events' = old \o new /\ UNCHANGED <<route, cap, plan, told, tick>>
  BY DEF Dispatches
<1>2. S \in SUBSET Queued /\ S \subseteq Tasks
  BY DEF Sent, Oldest, StillQueued, Queued
<1> HIDE DEF S
<1>3. TasksInv /\ IInv /\ events \in Seq(EventRows) /\ Len(events) \in Nat
  BY DEF DInv, IInv, OutboxInv
<1>4. TasksInv' /\ (\A t \in S : HandsOut(tasks[t], tasks'[t])) /\ \A t \in Tasks \ S : tasks'[t] = tasks[t]
  BY <1>1, <1>2, <1>3, SendMoves
<1>5. \A t \in S : Lenient(tasks[t], tasks'[t]) /\ Newest(tasks'[t]) = Newest(tasks[t]) /\ tasks'[t].messages = tasks[t].messages
  BY <1>1, <1>2, <1>3, SendNeeds DEF DInv, UnstoppedInv
<1>6. IInv'
  <2>1. \A t \in Tasks : Len(tasks'[t].rounds) = Len(tasks[t].rounds)
    BY <1>2, <1>4 DEF HandsOut
  <2>2. BoundsInv'
    BY <1>1, <1>3, <2>1 DEF IInv, BoundsInv
  <2> QED BY <1>4, <2>2 DEF IInv
<1>7. ASSUME NEW t \in S
      PROVE  /\ News(t, tasks'[t]) \in EventRows /\ News(t, tasks'[t]).status = "pending"
             /\ IsNews(News(t, tasks'[t]), t, Newest(tasks'[t]), tasks'[t].messages)
             /\ News(t, tasks'[t]).task = t /\ Behind(News(t, tasks'[t]), tasks'[t])
             /\ Key(News(t, tasks'[t])) = <<t, Newest(tasks'[t]), tasks'[t].messages>>
  <2> DEFINE task == tasks'[t]
  <2>1. t \in Tasks /\ tasks[t].rounds # <<>> /\ Len(tasks[t].rounds) \in Nat \ {0}
    BY <1>2, <1>3 DEF Queued, Exists, TasksInv, TaskRow
  <2>2. (\A u \in Tasks : tasks[u] \in TaskRow /\ Len(tasks[u].rounds) <= MaxRounds)'
    BY <1>6 DEF IInv, TasksInv, BoundsInv
  <2>3. task \in TaskRow /\ Len(task.rounds) <= MaxRounds /\ Len(task.rounds) = Len(tasks[t].rounds)
    BY <1>4, <2>1, <2>2 DEF HandsOut
  <2> HIDE DEF task
  <2>4. task.rounds # <<>>
    BY <2>1, <2>3
  <2> QED BY <2>1, <2>3, <2>4, NewsRow DEF task
<1>8. f \in [need -> EventRows] /\ \A t \in need : f[t] = News(t, tasks'[t]) /\ t \in S
  BY <1>7
<1>9. need \subseteq Nat /\ IsFiniteSet(need)
  <2>1. need \in SUBSET Tasks
    BY <1>2
  <2> HIDE DEF need
  <2> QED BY <2>1, TasksFinite
<1> HIDE DEF f
<1>10. /\ new \in Seq(EventRows) /\ \A k \in 1 .. Len(new) : \E t \in need : new[k] = f[t]
       /\ \A t \in need : \E k \in 1 .. Len(new) : new[k] = f[t]
       /\ \A k, l \in 1 .. Len(new) : new[k].task = new[l].task => k = l
  <2> HIDE DEF need
  <2>1. f \in [need -> EventRows]
    BY <1>8
  <2>2. new \in Seq(EventRows)
    BY ONLY <1>9, <2>1, InOrderSeq
  <2>3. DOMAIN f = need
    BY <2>1
  <2>4. PICK n, at : Lists(f, n, at)
    BY ONLY <1>9, <2>3, InOrderLists
  <2>5. /\ n \in Nat /\ at \in [1 .. n -> need] /\ new = [k \in 1 .. n |-> f[at[k]]]
        /\ \A t \in need : \E k \in 1 .. n : at[k] = t
        /\ \A k, l \in 1 .. n : at[k] = at[l] => k = l
    BY <2>3, <2>4 DEF Lists
  <2> HIDE DEF new
  <2>6. Len(new) = n /\ \A k \in 1 .. n : new[k] = f[at[k]] /\ at[k] \in need
    BY <2>5
  <2>7. \A k \in 1 .. n : new[k].task = at[k]
    BY <1>7, <1>8, <2>6
  <2> QED BY <2>2, <2>5, <2>6, <2>7
<1> HIDE DEF new
<1>11. /\ old \in Seq(EventRows) /\ Len(old) = Len(events)
       /\ \A i \in 1 .. Len(events) :
            /\ old[i].attempts = events[i].attempts /\ SamePlace(old[i], events[i])
            /\ old[i] = events[i] \/ (events[i].task \in S /\ events[i].round = Newest(tasks[events[i].task])
                                      /\ old[i].status = "obsolete")
            /\ events[i].task \in S /\ events[i].round = Newest(tasks[events[i].task]) => old[i].status # "pending"
  <2>1. \A i \in 1 .. Len(events) : events[i] \in EventRows
    BY <1>3
  <2>2. ASSUME NEW i \in 1 .. Len(events)
        PROVE  /\ old[i] \in EventRows /\ old[i].attempts = events[i].attempts /\ SamePlace(old[i], events[i])
               /\ old[i] = events[i] \/ (events[i].task \in S /\ events[i].round = Newest(tasks[events[i].task])
                                         /\ old[i].status = "obsolete")
               /\ events[i].task \in S /\ events[i].round = Newest(tasks[events[i].task]) => old[i].status # "pending"
    <3>0. \/ events[i].status = "pending" /\ old[i] = [events[i] EXCEPT !.status = "obsolete"]
          \/ events[i].status # "pending" /\ old[i] = events[i]
          \/ ~(events[i].task \in S /\ events[i].round = Newest(tasks[events[i].task])) /\ old[i] = events[i]
      BY <1>3 DEF Supersede
    <3>1. old[i] = events[i] \/ (old[i] = [events[i] EXCEPT !.status = "obsolete"] /\ events[i].task \in S
                                 /\ events[i].round = Newest(tasks[events[i].task]))
      BY <1>3 DEF Supersede
    <3> HIDE DEF old
    <3>2. "obsolete" \in {"pending", "refused", "obsolete"}
      OBVIOUS
    <3>3. CASE old[i] = [events[i] EXCEPT !.status = "obsolete"]
      BY <2>1, <3>1, <3>2, <3>3 DEF EventRows, EventType, SamePlace
    <3>4. CASE old[i] = events[i]
      BY <2>1, <3>0, <3>4 DEF SamePlace, EventRows, EventType
    <3> QED BY <3>1, <3>3, <3>4
  <2>3. old = [i \in 1 .. Len(events) |-> old[i]]
    BY <1>3 DEF Supersede
  <2> HIDE DEF old
  <2> QED BY <1>3, <2>2, <2>3
<1> HIDE DEF old
<1>12. ASSUME NEW t \in Tasks PROVE Unstopped(tasks'[t])
  BY <1>4, <1>5 DEF Lenient, DInv, UnstoppedInv
<1>13. ASSUME NEW t \in Tasks, Needy(tasks'[t])
       PROVE  \/ /\ Needy(tasks[t]) /\ Newest(tasks'[t]) = Newest(tasks[t]) /\ tasks'[t].messages = tasks[t].messages
                 /\ \A i \in 1 .. Len(events) : events[i].task = t => old[i] = events[i]
              \/ \E k \in 1 .. Len(new) : /\ new[k].status = "pending"
                                          /\ IsNews(new[k], t, Newest(tasks'[t]), tasks'[t].messages)
  <2>1. CASE t \in S
    <3>1. t \in need
      BY <1>13, <2>1 DEF Needy
    <3>2. PICK k \in 1 .. Len(new) : new[k] = News(t, tasks'[t])
      BY <1>8, <1>10, <3>1
    <3> QED BY <1>7, <2>1, <3>2
  <2>2. CASE t \notin S
    BY <1>4, <1>11, <1>13, <2>2
  <2> QED BY <2>1, <2>2
<1>14. ASSUME NEW t \in Tasks, NEW r \in 1 .. Len(tasks'[t].rounds), MustStop(tasks'[t].rounds[r])
       PROVE  \/ /\ r \in 1 .. Len(tasks[t].rounds) /\ MustStop(tasks[t].rounds[r])
                 /\ \A i \in 1 .. Len(events) : IsStop(events[i], t, r) => old[i] = events[i]
              \/ \E k \in 1 .. Len(new) : new[k].status = "pending" /\ IsStop(new[k], t, r)
  <2>1. Len(tasks'[t].rounds) = Len(tasks[t].rounds) /\ Len(tasks[t].rounds) \in Nat
    BY <1>3, <1>4 DEF HandsOut, TasksInv, TaskRow
  <2>2. r \in 1 .. Len(tasks[t].rounds) /\ MustStop(tasks[t].rounds[r])
    BY <1>4, <1>5, <1>14, <2>1 DEF Lenient, StopsKept
  <2>3. t \in S => ~MustStop(tasks[t].rounds[Newest(tasks[t])])
    <3>1. t \in S => /\ Current(tasks[t]).status = "queued" /\ Current(tasks[t]) = tasks[t].rounds[Newest(tasks[t])]
                     /\ Newest(tasks[t]) \in 1 .. Len(tasks[t].rounds)
      BY <1>2, <1>3, HandlerOld DEF Queued
    <3> QED BY <3>1 DEF DInv, UnstoppedInv, Unstopped, MustStop
  <2> QED BY <1>11, <2>2, <2>3 DEF IsStop
<1>15. \A i \in 1 .. Len(events) : Waiting(old[i]) => old[i] = events[i]
  BY <1>11 DEF Waiting
<1>151. ASSUME NEW k \in 1 .. Len(new), NEW i \in 1 .. Len(events), Waiting(old[i]) PROVE Key(old[i]) # Key(new[k])
  <2>1. PICK t \in need : new[k] = f[t]
    BY <1>10
  <2>2. t \in S /\ Key(new[k]) = <<t, Newest(tasks[t]), tasks[t].messages>>
    BY <1>5, <1>7, <1>8, <2>1
  <2>3. old[i] = events[i] /\ ~(events[i].task \in S /\ events[i].round = Newest(tasks[events[i].task]))
    BY <1>11, <1>15, <1>151 DEF Waiting
  <2> QED BY <2>2, <2>3 DEF Key
<1>152. ASSUME NEW k \in 1 .. Len(new), NEW l \in 1 .. Len(new), Key(new[k]) = Key(new[l]) PROVE k = l
  BY <1>10, <1>152 DEF Key
<1>153. ASSUME NEW k \in 1 .. Len(new) PROVE Behind(new[k], tasks'[new[k].task])
  <2>1. PICK t \in need : new[k] = f[t]
    BY <1>10
  <2> QED BY <1>7, <1>8, <2>1
<1>154. ASSUME NEW t \in Tasks PROVE Grown(tasks[t], tasks'[t])
  <2>1. CASE t \in S
    BY <1>4, <1>5, <2>1 DEF Grown, HandsOut
  <2>2. CASE t \notin S
    BY <1>4, <2>2 DEF Grown
  <2> QED BY <2>1, <2>2
<1>16. TickKeeps
  BY <1>1 DEF TickKeeps
<1>17. \A i \in 1 .. Len(events) : old[i].attempts = events[i].attempts
  BY <1>11
<1> HIDE DEF need
<1>18. \A i \in 1 .. Len(events) : SamePlace(old[i], events[i])
  BY <1>11
<1>19. /\ old \in Seq(EventRows) /\ Len(old) = Len(events) /\ new \in Seq(EventRows)
       /\ events' = old \o new /\ told' = told
  BY <1>1, <1>10, <1>11
<1>20. /\ \A k \in 1 .. Len(new) : Waiting(new[k]) =>
            \A i \in 1 .. Len(events) : ~(Waiting(old[i]) /\ Key(old[i]) = Key(new[k]))
       /\ \A k, l \in 1 .. Len(new) : Waiting(new[k]) /\ Waiting(new[l]) /\ Key(new[k]) = Key(new[l]) => k = l
  BY <1>151, <1>152
<1> QED BY ONLY DInv, <1>6, <1>12, <1>13, <1>14, <1>15, <1>153, <1>154, <1>16, <1>17, <1>18, <1>19, <1>20, StepKeeps

-----------------------------------------------------------------------------
(* What deliverTick decides, and what becomes of it *)

\* An event is found obsolete only while nobody needs it.
LEMMA TickPostStep ==
  ASSUME DInv, TickPost
  PROVE  DInv'
<1>1. /\ tick.on /\ UNCHANGED <<tasks, route, cap, plan, events, told>>
      /\ events \in Seq(EventRows) /\ tick \in TickType /\ OutboxInv
  BY DEF DInv, OutboxInv, TickPost, roundVars
<1>2. PICK i \in tick.next .. tick.upto, d \in Decisions :
        /\ tick' = [tick EXCEPT !.next = i + 1, !.decided[i] = d]
        /\ d = "obsolete" => ~NotificationNeeded(events[i])
        /\ d = "retry" => events[i].attempts + 1 < MaxAttempts
  <2>1. PICK i \in tick.next .. tick.upto :
          \/ tick' = [tick EXCEPT !.next = i + 1, !.decided[i] = Refusal(events[i])]
          \/ /\ ~NotificationNeeded(events[i])
             /\ tick' = [tick EXCEPT !.next = i + 1, !.decided[i] = "obsolete"]
          \/ \E d \in Replies(events[i]) : tick' = [tick EXCEPT !.next = i + 1, !.decided[i] = d]
    BY DEF TickPost
  <2>2. CASE tick' = [tick EXCEPT !.next = i + 1, !.decided[i] = Refusal(events[i])]
    <3>1. Refusal(events[i]) \in {"none", "refused"}
      BY DEF Refusal
    <3>2. PICK d \in {"none", "refused"} : d = Refusal(events[i])
      BY <3>1
    <3> QED BY <2>2, <3>2 DEF Decisions
  <2>3. CASE ~NotificationNeeded(events[i]) /\ tick' = [tick EXCEPT !.next = i + 1, !.decided[i] = "obsolete"]
    BY <2>3 DEF Decisions
  <2>4. CASE \E d \in Replies(events[i]) : tick' = [tick EXCEPT !.next = i + 1, !.decided[i] = d]
    <3>1. PICK d \in Replies(events[i]) : tick' = [tick EXCEPT !.next = i + 1, !.decided[i] = d]
      BY <2>4
    <3>2. d \in Decisions /\ d # "obsolete" /\ (d = "retry" => events[i].attempts + 1 < MaxAttempts)
      BY DEF Replies, Decisions
    <3> QED BY <3>1, <3>2
  <2> QED BY <2>1, <2>2, <2>3, <2>4
<1>3. i \in 1 .. tick.upto /\ tick.upto \in Nat /\ tick.upto <= Len(events) /\ Len(events) \in Nat
      /\ i \in 1 .. Len(events)
  BY <1>1 DEF OutboxInv, TickType
<1>4. events[i] \in EventRows /\ events[i].attempts \in Nat
  BY <1>1, <1>3, DeliveryAssumption DEF EventRows, EventType
<1>5. /\ tick'.next = i + 1 /\ tick'.upto = tick.upto /\ tick'.on = tick.on /\ tick' \in TickType
      /\ Len(tick'.decided) = tick.upto
      /\ \A j \in 1 .. tick.upto : tick'.decided[j] = IF j = i THEN d ELSE tick.decided[j]
  <2> DEFINE decided == [tick.decided EXCEPT ![i] = d]
  <2>1. tick' = [tick EXCEPT !.next = i + 1, !.decided = decided]
    BY <1>2
  <2>2. decided \in Seq(Decisions) /\ Len(decided) = tick.upto
        /\ \A j \in 1 .. tick.upto : decided[j] = IF j = i THEN d ELSE tick.decided[j]
    BY <1>1, <1>3 DEF TickType, OutboxInv
  <2> HIDE DEF decided
  <2>3. tick'.next = i + 1 /\ tick'.upto = tick.upto /\ tick'.on = tick.on /\ tick'.decided = decided
    BY <1>1, <2>1 DEF TickType
  <2>4. i + 1 \in Nat
    BY <1>3
  <2>5. tick' \in TickType
    BY <1>1, <2>1, <2>2, <2>4 DEF TickType
  <2> QED BY <2>2, <2>3, <2>5
<1>6. OutboxInv'
  <2>1. \A j \in 1 .. tick.upto : tick'.decided[j] = "retry" => events[j].attempts + 1 <= MaxAttempts
    BY <1>1, <1>2, <1>4, <1>5, DeliveryAssumption DEF OutboxInv
  <2>2. tick'.next <= tick'.upto + 1 /\ tick'.next # 0 /\ tick'.upto <= Len(events) /\ Len(tick'.decided) = tick'.upto
    BY <1>3, <1>5
  <2> QED BY <1>1, <1>5, <2>1, <2>2 DEF OutboxInv
<1>7. ASSUME NEW j \in 1 .. Len(events), Stands(j), j = i => NotificationNeeded(events[i])
      PROVE  Stands(j)'
  BY <1>1, <1>2, <1>3, <1>5, <1>7 DEF Stands
<1>8. WakeInv'
  <2>1. ASSUME NEW t \in Tasks, Needy(tasks[t]) PROVE HasNews(t, Newest(tasks[t]), tasks[t].messages)'
    <3> DEFINE n == Newest(tasks[t])
               m == tasks[t].messages
    <3>1. HasNews(t, n, m)
      BY <2>1 DEF DInv, WakeInv
    <3>2. CASE told[t].wake = <<n, m>>
      BY <1>1, <3>2 DEF HasNews
    <3>3. CASE \E j \in 1 .. Len(events) : IsNews(events[j], t, n, m) /\ Stands(j)
      <4>1. PICK j \in 1 .. Len(events) : IsNews(events[j], t, n, m) /\ Stands(j)
        BY <3>3
      <4>2. NotificationNeeded(events[j])
        BY <2>1, <4>1 DEF NotificationNeeded, IsNews, Needy
      <4>3. Stands(j)'
        BY <1>7, <4>1, <4>2
      <4> QED BY <1>1, <4>1, <4>3 DEF HasNews
    <3> QED BY <3>1, <3>2, <3>3 DEF HasNews
  <2> QED BY <1>1, <2>1 DEF WakeInv
<1>9. StopInv'
  <2>1. ASSUME NEW t \in Tasks, NEW r \in 1 .. Len(tasks[t].rounds), MustStop(tasks[t].rounds[r]) PROVE HasStop(t, r)'
    <3>1. HasStop(t, r)
      BY <2>1 DEF DInv, StopInv
    <3>2. CASE r \in told[t].stops
      BY <1>1, <3>2 DEF HasStop
    <3>3. CASE \E j \in 1 .. Len(events) : IsStop(events[j], t, r) /\ Stands(j)
      <4>1. PICK j \in 1 .. Len(events) : IsStop(events[j], t, r) /\ Stands(j)
        BY <3>3
      <4>2. NotificationNeeded(events[j])
        BY <2>1, <4>1 DEF NotificationNeeded, IsStop, MustStop
      <4>3. Stands(j)'
        BY <1>7, <4>1, <4>2
      <4> QED BY <1>1, <4>1, <4>3 DEF HasStop
    <3> QED BY <3>1, <3>2, <3>3 DEF HasStop
  <2> QED BY <1>1, <2>1 DEF StopInv
<1> QED BY <1>1, <1>6, <1>8, <1>9 DEF DInv, IInv, TasksInv, BoundsInv, UnstoppedInv, ReminderInv, AliveInv, Alive

\* The daemon restarts: what was decided is forgotten, and no decision counts any more.
LEMMA RestartStep ==
  ASSUME DInv, Restart
  PROVE  DInv'
<1>1. /\ tick' = Idle /\ UNCHANGED <<tasks, route, cap, plan, events, told>>
      /\ events \in Seq(EventRows) /\ Len(events) \in Nat
  BY DEF Restart, roundVars, DInv, OutboxInv
<1>2. Idle \in TickType /\ Idle.upto = 0 /\ Idle.next = 0 /\ Len(Idle.decided) = 0 /\ Idle.on = FALSE
  BY DEF Idle, TickType
<1>3. OutboxInv'
  BY <1>1, <1>2 DEF OutboxInv
<1>4. \A i \in 1 .. Len(events) : Stands(i) => Stands(i)'
  BY <1>1, <1>2 DEF Stands
<1>5. WakeInv' /\ StopInv'
  BY <1>1, <1>4 DEF DInv, WakeInv, StopInv, HasNews, HasStop
<1> QED BY <1>1, <1>3, <1>5 DEF DInv, IInv, TasksInv, BoundsInv, UnstoppedInv, ReminderInv, AliveInv, Alive

\* What a decision makes of an event: what it says stays.
LEMMA OutcomeRow ==
  ASSUME NEW e \in EventRows, NEW d \in Decisions, d = "retry" => e.attempts + 1 <= MaxAttempts
  PROVE  LET o == Outcome(e, d) IN
         /\ o.task = e.task /\ o.round = e.round /\ o.kind = e.kind /\ o.seq = e.seq /\ o.recovery = e.recovery
         /\ ~Leaves(o) => o \in EventRows
         /\ o.status = "obsolete" => e.status = "obsolete" \/ d = "obsolete"
         /\ o.status = "pending" => e.status = "pending"
<1> DEFINE o == Outcome(e, d)
<1>1. e \in EventType /\ e.status \in {"pending", "refused", "obsolete"} /\ e.attempts \in 0 .. MaxAttempts
      /\ MaxAttempts \in Nat
  BY DeliveryAssumption DEF EventRows, EventType
<1>2. CASE o = e
  BY <1>2
<1>3. CASE d = "retry" /\ \E status \in {"gone", e.status} : o = [e EXCEPT !.attempts = @ + 1, !.status = status]
  <2>1. e.attempts + 1 \in 0 .. MaxAttempts
    BY <1>1, <1>3
  <2>2. PICK status \in {"gone", e.status} : o = [e EXCEPT !.attempts = @ + 1, !.status = status]
    BY <1>3
  <2> HIDE DEF o
  <2>3. /\ o.task = e.task /\ o.round = e.round /\ o.kind = e.kind /\ o.seq = e.seq /\ o.recovery = e.recovery
        /\ o.status = status
    BY <1>1, <2>2 DEF EventType
  <2>4. ~Leaves(o) => o \in EventRows
    BY <1>1, <2>1, <2>2, <2>3 DEF Leaves, EventRows, EventType
  <2> QED BY <2>3, <2>4 DEF o
<1>4. CASE d \in Decisions \ {"none", "retry"} /\ o = [e EXCEPT !.status = d]
  <2> HIDE DEF o
  <2>1. /\ o.task = e.task /\ o.round = e.round /\ o.kind = e.kind /\ o.seq = e.seq /\ o.recovery = e.recovery
        /\ o.status = d
    BY <1>1, <1>4 DEF EventType
  <2>2. ~Leaves(o) => o \in EventRows
    BY <1>1, <1>4, <2>1 DEF Leaves, EventRows, EventType, Decisions
  <2>3. d # "pending"
    BY DEF Decisions
  <2> QED BY <2>1, <2>2, <2>3 DEF o
<1>5. o = e \/ (d = "retry" /\ \E status \in {"gone", e.status} : o = [e EXCEPT !.attempts = @ + 1, !.status = status])
      \/ (d \in Decisions \ {"none", "retry"} /\ o = [e EXCEPT !.status = d])
  <2>1. CASE e.status = "obsolete" \/ d = "none"
    BY <2>1 DEF Outcome
  <2>2. CASE ~(e.status = "obsolete" \/ d = "none") /\ d = "retry"
    <3>1. PICK status \in {"gone", e.status} : status = IF e.status = "refused" THEN "gone" ELSE e.status
      OBVIOUS
    <3>2. o = [e EXCEPT !.attempts = @ + 1, !.status = status]
      BY <2>2, <3>1 DEF Outcome
    <3> QED BY <2>2, <3>2
  <2>3. CASE ~(e.status = "obsolete" \/ d = "none") /\ d # "retry"
    BY <2>3 DEF Outcome
  <2> QED BY <2>1, <2>2, <2>3
<1> QED BY <1>2, <1>3, <1>4, <1>5

LEMMA CommittedRow ==
  ASSUME OutboxInv, NEW i \in 1 .. Len(events)
  PROVE  LET e == events[i]
             o == Committed(i) IN
         /\ o.task = e.task /\ o.round = e.round /\ o.kind = e.kind /\ o.seq = e.seq /\ o.recovery = e.recovery
         /\ ~Leaves(o) => o \in EventRows
         /\ Stands(i) => o.status # "obsolete"
         /\ o.status = "pending" => e.status = "pending"
<1> DEFINE e == events[i]
           d == tick.decided[i]
<1>1. e \in EventRows /\ tick.upto \in Nat /\ i \in Nat
  BY DEF OutboxInv, TickType
<1>2. CASE i <= tick.upto
  <2>1. i \in 1 .. tick.upto
    BY <1>1, <1>2
  <2>2. d \in Decisions /\ (d = "retry" => e.attempts + 1 <= MaxAttempts)
    BY <2>1 DEF OutboxInv, TickType
  <2>3. Committed(i) = Outcome(e, d)
    BY <1>2 DEF Committed
  <2>4. Stands(i) => e.status # "obsolete" /\ d # "obsolete"
    BY <1>2 DEF Stands
  <2> HIDE DEF e, d
  <2>5. LET o == Outcome(e, d) IN
         /\ o.task = e.task /\ o.round = e.round /\ o.kind = e.kind /\ o.seq = e.seq /\ o.recovery = e.recovery
         /\ ~Leaves(o) => o \in EventRows
         /\ o.status = "obsolete" => e.status = "obsolete" \/ d = "obsolete"
         /\ o.status = "pending" => e.status = "pending"
    BY <1>1, <2>2, OutcomeRow
  <2> QED BY <2>3, <2>4, <2>5 DEF e
<1>3. CASE ~(i <= tick.upto)
  BY <1>1, <1>3 DEF Committed, Stands
<1> QED BY <1>2, <1>3

\* The wait that the first delivery begins
LEMMA WaitsStart ==
  ASSUME DInv, TickCommit
  PROVE  IInv' /\ \A t \in Tasks : AnswerKeeps(tasks[t], tasks'[t])
<1> DEFINE task(t) == tasks[t]
           k(t) == Newest(task(t))
           wait(t) == [task(t).rounds[k(t)].wait EXCEPT !.known = TRUE]
           waits(t) == WithRound(task(t), k(t), [task(t).rounds[k(t)] EXCEPT !.wait = wait(t)])
<1>1. /\ tasks' = [t \in Tasks |->
                     IF StartsWait(t) THEN [tasks[t] EXCEPT !.rounds[Newest(tasks[t])].wait.known = TRUE]
                     ELSE tasks[t]]
      /\ UNCHANGED <<route, cap, plan>> /\ IInv
  BY DEF TickCommit, DInv
<1>2. ASSUME NEW t \in Tasks, StartsWait(t)
      PROVE  /\ tasks'[t] = waits(t) /\ Sound(waits(t)) /\ Len(waits(t).rounds) = Len(task(t).rounds)
             /\ Unstopped(task(t)) => AnswerKeeps(task(t), waits(t))
  <2>1. Sound(task(t)) /\ task(t).rounds # <<>>
    BY <1>1, <1>2 DEF StartsWait, Exists, IInv, TasksInv
  <2>2. k(t) \in 1 .. Len(task(t).rounds) /\ task(t).rounds[k(t)] \in RoundType /\ task(t) \in TaskRow
    BY <2>1 DEF Sound, WellFormed, TaskRow, Newest
  <2>3. wait(t) \in [known : BOOLEAN, retries : Nat]
    BY <2>2 DEF RoundType
  <2>4. [tasks[t] EXCEPT !.rounds[Newest(tasks[t])].wait.known = TRUE] = waits(t)
    BY <2>2 DEF WithRound, TaskRow, RoundType
  <2>5. tasks'[t] = waits(t)
    BY <1>1, <1>2, <2>4
  <2>6. /\ Sound(waits(t)) /\ Len(waits(t).rounds) = Len(task(t).rounds)
        /\ Unstopped(task(t)) => AnswerKeeps(task(t), waits(t))
    <3> HIDE DEF task, wait
    <3> QED BY <2>1, <2>3, WaitKeeps
  <2> QED BY <2>5, <2>6
<1>3. ASSUME NEW t \in Tasks, ~StartsWait(t) PROVE tasks'[t] = tasks[t]
  BY <1>1, <1>3
<1> HIDE DEF waits
<1>4. IInv'
  <2>1. \A t \in Tasks : Sound(tasks'[t]) /\ Len(tasks'[t].rounds) = Len(tasks[t].rounds)
    BY <1>1, <1>2, <1>3 DEF IInv, TasksInv
  <2>2. tasks' = [t \in Tasks |-> tasks'[t]]
    BY <1>1
  <2> QED BY <1>1, <2>1, <2>2, TasksKeep
<1>5. ASSUME NEW t \in Tasks PROVE AnswerKeeps(tasks[t], tasks'[t])
  <2>1. Unstopped(tasks[t])
    BY DEF DInv, UnstoppedInv
  <2>2. CASE StartsWait(t)
    BY <1>2, <2>1, <2>2
  <2>3. CASE ~StartsWait(t)
    BY <1>3, <2>1, <2>3, SameKeeps
  <2> QED BY <2>2, <2>3
<1> QED BY <1>4, <1>5

\* What is settled leaves the outbox, and what it has said is remembered as long as
\* it matters; the rest stays, in its order.
LEMMA TickCommitStep ==
  ASSUME DInv, TickCommit
  PROVE  DInv'
<1> DEFINE kept == {j \in DOMAIN events : ~Leaves(Committed(j))}
           f == [i \in kept |-> Committed(i)]
           said(t) == {i \in DOMAIN events : Said(Committed(i)) /\ events[i].task = t}
           stops(t) == {events[i].round : i \in {j \in said(t) : events[j].kind = "cancel"}}
<1>1. /\ tick' = Idle /\ events' = InOrder(f)
      /\ told' = [t \in Tasks |->
           [wake |-> IF Knows(t) \/ \E i \in said(t) : IsWakeFor(events[i], t, tasks[t])
                     THEN <<Newest(tasks[t]), tasks[t].messages>> ELSE <<0, 0>>,
            stops |-> {r \in told[t].stops \cup stops(t) : MustStop(tasks[t].rounds[r])}]]
  BY DEF TickCommit
<1>2. OutboxInv /\ Len(events) \in Nat /\ DOMAIN events = 1 .. Len(events) /\ IInv
  BY DEF DInv, OutboxInv
<1>3. IInv' /\ \A t \in Tasks : AnswerKeeps(tasks[t], tasks'[t])
  BY WaitsStart
<1>4. ASSUME NEW i \in 1 .. Len(events)
      PROVE  LET e == events[i]
                 o == Committed(i) IN
             /\ o.task = e.task /\ o.round = e.round /\ o.kind = e.kind /\ o.seq = e.seq /\ o.recovery = e.recovery
             /\ ~Leaves(o) => o \in EventRows
             /\ Stands(i) => o.status # "obsolete"
             /\ o.status = "pending" => e.status = "pending"
  BY <1>2, CommittedRow
<1>5. kept \subseteq Nat /\ IsFiniteSet(kept)
  <2>1. kept \subseteq 1 .. Len(events)
    BY <1>2
  <2>2. IsFiniteSet(1 .. Len(events))
    BY <1>2, FS_Interval
  <2>3. 1 .. Len(events) \subseteq Nat
    BY <1>2
  <2> HIDE DEF kept
  <2>4. IsFiniteSet(kept)
    BY ONLY <2>1, <2>2, FS_Subset
  <2> QED BY <2>1, <2>3, <2>4
<1>6. f \in [kept -> EventRows] /\ \A i \in kept : f[i] = Committed(i) /\ i \in 1 .. Len(events) /\ ~Leaves(Committed(i))
  BY <1>2, <1>4
<1>7. \A i \in 1 .. Len(events) : i \in kept \/ Leaves(Committed(i))
  BY <1>2
<1> HIDE DEF kept
<1>80. DOMAIN f = kept
  OBVIOUS
<1> HIDE DEF f
<1>81. PICK n, at : Lists(f, n, at)
  BY <1>5, <1>80, InOrderLists
<1>8. /\ n \in Nat /\ at \in [1 .. n -> kept] /\ InOrder(f) = [k \in 1 .. n |-> f[at[k]]]
      /\ \A i \in kept : \E k \in 1 .. n : at[k] = i
      /\ \A k, l \in 1 .. n : at[k] = at[l] => k = l
  BY <1>80, <1>81 DEF Lists
<1>9. /\ Len(events') = n /\ events' \in Seq(EventRows)
      /\ \A k \in 1 .. n : events'[k] = Committed(at[k]) /\ at[k] \in kept /\ at[k] \in 1 .. Len(events)
  <2>1. events' = [k \in 1 .. n |-> f[at[k]]]
    BY <1>1, <1>8
  <2>2. \A k \in 1 .. n : f[at[k]] \in EventRows
    BY <1>6, <1>8
  <2> QED BY <1>6, <1>8, <2>1, <2>2
<1>10. OutboxInv'
  <2>1. Idle \in TickType /\ Idle.upto = 0 /\ Idle.next = 0 /\ Len(Idle.decided) = 0 /\ Idle.on = FALSE
    BY DEF Idle, TickType
  <2> QED BY <1>1, <1>8, <1>9, <2>1 DEF OutboxInv
<1>11. ASSUME NEW i \in kept
       PROVE  \E k \in 1 .. Len(events') : events'[k] = Committed(i) /\ Stands(k)'
  <2>1. PICK k \in 1 .. n : at[k] = i
    BY <1>8
  <2>2. events'[k] = Committed(i) /\ k \in 1 .. Len(events')
    BY <1>9, <2>1
  <2>3. events'[k].status # "obsolete"
    BY <1>6, <2>2 DEF Leaves
  <2>4. tick'.upto = 0
    BY <1>1 DEF Idle
  <2>5. Stands(k)'
    BY <1>8, <2>1, <2>3, <2>4 DEF Stands
  <2> QED BY <2>2, <2>5
<1>12. ASSUME NEW t \in Tasks, NEW r, NEW m, r = Newest(tasks[t]), m = tasks[t].messages, HasNews(t, r, m)
       PROVE  HasNews(t, r, m)'
  <2>1. CASE told[t].wake = <<r, m>>
    <3>1. Knows(t)
      BY <1>12, <2>1 DEF Knows
    <3>2. told'[t].wake = <<r, m>>
      BY <1>1, <1>12, <3>1
    <3> QED BY <3>2 DEF HasNews
  <2>2. CASE \E i \in 1 .. Len(events) : IsNews(events[i], t, r, m) /\ Stands(i)
    <3>1. PICK i \in 1 .. Len(events) : IsNews(events[i], t, r, m) /\ Stands(i)
      BY <2>2
    <3>2. CASE i \in kept
      <4>1. PICK k \in 1 .. Len(events') : events'[k] = Committed(i) /\ Stands(k)'
        BY <1>11, <3>2
      <4>2. IsNews(events'[k], t, r, m)
        BY <1>4, <3>1, <4>1 DEF IsNews
      <4> QED BY <4>1, <4>2 DEF HasNews
    <3>3. CASE i \notin kept
      <4>1. Said(Committed(i))
        BY <1>4, <1>7, <3>1, <3>3 DEF Leaves, Said
      <4>2. i \in said(t) /\ IsWakeFor(events[i], t, tasks[t])
        BY <1>2, <1>12, <3>1, <4>1 DEF IsNews, IsWakeFor
      <4> HIDE DEF said
      <4>3. told'[t].wake = <<r, m>>
        BY <1>1, <1>12, <4>2
      <4> QED BY <4>3 DEF HasNews
    <3> QED BY <3>2, <3>3
  <2> QED BY <1>12, <2>1, <2>2 DEF HasNews
<1>13. ASSUME NEW t \in Tasks, NEW r, MustStop(tasks[t].rounds[r]), HasStop(t, r)
       PROVE  HasStop(t, r)'
  <2>1. CASE r \in told[t].stops
    <3>1. r \in told'[t].stops
      BY <1>1, <1>13, <2>1
    <3> QED BY <3>1 DEF HasStop
  <2>2. CASE \E i \in 1 .. Len(events) : IsStop(events[i], t, r) /\ Stands(i)
    <3>1. PICK i \in 1 .. Len(events) : IsStop(events[i], t, r) /\ Stands(i)
      BY <2>2
    <3>2. CASE i \in kept
      <4>1. PICK k \in 1 .. Len(events') : events'[k] = Committed(i) /\ Stands(k)'
        BY <1>11, <3>2
      <4>2. IsStop(events'[k], t, r)
        BY <1>4, <3>1, <4>1 DEF IsStop
      <4> QED BY <4>1, <4>2 DEF HasStop
    <3>3. CASE i \notin kept
      <4>1. Said(Committed(i))
        BY <1>4, <1>7, <3>1, <3>3 DEF Leaves, Said
      <4>2. r \in stops(t)
        BY <1>2, <3>1, <4>1 DEF IsStop
      <4> HIDE DEF stops
      <4>3. r \in told'[t].stops
        BY <1>1, <1>13, <4>2
      <4> QED BY <4>3 DEF HasStop
    <3> QED BY <3>2, <3>3
  <2> QED BY <1>13, <2>1, <2>2 DEF HasStop
<1>14. WakeInv'
  <2>1. ASSUME NEW t \in Tasks, NEW r, NEW m, Needy(tasks'[t]), r = Newest(tasks'[t]), m = tasks'[t].messages
        PROVE  HasNews(t, r, m)'
    <3>1. Needy(tasks[t]) /\ r = Newest(tasks[t]) /\ m = tasks[t].messages
      BY <1>3, <2>1 DEF AnswerKeeps
    <3>2. HasNews(t, r, m)
      BY <3>1 DEF DInv, WakeInv
    <3> QED BY <1>12, <3>1, <3>2
  <2> QED BY <2>1 DEF WakeInv, HasNews
<1>15. StopInv'
  <2>1. ASSUME NEW t \in Tasks, NEW r \in 1 .. Len(tasks'[t].rounds), MustStop(tasks'[t].rounds[r])
        PROVE  HasStop(t, r)'
    <3>1. Len(tasks[t].rounds) \in Nat /\ Len(tasks'[t].rounds) \in Nat
      BY <1>2, <1>3 DEF IInv, TasksInv, TaskRow
    <3>2. r \in 1 .. Len(tasks[t].rounds) /\ MustStop(tasks[t].rounds[r])
      BY <1>3, <2>1, <3>1 DEF AnswerKeeps, Lenient, StopsKept
    <3>3. HasStop(t, r)
      BY <3>2 DEF DInv, StopInv
    <3> QED BY <1>13, <3>2, <3>3
  <2> QED BY <2>1 DEF StopInv
<1>16. ReminderInv'
  <2>1. ASSUME NEW k \in 1 .. n, NEW l \in 1 .. n,
               Waiting(events'[k]), Waiting(events'[l]), Key(events'[k]) = Key(events'[l])
        PROVE  k = l
    <3>1. /\ Waiting(events[at[k]]) /\ Key(events'[k]) = Key(events[at[k]]) /\ at[k] \in 1 .. Len(events)
      BY <1>4, <1>9, <2>1 DEF Waiting, Key
    <3>2. /\ Waiting(events[at[l]]) /\ Key(events'[l]) = Key(events[at[l]]) /\ at[l] \in 1 .. Len(events)
      BY <1>4, <1>9, <2>1 DEF Waiting, Key
    <3>3. at[k] = at[l]
      BY <2>1, <3>1, <3>2 DEF DInv, ReminderInv
    <3> QED BY <1>8, <3>3
  <2> QED BY <1>9, <2>1 DEF ReminderInv
<1>17. UnstoppedInv'
  BY <1>3 DEF UnstoppedInv, AnswerKeeps, Lenient
<1>18. AliveInv'
  <2>1. ASSUME NEW k \in 1 .. n PROVE Behind(events'[k], tasks'[events'[k].task])
    <3> DEFINE e == events[at[k]]
    <3>1. e \in EventRows /\ Alive(e) /\ IInv
      BY <1>9, <2>1 DEF DInv, OutboxInv, AliveInv
    <3>2. events'[k] \in EventRows /\ SamePlace(events'[k], e)
      BY <1>4, <1>9, <2>1 DEF SamePlace
    <3>3. \A t \in Tasks : Grown(tasks[t], tasks'[t])
      BY <1>3 DEF AnswerKeeps
    <3> HIDE DEF e
    <3> QED BY <1>3, <3>1, <3>2, <3>3, StaysAlive
  <2> QED BY <1>9, <2>1 DEF AliveInv, Alive
<1> QED BY <1>3, <1>10, <1>14, <1>15, <1>16, <1>17, <1>18 DEF DInv

-----------------------------------------------------------------------------
(* The inductive invariant *)

\* A task that nobody has worked on yet: there is nothing to tell, and nothing to stop.
Untouched(task) ==
    /\ Sound(task) /\ ~Needy(task) /\ Unstopped(task) /\ Len(task.rounds) <= MaxRounds
    /\ \A r \in 1 .. Len(task.rounds) : ~MustStop(task.rounds[r])

LEMMA UntouchedTasks ==
  LET old == [OpenRound(NoTask) EXCEPT !.messages = 1]
  IN  Untouched(NoTask) /\ Untouched(old) /\ old.rounds # <<>>
<1> DEFINE open == OpenRound(NoTask)
           old == [open EXCEPT !.messages = 1]
<1>1. NoTask \in TaskRow /\ NoTask.rounds = <<>> /\ Len(NoTask.rounds) = 0
  BY RoundsAssumption DEF NoTask, TaskRow, Statuses
<1>2. MaxRounds \in Nat /\ 1 <= MaxRounds /\ 1 \in 0 .. MaxMessages
  BY RoundsAssumption
<1>3. Sound(NoTask)
  BY <1>1 DEF Sound, WellFormed, Covered
<1>4. Untouched(NoTask)
  BY <1>1, <1>2, <1>3 DEF Untouched, Needy, Holds, Unstopped
<1>5. WellFormed(open)
  BY <1>1, <1>3, OpenMoves DEF Sound
<1>6. open \in TaskRow /\ Len(open.rounds) = 1 /\ open.rounds[1] = NewRound
  <2>1. /\ open \in TaskRow /\ Len(open.rounds) = Len(NoTask.rounds) + 1
        /\ open.rounds[Len(NoTask.rounds) + 1] = NewRound
    BY <1>1, OpenRow
  <2> HIDE DEF open
  <2> QED BY <1>1, <2>1
<1> HIDE DEF open
<1>7. old \in TaskRow /\ old.rounds = open.rounds /\ old.status = open.status
  BY <1>2, <1>6 DEF TaskRow
<1> HIDE DEF old
<1>8. Len(old.rounds) = 1 /\ old.rounds[1] = NewRound /\ old.rounds # <<>>
  BY <1>6, <1>7
<1>9. WellFormed(old)
  BY <1>5, <1>7 DEF WellFormed, Current, Newest
<1>10. Covered(old)
  BY <1>8 DEF Covered, Current, NewRound, NoResult
<1>11. Untouched(old)
  BY <1>2, <1>8, <1>9, <1>10
     DEF Untouched, Sound, Needy, Holds, Current, Unstopped, MustStop, NewRound, Occupying, Working
<1> QED BY <1>4, <1>8, <1>11 DEF old, open

LEMMA DeliveryStarts == DeliveryInit => DInv
<1> SUFFICES ASSUME DeliveryInit PROVE DInv
  OBVIOUS
<1> DEFINE old == [OpenRound(NoTask) EXCEPT !.messages = 1]
           first == Event(1, old, "wake", FALSE)
<1>1. /\ \/ tasks = [t \in Tasks |-> NoTask] /\ events = <<>>
         \/ tasks = [t \in Tasks |-> IF t = 1 THEN old ELSE NoTask] /\ events = <<first>>
      /\ route \in BOOLEAN /\ cap \in 1 .. MaxCap /\ plan = {} /\ tick = Idle
  BY DEF DeliveryInit
<1>2. Untouched(NoTask) /\ Untouched(old) /\ old.rounds # <<>>
  BY UntouchedTasks
<1> HIDE DEF old
<1>3. first \in EventRows /\ first.task = 1 /\ Behind(first, old)
  <2>1. 1 \in Tasks
    BY RoundsAssumption DEF Tasks
  <2>2. old \in TaskRow /\ old.rounds # <<>> /\ Len(old.rounds) <= MaxRounds
    BY <1>2 DEF Untouched, Sound, WellFormed
  <2>3. News(1, old) \in EventRows /\ News(1, old).task = 1 /\ Behind(News(1, old), old)
    BY <2>1, <2>2, NewsRow
  <2> QED BY <2>3 DEF News
<1> HIDE DEF first
<1>4. \A t \in Tasks : Untouched(tasks[t])
  BY <1>1, <1>2
<1>5. tasks = [t \in Tasks |-> tasks[t]] /\ \A t \in Tasks : tasks[t] \in TaskRow
  BY <1>1, <1>4 DEF Untouched, Sound, WellFormed
<1>6. IInv
  <2>1. TasksInv
    BY <1>4, <1>5 DEF TasksInv, Untouched
  <2>2. BoundsInv
    BY <1>1, <1>4 DEF BoundsInv, Untouched
  <2> QED BY <2>1, <2>2 DEF IInv
<1>7. events \in Seq(EventRows) /\ Len(events) \in Nat /\ Len(events) <= 1 /\ AliveInv
  <2>1. CASE events = <<>>
    BY <2>1 DEF AliveInv
  <2>2. CASE events = <<first>> /\ tasks = [t \in Tasks |-> IF t = 1 THEN old ELSE NoTask]
    <3>1. 1 \in Tasks /\ tasks[1] = old
      BY <2>2, RoundsAssumption DEF Tasks
    <3> QED BY <1>3, <2>2, <3>1 DEF AliveInv, Alive
  <2> QED BY <1>1, <2>1, <2>2
<1>8. OutboxInv
  <2>1. Idle \in TickType /\ Idle.upto = 0 /\ Idle.next = 0 /\ Len(Idle.decided) = 0 /\ Idle.on = FALSE
    BY DEF Idle, TickType
  <2> QED BY <1>1, <1>7, <2>1 DEF OutboxInv
<1>9. ReminderInv
  BY <1>7 DEF ReminderInv
<1>10. UnstoppedInv /\ WakeInv /\ StopInv
  BY <1>4 DEF UnstoppedInv, WakeInv, StopInv, Untouched
<1> QED BY <1>6, <1>7, <1>8, <1>9, <1>10 DEF DInv

LEMMA DeliveryKeeps == DInv /\ [DeliveryNext]_vars => DInv'
<1> SUFFICES ASSUME DInv, [DeliveryNext]_vars PROVE DInv'
  OBVIOUS
<1>1. ASSUME NEW t \in Tasks, Tells(t) \/ Stops(t) \/ Answers(t) \/ Rewake(t) \/ (CreateTask(t) /\ Quiet)
      PROVE  DInv'
  BY <1>1, TellsStep, StopsStep, AnswersStep, RewakeStep, CreateStep
<1>2. CASE ((\E c \in 1 .. MaxCap : SetCap(c)) \/ Unsubscribe) /\ Quiet
  BY <1>2, SettingsStep
<1>3. CASE Subscribes
  BY <1>3, SubscribesStep
<1>4. CASE Dispatches
  BY <1>4, DispatchesStep
<1>5. CASE TickStep
  <2>1. CASE \E due \in SUBSET {t \in Tasks : Overdue(t)} : TickStart(due)
    BY <2>1, TickStartStep
  <2>2. CASE TickPost
    BY <2>2, TickPostStep
  <2>3. CASE TickCommit
    BY <2>3, TickCommitStep
  <2> QED BY <1>5, <2>1, <2>2, <2>3 DEF TickStep
<1>6. CASE Restart
  BY <1>6, RestartStep
<1>7. CASE UNCHANGED vars
  <2>1. UNCHANGED <<tasks, route, cap, plan, events, told, tick>>
    BY <1>7 DEF vars, roundVars, outbox
  <2>2. OutboxInv'
    BY <2>1 DEF DInv, OutboxInv
  <2>3. WakeInv' /\ StopInv'
    BY <2>1 DEF DInv, WakeInv, StopInv, HasNews, HasStop, Stands
  <2> QED BY <2>1, <2>2, <2>3 DEF DInv, IInv, TasksInv, BoundsInv, UnstoppedInv, ReminderInv, AliveInv, Alive
<1> QED BY <1>1, <1>2, <1>3, <1>4, <1>5, <1>6, <1>7 DEF DeliveryNext

LEMMA DeliveryInductive == DeliverySpec => []DInv
BY DeliveryStarts, DeliveryKeeps, PTL DEF DeliverySpec

-----------------------------------------------------------------------------
(* Theorems *)

\* Every handler and every step of deliverTick keeps the rounds, the outbox and the
\* tick in their types, and the tick within what it has read.
THEOREM DeliveryTypeCorrect == DeliverySpec => []DeliveryTypeOK
<1>1. DInv => DeliveryTypeOK
  <2> SUFFICES ASSUME DInv PROVE DeliveryTypeOK
    OBVIOUS
  <2>1. TypeOK
    BY DEF DInv, IInv, TasksInv, TaskRow, BoundsInv, TypeOK
  <2>2. \A i \in DOMAIN events : events[i] \in EventType
    BY DEF DInv, OutboxInv, EventRows
  <2>3. tick.on \in BOOLEAN /\ tick.upto <= Len(events) /\ tick.next <= tick.upto + 1
    BY DEF DInv, OutboxInv, TickType
  <2> QED BY <2>1, <2>2, <2>3 DEF DeliveryTypeOK
<1> QED BY <1>1, DeliveryInductive, PTL

\* While a round is in work and Dot has to read something, a notice that says so is in
\* the outbox or was delivered or given up: whatever handler runs beside deliverTick,
\* and whatever a restart makes it forget (emitTaskChanged, deliverTick).
THEOREM DeliveryWakeNotLost == DeliverySpec => []WakeNotLost
<1>1. DInv => WakeNotLost
  <2> SUFFICES ASSUME DInv, NEW t \in Tasks, Needy(tasks[t]) PROVE Announced(t)
    BY DEF WakeNotLost, Needy
  <2>1. HasNews(t, Newest(tasks[t]), tasks[t].messages)
    BY DEF DInv, WakeInv
  <2>2. DOMAIN events = 1 .. Len(events)
    BY DEF DInv, OutboxInv
  <2> QED BY <2>1, <2>2 DEF HasNews, Announced, Knows, IsNews, IsWakeFor, Stands
<1> QED BY <1>1, DeliveryInductive, PTL

\* Dot is told to stop every claimed round whose stop it has not reported, also after a
\* local close let the next round begin (Cancel, CloseLocal, deliverTick).
THEOREM DeliveryStopNotLost == DeliverySpec => []StopNotLost
<1>1. DInv => StopNotLost
  <2> SUFFICES ASSUME DInv, NEW t \in Tasks, NEW r \in DOMAIN tasks[t].rounds, MustStop(tasks[t].rounds[r])
               PROVE  \/ r \in told[t].stops
                      \/ \E i \in DOMAIN events : events[i].task = t /\ events[i].round = r /\ events[i].kind = "cancel"
    BY DEF StopNotLost
  <2>1. r \in 1 .. Len(tasks[t].rounds)
    BY DEF DInv, IInv, TasksInv, TaskRow
  <2>2. HasStop(t, r)
    BY <2>1 DEF DInv, StopInv
  <2>3. DOMAIN events = 1 .. Len(events)
    BY DEF DInv, OutboxInv
  <2> QED BY <2>2, <2>3 DEF HasStop, IsStop
<1> QED BY <1>1, DeliveryInductive, PTL

\* Two notices that say the same of one round wait together only when the address of one
\* was refused before: whatever the handlers, the scheduler, the user and a fresh
\* subscription announce beside deliverTick (emitTaskChanged, recoverUnclaimed, rewake).
THEOREM DeliveryOneNotice == DeliverySpec => []OneNotice
<1>1. DInv => OneNotice
  <2> SUFFICES ASSUME DInv, NEW i \in DOMAIN events, NEW j \in DOMAIN events, i # j,
                      SameNotice(events[i], events[j]), Considered(events[i]), Considered(events[j])
               PROVE  "refused" \in {events[i].status, events[j].status}
    BY DEF OneNotice
  <2>1. i \in 1 .. Len(events) /\ j \in 1 .. Len(events)
    BY DEF DInv, OutboxInv
  <2>2. Key(events[i]) = Key(events[j]) /\ events[i].kind = "wake" /\ events[j].kind = "wake"
    BY DEF SameNotice, Key
  <2>3. ~(Waiting(events[i]) /\ Waiting(events[j]))
    BY <2>1, <2>2 DEF DInv, ReminderInv
  <2> QED BY <2>2, <2>3 DEF Waiting, Considered
<1> QED BY <1>1, DeliveryInductive, PTL

=============================================================================
