-------------------------- MODULE AgentMergeProofs --------------------------
(***************************************************************************)
(* Proofs about AgentMerge, for any tasks, windows, outcomes, effects and  *)
(* bounds: no command is sent twice, one task of a repository is merging,  *)
(* merged means proven, and the cleanup loses nothing.                     *)
(***************************************************************************)
EXTENDS AgentMerge, FiniteSetTheorems, TLAPS

\* Whoever has looked at the other tasks of the repository holds the queue of Git
\* calls until the command is sent; a call that is on has its task.
GitInv == \A w \in Window :
    /\ call[w].step \in {"alone", "save", "send"} => git = w
    /\ call[w].step # "off" => call[w].task \in Task
\* Every command has a request of its own, and the one about to be sent too.
SendInv ==
    /\ commands <= requests
    /\ \A w \in Window : call[w].step = "send" => commands < requests
\* The calls that may still make a request, as far as the bound allows.
Pending == {w \in Window : call[w].step \notin {"off", "send"}}
BudgetInv == requests + Cardinality(Pending) <= MaxRequests
\* A turn was asked for by a user or by a command; what waits is a command.
TurnInv == \A t \in Task : /\ session[t].turn + session[t].waiting <= 1 + commands + acts
                             /\ session[t].waiting <= commands
\* While a window decides, a task can only be brought back to merging.
AloneInv == \A w \in Window : call[w].step \in {"alone", "save"} =>
                \A u \in Task \ {call[w].task} : Merging(u) => u \in back

\* What is merged, proved or without a branch has its result in the target.
ProofInv == \A t \in Task :
    /\ tree[t].holds /\ tree[t].inTarget => t \in landed
    /\ tree[t].proved => t \in landed /\ tree[t].inTarget
    /\ task[t].status = "merged" => t \in landed
    /\ ~tree[t].branch => ~tree[t].worktree /\ t \in landed /\ tree[t].inTarget
\* Sessions are closed before the worktree is touched, and stay closed.
CleanInv ==
    /\ \A a \in Actor : clean[a].step # "off" =>
         /\ clean[a].task \in Task
         /\ clean[a].done.sessions => session[clean[a].task].state = "archived"
         /\ clean[a].step \in {"worktree", "branch"} => clean[a].done.sessions
    /\ \A t \in Task : /\ task[t].done.sessions => session[t].state = "archived"
                       /\ ~tree[t].worktree => session[t].state = "archived"

TypeInv == TypeOK /\ BudgetInv /\ TurnInv
IInv == TypeInv /\ GitInv /\ SendInv /\ AloneInv /\ OneMerge /\ ProofInv /\ CleanInv

-----------------------------------------------------------------------------
(* Types *)

LEMMA RecordEdits ==
  ASSUME NEW r \in Record, NEW st \in {"awaiting_review", "merging", "merged", "merge_failed", "needs_check"},
         NEW q \in Request, NEW d \in Steps, NEW n \in Turn
  PROVE  /\ [r EXCEPT !.status = st] \in Record /\ [r EXCEPT !.req = q] \in Record
         /\ [r EXCEPT !.done = d] \in Record
         /\ [[r EXCEPT !.status = st] EXCEPT !.req = q] \in Record
         /\ [r EXCEPT !.last = n] \in Record
         /\ [[r EXCEPT !.status = st] EXCEPT !.last = n, !.review = FALSE] \in Record
BY DEF Record

LEMMA RequestEdits ==
  /\ NoRequest \in Request
  /\ \A n \in Turn : [NoRequest EXCEPT !.prev = n] \in Request
<1>1. 0 \in Turn
  BY MergeAssumption DEF Turn, LastTurn
<1> QED BY <1>1 DEF NoRequest, Request

LEMMA OutcomeEdits ==
  ASSUME NEW q \in Request, NEW n \in Turn, NEW o \in Outcome
  PROVE  /\ [q EXCEPT !.seen = TRUE, !.turn = n] \in Request
         /\ [q EXCEPT !.turn = n, !.outcome = o, !.seen = FALSE] \in Request
         /\ [q EXCEPT !.turn = n, !.outcome = o] \in Request
         /\ q.turn \in Turn
BY DEF Request, Outcome

LEMMA TreeEdits ==
  ASSUME NEW b \in TreeRow
  PROVE  /\ [b EXCEPT !.proved = TRUE] \in TreeRow /\ [b EXCEPT !.worktree = FALSE] \in TreeRow
         /\ [b EXCEPT !.branch = FALSE] \in TreeRow
BY DEF TreeRow

\* What a turn leaves behind, and what it does to the proof of a merge.
LEMMA ChangedRow ==
  ASSUME NEW b \in TreeRow, NEW e \in Effects
  PROVE  /\ Changed(b, e) \in TreeRow
         /\ Changed(b, e).worktree = b.worktree /\ Changed(b, e).branch = b.branch
         /\ Changed(b, e).proved => b.proved /\ (b.inTarget => Changed(b, e).inTarget)
<1>1. e \in {"edit", "commit", "rewrite", "land"}
  BY MergeAssumption
<1>2. CASE e = "edit"
  BY <1>2 DEF Changed, TreeRow
<1>3. CASE e = "commit"
  BY <1>3 DEF Changed, TreeRow
<1>4. CASE e = "rewrite"
  BY <1>4 DEF Changed, TreeRow
<1>5. CASE e = "land"
  BY <1>5 DEF Changed, TreeRow
<1> QED BY <1>1, <1>2, <1>3, <1>4, <1>5

LEMMA ResultsRow ==
  ASSUME NEW b \in TreeRow, NEW c \in Results(b)
  PROVE  /\ c \in TreeRow /\ c.worktree = b.worktree /\ c.branch = b.branch
         /\ c.proved => b.proved /\ (b.inTarget => c.inTarget)
<1>1. CASE \E e \in Effects : c = Changed(b, e)
  BY <1>1, ChangedRow
<1>2. CASE \E e \in Effects : c = Changed(Changed(b, e), "land")
  <2>1. PICK e \in Effects : c = Changed(Changed(b, e), "land")
    BY <1>2
  <2>2. Changed(b, e) \in TreeRow /\ c = [Changed(b, e) EXCEPT !.inTarget = TRUE]
    BY <2>1, ChangedRow DEF Changed
  <2>3. /\ c \in TreeRow /\ c.worktree = Changed(b, e).worktree /\ c.branch = Changed(b, e).branch
        /\ c.inTarget /\ c.proved = Changed(b, e).proved
    BY <2>2 DEF TreeRow
  <2> QED BY <2>3, ChangedRow
<1> QED BY <1>1, <1>2 DEF Results

LEMMA CleanEdits ==
  ASSUME NEW t \in Task, NEW d \in Steps
  PROVE  /\ Cleaning(t, d) \in CleanRow /\ Cleaning(t, d).task = t /\ Cleaning(t, d).done = d
         /\ Cleaning(t, d).step # "off"
         /\ Cleaning(t, d).step \in {"worktree", "branch"} => d.sessions
BY DEF Cleaning, CleanRow

LEMMA StepEdits ==
  ASSUME NEW d \in Steps
  PROVE  /\ NothingDone \in Steps /\ ~NothingDone.sessions
         /\ \A s \in {"sessions", "worktree", "branch"} :
              /\ [d EXCEPT ![s] = TRUE] \in Steps
              /\ [d EXCEPT ![s] = TRUE].sessions <=> s = "sessions" \/ d.sessions
BY DEF Steps, NothingDone

-----------------------------------------------------------------------------
(* The steps of a session *)

LEMMA TurnsFit == LastTurn = 1 + MaxRequests + MaxActs /\ LastTurn \in Nat /\ Turn = 0 .. LastTurn
BY MergeAssumption DEF LastTurn, Turn

LEMMA Limits == MaxRequests \in Nat /\ MaxActs \in Nat /\ MaxFaults \in Nat /\ MaxCrashes \in Nat
BY MergeAssumption

LEMMA TurnFits ==
  ASSUME NEW n \in Nat, NEW w \in Nat, NEW c \in Nat, NEW a \in Nat, n + 1 + w <= 1 + c + a, c <= MaxRequests, a <= MaxActs
  PROVE  n + 1 \in Turn
BY Limits, TurnsFit

LEMMA Counters ==
  ASSUME CountsOK
  PROVE  /\ requests \in Nat /\ commands \in Nat /\ acts \in Nat /\ faults \in Nat /\ crashes \in Nat
         /\ requests <= MaxRequests /\ commands <= MaxRequests /\ acts <= MaxActs
BY Limits DEF CountsOK

LEMMA SessionOf ==
  ASSUME WorldOK, NEW t \in Task
  PROVE  /\ session[t] \in SessionRow /\ session[t].turn \in Turn /\ session[t].turn \in Nat
         /\ session[t].waiting \in 0 .. MaxRequests /\ session[t].waiting \in Nat
BY Limits, TurnsFit DEF WorldOK, SessionRow

LEMMA SessionEdits ==
  ASSUME NEW r \in SessionRow
  PROVE  /\ [r EXCEPT !.state = "archived", !.waiting = 0] \in SessionRow
         /\ [r EXCEPT !.state = "archived", !.waiting = 0].turn = r.turn
         /\ [r EXCEPT !.state = "archived", !.waiting = 0].waiting = 0
         /\ [r EXCEPT !.state = "archived", !.waiting = 0].state = "archived"
<1>1. 0 \in 0 .. MaxRequests
  BY Limits
<1> DEFINE w == 0 .. MaxRequests
<1>2. 0 \in w
  BY <1>1
<1> HIDE DEF w
<1>3. SessionRow = [state : Busy \cup {"idle", "archived"}, turn : Turn, waiting : w]
  BY DEF SessionRow, w
<1> QED BY <1>2, <1>3

\* Queues of the tasks: one event comes, one goes.
LEMMA Appended ==
  ASSUME NEW S, NEW q \in [Task -> Seq(S)], NEW t \in Task, NEW e \in S
  PROVE  [q EXCEPT ![t] = Append(@, e)] \in [Task -> Seq(S)]
<1>1. Append(q[t], e) \in Seq(S)
  OBVIOUS
<1> QED BY <1>1

LEMMA Shortened ==
  ASSUME NEW S, NEW q \in [Task -> Seq(S)], NEW t \in Task, q[t] # <<>>
  PROVE  Head(q[t]) \in S /\ [q EXCEPT ![t] = Tail(@)] \in [Task -> Seq(S)]
<1>1. Head(q[t]) \in S /\ Tail(q[t]) \in Seq(S)
  OBVIOUS
<1> QED BY <1>1

LEMMA BeginType ==
  ASSUME TypeOK, TurnInv, NEW t \in Task, NEW waiting \in 0 .. MaxRequests, Begins(t, waiting),
         waiting <= session[t].waiting, session[t].turn + 1 + waiting <= 1 + commands + acts',
         acts' \in 0 .. MaxActs, acts <= acts'
  PROVE  TypeOK' /\ TurnInv'
<1>1. session[t] \in SessionRow /\ session[t].turn \in Nat /\ session[t].waiting \in Nat
  BY SessionOf DEF TypeOK
<1>2. session[t].turn + 1 \in Turn
  <2>1. session[t].turn \in Nat /\ waiting \in Nat /\ commands \in Nat /\ commands <= MaxRequests
    BY <1>1, Counters DEF TypeOK
  <2>2. acts' \in Nat /\ acts' <= MaxActs
    BY Limits
  <2> QED BY <2>1, <2>2, TurnFits
<1> DEFINE row == [state |-> "busy", turn |-> session[t].turn + 1, waiting |-> waiting]
<1>3. row \in SessionRow
  BY <1>2 DEF SessionRow, Busy
<1>4. session' = [session EXCEPT ![t] = row]
  BY DEF Begins
<1>5. session' \in [Task -> SessionRow] /\ session'[t] = row /\ \A u \in Task \ {t} : session'[u] = session[u]
  BY <1>3, <1>4 DEF TypeOK, WorldOK
<1> DEFINE e == [turn |-> session[t].turn + 1, outcome |-> "none"]
<1>6. e \in [turn : Turn, outcome : Outcome]
  BY <1>2 DEF Outcome
<1>7. events' = [events EXCEPT ![t] = Append(@, e)]
  BY DEF Begins
<1>8. events' \in [Task -> Seq([turn : Turn, outcome : Outcome])]
  BY <1>6, <1>7, Appended DEF TypeOK, EventsOK
<1>9. UNCHANGED <<task, started, lock, git, call, sync, clean, recov, inbox, late, tree, fresh, landed, back, requests, commands, faults, crashes>>
  BY DEF Begins, memory
<1>10. TypeOK'
  <2>1. PluginOK'
    BY <1>9 DEF TypeOK, PluginOK
  <2>2. EventsOK' /\ WorldOK' /\ CountsOK'
    BY <1>5, <1>8, <1>9 DEF TypeOK, EventsOK, WorldOK, CountsOK
  <2> QED BY <2>1, <2>2 DEF TypeOK
<1>11. TurnInv'
  <2>1. ASSUME NEW u \in Task
        PROVE  session'[u].turn + session'[u].waiting <= 1 + commands + acts' /\ session'[u].waiting <= commands
    <3>1. commands \in Nat /\ acts \in Nat /\ acts' \in Nat /\ session[u].turn \in Nat /\ session[u].waiting \in Nat
      BY Counters, SessionOf, Limits DEF TypeOK
    <3>2. CASE u = t
      <4>1. session'[u].turn = session[t].turn + 1 /\ session'[u].waiting = waiting
        BY <1>5, <3>2
      <4>2. session[t].waiting <= commands /\ waiting \in Nat
        BY Limits DEF TurnInv
      <4> QED BY <3>1, <3>2, <4>1, <4>2
    <3>3. CASE u # t
      <4>1. session'[u] = session[u]
        BY <1>5, <3>3
      <4>2. session[u].turn + session[u].waiting <= 1 + commands + acts /\ session[u].waiting <= commands
        BY DEF TurnInv
      <4> QED BY <3>1, <4>1, <4>2
    <3> QED BY <3>2, <3>3
  <2> QED BY <1>9, <2>1 DEF TurnInv
<1> QED BY <1>10, <1>11

\* Turns and commands that wait do not change, or commands are dropped.
LEMMA TurnsStay ==
  ASSUME TypeOK, TurnInv, WorldOK', acts' \in Nat, acts <= acts', commands' = commands,
         \A u \in Task : session'[u].turn = session[u].turn /\ session'[u].waiting \in {0, session[u].waiting}
  PROVE  TurnInv'
<1>1. ASSUME NEW u \in Task
      PROVE  session'[u].turn + session'[u].waiting <= 1 + commands + acts' /\ session'[u].waiting <= commands
  <2>1. commands \in Nat /\ acts \in Nat /\ session[u].turn \in Nat /\ session[u].waiting \in Nat
    BY Counters, SessionOf DEF TypeOK
  <2>2. session[u].turn + session[u].waiting <= 1 + commands + acts /\ session[u].waiting <= commands
    BY DEF TurnInv
  <2>3. session'[u].turn = session[u].turn /\ (session'[u].waiting = 0 \/ session'[u].waiting = session[u].waiting)
    OBVIOUS
  <2> QED BY <2>1, <2>2, <2>3
<1> QED BY <1>1 DEF TurnInv

LEMMA SessionType ==
  ASSUME TypeOK, TurnInv, NEW t \in Task, SessionStep(t)
  PROVE  TypeOK' /\ TurnInv'
<1>1. /\ session[t] \in SessionRow /\ session[t].turn \in Nat /\ session[t].waiting \in Nat
      /\ commands \in Nat /\ acts \in Nat
      /\ session[t].turn + session[t].waiting <= 1 + commands + acts
  BY SessionOf, Counters DEF TypeOK, TurnInv
<1>2. CASE StartTurn(t)
  <2>1. session[t].waiting > 0 /\ Begins(t, session[t].waiting - 1) /\ acts' = acts
    BY <1>2 DEF StartTurn
  <2>2. session[t].waiting - 1 \in 0 .. MaxRequests
    BY <2>1, SessionOf, Limits DEF TypeOK
  <2>3. session[t].turn + 1 + (session[t].waiting - 1) <= 1 + commands + acts /\ session[t].waiting - 1 <= session[t].waiting
    BY <1>1
  <2> QED BY <1>1, <2>1, <2>2, <2>3, BeginType DEF TypeOK, CountsOK
<1>3. CASE AskTurn(t)
  <2>1. acts < MaxActs /\ acts' = acts + 1 /\ Begins(t, session[t].waiting)
    BY <1>3 DEF AskTurn
  <2>2. acts' \in 0 .. MaxActs /\ acts <= acts' /\ session[t].turn + 1 + session[t].waiting <= 1 + commands + acts'
    BY <1>1, <2>1, Limits
  <2>3. session[t].waiting \in 0 .. MaxRequests /\ session[t].waiting <= session[t].waiting
    BY <1>1, SessionOf DEF TypeOK
  <2> QED BY <2>1, <2>2, <2>3, BeginType
<1>4. CASE EndTurn(t)
  <2>1. /\ session' = [session EXCEPT ![t].state = "idle"]
        /\ UNCHANGED <<task, started, lock, git, call, sync, clean, recov, inbox, late, tree, fresh, landed, back,
                       requests, commands, acts, faults, crashes>>
    BY <1>4 DEF EndTurn, memory, counts
  <2>2. session' \in [Task -> SessionRow] /\ \A u \in Task : session'[u].turn = session[u].turn /\ session'[u].waiting = session[u].waiting
    BY <2>1 DEF TypeOK, WorldOK, SessionRow
  <2>3. PICK o \in Outcomes : events' = [events EXCEPT ![t] = Append(@, [turn |-> session[t].turn, outcome |-> o])]
    BY <1>4 DEF EndTurn
  <2>4. [turn |-> session[t].turn, outcome |-> o] \in [turn : Turn, outcome : Outcome]
    BY SessionOf DEF TypeOK, Outcome
  <2>5. events' \in [Task -> Seq([turn : Turn, outcome : Outcome])]
    BY <2>3, <2>4, Appended DEF TypeOK, EventsOK
  <2>6. PluginOK'
    BY <2>1 DEF TypeOK, PluginOK
  <2>7. EventsOK' /\ WorldOK' /\ CountsOK'
    BY <2>1, <2>2, <2>5 DEF TypeOK, EventsOK, WorldOK, CountsOK
  <2>8. acts' \in Nat /\ acts <= acts'
    BY <1>1, <2>1
  <2> QED BY <2>1, <2>2, <2>6, <2>7, <2>8, TurnsStay DEF TypeOK
<1>5. CASE Work(t)
  <2>1. /\ session' = [session EXCEPT ![t].state = "worked"]
        /\ UNCHANGED <<task, started, lock, git, call, sync, clean, recov, inbox, late, events, back,
                       requests, commands, acts, faults, crashes>>
    BY <1>5 DEF Work, memory, counts
  <2>2. session' \in [Task -> SessionRow] /\ \A u \in Task : session'[u].turn = session[u].turn /\ session'[u].waiting = session[u].waiting
    BY <2>1 DEF TypeOK, WorldOK, SessionRow, Busy
  <2>3. PICK b \in Results(tree[t]) :
          /\ tree' = [tree EXCEPT ![t] = b]
          /\ IF b.inTarget THEN /\ fresh' = {}
                                /\ landed' = IF b.holds THEN landed \cup {t} ELSE landed
                           ELSE UNCHANGED <<fresh, landed>>
    BY <1>5 DEF Work
  <2>4. b \in TreeRow
    BY ResultsRow DEF TypeOK, WorldOK
  <2>5. tree' \in [Task -> TreeRow] /\ fresh' \subseteq Task /\ landed' \subseteq Task
    BY <2>3, <2>4 DEF TypeOK, WorldOK
  <2>6. PluginOK'
    BY <2>1 DEF TypeOK, PluginOK
  <2>7. EventsOK' /\ WorldOK' /\ CountsOK'
    BY <2>1, <2>2, <2>5 DEF TypeOK, EventsOK, WorldOK, CountsOK
  <2>8. acts' \in Nat /\ acts <= acts'
    BY <1>1, <2>1
  <2> QED BY <2>1, <2>2, <2>6, <2>7, <2>8, TurnsStay DEF TypeOK
<1>6. CASE CloseSession(t)
  <2>1. /\ session' = [session EXCEPT ![t] = [session[t] EXCEPT !.state = "archived", !.waiting = 0]]
        /\ acts < MaxActs /\ acts' = acts + 1
        /\ UNCHANGED <<task, started, lock, git, call, sync, clean, recov, inbox, late, events, tree, fresh, landed, back,
                       requests, commands, faults, crashes>>
    BY <1>6 DEF CloseSession, memory
  <2>2. [session[t] EXCEPT !.state = "archived", !.waiting = 0] \in SessionRow
    BY <1>1, SessionEdits
  <2>3. session' \in [Task -> SessionRow]
        /\ \A u \in Task : session'[u].turn = session[u].turn /\ session'[u].waiting \in {0, session[u].waiting}
    BY <2>1, <2>2 DEF TypeOK, WorldOK, SessionRow
  <2>4. acts' \in 0 .. MaxActs /\ acts' \in Nat /\ acts <= acts'
    BY <1>1, <2>1, Limits
  <2>6. PluginOK'
    BY <2>1 DEF TypeOK, PluginOK
  <2>7. EventsOK' /\ WorldOK' /\ CountsOK'
    BY <2>1, <2>3, <2>4 DEF TypeOK, EventsOK, WorldOK, CountsOK
  <2> QED BY <2>1, <2>3, <2>4, <2>6, <2>7, TurnsStay DEF TypeOK
<1> QED BY <1>2, <1>3, <1>4, <1>5, <1>6 DEF SessionStep

-----------------------------------------------------------------------------
(* The calls of the windows *)

CallInv == BudgetInv /\ GitInv /\ SendInv
Committed == {"alone", "save", "send"}
CallSteps == {"off", "idle", "lock", "git", "alone", "save", "send"}

LEMMA CallOf ==
  ASSUME PluginOK, NEW w \in Window
  PROVE  call[w] \in CallRow /\ call[w].task \in Task \cup {Free} /\ call[w].step \in CallSteps
BY DEF PluginOK, CallRow, CallSteps

LEMMA NoCallRow == NoCall \in CallRow /\ NoCall.step = "off"
BY DEF NoCall, CallRow

LEMMA CallGoes ==
  ASSUME PluginOK, NEW w \in Window, NEW step \in CallSteps, AcceptGoes(w, step)
  PROVE  /\ call' \in [Window -> CallRow]
         /\ call'[w].task = call[w].task /\ call'[w].step = step
         /\ \A v \in Window \ {w} : call'[v] = call[v]
<1>1. call' = [call EXCEPT ![w].step = step]
  BY DEF AcceptGoes
<1>2. [call[w] EXCEPT !.step = step] \in CallRow /\ [call[w] EXCEPT !.step = step].task = call[w].task
      /\ [call[w] EXCEPT !.step = step].step = step
  BY CallOf DEF CallRow, CallSteps
<1> QED BY <1>1, <1>2 DEF PluginOK

LEMMA CallEnds ==
  ASSUME PluginOK, NEW w \in Window, AcceptEnds(w)
  PROVE  /\ call' \in [Window -> CallRow] /\ call'[w] = NoCall /\ call'[w].step = "off"
         /\ \A v \in Window \ {w} : call'[v] = call[v] /\ (git = v => git' = v)
         /\ lock' \in [Task -> Actor \cup {Free}] /\ git' \in Actor \cup {Free}
<1>1. call' = [call EXCEPT ![w] = NoCall]
  BY DEF AcceptEnds
<1>2. call' \in [Window -> CallRow] /\ call'[w] = NoCall /\ \A v \in Window \ {w} : call'[v] = call[v]
  BY <1>1, NoCallRow DEF PluginOK
<1>3. lock' \in [Task -> Actor \cup {Free}]
  BY DEF AcceptEnds, PluginOK
<1>4. git' \in Actor \cup {Free} /\ \A v \in Window \ {w} : git = v => git' = v
  BY DEF AcceptEnds, PluginOK
<1> QED BY <1>2, <1>3, <1>4, NoCallRow

LEMMA GitKept ==
  ASSUME GitInv, NEW w \in Window,
         \A v \in Window \ {w} : call'[v] = call[v] /\ (git = v => git' = v),
         call'[w].step \in Committed => git' = w, call'[w].step # "off" => call'[w].task \in Task
  PROVE  GitInv'
<1>1. ASSUME NEW v \in Window
      PROVE  /\ call'[v].step \in {"alone", "save", "send"} => git' = v
             /\ call'[v].step # "off" => call'[v].task \in Task
  BY DEF GitInv, Committed
<1> QED BY <1>1 DEF GitInv

LEMMA PendingFinite == IsFiniteSet(Pending) /\ Cardinality(Pending) \in Nat
<1>1. Pending \subseteq Window /\ IsFiniteSet(Window)
  BY MergeAssumption DEF Pending
<1> QED BY <1>1, FS_Subset, FS_CardinalityType

LEMMA BudgetKept ==
  ASSUME CountsOK, BudgetInv, NEW w \in Window, requests' = requests, \A v \in Window \ {w} : call'[v] = call[v],
         call'[w].step \in {"off", "send"} \/ call[w].step \notin {"off", "send"}
  PROVE  BudgetInv'
<1>1. Pending' \subseteq Pending
  BY DEF Pending
<1>2. Cardinality(Pending') \in Nat /\ Cardinality(Pending') <= Cardinality(Pending)
  BY <1>1, PendingFinite, FS_Subset, FS_CardinalityType
<1>3. requests + Cardinality(Pending) <= MaxRequests
  BY DEF BudgetInv
<1>4. requests' + Cardinality(Pending') <= MaxRequests
  BY <1>2, <1>3, PendingFinite, Counters, Limits
<1> QED BY <1>4 DEF BudgetInv

LEMMA SendKept ==
  ASSUME SendInv, NEW w \in Window, UNCHANGED <<requests, commands>>, \A v \in Window \ {w} : call'[v] = call[v],
         call'[w].step # "send"
  PROVE  SendInv'
<1>1. ASSUME NEW v \in Window, call'[v].step = "send" PROVE commands < requests
  BY <1>1 DEF SendInv
<1> QED BY <1>1 DEF SendInv

\* A call goes on to a step at which it has not sent.
LEMMA CallKept ==
  ASSUME CountsOK, CallInv, NEW w \in Window, UNCHANGED <<requests, commands>>,
         \A v \in Window \ {w} : call'[v] = call[v] /\ (git = v => git' = v),
         call'[w].step \in Committed => git' = w, call'[w].step # "off" => call'[w].task \in Task,
         call'[w].step # "send", call'[w].step # "off" => call[w].step \notin {"off", "send"}
  PROVE  CallInv'
BY GitKept, BudgetKept, SendKept DEF CallInv

\* Nobody else is committed when the queue of Git calls is free.
LEMMA NobodyElse ==
  ASSUME GitInv, git = Free
  PROVE  \A v \in Window : call[v].step \notin Committed
BY MergeAssumption DEF GitInv, Committed, Free
LEMMA OnlyCommitted ==
  ASSUME GitInv, NEW w \in Window, call[w].step \in Committed
  PROVE  git = w /\ \A v \in Window \ {w} : call[v].step \notin Committed
BY DEF GitInv, Committed

\* A step of a call that leaves the rest alone.
Rest == <<task, started, sync, clean, recov, inbox, late, events, session, tree, fresh, landed, back, acts, crashes>>

LEMMA FaultType ==
  ASSUME CountsOK, Fault \/ UNCHANGED faults
  PROVE  faults' \in 0 .. MaxFaults
BY Limits DEF CountsOK, Fault

LEMMA RestType ==
  ASSUME TypeOK, TurnInv, UNCHANGED Rest, UNCHANGED <<requests, commands>>, call' \in [Window -> CallRow],
         lock' \in [Task -> Actor \cup {Free}], git' \in Actor \cup {Free}, faults' \in 0 .. MaxFaults
  PROVE  TypeOK' /\ TurnInv'
<1>1. PluginOK'
  BY DEF TypeOK, PluginOK, Rest
<1>2. EventsOK' /\ WorldOK' /\ CountsOK'
  BY DEF TypeOK, EventsOK, WorldOK, CountsOK, Rest
<1>3. TurnInv'
  BY DEF TurnInv, Rest
<1> QED BY <1>1, <1>2, <1>3 DEF TypeOK

LEMMA EndsType ==
  ASSUME TypeOK, TurnInv, CallInv, NEW w \in Window, AcceptEnds(w), UNCHANGED Rest, UNCHANGED <<requests, commands>>,
         Fault \/ UNCHANGED faults
  PROVE  TypeOK' /\ TurnInv' /\ CallInv'
<1>1. faults' \in 0 .. MaxFaults
  BY FaultType DEF TypeOK
<1>2. TypeOK' /\ TurnInv'
  BY <1>1, CallEnds, RestType DEF TypeOK
<1>3. CallInv'
  BY CallEnds, CallKept DEF TypeOK, Committed
<1> QED BY <1>2, <1>3

LEMMA GoesType ==
  ASSUME TypeOK, TurnInv, CallInv, NEW w \in Window, NEW step \in CallSteps \ {"off", "send"}, AcceptGoes(w, step),
         call[w].step \notin {"off", "send"}, UNCHANGED Rest, UNCHANGED <<requests, commands>>,
         lock' \in [Task -> Actor \cup {Free}], git' \in {git, w}, git' = w => git \in {Free, w},
         step \in Committed => git' = w, faults' \in 0 .. MaxFaults
  PROVE  TypeOK' /\ TurnInv' /\ CallInv'
<1>1. git' \in Actor \cup {Free}
  BY DEF TypeOK, PluginOK, Actor
<1>2. TypeOK' /\ TurnInv'
  BY <1>1, CallGoes, RestType DEF TypeOK
<1>3. \A v \in Window \ {w} : git = v => git' = v
  BY MergeAssumption DEF Free
<1>4. call'[w].task \in Task
  BY CallGoes DEF CallInv, GitInv, TypeOK
<1>5. CallInv'
  BY <1>3, <1>4, CallGoes, CallKept DEF TypeOK
<1> QED BY <1>2, <1>5

LEMMA AcceptType ==
  ASSUME TypeOK, TurnInv, CallInv, NEW w \in Window, NEW t \in Task, Accept(w, t)
  PROVE  TypeOK' /\ TurnInv' /\ CallInv'
<1> DEFINE row == [task |-> t, step |-> "idle"]
<1>1. /\ call[w] = NoCall /\ requests + Cardinality({v \in Window : call[v] # NoCall}) < MaxRequests
      /\ call' = [call EXCEPT ![w] = row] /\ UNCHANGED Rest /\ UNCHANGED <<lock, git, faults, requests, commands>>
  BY DEF Accept, Rest, world, counts
<1>2. row \in CallRow /\ row.task = t /\ row.step = "idle"
  BY DEF CallRow
<1>3. call' \in [Window -> CallRow] /\ call'[w] = row /\ \A v \in Window \ {w} : call'[v] = call[v]
  BY <1>1, <1>2 DEF TypeOK, PluginOK
<1>4. TypeOK' /\ TurnInv'
  BY <1>1, <1>3, RestType DEF TypeOK, PluginOK, CountsOK
<1>5. GitInv' /\ SendInv'
  BY <1>1, <1>2, <1>3, GitKept, SendKept DEF CallInv, Committed
<1>6. BudgetInv'
  <2> DEFINE Calls == {v \in Window : call[v] # NoCall}
  <2>1. Pending \subseteq Calls /\ Calls \subseteq Window /\ w \notin Pending
    BY <1>1, NoCallRow DEF Pending
  <2>2. IsFiniteSet(Calls) /\ Cardinality(Calls) \in Nat /\ Cardinality(Pending) <= Cardinality(Calls)
    BY <2>1, MergeAssumption, FS_Subset, FS_CardinalityType
  <2>3. Pending' = Pending \cup {w}
    BY <1>2, <1>3 DEF Pending
  <2>4. Cardinality(Pending') = Cardinality(Pending) + 1
    BY <2>1, <2>3, PendingFinite, FS_AddElement
  <2>5. requests + Cardinality(Calls) < MaxRequests /\ requests' = requests /\ requests \in Nat
    BY <1>1, Counters DEF TypeOK
  <2> HIDE DEF Calls
  <2>6. requests' + Cardinality(Pending') <= MaxRequests
    BY <2>2, <2>4, <2>5, PendingFinite, Limits
  <2> QED BY <2>6 DEF BudgetInv
<1> QED BY <1>4, <1>5, <1>6 DEF CallInv

LEMMA WaitsType ==
  ASSUME TypeOK, TurnInv, CallInv, NEW w \in Window, AcceptIdle(w) \/ AcceptLock(w) \/ AcceptLook(w) \/ AcceptAlone(w)
  PROVE  TypeOK' /\ TurnInv' /\ CallInv'
<1>1. UNCHANGED Rest /\ UNCHANGED <<requests, commands>>
  BY DEF AcceptIdle, AcceptLock, AcceptLook, AcceptAlone, Rest, world, counts
<1>2. CASE AcceptEnds(w)
  <2>1. Fault \/ UNCHANGED faults
    BY DEF AcceptIdle, AcceptLock, AcceptLook, AcceptAlone, counts
  <2> QED BY <1>1, <1>2, <2>1, EndsType
<1>3. lock \in [Task -> Actor \cup {Free}] /\ faults \in 0 .. MaxFaults /\ {w} \subseteq Actor
  BY DEF TypeOK, PluginOK, CountsOK, Actor
<1>4. CASE AcceptIdle(w) /\ ~AcceptEnds(w)
  <2>1. AcceptGoes(w, "lock") /\ call[w].step = "idle" /\ UNCHANGED <<lock, git, faults>>
    BY <1>4 DEF AcceptIdle, AcceptAt
  <2>2. git' = w => git \in {Free, w}
    BY <2>1
  <2> QED BY <1>1, <1>3, <2>1, <2>2, GoesType DEF CallSteps, Committed
<1>5. CASE AcceptLock(w) /\ ~AcceptEnds(w)
  <2>1. /\ AcceptGoes(w, "git") /\ call[w].step = "lock" /\ UNCHANGED <<git, faults>>
        /\ lock' = [lock EXCEPT ![call[w].task] = w]
    BY <1>5 DEF AcceptLock, AcceptAt, counts
  <2>2. lock' \in [Task -> Actor \cup {Free}]
    BY <1>3, <2>1
  <2>3. git' = w => git \in {Free, w}
    BY <2>1
  <2> QED BY <1>1, <1>3, <2>1, <2>2, <2>3, GoesType DEF CallSteps, Committed
<1>6. CASE AcceptLook(w) /\ ~AcceptEnds(w)
  <2>1. AcceptGoes(w, "alone") /\ call[w].step = "git" /\ git = Free /\ git' = w /\ UNCHANGED <<lock, faults>>
    BY <1>6 DEF AcceptLook, AcceptAt, TakeGit, counts
  <2> QED BY <1>1, <1>3, <2>1, GoesType DEF CallSteps, Committed
<1>7. CASE AcceptAlone(w) /\ ~AcceptEnds(w)
  <2>1. AcceptGoes(w, "save") /\ call[w].step = "alone" /\ UNCHANGED <<lock, git, faults>>
    BY <1>7 DEF AcceptAlone, AcceptAt
  <2>2. git = w
    BY <2>1, OnlyCommitted DEF CallInv, Committed
  <2> QED BY <1>1, <1>3, <2>1, <2>2, GoesType DEF CallSteps, Committed
<1> QED BY <1>2, <1>4, <1>5, <1>6, <1>7

LEMMA SaveType ==
  ASSUME TypeOK, TurnInv, CallInv, NEW w \in Window, AcceptSave(w)
  PROVE  TypeOK' /\ TurnInv' /\ CallInv'
<1> DEFINE t == call[w].task
<1>1. UNCHANGED <<started, sync, clean, recov, inbox, events, session, tree, fresh, landed, commands, acts, crashes>>
      /\ call[w].step = "save"
  BY DEF AcceptSave, AcceptAt, world
<1>2. CASE AcceptEnds(w) /\ UNCHANGED <<task, late, back, requests>> /\ (Fault \/ UNCHANGED faults)
  BY <1>1, <1>2, EndsType DEF Rest
<1>3. CASE /\ requests' = requests + 1 /\ UNCHANGED <<lock, git, faults>>
           /\ Becomes(t, [With(t, "merging") EXCEPT !.req = [NoRequest EXCEPT !.prev = Previous(t)]])
           /\ late' = late \ {t} /\ back' = back \ {t} /\ AcceptGoes(w, "send")
  <2>1. t \in Task /\ git = w
    BY <1>1 DEF CallInv, GitInv
  <2>2. /\ call' \in [Window -> CallRow] /\ call'[w].task = t /\ call'[w].step = "send"
        /\ \A v \in Window \ {w} : call'[v] = call[v]
    BY <1>3, CallGoes DEF TypeOK, CallSteps
  <2>3. /\ Pending' = Pending \ {w} /\ w \in Pending
    BY <1>1, <2>2 DEF Pending
  <2>4. Cardinality(Pending') = Cardinality(Pending) - 1 /\ Cardinality(Pending') \in Nat
    <3>1. Cardinality(Pending') = Cardinality(Pending) - 1
      BY <2>3, PendingFinite, FS_RemoveElement
    <3>2. IsFiniteSet(Pending')
      BY <2>3, PendingFinite, FS_Subset
    <3> QED BY <3>1, <3>2, FS_CardinalityType
  <2>5. requests \in Nat /\ commands \in Nat /\ requests + Cardinality(Pending) <= MaxRequests /\ commands <= requests
    BY Counters DEF TypeOK, CallInv, BudgetInv, SendInv
  <2>6. requests' + Cardinality(Pending') <= MaxRequests /\ requests' \in 0 .. MaxRequests /\ commands < requests'
    BY <1>3, <2>4, <2>5, PendingFinite, Limits
  <2>7. CallInv'
    <3>1. BudgetInv'
      BY <2>6 DEF BudgetInv
    <3>2. GitInv'
      BY <1>3, <2>1, <2>2, GitKept DEF CallInv
    <3>3. commands' <= requests' /\ commands' < requests'
      BY <1>1, <2>5, <2>6
    <3>4. SendInv'
      BY <3>3 DEF SendInv
    <3> QED BY <3>1, <3>2, <3>4 DEF CallInv
  <2>8. task' \in [Task -> Record]
    <3>1. task[t] \in Record /\ Previous(t) \in Turn
      BY <2>1 DEF TypeOK, PluginOK, Previous, Record
    <3>2. PICK n \in Turn : n = Previous(t)
      BY <3>1
    <3>3. [NoRequest EXCEPT !.prev = n] \in Request
      BY RequestEdits
    <3>4. PICK q \in Request : q = [NoRequest EXCEPT !.prev = n]
      BY <3>3
    <3>5. With(t, "merging") = [task[t] EXCEPT !.status = "merging"]
      BY DEF With
    <3>6. [With(t, "merging") EXCEPT !.req = q] \in Record
      BY <3>1, <3>5 DEF Record
    <3>7. task' = [task EXCEPT ![t] = [With(t, "merging") EXCEPT !.req = q]]
      BY Zenon, <1>3, <3>2, <3>4 DEF Becomes
    <3> QED BY <3>6, <3>7 DEF TypeOK, PluginOK
  <2>9. PluginOK'
    BY <1>1, <1>3, <2>2, <2>8 DEF TypeOK, PluginOK
  <2>10. EventsOK' /\ WorldOK' /\ CountsOK'
    BY <1>1, <1>3, <2>6 DEF TypeOK, EventsOK, WorldOK, CountsOK
  <2>11. TurnInv'
    BY <1>1 DEF TurnInv
  <2> QED BY <2>7, <2>9, <2>10, <2>11 DEF TypeOK
<1> QED BY <1>2, <1>3 DEF AcceptSave

LEMMA SendType ==
  ASSUME TypeOK, TurnInv, CallInv, NEW w \in Window, AcceptSend(w)
  PROVE  TypeOK' /\ TurnInv' /\ CallInv'
<1> DEFINE t == call[w].task
<1>1. UNCHANGED <<task, started, sync, clean, recov, inbox, late, events, tree, fresh, landed, back, requests, acts, crashes>>
      /\ call[w].step = "send" /\ AcceptEnds(w)
  BY DEF AcceptSend, AcceptAt
<1>2. CASE Fault /\ UNCHANGED <<session, commands>>
  BY <1>1, <1>2, EndsType DEF Rest
<1>3. CASE /\ commands' = commands + 1 /\ (Fault \/ UNCHANGED faults)
           /\ session' = [session EXCEPT ![t].waiting = IF Exists(t) THEN @ + 1 ELSE @]
  <2>1. t \in Task /\ git = w /\ \A v \in Window \ {w} : call[v].step \notin Committed
    BY <1>1, OnlyCommitted DEF CallInv, GitInv, Committed
  <2>2. /\ call' \in [Window -> CallRow] /\ call'[w].step = "off"
        /\ \A v \in Window \ {w} : call'[v] = call[v] /\ (git = v => git' = v)
        /\ lock' \in [Task -> Actor \cup {Free}] /\ git' \in Actor \cup {Free}
    BY <1>1, CallEnds DEF TypeOK
  <2>3. /\ requests \in Nat /\ commands \in Nat /\ commands < requests /\ acts \in Nat /\ requests <= MaxRequests
        /\ session[t].turn \in Nat /\ session[t].waiting \in Nat /\ session[t].waiting <= commands
        /\ session[t].turn + session[t].waiting <= 1 + commands + acts
    BY <1>1, <2>1, Counters, SessionOf DEF TypeOK, CallInv, SendInv, TurnInv
  <2>4. commands' \in 0 .. MaxRequests /\ commands' <= requests' /\ commands + 1 \in Nat
    BY <1>1, <1>3, <2>3, Limits
  <2>5. session[t].waiting + 1 \in 0 .. MaxRequests
    BY <2>3, Limits
  <2> DEFINE n == IF Exists(t) THEN session[t].waiting + 1 ELSE session[t].waiting
  <2>6. n \in 0 .. MaxRequests /\ n \in Nat /\ n <= session[t].waiting + 1
    BY <2>1, <2>3, <2>5, SessionOf DEF TypeOK
  <2>7. session' = [session EXCEPT ![t] = [session[t] EXCEPT !.waiting = n]]
    BY <1>3
  <2> HIDE DEF n
  <2>8. /\ [session[t] EXCEPT !.waiting = n] \in SessionRow /\ [session[t] EXCEPT !.waiting = n].turn = session[t].turn
        /\ [session[t] EXCEPT !.waiting = n].waiting = n
    <3> DEFINE row == [session[t] EXCEPT !.waiting = n]  m == 0 .. MaxRequests
    <3>1. n \in m /\ session[t] \in SessionRow
      BY <2>1, <2>6, SessionOf DEF TypeOK
    <3> HIDE DEF m
    <3>2. SessionRow = [state : Busy \cup {"idle", "archived"}, turn : Turn, waiting : m]
      BY DEF SessionRow, m
    <3> QED BY <3>1, <3>2
  <2>9. /\ session' \in [Task -> SessionRow] /\ session'[t].turn = session[t].turn /\ session'[t].waiting = n
        /\ \A u \in Task \ {t} : session'[u] = session[u]
    BY <2>1, <2>7, <2>8 DEF TypeOK, WorldOK
  <2>10. TurnInv'
    <3>1. ASSUME NEW u \in Task
          PROVE  session'[u].turn + session'[u].waiting <= 1 + (commands + 1) + acts /\ session'[u].waiting <= commands + 1
      <4>1. CASE u = t
        BY <2>3, <2>6, <2>9, <4>1
      <4>2. CASE u # t
        <5>1. session'[u] = session[u] /\ session[u].turn \in Nat /\ session[u].waiting \in Nat
          BY <2>9, <4>2, SessionOf DEF TypeOK
        <5>2. session[u].turn + session[u].waiting <= 1 + commands + acts /\ session[u].waiting <= commands
          BY DEF TurnInv
        <5> QED BY <2>3, <5>1, <5>2
      <4> QED BY <4>1, <4>2
    <3> QED BY <1>1, <1>3, <3>1 DEF TurnInv
  <2>11. CallInv'
    <3>1. BudgetInv'
      BY <1>1, <2>2, BudgetKept DEF TypeOK, CallInv
    <3>2. GitInv'
      BY <2>2, GitKept DEF CallInv, Committed
    <3>3. \A v \in Window : call'[v].step # "send"
      BY <2>1, <2>2 DEF Committed
    <3>4. SendInv'
      BY <2>4, <3>3 DEF SendInv
    <3> QED BY <3>1, <3>2, <3>4 DEF CallInv
  <2>12. faults' \in 0 .. MaxFaults
    BY <1>3, FaultType DEF TypeOK
  <2>13. PluginOK'
    BY <1>1, <2>2 DEF TypeOK, PluginOK
  <2>14. EventsOK' /\ WorldOK' /\ CountsOK'
    BY <1>1, <2>4, <2>9, <2>12 DEF TypeOK, EventsOK, WorldOK, CountsOK
  <2> QED BY <2>10, <2>11, <2>13, <2>14 DEF TypeOK
<1> QED BY <1>2, <1>3 DEF AcceptSend

LEMMA AcceptStepType ==
  ASSUME TypeOK, TurnInv, CallInv, NEW w \in Window, AcceptStep(w)
  PROVE  TypeOK' /\ TurnInv' /\ CallInv'
BY WaitsType, SaveType, SendType DEF AcceptStep

-----------------------------------------------------------------------------
(* Syncs, cleanups and events: the calls go on as they were *)

LEMMA CallStays ==
  ASSUME CallInv, UNCHANGED <<call, git, requests, commands>>
  PROVE  CallInv'
<1>1. Pending' = Pending
  BY DEF Pending
<1>2. BudgetInv'
  BY <1>1 DEF CallInv, BudgetInv
<1>3. GitInv' /\ SendInv'
  BY DEF CallInv, GitInv, SendInv
<1> QED BY <1>2, <1>3 DEF CallInv

LEMMA QuietType ==
  ASSUME TypeOK, TurnInv, CallInv, UNCHANGED <<call, git, requests, commands, crashes, fresh, landed>>,
         task' \in [Task -> Record], started' \in [Task -> Turn], lock' \in [Task -> Actor \cup {Free}],
         sync' \in [Task -> SyncRow], clean' \in [Actor -> CleanRow],
         recov' \subseteq Task, late' \subseteq Task, back' \subseteq Task, EventsOK',
         tree' \in [Task -> TreeRow], session' \in [Task -> SessionRow],
         \A u \in Task : session'[u].turn = session[u].turn /\ session'[u].waiting \in {0, session[u].waiting},
         faults' \in 0 .. MaxFaults, acts' \in 0 .. MaxActs, acts <= acts'
  PROVE  TypeOK' /\ TurnInv' /\ CallInv'
<1>1. PluginOK'
  BY DEF TypeOK, PluginOK
<1>2. WorldOK' /\ CountsOK'
  BY DEF TypeOK, WorldOK, CountsOK
<1>3. TypeOK'
  BY <1>1, <1>2 DEF TypeOK
<1>4. acts' \in Nat
  BY Limits
<1>5. TurnInv'
  BY <1>2, <1>4, TurnsStay
<1> QED BY <1>3, <1>5, CallStays

\* What the steps below leave alone satisfies its type.
LEMMA NowType ==
  ASSUME TypeOK
  PROVE  /\ task \in [Task -> Record] /\ started \in [Task -> Turn] /\ lock \in [Task -> Actor \cup {Free}]
         /\ sync \in [Task -> SyncRow] /\ clean \in [Actor -> CleanRow]
         /\ recov \subseteq Task /\ late \subseteq Task /\ back \subseteq Task
         /\ tree \in [Task -> TreeRow] /\ session \in [Task -> SessionRow]
         /\ \A u \in Task : session[u].turn = session[u].turn /\ session[u].waiting \in {0, session[u].waiting}
         /\ faults \in 0 .. MaxFaults /\ acts \in 0 .. MaxActs /\ acts <= acts
         /\ EventsOK /\ events \in [Task -> Seq([turn : Turn, outcome : Outcome])]
         /\ inbox \in [Task -> Seq([turn : Turn, outcome : Outcome, merge : BOOLEAN])]
<1>1. acts \in Nat
  BY Counters DEF TypeOK
<1>2. acts <= acts
  BY <1>1
<1> QED BY <1>2 DEF TypeOK, PluginOK, WorldOK, CountsOK, EventsOK

LEMMA RowsOf ==
  ASSUME TypeOK, NEW t \in Task
  PROVE  task[t] \in Record /\ sync[t] \in SyncRow /\ session[t] \in SessionRow /\ tree[t] \in TreeRow
BY NowType

LEMMA EventsStay ==
  ASSUME EventsOK, UNCHANGED <<events, inbox>>
  PROVE  EventsOK'
BY DEF EventsOK

LEMMA BecomesType ==
  ASSUME TypeOK, NEW t \in Task, NEW r \in Record, Becomes(t, r)
  PROVE  /\ task' \in [Task -> Record] /\ task'[t] = r
         /\ \A u \in Task \ {t} : task'[u] = task[u]
BY NowType DEF Becomes

LEMMA WithType ==
  ASSUME TypeOK, NEW t \in Task, NEW st \in {"awaiting_review", "merging", "merged", "merge_failed", "needs_check"}
  PROVE  With(t, st) \in Record /\ With(t, st).status = st /\ With(t, st).done = task[t].done
BY RowsOf DEF With, Record

LEMMA SyncEndsType ==
  ASSUME TypeOK, NEW t \in Task, SyncEnds(t)
  PROVE  sync' \in [Task -> SyncRow] /\ lock' \in [Task -> Actor \cup {Free}]
<1>1. NoSync \in SyncRow
  BY DEF NoSync, SyncRow
<1> QED BY <1>1, NowType DEF SyncEnds

LEMMA AskType ==
  ASSUME TypeOK, NEW t \in Task, NEW r \in BOOLEAN, Ask(t, r)
  PROVE  sync' \in [Task -> SyncRow]
<1>1. CASE sync[t] = NoSync
  <2>1. [step |-> "lock", recovering |-> r, awaited |-> r] \in SyncRow
    BY DEF SyncRow
  <2> QED BY <1>1, <2>1, NowType DEF Ask
<1>2. CASE sync[t] # NoSync
  <2> DEFINE b == sync[t].awaited \/ r
  <2>1. b \in BOOLEAN
    OBVIOUS
  <2>2. sync' = [sync EXCEPT ![t] = [sync[t] EXCEPT !.awaited = b]]
    BY <1>2 DEF Ask
  <2> HIDE DEF b
  <2>3. [sync[t] EXCEPT !.awaited = b] \in SyncRow
    BY <2>1, RowsOf DEF SyncRow
  <2> QED BY <2>2, <2>3, NowType
<1> QED BY <1>1, <1>2

LEMMA AskedType ==
  ASSUME TypeOK, TurnInv, CallInv, NEW t \in Task, Elapse(t) \/ Poll(t) \/ RecoverMerge(t)
  PROVE  TypeOK' /\ TurnInv' /\ CallInv'
<1>1. /\ UNCHANGED <<call, git, requests, commands, crashes, fresh, landed, task, started, lock, clean, back,
                     events, inbox, tree, session, faults, acts>>
  BY DEF Elapse, Poll, RecoverMerge, memory, world, counts
<1>2. sync' \in [Task -> SyncRow] /\ recov' \subseteq Task /\ late' \subseteq Task
  <2>1. CASE Elapse(t)
    BY <2>1, NowType DEF Elapse, memory
  <2>2. CASE Poll(t)
    BY <2>2, NowType, AskType DEF Poll
  <2>3. CASE RecoverMerge(t)
    BY <2>3, NowType, AskType DEF RecoverMerge
  <2> QED BY <2>1, <2>2, <2>3
<1> QED BY <1>1, <1>2, NowType, EventsStay, QuietType

LEMMA ObservedType ==
  ASSUME TypeOK, NEW t \in Task
  PROVE  [task[t] EXCEPT !.req = Observed(t)] \in Record
<1> DEFINE q == task[t].req  n == session[t].turn
<1>1. q \in Request /\ q.turn \in Turn /\ n \in Turn /\ task[t] \in Record
  BY NowType DEF Record, Request, SessionRow
<1>2. Observed(t) = [q EXCEPT !.seen = TRUE, !.turn = IF n \in {q.prev, ReviewTurn} THEN q.turn ELSE n]
  BY DEF Observed
<1> DEFINE m == IF n \in {q.prev, ReviewTurn} THEN q.turn ELSE n
<1>3. m \in Turn
  BY <1>1
<1>4. Observed(t) = [q EXCEPT !.seen = TRUE, !.turn = m]
  BY <1>2
<1> HIDE DEF m, q
<1>5. Observed(t) \in Request
  BY <1>1, <1>3, <1>4 DEF Request
<1>6. PICK r \in Request : r = Observed(t)
  BY <1>5
<1> QED BY <1>1, <1>6 DEF Record

\* The sync of a task goes on to ask Git.
LEMMA VerifyType ==
  ASSUME TypeOK, NEW t \in Task,
         sync' = [sync EXCEPT ![t].step = "verify", ![t].recovering = @ \/ Silent(t)]
  PROVE  sync' \in [Task -> SyncRow]
<1> DEFINE b == sync[t].recovering \/ Silent(t)
<1>1. b \in BOOLEAN
  OBVIOUS
<1>2. sync' = [sync EXCEPT ![t] = [sync[t] EXCEPT !.step = "verify", !.recovering = b]]
  BY Zenon
<1> HIDE DEF b
<1>3. [sync[t] EXCEPT !.step = "verify", !.recovering = b] \in SyncRow
  BY <1>1, RowsOf DEF SyncRow
<1> QED BY <1>2, <1>3, NowType

\* What SyncInspect does to the record and to the lock.
LEMMA InspectEffect ==
  ASSUME TypeOK, NEW t \in Task, SyncInspect(t)
  PROVE  /\ task' \in [Task -> Record] /\ sync' \in [Task -> SyncRow] /\ lock' \in [Task -> Actor \cup {Free}]
         /\ \A u \in Task : task'[u].status # "merged" \/ task'[u].status = task[u].status
         /\ \A u \in Task : Merging(u)' => Merging(u)
         /\ \A u \in Task : task'[u].done = task[u].done
<1>1. ASSUME Merging(t), Becomes(t, [task[t] EXCEPT !.req = Observed(t)])
      PROVE  /\ task' \in [Task -> Record] /\ task'[t].status = task[t].status /\ task'[t].done = task[t].done
             /\ \A u \in Task \ {t} : task'[u] = task[u]
  <2>1. [task[t] EXCEPT !.req = Observed(t)] \in Record
    BY ObservedType
  <2>2. PICK r \in Record : r = [task[t] EXCEPT !.req = Observed(t)]
    BY <2>1
  <2>3. r.status = task[t].status /\ r.done = task[t].done
    BY <2>2, NowType DEF Record
  <2>4. Becomes(t, r)
    BY <1>1, <2>2
  <2> QED BY <2>3, <2>4, BecomesType
<1>2. ASSUME NEW st \in {"needs_check", "merge_failed"}, Becomes(t, With(t, st))
      PROVE  /\ task' \in [Task -> Record] /\ task'[t].status = st /\ task'[t].done = task[t].done
             /\ \A u \in Task \ {t} : task'[u] = task[u]
  BY <1>2, WithType, BecomesType
<1>3. \/ UNCHANGED task
      \/ Merging(t) /\ Becomes(t, [task[t] EXCEPT !.req = Observed(t)])
      \/ \E st \in {"needs_check", "merge_failed"} : Becomes(t, With(t, st))
  BY DEF SyncInspect
<1>4. /\ task' \in [Task -> Record]
      /\ \A u \in Task : task'[u].status # "merged" \/ task'[u].status = task[u].status
      /\ \A u \in Task : task'[u].done = task[u].done
      /\ \A u \in Task : task'[u].status = "merging" => task[u].status = "merging"
  BY <1>1, <1>2, <1>3, NowType
<1>5. sync' \in [Task -> SyncRow] /\ lock' \in [Task -> Actor \cup {Free}]
  <2>1. CASE SyncEnds(t)
    BY <2>1, SyncEndsType
  <2>2. CASE /\ sync' = [sync EXCEPT ![t].step = "verify", ![t].recovering = @ \/ Silent(t)]
             /\ lock' = [lock EXCEPT ![t] = t]
    <3>1. lock' \in [Task -> Actor \cup {Free}]
      BY <2>2, NowType DEF Actor
    <3> QED BY <2>2, <3>1, VerifyType
  <2> QED BY <2>1, <2>2 DEF SyncInspect
<1> QED BY <1>4, <1>5 DEF Merging

LEMMA InspectType ==
  ASSUME TypeOK, TurnInv, CallInv, NEW t \in Task, SyncInspect(t)
  PROVE  TypeOK' /\ TurnInv' /\ CallInv'
<1>1. /\ UNCHANGED <<call, git, requests, commands, crashes, fresh, landed, started, clean, recov, late, back,
                     events, inbox, tree, session, acts>>
      /\ Fault \/ UNCHANGED faults
  BY DEF SyncInspect, world
<1>2. faults' \in 0 .. MaxFaults
  BY <1>1, FaultType DEF TypeOK
<1> QED BY <1>1, <1>2, InspectEffect, NowType, EventsStay, QuietType

LEMMA UnprovenType ==
  ASSUME TypeOK, NEW t \in Task
  PROVE  /\ Unproven(t) \in Record /\ Unproven(t).done = task[t].done
         /\ Unproven(t).status \in {"needs_check", "merge_failed", task[t].status}
BY WithType, NowType DEF Unproven

\* What SyncVerify does: only a merge that Git confirms makes a task merged.
LEMMA VerifyEffect ==
  ASSUME TypeOK, NEW t \in Task, SyncVerify(t)
  PROVE  /\ task' \in [Task -> Record] /\ sync' \in [Task -> SyncRow] /\ lock' \in [Task -> Actor \cup {Free}]
         /\ started' \in [Task -> Turn] /\ clean' \in [Actor -> CleanRow]
         /\ \A u \in Task : task'[u].done = task[u].done
         /\ \A u \in Task : Merging(u)' => Merging(u)
         /\ \A u \in Task : task'[u].status = "merged" => task[u].status = "merged" \/ Verified(u)
         /\ \/ UNCHANGED <<tree, clean>>
            \/ Verified(t) /\ tree' = [tree EXCEPT ![t].proved = TRUE]
               /\ clean' = [clean EXCEPT ![t] = Cleaning(t, NothingDone)]
<1>1. CASE Verified(t) /\ Becomes(t, With(t, "merged"))
           /\ tree' = [tree EXCEPT ![t].proved = TRUE] /\ started' = [started EXCEPT ![t] = 0]
           /\ sync' = [sync EXCEPT ![t].step = "clean"] /\ clean' = [clean EXCEPT ![t] = Cleaning(t, NothingDone)]
           /\ lock' = [lock EXCEPT ![t] = Free]
  <2>1. /\ task' \in [Task -> Record] /\ task'[t].done = task[t].done /\ task'[t].status = "merged"
        /\ \A u \in Task \ {t} : task'[u] = task[u]
    BY <1>1, WithType, BecomesType
  <2>2. [sync[t] EXCEPT !.step = "clean"] \in SyncRow
    BY RowsOf DEF SyncRow
  <2>3. sync' \in [Task -> SyncRow] /\ lock' \in [Task -> Actor \cup {Free}]
    BY <1>1, <2>2, NowType
  <2>4. started' \in [Task -> Turn]
    BY <1>1, NowType, TurnsFit
  <2>5. clean' \in [Actor -> CleanRow]
    <3>1. NothingDone \in Steps
      BY DEF NothingDone, Steps
    <3>2. Cleaning(t, NothingDone) \in CleanRow
      BY <3>1, CleanEdits
    <3> QED BY <1>1, <3>2, NowType
  <2> QED BY <1>1, <2>1, <2>3, <2>4, <2>5 DEF Merging
<1>2. CASE Becomes(t, Unproven(t)) /\ SyncEnds(t) /\ UNCHANGED <<tree, started, clean>>
  <2>1. /\ task' \in [Task -> Record] /\ task'[t].done = task[t].done
        /\ task'[t].status \in {"needs_check", "merge_failed", task[t].status}
        /\ \A u \in Task \ {t} : task'[u] = task[u]
    BY <1>2, UnprovenType, BecomesType
  <2> QED BY <1>2, <2>1, SyncEndsType, NowType DEF Merging
<1>3. CASE Becomes(t, With(t, "needs_check")) /\ SyncEnds(t) /\ UNCHANGED <<tree, started, clean>>
  <2>1. /\ task' \in [Task -> Record] /\ task'[t].done = task[t].done /\ task'[t].status = "needs_check"
        /\ \A u \in Task \ {t} : task'[u] = task[u]
    BY <1>3, WithType, BecomesType
  <2> QED BY <1>3, <2>1, SyncEndsType, NowType DEF Merging
<1> QED BY <1>1, <1>2, <1>3 DEF SyncVerify

LEMMA VerifyStepType ==
  ASSUME TypeOK, TurnInv, CallInv, NEW t \in Task, SyncVerify(t)
  PROVE  TypeOK' /\ TurnInv' /\ CallInv'
<1>1. /\ UNCHANGED <<call, git, requests, commands, crashes, fresh, landed, recov, late, back,
                     events, inbox, session, acts>>
      /\ Fault \/ UNCHANGED faults
  BY DEF SyncVerify
<1>2. faults' \in 0 .. MaxFaults
  BY <1>1, FaultType DEF TypeOK
<1>3. tree' \in [Task -> TreeRow]
  <2>1. [tree[t] EXCEPT !.proved = TRUE] \in TreeRow
    BY TreeEdits, NowType
  <2>2. UNCHANGED tree \/ tree' = [tree EXCEPT ![t] = [tree[t] EXCEPT !.proved = TRUE]]
    BY VerifyEffect
  <2>3. tree \in [Task -> TreeRow]
    BY NowType
  <2> QED BY <2>1, <2>2, <2>3
<1> QED BY <1>1, <1>2, <1>3, VerifyEffect, NowType, EventsStay, QuietType

-----------------------------------------------------------------------------
(* The cleanups *)

CleanSteps == {"off", "idle", "archive", "worktree", "branch", "save"}

LEMMA CleanOf ==
  ASSUME TypeOK, NEW a \in Actor
  PROVE  /\ clean[a] \in CleanRow /\ clean[a].done \in Steps /\ clean[a].task \in Task \cup {Free}
         /\ clean[a].step \in CleanSteps
BY NowType DEF CleanRow, CleanSteps

\* A step of the cleanup is skipped, or done.
LEMMA CleanGoes ==
  ASSUME TypeOK, NEW a \in Actor, NEW step \in CleanSteps, clean' = [clean EXCEPT ![a].step = step]
  PROVE  /\ clean' \in [Actor -> CleanRow] /\ clean'[a].step = step
         /\ clean'[a].task = clean[a].task /\ clean'[a].done = clean[a].done
         /\ \A b \in Actor \ {a} : clean'[b] = clean[b]
<1>1. [clean[a] EXCEPT !.step = step] \in CleanRow
  BY CleanOf DEF CleanRow, CleanSteps
<1>2. /\ [clean[a] EXCEPT !.step = step].step = step /\ [clean[a] EXCEPT !.step = step].task = clean[a].task
      /\ [clean[a] EXCEPT !.step = step].done = clean[a].done
  BY CleanOf DEF CleanRow
<1>3. clean' = [clean EXCEPT ![a] = [clean[a] EXCEPT !.step = step]]
  OBVIOUS
<1> HIDE DEF CleanSteps
<1> QED BY <1>1, <1>2, <1>3, NowType

LEMMA CleanDoes ==
  ASSUME TypeOK, NEW a \in Actor, NEW step \in {"sessions", "worktree", "branch"}, CleanDid(a, step),
         clean[a].task \in Task
  PROVE  /\ clean' \in [Actor -> CleanRow]
         /\ clean'[a].task = clean[a].task /\ clean'[a].step # "off"
         /\ clean'[a].done.sessions <=> step = "sessions" \/ clean[a].done.sessions
         /\ clean'[a].step \in {"worktree", "branch"} => clean'[a].done.sessions
         /\ \A b \in Actor \ {a} : clean'[b] = clean[b]
<1> DEFINE d == [clean[a].done EXCEPT ![step] = TRUE]
<1>1. d \in Steps /\ (d.sessions <=> step = "sessions" \/ clean[a].done.sessions)
  BY CleanOf, StepEdits
<1>2. clean' = [clean EXCEPT ![a] = Cleaning(clean[a].task, d)]
  BY DEF CleanDid
<1> HIDE DEF d
<1>3. /\ Cleaning(clean[a].task, d) \in CleanRow /\ Cleaning(clean[a].task, d).task = clean[a].task
      /\ Cleaning(clean[a].task, d).done = d /\ Cleaning(clean[a].task, d).step # "off"
      /\ Cleaning(clean[a].task, d).step \in {"worktree", "branch"} => d.sessions
  BY <1>1, CleanEdits
<1>4. /\ clean' \in [Actor -> CleanRow] /\ clean'[a] = Cleaning(clean[a].task, d)
      /\ \A b \in Actor \ {a} : clean'[b] = clean[b]
  BY <1>2, <1>3, NowType
<1> QED BY <1>1, <1>3, <1>4

LEMMA AgainType ==
  ASSUME TypeOK, TurnInv, CallInv, NEW w \in Window, NEW t \in Task, CleanAgain(w, t)
  PROVE  /\ TypeOK' /\ TurnInv' /\ CallInv'
         /\ clean'[w].task = t /\ clean'[w].done = task[t].done /\ clean'[w].step # "off"
         /\ clean'[w].step \in {"worktree", "branch"} => clean'[w].done.sessions
         /\ \A b \in Actor \ {w} : clean'[b] = clean[b]
<1>1. /\ UNCHANGED <<call, git, requests, commands, crashes, fresh, landed, task, started, lock, sync, recov, late, back,
                     events, inbox, tree, session, faults>>
      /\ acts < MaxActs /\ acts' = acts + 1 /\ clean' = [clean EXCEPT ![w] = Cleaning(t, task[t].done)]
  BY DEF CleanAgain, world
<1>2. task[t].done \in Steps
  BY NowType DEF Record
<1>3. /\ Cleaning(t, task[t].done) \in CleanRow /\ Cleaning(t, task[t].done).task = t
      /\ Cleaning(t, task[t].done).done = task[t].done /\ Cleaning(t, task[t].done).step # "off"
      /\ Cleaning(t, task[t].done).step \in {"worktree", "branch"} => task[t].done.sessions
  BY <1>2, CleanEdits
<1>4. w \in Actor /\ clean \in [Actor -> CleanRow]
  BY NowType DEF Actor
<1>5. /\ clean' \in [Actor -> CleanRow] /\ clean'[w] = Cleaning(t, task[t].done)
      /\ \A b \in Actor \ {w} : clean'[b] = clean[b]
  BY <1>1, <1>3, <1>4
<1>6. acts' \in 0 .. MaxActs /\ acts <= acts'
  BY <1>1, Counters, Limits DEF TypeOK
<1>7. TypeOK' /\ TurnInv' /\ CallInv'
  BY <1>1, <1>5, <1>6, NowType, EventsStay, QuietType
<1> QED BY <1>3, <1>5, <1>7

LEMMA CleanStepType ==
  ASSUME TypeOK, TurnInv, CallInv, CleanInv, NEW a \in Actor, CleanStep(a)
  PROVE  TypeOK' /\ TurnInv' /\ CallInv'
<1> DEFINE t == clean[a].task
<1>1. clean[a].step # "off" /\ t \in Task
  <2>1. clean[a].step # "off"
    BY DEF CleanStep, CleanIdle, CleanArchive, CleanWorktree, CleanBranch, CleanSave, CleanAt
  <2> QED BY <2>1 DEF CleanInv
<1>2. /\ UNCHANGED <<call, git, requests, commands, crashes, fresh, landed, started, lock, recov, late, back,
                     events, inbox, acts>>
      /\ Fault \/ UNCHANGED faults
  BY DEF CleanStep, CleanIdle, CleanArchive, CleanWorktree, CleanBranch, CleanSave, world, counts
<1>3. faults' \in 0 .. MaxFaults
  BY <1>2, FaultType DEF TypeOK
<1>4. clean' \in [Actor -> CleanRow]
  <2>1. CASE CleanFails(a)
    BY <2>1, CleanGoes DEF CleanFails, CleanSteps
  <2>2. CASE clean' = [clean EXCEPT ![a].step = "archive"]
    BY <2>2, CleanGoes DEF CleanSteps
  <2>3. CASE \E step \in {"sessions", "worktree", "branch"} : CleanDid(a, step)
    BY <1>1, <2>3, CleanDoes
  <2>4. CASE clean' = [clean EXCEPT ![a] = NoClean]
    <3>1. NoClean \in CleanRow
      BY StepEdits DEF NoClean, CleanRow, NothingDone, Steps
    <3> QED BY <2>4, <3>1, NowType
  <2> QED BY <2>1, <2>2, <2>3, <2>4 DEF CleanStep, CleanIdle, CleanArchive, CleanWorktree, CleanBranch, CleanSave
<1>5. CASE CleanIdle(a)
  BY <1>2, <1>3, <1>4, <1>5, NowType, EventsStay, QuietType DEF CleanIdle, world
<1>6. CASE CleanArchive(a)
  <2>1. /\ UNCHANGED <<task, sync, tree>>
        /\ \/ session' = [session EXCEPT ![t] = [session[t] EXCEPT !.state = "archived", !.waiting = 0]]
           \/ UNCHANGED session
    BY <1>6 DEF CleanArchive
  <2>2. session[t] \in SessionRow
    BY <1>1, NowType
  <2>3. /\ session' \in [Task -> SessionRow]
        /\ \A u \in Task : session'[u].turn = session[u].turn /\ session'[u].waiting \in {0, session[u].waiting}
    <3>1. CASE UNCHANGED session
      BY <3>1, NowType
    <3>2. CASE session' = [session EXCEPT ![t] = [session[t] EXCEPT !.state = "archived", !.waiting = 0]]
      <4> DEFINE row == [session[t] EXCEPT !.state = "archived", !.waiting = 0]
      <4>1. row \in SessionRow /\ row.turn = session[t].turn /\ row.waiting = 0
        BY <2>2, SessionEdits
      <4>2. session' = [session EXCEPT ![t] = row]
        BY <3>2
      <4> HIDE DEF row
      <4>3. /\ session' \in [Task -> SessionRow] /\ session'[t] = row
            /\ \A u \in Task \ {t} : session'[u] = session[u]
        BY <1>1, <4>1, <4>2, NowType
      <4> QED BY <4>1, <4>3
    <3> QED BY <2>1, <3>1, <3>2
  <2> QED BY <1>2, <1>3, <1>4, <2>1, <2>3, NowType, EventsStay, QuietType
<1>7. CASE CleanWorktree(a)
  <2>1. /\ UNCHANGED <<task, sync, session>>
        /\ \/ tree' = [tree EXCEPT ![t] = [tree[t] EXCEPT !.worktree = FALSE]]
           \/ UNCHANGED tree
    BY <1>7 DEF CleanWorktree
  <2>2. [tree[t] EXCEPT !.worktree = FALSE] \in TreeRow
    BY <1>1, NowType, TreeEdits
  <2>3. tree' \in [Task -> TreeRow]
    BY <2>1, <2>2, NowType
  <2> QED BY <1>2, <1>3, <1>4, <2>1, <2>3, NowType, EventsStay, QuietType
<1>8. CASE CleanBranch(a)
  <2>1. /\ UNCHANGED <<task, sync, session>>
        /\ \/ tree' = [tree EXCEPT ![t] = [tree[t] EXCEPT !.branch = FALSE]]
           \/ UNCHANGED tree
    BY <1>8 DEF CleanBranch
  <2>2. [tree[t] EXCEPT !.branch = FALSE] \in TreeRow
    BY <1>1, NowType, TreeEdits
  <2>3. tree' \in [Task -> TreeRow]
    BY <2>1, <2>2, NowType
  <2> QED BY <1>2, <1>3, <1>4, <2>1, <2>3, NowType, EventsStay, QuietType
<1>9. CASE CleanSave(a)
  <2>1. /\ UNCHANGED <<session, tree, faults>> /\ task' = [task EXCEPT ![t] = [task[t] EXCEPT !.done = clean[a].done]]
        /\ sync' = IF a \in Task THEN [sync EXCEPT ![a] = NoSync] ELSE sync
    BY <1>9 DEF CleanSave, Becomes, world, counts
  <2>2. [task[t] EXCEPT !.done = clean[a].done] \in Record
    <3>1. task[t] \in Record
      BY <1>1, NowType
    <3>2. PICK d \in Steps : d = clean[a].done
      BY CleanOf
    <3> QED BY <3>1, <3>2 DEF Record
  <2>3. task' \in [Task -> Record]
    BY <2>1, <2>2, NowType
  <2>4. sync' \in [Task -> SyncRow]
    <3>1. NoSync \in SyncRow
      BY DEF NoSync, SyncRow
    <3> QED BY <2>1, <3>1, NowType
  <2> QED BY <1>2, <1>3, <1>4, <2>1, <2>3, <2>4, NowType, EventsStay, QuietType
<1> QED BY <1>5, <1>6, <1>7, <1>8, <1>9 DEF CleanStep

-----------------------------------------------------------------------------
(* The events of the sessions, and the crash *)

Row == [turn : Turn, outcome : Outcome]
Waiting == [turn : Turn, outcome : Outcome, merge : BOOLEAN]

LEMMA WaitsRow ==
  ASSUME NEW e \in Row, NEW m \in BOOLEAN
  PROVE  Waits(e, m) \in Waiting
BY DEF Waits, Row, Waiting

LEMMA DeliverType ==
  ASSUME TypeOK, TurnInv, CallInv, NEW t \in Task, Deliver(t)
  PROVE  TypeOK' /\ TurnInv' /\ CallInv'
<1> DEFINE e == Head(events[t])
<1>1. /\ events[t] # <<>> /\ events' = [events EXCEPT ![t] = Tail(@)]
      /\ UNCHANGED <<task, lock, git, call, sync, clean, recov, late, session, tree, fresh, landed, back,
                     requests, commands, acts, faults, crashes>>
  BY DEF Deliver, world, counts
<1>2. events \in [Task -> Seq(Row)] /\ inbox \in [Task -> Seq(Waiting)]
  BY NowType DEF Row, Waiting
<1>3. e \in Row /\ events' \in [Task -> Seq(Row)]
  BY <1>1, <1>2, Shortened
<1>4. \/ started' = [started EXCEPT ![t] = e.turn]
      \/ UNCHANGED started
  BY DEF Deliver
<1>5. started' \in [Task -> Turn]
  <2>1. e.turn \in Turn
    BY <1>3 DEF Row
  <2> HIDE DEF e
  <2> QED BY <1>4, <2>1, NowType
<1>6. \/ \E m \in BOOLEAN : inbox' = [inbox EXCEPT ![t] = Append(@, Waits(e, m))]
      \/ UNCHANGED inbox
  BY DEF Deliver, Merging
<1>7. inbox' \in [Task -> Seq(Waiting)]
  <2>1. ASSUME NEW m \in BOOLEAN, inbox' = [inbox EXCEPT ![t] = Append(@, Waits(e, m))]
        PROVE  inbox' \in [Task -> Seq(Waiting)]
    <3>1. Waits(e, m) \in Waiting
      BY <1>3, WaitsRow
    <3> QED BY <1>2, <2>1, <3>1, Appended
  <2> QED BY <1>2, <1>6, <2>1
<1>8. EventsOK'
  BY <1>3, <1>7 DEF EventsOK, Row, Waiting
<1> QED BY <1>1, <1>5, <1>8, NowType, QuietType

LEMMA RequestTurn ==
  ASSUME TypeOK, NEW t \in Task, NEW n \in Turn, NEW o \in Outcome
  PROVE  /\ [[task[t] EXCEPT !.status = "merging"] EXCEPT !.req = [@ EXCEPT !.turn = n, !.outcome = "none", !.seen = FALSE]] \in Record
         /\ [task[t] EXCEPT !.req = [@ EXCEPT !.turn = n, !.outcome = o]] \in Record
<1> DEFINE q == task[t].req  q1 == [q EXCEPT !.turn = n, !.outcome = "none", !.seen = FALSE]
           q2 == [q EXCEPT !.turn = n, !.outcome = o]
<1>1. task[t] \in Record /\ q \in Request /\ "none" \in Outcome
  BY NowType DEF Record, Outcome
<1> HIDE DEF q
<1>2. q1 \in Request /\ q2 \in Request
  BY <1>1, OutcomeEdits
<1> HIDE DEF q1, q2
<1>3. [[task[t] EXCEPT !.status = "merging"] EXCEPT !.req = q1] \in Record /\ [task[t] EXCEPT !.req = q2] \in Record
  BY <1>1, <1>2 DEF Record
<1>4. [task[t] EXCEPT !.status = "merging"].req = task[t].req
  BY <1>1 DEF Record
<1> QED BY <1>3, <1>4 DEF q, q1, q2

LEMMA UnreviewedRow ==
  ASSUME TypeOK, NEW t \in Task
  PROVE  Unreviewed(t) \in Record /\ Unreviewed(t).status = "needs_check" /\ Unreviewed(t).done = task[t].done
BY RowsOf DEF Unreviewed, With, Record

\* A handler brings a task back to merging, and says so; it never makes it merged.
LEMMA HandleEffect ==
  ASSUME TypeOK, NEW t \in Task, Handle(t)
  PROVE  /\ task' \in [Task -> Record] /\ sync' \in [Task -> SyncRow] /\ back' \subseteq Task
         /\ inbox' \in [Task -> Seq(Waiting)]
         /\ back \subseteq back' /\ \A u \in Task : Merging(u)' => Merging(u) \/ u \in back'
         /\ \A u \in Task : task'[u].done = task[u].done
         /\ \A u \in Task : task'[u].status = "merged" => task[u].status = "merged"
<1> DEFINE e == Head(inbox[t])
<1>1. inbox \in [Task -> Seq(Waiting)] /\ task[t] \in Record /\ back \subseteq Task
  BY NowType DEF Waiting
<1>2. inbox[t] # <<>> /\ inbox' = [inbox EXCEPT ![t] = Tail(@)]
  BY DEF Handle
<1>3. e \in Waiting /\ inbox' \in [Task -> Seq(Waiting)]
  BY <1>1, <1>2, Shortened
<1>4. e.turn \in Turn /\ e.outcome \in Outcome
  BY <1>3 DEF Waiting
<1> DEFINE again == [With(t, "merging") EXCEPT !.req = [@ EXCEPT !.turn = e.turn, !.outcome = "none", !.seen = FALSE]]
           ended == [task[t] EXCEPT !.req = [@ EXCEPT !.turn = e.turn, !.outcome = e.outcome]]
<1>5. again \in Record /\ ended \in Record
  BY <1>4, RequestTurn DEF With
<1>6. /\ again.status = "merging" /\ again.done = task[t].done
      /\ ended.status = task[t].status /\ ended.done = task[t].done
  BY <1>1 DEF With, Record
<1>7. CASE HandleStarted(t, e) /\ UNCHANGED sync
  <2> HIDE DEF again, ended
  <2>1. CASE UNCHANGED <<task, back>>
    BY <1>1, <1>3, <1>7, <2>1, NowType DEF Merging
  <2>2. CASE Becomes(t, again) /\ back' = IF Merging(t) THEN back ELSE back \cup {t}
    <3>1. /\ task' \in [Task -> Record] /\ task'[t] = again
          /\ \A u \in Task \ {t} : task'[u] = task[u]
      BY <1>5, <2>2, BecomesType
    <3> QED BY <1>1, <1>3, <1>6, <1>7, <2>2, <3>1, NowType DEF Merging
  <2>3. (Becomes(t, again) /\ back' = IF Merging(t) THEN back ELSE back \cup {t}) \/ UNCHANGED <<task, back>>
    BY <1>7 DEF HandleStarted, again
  <2> QED BY <2>1, <2>2, <2>3
<1>8. CASE Ask(t, FALSE) /\ UNCHANGED back /\ (Becomes(t, ended) \/ UNCHANGED task)
  <2> HIDE DEF again, ended
  <2>1. sync' \in [Task -> SyncRow]
    BY <1>8, AskType
  <2>2. CASE UNCHANGED task
    BY <1>1, <1>3, <1>8, <2>1, <2>2, NowType DEF Merging
  <2>3. CASE Becomes(t, ended)
    <3>1. /\ task' \in [Task -> Record] /\ task'[t] = ended
          /\ \A u \in Task \ {t} : task'[u] = task[u]
      BY <1>5, <2>3, BecomesType
    <3> QED BY <1>1, <1>3, <1>6, <1>8, <2>1, <3>1 DEF Merging
  <2> QED BY <1>8, <2>2, <2>3
<1>9. CASE UNCHANGED <<sync, back>> /\ (UNCHANGED task \/ \E i : Becomes(t, AfterReview(t, e, i)))
  <2> HIDE DEF again, ended
  <2>1. CASE UNCHANGED task
    BY <1>1, <1>3, <1>9, <2>1, NowType DEF Merging
  <2>2. ASSUME NEW i, Becomes(t, AfterReview(t, e, i))
        PROVE  /\ task' \in [Task -> Record] /\ \A u \in Task \ {t} : task'[u] = task[u]
               /\ task'[t].done = task[t].done /\ task'[t].status \in {task[t].status, "needs_check"}
    <3>1. PICK r \in Record : /\ r = AfterReview(t, e, i) /\ r.done = task[t].done
                              /\ r.status \in {task[t].status, "needs_check"}
      <4>1. PICK n \in Turn : n = e.turn
        BY <1>4
      <4>2. AfterReview(t, e, i) = IF i THEN [task[t] EXCEPT !.last = n] ELSE [Unreviewed(t) EXCEPT !.last = n]
        BY <4>1 DEF AfterReview
      <4> QED BY <1>1, <4>2, UnreviewedRow DEF Record
    <3> QED BY <2>2, <3>1, BecomesType
  <2> QED BY <1>1, <1>3, <1>9, <2>1, <2>2, NowType DEF Merging
<1> QED BY <1>7, <1>8, <1>9 DEF Handle

LEMMA HandleType ==
  ASSUME TypeOK, TurnInv, CallInv, NEW t \in Task, Handle(t)
  PROVE  TypeOK' /\ TurnInv' /\ CallInv'
<1>1. /\ UNCHANGED <<call, git, requests, commands, crashes, fresh, landed, started, lock, clean, recov, late,
                     events, session, tree, acts>>
      /\ faults' \in 0 .. MaxFaults
  BY FaultType DEF Handle, world, TypeOK
<1>2. EventsOK'
  BY <1>1, HandleEffect, NowType DEF EventsOK, Waiting
<1> QED BY <1>1, <1>2, HandleEffect, NowType, QuietType

\* A review that is taken back was not merging, and is not merged.
LEMMA ReconcileEffect ==
  ASSUME TypeOK, TurnInv, CallInv, NEW t \in Task, Reconcile(t)
  PROVE  /\ TypeOK' /\ TurnInv' /\ CallInv'
         /\ UNCHANGED <<call, clean, session, tree, landed, back>>
         /\ \A u \in Task : /\ Merging(u)' => Merging(u)
                            /\ task'[u].status = "merged" => task[u].status = "merged"
                            /\ task'[u].done = task[u].done
<1>1. /\ UNCHANGED <<call, git, requests, commands, crashes, fresh, landed, started, lock, sync, clean, recov, inbox,
                     late, events, session, tree, back, acts>>
      /\ faults' \in 0 .. MaxFaults
  BY FaultType DEF Reconcile, memory, world, TypeOK
<1>2. PICK r \in Record : r = Unreviewed(t) /\ r.status = "needs_check" /\ r.done = task[t].done
  BY UnreviewedRow
<1>3. /\ task' \in [Task -> Record] /\ task'[t] = r
      /\ \A u \in Task \ {t} : task'[u] = task[u]
  BY <1>2, BecomesType DEF Reconcile
<1>4. TypeOK' /\ TurnInv' /\ CallInv'
  BY <1>1, <1>3, NowType, EventsStay, QuietType
<1> QED BY <1>1, <1>2, <1>3, <1>4 DEF Merging

LEMMA CrashType ==
  ASSUME TypeOK, TurnInv, CallInv, Crash
  PROVE  TypeOK' /\ TurnInv' /\ CallInv' /\ \A w \in Window : call'[w].step = "off"
<1>1. /\ UNCHANGED <<task, late, session, tree, fresh, landed, back, requests, commands, acts, faults>>
      /\ crashes < MaxCrashes /\ crashes' = crashes + 1
      /\ started' = [u \in Task |-> 0] /\ lock' = [u \in Task |-> Free] /\ git' = Free
      /\ call' = [w \in Window |-> NoCall] /\ sync' = [u \in Task |-> NoSync]
      /\ clean' = [a \in Actor |-> NoClean] /\ recov' = Task
      /\ events' = [u \in Task |-> <<>>] /\ inbox' = [u \in Task |-> <<>>]
  BY DEF Crash, world, Actor
<1>2. NoSync \in SyncRow /\ NoClean \in CleanRow /\ NoCall \in CallRow /\ 0 \in Turn
  BY StepEdits, TurnsFit, NoCallRow DEF NoSync, SyncRow, NoClean, CleanRow, NothingDone, Steps
<1>3. PluginOK'
  BY <1>1, <1>2, NowType DEF PluginOK
<1>4. crashes' \in 0 .. MaxCrashes
  BY <1>1, Counters, Limits DEF TypeOK
<1>5. CountsOK' /\ WorldOK'
  BY <1>1, <1>4 DEF TypeOK, CountsOK, WorldOK
<1>6. EventsOK'
  BY <1>1 DEF EventsOK
<1>7. TurnInv'
  BY <1>1 DEF TurnInv
<1>8. \A w \in Window : call'[w].step = "off"
  BY <1>1, NoCallRow
<1>9. GitInv' /\ SendInv'
  BY <1>1, <1>8 DEF CallInv, GitInv, SendInv
<1>10. BudgetInv'
  <2>1. Pending' = {}
    BY <1>8 DEF Pending
  <2>2. Cardinality(Pending') = 0
    BY <2>1, FS_EmptySet
  <2>3. requests \in Nat /\ requests <= MaxRequests
    BY Counters DEF TypeOK
  <2> QED BY <1>1, <2>2, <2>3, Limits DEF BudgetInv
<1> QED BY <1>3, <1>5, <1>6, <1>7, <1>8, <1>9, <1>10 DEF TypeOK, CallInv

-----------------------------------------------------------------------------
(* One merge at a time *)

LEMMA MergesStay ==
  ASSUME AloneInv, OneMerge, back \subseteq back', \A u \in Task : Merging(u)' => Merging(u) \/ u \in back',
         \A w \in Window : call'[w].step \in {"alone", "save"} =>
             call[w].step \in {"alone", "save"} /\ call'[w].task = call[w].task
  PROVE  AloneInv' /\ OneMerge'
<1>1. ASSUME NEW w \in Window, call'[w].step \in {"alone", "save"}, NEW u \in Task \ {call'[w].task}, Merging(u)'
      PROVE  u \in back'
  <2>1. u \in Task \ {call[w].task} /\ call[w].step \in {"alone", "save"}
    BY <1>1
  <2> QED BY <1>1, <2>1 DEF AloneInv
<1>2. ASSUME NEW s \in Task, NEW u \in Task, Merging(s)', Merging(u)', s # u
      PROVE  {s, u} \cap back' # {}
  <2>1. CASE s \in back' \/ u \in back'
    BY <2>1
  <2>2. CASE Merging(s) /\ Merging(u)
    BY <1>2, <2>2 DEF OneMerge
  <2> QED BY <1>2, <2>1, <2>2
<1>3. AloneInv'
  BY <1>1 DEF AloneInv
<1>4. OneMerge'
  BY <1>2 DEF OneMerge
<1> QED BY <1>3, <1>4

LEMMA SaveAlone ==
  ASSUME TypeOK, GitInv, AloneInv, OneMerge, NEW w \in Window, AcceptSave(w)
  PROVE  AloneInv' /\ OneMerge' /\ \A u \in Task : /\ task'[u].status = "merged" => task[u].status = "merged"
                                                   /\ task'[u].done = task[u].done
<1> DEFINE t == call[w].task
<1>1. call[w].step = "save"
  BY DEF AcceptSave, AcceptAt
<1>2. t \in Task /\ \A v \in Window \ {w} : call[v].step \notin Committed
  BY <1>1, OnlyCommitted DEF GitInv, Committed
<1>3. CASE AcceptEnds(w) /\ UNCHANGED <<task, back>>
  <2>1. \A v \in Window : call'[v].step \in {"alone", "save"} =>
            call[v].step \in {"alone", "save"} /\ call'[v].task = call[v].task
    BY <1>3, CallEnds DEF TypeOK
  <2>2. \A u \in Task : Merging(u)' => Merging(u) \/ u \in back'
    BY <1>3 DEF Merging
  <2> QED BY <1>3, <2>1, <2>2, MergesStay
<1>4. CASE /\ Becomes(t, [With(t, "merging") EXCEPT !.req = [NoRequest EXCEPT !.prev = Previous(t)]])
           /\ back' = back \ {t} /\ AcceptGoes(w, "send")
  <2>1. \A v \in Window : call'[v].step \notin {"alone", "save"}
    BY <1>2, <1>4, CallGoes DEF TypeOK, CallSteps, Committed
  <2>2. \A u \in Task \ {t} : Merging(u) => u \in back
    BY <1>1, <1>2 DEF AloneInv
  <2>3. PICK q : q = [NoRequest EXCEPT !.prev = Previous(t)]
    OBVIOUS
  <2>4. task' = [task EXCEPT ![t] = [[task[t] EXCEPT !.status = "merging"] EXCEPT !.req = q]]
    BY Zenon, <1>4, <2>3 DEF Becomes, With
  <2>5. task \in [Task -> Record] /\ task[t] \in Record
    BY <1>2, NowType
  <2>6. task'[t].status = "merging" /\ task'[t].done = task[t].done /\ \A u \in Task \ {t} : task'[u] = task[u]
    BY <1>2, <2>4, <2>5 DEF Record
  <2>7. OneMerge'
    <3>1. ASSUME NEW s \in Task, NEW u \in Task, Merging(s)', Merging(u)', s # u
          PROVE  {s, u} \cap back' # {}
      <4>1. \A v \in Task \ {t} : Merging(v)' => v \in back'
        BY <1>4, <2>2, <2>6 DEF Merging
      <4>2. s # t \/ u # t
        BY <3>1
      <4> QED BY <3>1, <4>1, <4>2
    <3> QED BY <3>1 DEF OneMerge
  <2>8. AloneInv'
    BY <2>1 DEF AloneInv
  <2> QED BY <2>6, <2>7, <2>8
<1> QED BY <1>3, <1>4 DEF AcceptSave

LEMMA AcceptsAlone ==
  ASSUME TypeOK, GitInv, AloneInv, OneMerge, NEW w \in Window, AcceptStep(w) \/ \E t \in Task : Accept(w, t)
  PROVE  /\ AloneInv' /\ OneMerge'
         /\ \A u \in Task : /\ task'[u].status = "merged" => task[u].status = "merged"
                            /\ task'[u].done = task[u].done
<1> DEFINE Decides(v) == call[v].step \in {"alone", "save"}
           Kept == \A v \in Window : Decides(v)' => Decides(v) /\ call'[v].task = call[v].task
<1>1. CASE AcceptSave(w)
  BY <1>1, SaveAlone
<1>2. ASSUME UNCHANGED <<task, back>>, Kept
      PROVE  AloneInv' /\ OneMerge'
  BY <1>2, MergesStay DEF Merging
<1>3. CASE AcceptEnds(w) /\ UNCHANGED <<task, back>>
  <2>1. Kept
    BY <1>3, CallEnds DEF TypeOK
  <2> QED BY <1>2, <1>3, <2>1
<1>4. CASE AcceptGoes(w, "lock") /\ UNCHANGED <<task, back>>
  <2>1. Kept
    BY <1>4, CallGoes DEF TypeOK, CallSteps
  <2> QED BY <1>2, <1>4, <2>1
<1>5. CASE AcceptGoes(w, "git") /\ UNCHANGED <<task, back>>
  <2>1. Kept
    BY <1>5, CallGoes DEF TypeOK, CallSteps
  <2> QED BY <1>2, <1>5, <2>1
<1>6. CASE AcceptGoes(w, "save") /\ call[w].step = "alone" /\ UNCHANGED <<task, back>>
  <2>1. Kept
    BY <1>6, CallGoes DEF TypeOK, CallSteps
  <2> QED BY <1>2, <1>6, <2>1
<1>7. CASE AcceptGoes(w, "alone") /\ NotBusy(call[w].task) /\ UNCHANGED <<task, back>>
  <2>1. /\ call'[w].task = call[w].task /\ \A v \in Window \ {w} : call'[v] = call[v]
    BY <1>7, CallGoes DEF TypeOK, CallSteps
  <2>2. ASSUME NEW v \in Window, call'[v].step \in {"alone", "save"}, NEW u \in Task \ {call'[v].task}, Merging(u)
        PROVE  u \in back
    <3>1. CASE v = w
      BY <1>7, <2>1, <2>2, <3>1 DEF NotBusy
    <3>2. CASE v # w
      BY <2>1, <2>2, <3>2 DEF AloneInv
    <3> QED BY <3>1, <3>2
  <2>3. AloneInv'
    BY <1>7, <2>2 DEF AloneInv, Merging
  <2>4. OneMerge'
    BY <1>7 DEF OneMerge, Merging
  <2> QED BY <1>7, <2>3, <2>4
<1>8. CASE \E t \in Task : Accept(w, t)
  <2>1. PICK t \in Task : call' = [call EXCEPT ![w] = [task |-> t, step |-> "idle"]]
    BY <1>8 DEF Accept
  <2>2. call \in [Window -> CallRow] /\ call'[w].step = "idle" /\ \A v \in Window \ {w} : call'[v] = call[v]
    BY <2>1 DEF TypeOK, PluginOK
  <2>3. Kept /\ UNCHANGED <<task, back>>
    BY <1>8, <2>2 DEF Accept
  <2> QED BY <1>2, <2>3
<1>9. CASE AcceptStep(w) /\ ~AcceptSave(w)
  <2>1. UNCHANGED <<task, back>>
    BY <1>9 DEF AcceptStep, AcceptIdle, AcceptLock, AcceptLook, AcceptAlone, AcceptSend
  <2>2. \/ AcceptEnds(w) \/ AcceptGoes(w, "lock") \/ AcceptGoes(w, "git")
        \/ AcceptGoes(w, "save") /\ call[w].step = "alone"
        \/ AcceptGoes(w, "alone") /\ NotBusy(call[w].task)
    BY <1>9 DEF AcceptStep, AcceptIdle, AcceptLock, AcceptLook, AcceptAlone, AcceptSend, AcceptAt
  <2> QED BY <1>3, <1>4, <1>5, <1>6, <1>7, <2>1, <2>2
<1> QED BY <1>1, <1>8, <1>9

-----------------------------------------------------------------------------
(* The proof of a merge, and the cleanup *)

Sticks == \A u \in Task : session[u].state = "archived" => session'[u].state = "archived"

LEMMA ProofStays ==
  ASSUME ProofInv, UNCHANGED <<tree, landed>>,
         \A u \in Task : task'[u].status = "merged" => task[u].status = "merged"
  PROVE  ProofInv'
BY DEF ProofInv

LEMMA CleanStays ==
  ASSUME CleanInv, Sticks, \A a \in Actor : clean'[a] = clean[a] \/ clean'[a].step = "off",
         \A u \in Task : /\ task'[u].done.sessions => task[u].done.sessions
                         /\ ~tree'[u].worktree => ~tree[u].worktree
  PROVE  CleanInv'
<1>1. ASSUME NEW a \in Actor, clean'[a].step # "off"
      PROVE  /\ clean'[a].task \in Task
             /\ clean'[a].done.sessions => session'[clean'[a].task].state = "archived"
             /\ clean'[a].step \in {"worktree", "branch"} => clean'[a].done.sessions
  BY <1>1 DEF CleanInv, Sticks
<1>2. \A t \in Task : /\ task'[t].done.sessions => session'[t].state = "archived"
                      /\ ~tree'[t].worktree => session'[t].state = "archived"
  BY DEF CleanInv, Sticks
<1> QED BY <1>1, <1>2 DEF CleanInv

\* The cleanup of a goes on: what it has done is so.
LEMMA CleanOne ==
  ASSUME CleanInv, Sticks, NEW a \in Actor, \A b \in Actor \ {a} : clean'[b] = clean[b], clean'[a].task \in Task,
         clean'[a].done.sessions => session'[clean'[a].task].state = "archived",
         clean'[a].step \in {"worktree", "branch"} => clean'[a].done.sessions,
         \A u \in Task : task'[u].done.sessions => task[u].done.sessions,
         \A u \in Task : ~tree'[u].worktree => ~tree[u].worktree \/ session[u].state = "archived"
  PROVE  CleanInv'
<1>1. ASSUME NEW b \in Actor, clean'[b].step # "off"
      PROVE  /\ clean'[b].task \in Task
             /\ clean'[b].done.sessions => session'[clean'[b].task].state = "archived"
             /\ clean'[b].step \in {"worktree", "branch"} => clean'[b].done.sessions
  <2>1. CASE b = a
    BY <2>1
  <2>2. CASE b # a
    BY <1>1, <2>2 DEF CleanInv, Sticks
  <2> QED BY <2>1, <2>2
<1>2. \A t \in Task : /\ task'[t].done.sessions => session'[t].state = "archived"
                      /\ ~tree'[t].worktree => session'[t].state = "archived"
  BY DEF CleanInv, Sticks
<1> QED BY <1>1, <1>2 DEF CleanInv

LEMMA SessionSticks ==
  ASSUME TypeOK, NEW t \in Task, SessionStep(t)
  PROVE  Sticks
<1>1. CASE StartTurn(t) \/ AskTurn(t) \/ EndTurn(t) \/ Work(t)
  <2>1. session[t].state # "archived" /\ \A u \in Task \ {t} : session'[u] = session[u]
    BY <1>1, NowType DEF StartTurn, AskTurn, Begins, EndTurn, Work, Idle, Busy
  <2> QED BY <2>1 DEF Sticks
<1>2. CASE CloseSession(t)
  <2>1. session[t].state # "archived" /\ \A u \in Task \ {t} : session'[u] = session[u]
    BY <1>2, NowType DEF CloseSession
  <2> QED BY <2>1 DEF Sticks
<1> QED BY <1>1, <1>2 DEF SessionStep

LEMMA WorkProof ==
  ASSUME TypeOK, ProofInv, NEW t \in Task, Work(t)
  PROVE  ProofInv' /\ \A u \in Task : ~tree'[u].worktree => ~tree[u].worktree
<1>1. tree[t] \in TreeRow /\ tree \in [Task -> TreeRow] /\ tree[t].worktree /\ UNCHANGED task
  BY NowType DEF Work
<1>2. PICK b \in Results(tree[t]) :
        /\ tree' = [tree EXCEPT ![t] = b]
        /\ IF b.inTarget THEN /\ fresh' = {}
                              /\ landed' = IF b.holds THEN landed \cup {t} ELSE landed
                         ELSE UNCHANGED <<fresh, landed>>
  BY DEF Work
<1>3. /\ b \in TreeRow /\ b.worktree = tree[t].worktree /\ b.branch = tree[t].branch
      /\ b.proved => tree[t].proved /\ (tree[t].inTarget => b.inTarget)
  BY <1>1, ResultsRow
<1>4. tree'[t] = b /\ (\A u \in Task \ {t} : tree'[u] = tree[u])
  BY <1>1, <1>2
<1>5. landed \subseteq landed' /\ (b.holds /\ b.inTarget => t \in landed')
  BY <1>2
<1>6. ASSUME NEW u \in Task
      PROVE  /\ tree'[u].holds /\ tree'[u].inTarget => u \in landed'
             /\ tree'[u].proved => u \in landed' /\ tree'[u].inTarget
             /\ task[u].status = "merged" => u \in landed'
             /\ ~tree'[u].branch => ~tree'[u].worktree /\ u \in landed' /\ tree'[u].inTarget
             /\ ~tree'[u].worktree => ~tree[u].worktree
  <2>1. CASE u = t
    BY <1>1, <1>3, <1>4, <1>5, <2>1 DEF ProofInv
  <2>2. CASE u # t
    BY <1>4, <1>5, <2>2 DEF ProofInv
  <2> QED BY <2>1, <2>2
<1> QED BY <1>1, <1>6 DEF ProofInv

LEMMA SessionProof ==
  ASSUME TypeOK, ProofInv, CleanInv, NEW t \in Task, SessionStep(t)
  PROVE  ProofInv' /\ CleanInv'
<1>1. UNCHANGED <<task, clean>>
  BY DEF SessionStep, StartTurn, AskTurn, Begins, EndTurn, Work, CloseSession, memory
<1>2. Work(t) \/ UNCHANGED <<tree, landed>>
  BY DEF SessionStep, StartTurn, AskTurn, Begins, EndTurn, CloseSession
<1>3. ProofInv' /\ \A u \in Task : ~tree'[u].worktree => ~tree[u].worktree
  BY <1>1, <1>2, WorkProof, ProofStays
<1>4. CleanInv'
  BY <1>1, <1>3, SessionSticks, CleanStays
<1> QED BY <1>3, <1>4

LEMMA AcceptProof ==
  ASSUME TypeOK, GitInv, AloneInv, OneMerge, ProofInv, CleanInv, NEW w \in Window,
         AcceptStep(w) \/ \E t \in Task : Accept(w, t)
  PROVE  ProofInv' /\ CleanInv'
<1>1. UNCHANGED <<clean, tree, landed>>
  BY DEF AcceptStep, Accept, AcceptIdle, AcceptLock, AcceptLook, AcceptAlone, AcceptSave, AcceptSend, world
<1>2. Sticks
  <2>1. \A u \in Task : session'[u].state = session[u].state
    <3>1. CASE AcceptSend(w)
      <4>1. call[w].task \in Task
        BY <3>1 DEF GitInv, AcceptSend, AcceptAt
      <4>2. PICK n : session' = [session EXCEPT ![call[w].task].waiting = n] \/ UNCHANGED session
        BY <3>1 DEF AcceptSend
      <4>3. session[call[w].task] \in SessionRow /\ session \in [Task -> SessionRow]
        BY <4>1, NowType
      <4>4. [session[call[w].task] EXCEPT !.waiting = n].state = session[call[w].task].state
        BY <4>3 DEF SessionRow
      <4> QED BY <4>1, <4>2, <4>3, <4>4
    <3>2. CASE UNCHANGED session
      BY <3>2
    <3> QED BY <3>1, <3>2 DEF AcceptStep, Accept, AcceptIdle, AcceptLock, AcceptLook, AcceptAlone, AcceptSave, world
  <2> QED BY <2>1 DEF Sticks
<1>3. \A u \in Task : /\ task'[u].status = "merged" => task[u].status = "merged"
                      /\ task'[u].done = task[u].done
  BY AcceptsAlone
<1>4. ProofInv'
  BY <1>1, <1>3, ProofStays
<1>5. CleanInv'
  BY <1>1, <1>2, <1>3, CleanStays
<1> QED BY <1>4, <1>5

LEMMA SyncProof ==
  ASSUME TypeOK, ProofInv, CleanInv, NEW t \in Task, SyncStep(t)
  PROVE  ProofInv' /\ CleanInv'
<1>1. UNCHANGED <<session, landed>>
  BY DEF SyncStep, SyncInspect, SyncVerify, world
<1>2. Sticks
  BY <1>1 DEF Sticks
<1>3. CASE SyncInspect(t)
  <2>1. UNCHANGED <<tree, clean>>
    BY <1>3 DEF SyncInspect, world
  <2> QED BY <1>1, <1>2, <1>3, <2>1, InspectEffect, ProofStays, CleanStays
<1>4. CASE SyncVerify(t)
  <2>1. CASE UNCHANGED <<tree, clean>>
    <3>1. ASSUME NEW u \in Task, task'[u].status = "merged" PROVE u \in landed
      <4>1. task[u].status = "merged" \/ Verified(u)
        BY <1>4, <3>1, VerifyEffect
      <4> QED BY <4>1 DEF ProofInv, Verified
    <3>2. ProofInv'
      BY <1>1, <2>1, <3>1 DEF ProofInv
    <3> QED BY <1>2, <1>4, <2>1, <3>2, VerifyEffect, CleanStays
  <2>2. CASE /\ Verified(t) /\ tree' = [tree EXCEPT ![t].proved = TRUE]
             /\ clean' = [clean EXCEPT ![t] = Cleaning(t, NothingDone)]
    <3>1. tree[t] \in TreeRow /\ tree \in [Task -> TreeRow] /\ clean \in [Actor -> CleanRow] /\ t \in Actor
      BY NowType DEF Actor
    <3>2. /\ tree'[t].holds = tree[t].holds /\ tree'[t].inTarget = tree[t].inTarget
          /\ tree'[t].branch = tree[t].branch /\ tree'[t].worktree = tree[t].worktree
          /\ \A u \in Task \ {t} : tree'[u] = tree[u]
      BY <2>2, <3>1 DEF TreeRow
    <3>3. tree[t].holds /\ tree[t].inTarget /\ t \in landed
      BY <2>2 DEF Verified, ProofInv
    <3>4. ASSUME NEW u \in Task
          PROVE  /\ tree'[u].holds /\ tree'[u].inTarget => u \in landed
                 /\ tree'[u].proved => u \in landed /\ tree'[u].inTarget
                 /\ task'[u].status = "merged" => u \in landed
                 /\ ~tree'[u].branch => ~tree'[u].worktree /\ u \in landed /\ tree'[u].inTarget
      <4>1. task'[u].status = "merged" => u \in landed
        BY <1>4, VerifyEffect DEF ProofInv, Verified
      <4>2. CASE u = t
        BY <3>2, <3>3, <4>1, <4>2 DEF ProofInv
      <4>3. CASE u # t
        BY <3>2, <4>1, <4>3 DEF ProofInv
      <4> QED BY <4>2, <4>3
    <3>5. ProofInv'
      BY <1>1, <3>4 DEF ProofInv
    <3>6. NothingDone \in Steps /\ NothingDone.sessions = FALSE
      BY DEF NothingDone, Steps
    <3>7. /\ clean'[t] = Cleaning(t, NothingDone) /\ \A b \in Actor \ {t} : clean'[b] = clean[b]
      BY <2>2, <3>1
    <3>8. /\ clean'[t].task = t /\ clean'[t].done = NothingDone
          /\ clean'[t].step \notin {"worktree", "branch"}
      BY <3>6, <3>7, CleanEdits
    <3>9. CleanInv'
      BY <1>2, <1>4, <3>1, <3>2, <3>6, <3>7, <3>8, VerifyEffect, CleanOne
    <3> QED BY <3>5, <3>9
  <2> QED BY <1>4, <2>1, <2>2, VerifyEffect
<1> QED BY <1>3, <1>4 DEF SyncStep

LEMMA CleanTree ==
  ASSUME TypeOK, ProofInv, NEW t \in Task, UNCHANGED <<landed, task>>,
         \/ tree' = [tree EXCEPT ![t].worktree = FALSE]
         \/ tree' = [tree EXCEPT ![t].branch = FALSE] /\ BranchMayGo(t)
  PROVE  ProofInv'
<1>1. tree[t] \in TreeRow /\ tree \in [Task -> TreeRow]
  BY NowType
<1>2. /\ tree'[t].holds = tree[t].holds /\ tree'[t].inTarget = tree[t].inTarget /\ tree'[t].proved = tree[t].proved
      /\ tree'[t].worktree => tree[t].worktree
      /\ \A u \in Task \ {t} : tree'[u] = tree[u]
  BY <1>1 DEF TreeRow
<1>3. ~tree'[t].branch => ~tree'[t].worktree /\ t \in landed /\ tree[t].inTarget
  <2>1. CASE tree' = [tree EXCEPT ![t].worktree = FALSE]
    <3>1. tree'[t].branch = tree[t].branch /\ ~tree'[t].worktree
      BY <1>1, <2>1 DEF TreeRow
    <3> QED BY <3>1 DEF ProofInv
  <2>2. CASE tree' = [tree EXCEPT ![t].branch = FALSE] /\ BranchMayGo(t)
    <3>1. tree'[t].worktree = tree[t].worktree
      BY <1>1, <2>2 DEF TreeRow
    <3> QED BY <2>2, <3>1 DEF ProofInv, BranchMayGo, Deletable
  <2> QED BY <2>1, <2>2
<1>4. ASSUME NEW u \in Task
      PROVE  /\ tree'[u].holds /\ tree'[u].inTarget => u \in landed
             /\ tree'[u].proved => u \in landed /\ tree'[u].inTarget
             /\ task[u].status = "merged" => u \in landed
             /\ ~tree'[u].branch => ~tree'[u].worktree /\ u \in landed /\ tree'[u].inTarget
  <2>1. CASE u = t
    BY <1>2, <1>3, <2>1 DEF ProofInv
  <2>2. CASE u # t
    BY <1>2, <2>2 DEF ProofInv
  <2> QED BY <2>1, <2>2
<1> QED BY <1>4 DEF ProofInv

LEMMA CleanProof ==
  ASSUME TypeOK, ProofInv, CleanInv, NEW a \in Actor, CleanStep(a)
  PROVE  ProofInv' /\ CleanInv' /\ \A u \in Task : task'[u].status = task[u].status
<1> DEFINE t == clean[a].task
<1>1. clean[a].step # "off" /\ t \in Task
  <2>1. clean[a].step # "off"
    BY DEF CleanStep, CleanIdle, CleanArchive, CleanWorktree, CleanBranch, CleanSave, CleanAt
  <2> QED BY <2>1 DEF CleanInv
<1>2. UNCHANGED landed
  BY DEF CleanStep, CleanIdle, CleanArchive, CleanWorktree, CleanBranch, CleanSave, world
<1>3. clean[a].done.sessions => session[t].state = "archived"
  BY <1>1 DEF CleanInv
<1>4. ASSUME UNCHANGED <<task, tree>>, Sticks,
             CleanFails(a) \/ clean' = [clean EXCEPT ![a].step = "archive"]
      PROVE  ProofInv' /\ CleanInv' /\ \A u \in Task : task'[u].status = task[u].status
  <2>1. /\ clean'[a].step \in {"save", "archive"} /\ clean'[a].task = t /\ clean'[a].done = clean[a].done
        /\ \A b \in Actor \ {a} : clean'[b] = clean[b]
    BY <1>4, CleanGoes DEF CleanFails, CleanSteps
  <2>2. CleanInv'
    BY <1>1, <1>3, <1>4, <2>1, CleanOne DEF Sticks
  <2> QED BY <1>2, <1>4, <2>2, ProofStays
<1>5. CASE CleanIdle(a)
  <2>1. Sticks
    BY <1>5 DEF CleanIdle, world, Sticks
  <2> QED BY <1>4, <1>5, <2>1 DEF CleanIdle, world
<1>6. CASE CleanArchive(a)
  <2>1. UNCHANGED <<task, tree>>
    BY <1>6 DEF CleanArchive
  <2>2. CASE CleanFails(a) /\ UNCHANGED session
    BY <1>4, <2>1, <2>2 DEF Sticks
  <2>3. CASE /\ session' = [session EXCEPT ![t] = [session[t] EXCEPT !.state = "archived", !.waiting = 0]]
             /\ CleanDid(a, "sessions")
    <3>1. session[t] \in SessionRow /\ session \in [Task -> SessionRow]
      BY <1>1, NowType
    <3>2. session'[t].state = "archived" /\ \A u \in Task \ {t} : session'[u] = session[u]
      BY <1>1, <2>3, <3>1, SessionEdits
    <3>3. Sticks
      BY <3>2 DEF Sticks
    <3>4. /\ clean'[a].task = t /\ clean'[a].done.sessions
          /\ \A b \in Actor \ {a} : clean'[b] = clean[b]
      BY <1>1, <2>3, CleanDoes
    <3>5. CleanInv'
      BY <1>1, <2>1, <3>2, <3>3, <3>4, CleanOne
    <3> QED BY <1>2, <2>1, <3>5, ProofStays
  <2> QED BY <1>6, <2>2, <2>3 DEF CleanArchive
<1>7. ASSUME NEW step \in {"worktree", "branch"}, CleanDid(a, step), UNCHANGED <<task, session>>,
             \A u \in Task : ~tree'[u].worktree => ~tree[u].worktree \/ session[u].state = "archived"
      PROVE  CleanInv'
  <2>1. Sticks
    BY <1>7 DEF Sticks
  <2>2. /\ clean'[a].task = t /\ (clean'[a].done.sessions <=> clean[a].done.sessions)
        /\ clean'[a].step \in {"worktree", "branch"} => clean'[a].done.sessions
        /\ \A b \in Actor \ {a} : clean'[b] = clean[b]
    BY <1>1, <1>7, CleanDoes
  <2> QED BY <1>1, <1>3, <1>7, <2>1, <2>2, CleanOne
<1>8. CASE CleanWorktree(a)
  <2>1. UNCHANGED <<task, session>> /\ clean[a].step = "worktree"
    BY <1>8 DEF CleanWorktree, CleanAt
  <2>2. CASE CleanFails(a) /\ UNCHANGED tree
    BY <1>4, <2>1, <2>2 DEF Sticks
  <2>3. CASE tree' = [tree EXCEPT ![t].worktree = FALSE] /\ CleanDid(a, "worktree")
    <3>1. session[t].state = "archived"
      BY <1>1, <1>3, <2>1 DEF CleanInv
    <3>2. tree \in [Task -> TreeRow]
      BY NowType
    <3>3. \A u \in Task \ {t} : tree'[u] = tree[u]
      BY <2>3, <3>2
    <3>4. CleanInv'
      BY <1>7, <2>1, <2>3, <3>1, <3>3
    <3> QED BY <1>1, <1>2, <2>1, <2>3, <3>4, CleanTree
  <2> QED BY <1>8, <2>2, <2>3 DEF CleanWorktree
<1>9. CASE CleanBranch(a)
  <2>1. UNCHANGED <<task, session>>
    BY <1>9 DEF CleanBranch
  <2>2. CASE CleanFails(a) /\ UNCHANGED tree
    BY <1>4, <2>1, <2>2 DEF Sticks
  <2>3. CASE tree' = [tree EXCEPT ![t].branch = FALSE] /\ BranchMayGo(t) /\ CleanDid(a, "branch")
    <3>1. tree \in [Task -> TreeRow] /\ tree[t] \in TreeRow
      BY <1>1, NowType
    <3>2. \A u \in Task : tree'[u].worktree = tree[u].worktree
      BY <2>3, <3>1 DEF TreeRow
    <3>3. CleanInv'
      BY <1>7, <2>1, <2>3, <3>2
    <3> QED BY <1>1, <1>2, <2>1, <2>3, <3>3, CleanTree
  <2> QED BY <1>9, <2>2, <2>3 DEF CleanBranch
<1>10. CASE CleanSave(a)
  <2>1. /\ UNCHANGED <<session, tree>> /\ task' = [task EXCEPT ![t] = [task[t] EXCEPT !.done = clean[a].done]]
        /\ clean' = [clean EXCEPT ![a] = NoClean]
    BY <1>10 DEF CleanSave, Becomes, world
  <2>2. task[t] \in Record /\ task \in [Task -> Record] /\ clean \in [Actor -> CleanRow]
    BY <1>1, NowType
  <2> DEFINE d == clean[a].done
  <2>3. [task[t] EXCEPT !.done = d].status = task[t].status /\ [task[t] EXCEPT !.done = d].done = d
    BY <2>2 DEF Record
  <2>4. /\ \A u \in Task : task'[u].status = task[u].status
        /\ task'[t].done = d /\ \A u \in Task \ {t} : task'[u] = task[u]
    BY <1>1, <2>1, <2>2, <2>3
  <2>5. clean'[a].step = "off" /\ \A b \in Actor \ {a} : clean'[b] = clean[b]
    BY <2>1, <2>2 DEF NoClean
  <2>6. CleanInv'
    <3>1. \A b \in Actor : clean'[b].step # "off" =>
             /\ clean'[b].task \in Task
             /\ clean'[b].done.sessions => session'[clean'[b].task].state = "archived"
             /\ clean'[b].step \in {"worktree", "branch"} => clean'[b].done.sessions
      BY <2>1, <2>5 DEF CleanInv
    <3>2. \A u \in Task : /\ task'[u].done.sessions => session'[u].state = "archived"
                          /\ ~tree'[u].worktree => session'[u].state = "archived"
      BY <1>3, <2>1, <2>4 DEF CleanInv
    <3> QED BY <3>1, <3>2 DEF CleanInv
  <2> QED BY <1>2, <2>1, <2>4, <2>6, ProofStays
<1> QED BY <1>5, <1>6, <1>8, <1>9, <1>10 DEF CleanStep

LEMMA EventProof ==
  ASSUME TypeOK, ProofInv, CleanInv, NEW t \in Task,
         Elapse(t) \/ Poll(t) \/ RecoverMerge(t) \/ Deliver(t) \/ Handle(t)
  PROVE  ProofInv' /\ CleanInv'
<1>1. UNCHANGED <<clean, session, tree, landed>>
  BY DEF Elapse, Poll, RecoverMerge, Deliver, Handle, memory, world
<1>2. Sticks
  BY <1>1 DEF Sticks
<1>3. \A u \in Task : /\ task'[u].status = "merged" => task[u].status = "merged"
                      /\ task'[u].done = task[u].done
  <2>1. CASE Handle(t)
    BY <2>1, HandleEffect
  <2>2. CASE UNCHANGED task
    BY <2>2
  <2> QED BY <2>1, <2>2 DEF Elapse, Poll, RecoverMerge, Deliver
<1> QED BY <1>1, <1>2, <1>3, ProofStays, CleanStays

-----------------------------------------------------------------------------
(* The invariant *)

LEMMA InitInv == Init => IInv
<1> SUFFICES ASSUME Init PROVE IInv
  OBVIOUS
<1>1. 0 \in Turn /\ ReviewTurn \in Turn /\ 0 \in 0 .. MaxRequests
  BY Limits, TurnsFit DEF ReviewTurn
<1>2. NothingDone \in Steps /\ NoSync \in SyncRow /\ NoCall \in CallRow /\ NoClean \in CleanRow /\ NoRequest \in Request
  BY NoCallRow, RequestEdits DEF NothingDone, Steps, NoSync, SyncRow, NoClean, CleanRow
<1>3. TypeOK
  <2>1. [status |-> "awaiting_review", review |-> TRUE, last |-> ReviewTurn, req |-> NoRequest, done |-> NothingDone] \in Record
    BY <1>1, <1>2 DEF Record
  <2>2. [state |-> "idle", turn |-> ReviewTurn, waiting |-> 0] \in SessionRow
    BY <1>1 DEF SessionRow
  <2>3. [clean |-> TRUE, moved |-> FALSE, holds |-> TRUE, inTarget |-> FALSE,
         proved |-> FALSE, worktree |-> TRUE, branch |-> TRUE] \in TreeRow
    BY DEF TreeRow
  <2>4. PluginOK
    BY <1>1, <1>2, <2>1 DEF Init, PluginOK, Actor
  <2>5. EventsOK
    BY DEF Init, EventsOK
  <2>6. WorldOK
    BY <2>2, <2>3 DEF Init, WorldOK
  <2>7. CountsOK
    BY Limits DEF Init, CountsOK
  <2> QED BY <2>4, <2>5, <2>6, <2>7 DEF TypeOK
<1>4. \A w \in Window : call[w].step = "off"
  BY NoCallRow DEF Init
<1>5. BudgetInv
  <2>1. Pending = {}
    BY <1>4 DEF Pending
  <2> QED BY <2>1, FS_EmptySet, Limits DEF BudgetInv, Init
<1>6. TurnInv
  BY DEF TurnInv, Init, ReviewTurn
<1>7. GitInv /\ SendInv /\ AloneInv
  BY <1>4 DEF GitInv, SendInv, AloneInv, Init
<1>8. OneMerge
  BY DEF OneMerge, Merging, Init
<1>9. ProofInv
  BY DEF ProofInv, Init
<1>10. CleanInv
  <2>1. \A a \in Actor : clean[a].step = "off"
    BY DEF Init, NoClean, Actor
  <2>2. \A t \in Task : ~task[t].done.sessions /\ tree[t].worktree
    BY DEF Init, NothingDone
  <2> QED BY <2>1, <2>2 DEF CleanInv
<1> QED BY <1>3, <1>5, <1>6, <1>7, <1>8, <1>9, <1>10 DEF IInv, TypeInv

\* What a stutter of all variables leaves alone.
LEMMA StutterInv ==
  ASSUME IInv, UNCHANGED vars
  PROVE  IInv'
<1>1. UNCHANGED <<task, started, lock, git, call, sync, clean, recov, inbox, late, events, session, tree, fresh, landed, back,
                  requests, commands, acts, faults, crashes>>
  BY DEF vars, memory, world, counts
<1>2. TypeOK' /\ TurnInv' /\ CallInv'
  BY <1>1, CallStays DEF IInv, TypeInv, TypeOK, PluginOK, EventsOK, WorldOK, CountsOK, TurnInv, CallInv
<1>3. AloneInv' /\ OneMerge' /\ ProofInv' /\ CleanInv'
  BY <1>1 DEF IInv, AloneInv, OneMerge, Merging, ProofInv, CleanInv
<1> QED BY <1>2, <1>3 DEF IInv, TypeInv, CallInv

LEMMA StepInv ==
  ASSUME IInv, Next
  PROVE  IInv'
<1>1. TypeOK /\ TurnInv /\ CallInv /\ AloneInv /\ OneMerge /\ ProofInv /\ CleanInv /\ GitInv
  BY DEF IInv, TypeInv, CallInv
<1>2. ASSUME UNCHANGED call, \A u \in Task : Merging(u)' => Merging(u) \/ u \in back', back \subseteq back'
      PROVE  AloneInv' /\ OneMerge'
  BY <1>1, <1>2, MergesStay
<1>3. SUFFICES TypeOK' /\ TurnInv' /\ CallInv' /\ AloneInv' /\ OneMerge' /\ ProofInv' /\ CleanInv'
  BY DEF IInv, TypeInv, CallInv
<1>4. ASSUME NEW t \in Task, SessionStep(t)
      PROVE  TypeOK' /\ TurnInv' /\ CallInv' /\ AloneInv' /\ OneMerge' /\ ProofInv' /\ CleanInv'
  <2>1. UNCHANGED <<task, call, git, back, requests, commands>>
    BY <1>4 DEF SessionStep, StartTurn, AskTurn, Begins, EndTurn, Work, CloseSession, memory, counts
  <2>2. AloneInv' /\ OneMerge'
    BY <1>2, <2>1 DEF Merging
  <2> QED BY <1>1, <1>4, <2>1, <2>2, SessionType, SessionProof, CallStays
<1>5. ASSUME NEW w \in Window, AcceptStep(w) \/ \E t \in Task : Accept(w, t)
      PROVE  TypeOK' /\ TurnInv' /\ CallInv' /\ AloneInv' /\ OneMerge' /\ ProofInv' /\ CleanInv'
  BY <1>1, <1>5, AcceptStepType, AcceptType, AcceptsAlone, AcceptProof
<1>6. ASSUME NEW t \in Task, SyncStep(t)
      PROVE  TypeOK' /\ TurnInv' /\ CallInv' /\ AloneInv' /\ OneMerge' /\ ProofInv' /\ CleanInv'
  <2>1. UNCHANGED <<call, back>>
    BY <1>6 DEF SyncStep, SyncInspect, SyncVerify
  <2>2. \A u \in Task : Merging(u)' => Merging(u)
    BY <1>1, <1>6, InspectEffect, VerifyEffect DEF SyncStep
  <2>3. TypeOK' /\ TurnInv' /\ CallInv'
    BY <1>1, <1>6, InspectType, VerifyStepType DEF SyncStep
  <2> QED BY <1>1, <1>2, <1>6, <2>1, <2>2, <2>3, SyncProof
<1>7. ASSUME NEW t \in Task, Elapse(t) \/ Poll(t) \/ RecoverMerge(t) \/ Deliver(t) \/ Handle(t)
      PROVE  TypeOK' /\ TurnInv' /\ CallInv' /\ AloneInv' /\ OneMerge' /\ ProofInv' /\ CleanInv'
  <2>1. UNCHANGED call
    BY <1>7 DEF Elapse, Poll, RecoverMerge, Deliver, Handle, memory
  <2>2. back \subseteq back' /\ \A u \in Task : Merging(u)' => Merging(u) \/ u \in back'
    <3>1. CASE Handle(t)
      BY <1>1, <3>1, HandleEffect
    <3>2. CASE UNCHANGED <<task, back>>
      BY <3>2 DEF Merging
    <3> QED BY <1>7, <3>1, <3>2 DEF Elapse, Poll, RecoverMerge, Deliver
  <2>3. TypeOK' /\ TurnInv' /\ CallInv'
    BY <1>1, <1>7, AskedType, DeliverType, HandleType
  <2> QED BY <1>1, <1>2, <1>7, <2>1, <2>2, <2>3, EventProof
<1>11. ASSUME NEW t \in Task, Reconcile(t)
       PROVE  TypeOK' /\ TurnInv' /\ CallInv' /\ AloneInv' /\ OneMerge' /\ ProofInv' /\ CleanInv'
  <2>1. AloneInv' /\ OneMerge'
    BY <1>1, <1>2, <1>11, ReconcileEffect
  <2>2. Sticks
    BY <1>1, <1>11, ReconcileEffect DEF Sticks
  <2> QED BY <1>1, <1>11, <2>1, <2>2, ReconcileEffect, ProofStays, CleanStays
<1>8. ASSUME NEW w \in Window, NEW t \in Task, CleanAgain(w, t)
      PROVE  TypeOK' /\ TurnInv' /\ CallInv' /\ AloneInv' /\ OneMerge' /\ ProofInv' /\ CleanInv'
  <2>1. UNCHANGED <<task, call, back, session, tree, landed>>
    BY <1>8 DEF CleanAgain, world
  <2>2. AloneInv' /\ OneMerge'
    BY <1>2, <2>1 DEF Merging
  <2>3. ProofInv'
    BY <1>1, <2>1, ProofStays
  <2>4. Sticks /\ w \in Actor
    BY <2>1 DEF Sticks, Actor
  <2>5. task[t].done.sessions => session'[t].state = "archived"
    BY <1>1, <2>1 DEF CleanInv
  <2>6. CleanInv'
    BY <1>1, <1>8, <2>1, <2>4, <2>5, AgainType, CleanOne
  <2> QED BY <1>1, <1>8, <2>2, <2>3, <2>6, AgainType
<1>9. ASSUME NEW a \in Actor, CleanStep(a)
      PROVE  TypeOK' /\ TurnInv' /\ CallInv' /\ AloneInv' /\ OneMerge' /\ ProofInv' /\ CleanInv'
  <2>1. UNCHANGED <<call, back>>
    BY <1>9 DEF CleanStep, CleanIdle, CleanArchive, CleanWorktree, CleanBranch, CleanSave
  <2>2. AloneInv' /\ OneMerge'
    BY <1>1, <1>2, <1>9, <2>1, CleanProof DEF Merging
  <2> QED BY <1>1, <1>9, <2>2, CleanStepType, CleanProof
<1>10. ASSUME Crash
       PROVE  TypeOK' /\ TurnInv' /\ CallInv' /\ AloneInv' /\ OneMerge' /\ ProofInv' /\ CleanInv'
  <2>1. UNCHANGED <<task, back, session, tree, landed>> /\ clean' = [a \in Actor |-> NoClean]
    BY <1>10 DEF Crash, world, Actor
  <2>2. AloneInv' /\ OneMerge'
    BY <1>1, <1>10, <2>1, CrashType, MergesStay DEF Merging
  <2>3. ProofInv' /\ Sticks
    BY <1>1, <2>1, ProofStays DEF Sticks
  <2>4. \A a \in Actor : clean'[a].step = "off"
    BY <2>1 DEF NoClean
  <2>5. CleanInv'
    BY <1>1, <2>1, <2>3, <2>4, CleanStays
  <2> QED BY <1>1, <1>10, <2>2, <2>3, <2>5, CrashType
<1> QED BY <1>4, <1>5, <1>6, <1>7, <1>8, <1>9, <1>10, <1>11 DEF Next, Actor

\* In every state of the plugin, its sessions and its repository the invariant holds.
THEOREM MergeInvariant == Spec => []IInv
<1>1. IInv /\ [Next]_vars => IInv'
  BY StepInv, StutterInv
<1> QED BY <1>1, InitInv, PTL DEF Spec

\* The variables stay in their types, so every turn, request and fault of any run is one
\* that the bounds name.
THEOREM MergeTypeCorrect == Spec => []TypeOK
<1>1. IInv => TypeOK
  BY DEF IInv, TypeInv
<1> QED BY <1>1, MergeInvariant, PTL

\* No command is sent without a request of its own: not when an answer is lost, not after a
\* restart, and not when several windows accept.
THEOREM MergeCommandOnce == Spec => []CommandOnce
<1>1. IInv => CommandOnce
  BY DEF IInv, SendInv, CommandOnce
<1> QED BY <1>1, MergeInvariant, PTL

\* Two tasks of the repository are merging only if a later turn has brought one of them back:
\* startAgentMerge finds the other tasks idle, and no accept comes between its look and its save.
THEOREM MergeOneMerge == Spec => []OneMerge
<1>1. IInv => OneMerge
  BY DEF IInv
<1> QED BY <1>1, MergeInvariant, PTL

\* A task becomes merged only when its accepted result is in the target branch.
THEOREM MergeMergedIsProven == Spec => []MergedIsProven
<1>1. IInv => MergedIsProven
  BY DEF IInv, ProofInv, MergedIsProven
<1> QED BY <1>1, MergeInvariant, PTL

\* A worktree is removed only after its session was closed, a branch only after its worktree.
THEOREM MergeCleanedInOrder == Spec => []CleanedInOrder
<1>1. IInv => CleanedInOrder
  BY DEF IInv, ProofInv, CleanInv, CleanedInOrder
<1> QED BY <1>1, MergeInvariant, PTL

\* The branch of a task is deleted only when its tip is in the target.
THEOREM MergeNothingLost == Spec => []NothingLost
<1>1. IInv => NothingLost
  BY DEF IInv, ProofInv, NothingLost
<1> QED BY <1>1, MergeInvariant, PTL
=============================================================================
