------------------------------ MODULE SignIns ------------------------------
(***************************************************************************)
(* The sign-ins of shared-tools (src/shared-tools/server/oauth.ts, class   *)
(* SignIns, called from service.ts).  A sign-in is a flow: the browser     *)
(* step ends in a code, by the listener on localhost or by pasting, which  *)
(* is exchanged for a grant.  Grants live in memory and in oauth.json;     *)
(* saves of the file queue behind each other.  A grant close to expiry is  *)
(* refreshed before a new agent gets it, one refresh per server name.      *)
(*                                                                         *)
(* finish, signOut and rename hold the service's queue; start, cancel,     *)
(* the listener and the agents' headers run beside them.  The              *)
(* authorization server is the strictest one: a code and a refresh token   *)
(* each work once.  A grant is the pair of its flow and the version of its *)
(* token, which is what the code's comparison of objects tells apart.      *)
(***************************************************************************)
EXTENDS Naturals, FiniteSets, Sequences

CONSTANTS
    Name,        \* names of shared servers
    MaxFlow,     \* bound: sign-ins started, numbered in their order
    MaxVersion,  \* bound: versions of one grant's token
    MaxCalls,    \* bound: calls of users, browsers and agents
    MaxFaults,   \* bound: failed writes, lost answers and restarts of the daemon
    None         \* no grant, no job

ASSUME SignInsAssumption ==
    MaxFlow \in Nat /\ MaxVersion \in Nat \ {0} /\ MaxCalls \in Nat /\ MaxFaults \in Nat

VARIABLES
    grants,      \* the grant of every name, in memory
    file,        \* the same, in oauth.json
    flows,       \* every sign-in: its name, its result, whether it is listed
    exchange,    \* the stage of a flow's exchange, by paste and by callback
    refreshing,  \* the refresh under way for a name
    holder,      \* the call that holds the service's queue
    saves,       \* the saves that wait, by whom
    tmp,         \* what the save at work has written beside the file
    listening,   \* the listener on localhost is open
    opening,     \* the listener is being opened
    live,        \* authorization server: the version it honours, 0 before the code
    told,        \* flows reported as done
    over,        \* flows whose grant was signed out or replaced
    signedOut,   \* flows reported as signed out
    mishap,      \* flows of which an answer, a save or a refresh was lost
    calls, faults

vars == <<grants, file, flows, exchange, refreshing, holder, saves, tmp, listening,
          opening, live, told, over, signedOut, mishap, calls, faults>>
history == <<told, over, signedOut, mishap>>
bounds == <<calls, faults>>

Flow == 1..MaxFlow
Via == {"paste", "callback"}
Grant == [flow : Flow, v : 1..MaxVersion]
Grants == [Name -> Grant \cup {None}]
Results == {"new", "pending", "done", "failed"}
Stages == {"idle", "sent", "granted", "refused", "saving"}
Job == [of : Grant, stage : Stages]
Holders == [op : {"finish", "rename", "signOut"}, flow : Flow]
Owners == [kind : {"refresh"}, name : Name] \cup [kind : {"exchange"}, flow : Flow, via : Via]
          \cup [kind : {"queue"}]

\* undefined is not a value of any of these.
ASSUME NoneAssumption == None \notin Name \cup Grant \cup Grants \cup Job \cup Holders

FlowsOf(g) == {g[n].flow : n \in {m \in Name : g[m] # None}}

Init ==
    /\ grants = [n \in Name |-> None]
    /\ file = grants
    /\ flows = [f \in Flow |-> [name |-> None, result |-> "new", listed |-> FALSE]]
    /\ exchange = [f \in Flow |-> [via \in Via |-> "idle"]]
    /\ refreshing = [n \in Name |-> None]
    /\ holder = None
    /\ saves = <<>> /\ tmp = None
    /\ listening = FALSE /\ opening = FALSE
    /\ live = [f \in Flow |-> 0]
    /\ told = {} /\ over = {} /\ signedOut = {} /\ mishap = {}
    /\ calls = 0 /\ faults = 0

Pending(fl) == {f \in Flow : fl[f].listed /\ fl[f].result = "pending"}

\* Mutant: the end of one sign-in closes the listener of the others.
StaysOpenForNobody(fl) == FALSE

\* The listener stays open for whoever is still pending.
StaysOpen(fl) == listening /\ Pending(fl) # {}

----------------------------------------------------------------------------
(* Sign-in *)

Called == calls < MaxCalls /\ calls' = calls + 1 /\ UNCHANGED faults

\* start, from the point where discovery and registration have ended: it drops
\* the flows of the name and those too old, and opens the listener.
Start(f, n) ==
    /\ Called
    /\ flows[f].result = "new"
    /\ \A g \in 1..(f - 1) : flows[g].result # "new"
    /\ \E old \in SUBSET {g \in Flow : flows[g].listed /\ flows[g].name # n} :
         flows' = [g \in Flow |->
                     IF g = f THEN [name |-> n, result |-> "pending", listed |-> TRUE]
                     ELSE IF flows[g].name = n \/ g \in old THEN [flows[g] EXCEPT !.listed = FALSE]
                     ELSE flows[g]]
    /\ opening' = (opening \/ ~listening)
    /\ UNCHANGED <<grants, file, exchange, refreshing, holder, saves, tmp, listening, live, history>>

Bound ==
    /\ opening
    /\ opening' = FALSE /\ listening' = TRUE
    /\ UNCHANGED <<grants, file, flows, exchange, refreshing, holder, saves, tmp, live, history, bounds>>

Unlisted(n) == [f \in Flow |-> IF flows[f].name = n THEN [flows[f] EXCEPT !.listed = FALSE] ELSE flows[f]]

Cancel(n) ==
    /\ Called
    /\ \E f \in Flow : flows[f].listed /\ flows[f].name = n
    /\ flows' = Unlisted(n)
    /\ listening' = StaysOpen(flows')
    /\ UNCHANGED <<grants, file, exchange, refreshing, holder, saves, tmp, opening, live, history>>

\* finish with a pasted address holds the service's queue until the exchange
\* has ended; the listener's callback does not.
Complete(f, via) ==
    /\ Called
    /\ flows[f].listed /\ flows[f].result # "done"
    /\ exchange[f][via] = "idle"
    /\ \/ via = "paste" /\ holder = None /\ holder' = [op |-> "finish", flow |-> f]
       \/ via = "callback" /\ listening /\ UNCHANGED holder
    /\ exchange' = [exchange EXCEPT ![f][via] = "sent"]
    /\ UNCHANGED <<grants, file, flows, refreshing, saves, tmp, listening, opening, live, history>>

\* The browser came back with an error instead of a code.
Denied(f) ==
    /\ Called
    /\ listening /\ flows[f].listed
    /\ flows' = [flows EXCEPT ![f].result = "failed"]
    /\ UNCHANGED <<grants, file, exchange, refreshing, holder, saves, tmp, listening, opening, live, history>>

Fault == faults < MaxFaults /\ faults' = faults + 1

\* The token endpoint answers: the first to bring the code gets a grant.  A request
\* that fails may have used the code up or left it for the next attempt.
Redeem(f, via) ==
    /\ exchange[f][via] = "sent"
    /\ \/ /\ live[f] = 0
          /\ \/ /\ exchange' = [exchange EXCEPT ![f][via] = "granted"]
                /\ live' = [live EXCEPT ![f] = 1]
                /\ UNCHANGED faults
             \/ /\ exchange' = [exchange EXCEPT ![f][via] = "refused"]
                /\ live' \in {live, [live EXCEPT ![f] = 1]}
                /\ Fault
       \/ /\ live[f] # 0
          /\ exchange' = [exchange EXCEPT ![f][via] = "refused"]
          /\ UNCHANGED <<live, faults>>
    /\ UNCHANGED <<grants, file, flows, refreshing, holder, saves, tmp, listening, opening, history, calls>>

\* Whoever waits for a save waits for one that reads memory when its turn comes.
Save(owner) == saves' = Append(saves, owner)

\* What becomes of the grants that a new grant of a name replaces.
Replaced(n) == {g.flow : g \in {grants[n]} \ {None}}

Granted(f, via) ==
    /\ exchange[f][via] = "granted"
    /\ grants' = [grants EXCEPT ![flows[f].name] = [flow |-> f, v |-> 1]]
    /\ over' = over \cup Replaced(flows[f].name)
    /\ exchange' = [exchange EXCEPT ![f][via] = "saving"]
    /\ Save([kind |-> "exchange", flow |-> f, via |-> via])
    /\ UNCHANGED <<file, flows, refreshing, holder, tmp, listening, opening, live, told, signedOut, mishap, bounds>>

\* Mutant: an exchange that fails keeps the service's queue.
EndExchangeIfDone(f, via, result) ==
    /\ flows' = [flows EXCEPT ![f].result = result]
    /\ listening' = StaysOpen(flows')
    /\ exchange' = [exchange EXCEPT ![f][via] = "idle"]
    /\ holder' = IF via = "paste" /\ result = "done" THEN None ELSE holder

\* The end of complete: its result, the listener if nobody else is pending, and
\* the queue if it was a paste.
EndExchange(f, via, result) ==
    /\ flows' = [flows EXCEPT ![f].result = result]
    /\ listening' = StaysOpen(flows')
    /\ exchange' = [exchange EXCEPT ![f][via] = "idle"]
    /\ holder' = IF via = "paste" THEN None ELSE holder

NotGranted(f, via) ==
    /\ exchange[f][via] = "refused"
    /\ EndExchange(f, via, "failed")
    /\ UNCHANGED <<grants, file, refreshing, saves, tmp, opening, live, history, bounds>>

\* A flow that was tried is forgotten a minute later.
Forget(f) ==
    /\ flows[f].listed /\ flows[f].result \in {"done", "failed"}
    /\ \A via \in Via : exchange[f][via] = "idle"
    /\ flows' = [flows EXCEPT ![f].listed = FALSE]
    /\ UNCHANGED <<grants, file, exchange, refreshing, holder, saves, tmp, listening, opening, live, history, bounds>>
----------------------------------------------------------------------------
(* Sign-out and rename *)

SignOut(n) ==
    /\ Called
    /\ holder = None
    /\ flows' = Unlisted(n)
    /\ listening' = StaysOpen(flows')
    /\ grants[n] # None
    /\ grants' = [grants EXCEPT ![n] = None]
    /\ over' = over \cup Replaced(n)
    /\ holder' = [op |-> "signOut", flow |-> grants[n].flow]
    /\ Save([kind |-> "queue"])
    /\ UNCHANGED <<file, exchange, refreshing, tmp, opening, live, told, signedOut, mishap>>

\* A refresh under way for the old name will find nothing to put its answer into.
Rename(from, to) ==
    /\ Called
    /\ holder = None
    /\ from # to /\ grants[from] # None
    /\ grants' = [grants EXCEPT ![to] = grants[from], ![from] = None]
    /\ over' = over \cup Replaced(to)
    /\ mishap' = mishap \cup (IF refreshing[from] # None THEN {grants[from].flow} ELSE {})
    /\ holder' = [op |-> "rename", flow |-> grants[from].flow]
    /\ Save([kind |-> "queue"])
    /\ UNCHANGED <<file, flows, exchange, refreshing, tmp, listening, opening, live, told, signedOut>>
----------------------------------------------------------------------------
(* Refresh *)

\* header: an agent is about to get a token close to its end.  A refresh under
\* way for the name is joined, which changes nothing.
Refresh(n) ==
    /\ Called
    /\ grants[n] # None /\ refreshing[n] = None
    /\ live[grants[n].flow] < MaxVersion
    /\ refreshing' = [refreshing EXCEPT ![n] = [of |-> grants[n], stage |-> "sent"]]
    /\ UNCHANGED <<grants, file, flows, exchange, holder, saves, tmp, listening, opening, live, history>>

\* The token endpoint rotates the token if it is the one it honours.
Rotate(n) ==
    /\ refreshing[n] # None /\ refreshing[n].stage = "sent"
    /\ LET of == refreshing[n].of IN
       \/ /\ of.v = live[of.flow]
          /\ live' = [live EXCEPT ![of.flow] = @ + 1]
          /\ refreshing' = [refreshing EXCEPT ![n].stage = "granted"]
          /\ UNCHANGED <<mishap, faults>>
       \/ /\ of.v = live[of.flow]
          /\ Fault
          /\ live' \in {live, [live EXCEPT ![of.flow] = @ + 1]}
          /\ refreshing' = [refreshing EXCEPT ![n].stage = "refused"]
          /\ mishap' = mishap \cup {of.flow}
       \/ /\ of.v # live[of.flow]
          /\ refreshing' = [refreshing EXCEPT ![n].stage = "refused"]
          /\ UNCHANGED <<live, mishap, faults>>
    /\ UNCHANGED <<grants, file, flows, exchange, holder, saves, tmp, listening, opening, told, over, signedOut, calls>>

\* Mutant: the refresh keeps the token it sent.
KeepToken(g) == g

NextGrant(g) == [g EXCEPT !.v = @ + 1]

\* Mutant: the answer is stored whatever has become of the grant.
StillThereAnyway(n) == TRUE

\* The refreshed grant goes only where the one it came from still is.
StillThere(n) == grants[n] = refreshing[n].of

Refreshed(n) ==
    /\ refreshing[n] # None /\ refreshing[n].stage = "granted"
    /\ StillThere(n)
    /\ grants' = [grants EXCEPT ![n] = NextGrant(refreshing[n].of)]
    /\ refreshing' = [refreshing EXCEPT ![n].stage = "saving"]
    /\ Save([kind |-> "refresh", name |-> n])
    /\ UNCHANGED <<file, flows, exchange, holder, tmp, listening, opening, live, history, bounds>>

\* Mutant: the job stays registered.
KeepJob(n) == UNCHANGED refreshing

\* A job that failed makes room for the next one, as one that succeeded does.
EndRefresh(n) == refreshing' = [refreshing EXCEPT ![n] = None]

NotRefreshed(n) ==
    /\ refreshing[n] # None
    /\ \/ refreshing[n].stage = "granted" /\ ~StillThere(n)
       \/ refreshing[n].stage = "refused"
    /\ EndRefresh(n)
    /\ UNCHANGED <<grants, file, flows, exchange, holder, saves, tmp, listening, opening, live, history, bounds>>
----------------------------------------------------------------------------
(* The file *)

Snapshot == grants

WriteTmp ==
    /\ saves # <<>> /\ tmp = None
    /\ tmp' = Snapshot
    /\ UNCHANGED <<grants, file, flows, exchange, refreshing, holder, saves, listening, opening, live, history, bounds>>

\* The save is over and whoever waited for it goes on.
SaveEnds(ok) ==
    /\ saves' = Tail(saves) /\ tmp' = None
    /\ LET owner == Head(saves) IN
       \/ /\ owner.kind = "refresh"
          /\ EndRefresh(owner.name)
          /\ UNCHANGED <<flows, exchange, holder, listening, told, signedOut>>
       \/ /\ owner.kind = "exchange"
          /\ EndExchange(owner.flow, owner.via, IF ok THEN "done" ELSE "failed")
          /\ told' = told \cup (IF ok THEN {owner.flow} ELSE {})
          /\ UNCHANGED <<refreshing, signedOut>>
       \/ /\ owner.kind = "queue"
          /\ holder' = None
          /\ signedOut' = signedOut \cup (IF ok /\ holder.op = "signOut" THEN {holder.flow} ELSE {})
          /\ UNCHANGED <<flows, exchange, refreshing, listening, told>>
    /\ UNCHANGED <<grants, opening, live, over, calls>>

RenameTmp ==
    /\ tmp # None
    /\ file' = tmp
    /\ SaveEnds(TRUE)
    /\ UNCHANGED <<mishap, faults>>

\* Mutant: the failure is swallowed.
SwallowFailure ==
    /\ saves # <<>>
    /\ Fault
    /\ SaveEnds(TRUE)
    /\ mishap' = mishap \cup FlowsOf(grants)
    /\ UNCHANGED file

SaveFails ==
    /\ saves # <<>>
    /\ Fault
    /\ SaveEnds(FALSE)
    /\ mishap' = mishap \cup FlowsOf(grants)
    /\ UNCHANGED file

\* The daemon dies and starts again; the first call loads the file.
Crash ==
    /\ Fault
    /\ grants' = file
    /\ flows' = [f \in Flow |-> [flows[f] EXCEPT !.listed = FALSE]]
    /\ exchange' = [f \in Flow |-> [via \in Via |-> "idle"]]
    /\ mishap' = mishap \cup {refreshing[n].of.flow : n \in {m \in Name : refreshing[m] # None}}
    /\ refreshing' = [n \in Name |-> None]
    /\ holder' = None /\ saves' = <<>> /\ tmp' = None
    /\ listening' = FALSE /\ opening' = FALSE
    /\ UNCHANGED <<file, live, told, over, signedOut, calls>>

Exchange(f, via) == Redeem(f, via) \/ Granted(f, via) \/ NotGranted(f, via)
RefreshStep(n) == Rotate(n) \/ Refreshed(n) \/ NotRefreshed(n)
SaveStep == WriteTmp \/ RenameTmp

Next ==
    \/ \E f \in Flow : Denied(f) \/ Forget(f)
    \/ \E f \in Flow, n \in Name : Start(f, n)
    \/ \E f \in Flow, via \in Via : Complete(f, via) \/ Exchange(f, via)
    \/ \E n \in Name : Cancel(n) \/ SignOut(n) \/ Refresh(n) \/ RefreshStep(n)
    \/ \E from, to \in Name : Rename(from, to)
    \/ Bound \/ SaveStep \/ SaveFails \/ Crash

Spec == Init /\ [][Next]_vars

\* Requests end by their deadline and the event loop runs on; nobody has to
\* sign in, sign out or start an agent.
FairSpec ==
    /\ Spec
    /\ \A f \in Flow : WF_vars(\E via \in Via : Exchange(f, via))
    /\ \A n \in Name : WF_vars(RefreshStep(n))
    /\ WF_vars(SaveStep)
----------------------------------------------------------------------------
(* Properties *)

\* Every variable has its type.
TypeOK ==
    /\ grants \in Grants /\ file \in Grants /\ tmp \in Grants \cup {None}
    /\ flows \in [Flow -> [name : Name \cup {None}, result : Results, listed : BOOLEAN]]
    /\ exchange \in [Flow -> [Via -> Stages]]
    /\ refreshing \in [Name -> Job \cup {None}]
    /\ holder \in Holders \cup {None}
    /\ saves \in Seq(Owners)
    /\ listening \in BOOLEAN /\ opening \in BOOLEAN
    /\ live \in [Flow -> 0..MaxVersion]
    /\ told \subseteq Flow /\ over \subseteq Flow /\ signedOut \subseteq Flow /\ mishap \subseteq Flow
    /\ calls \in 0..MaxCalls /\ faults \in 0..MaxFaults

\* A grant that was reported as signed out never comes back, in memory or in
\* oauth.json, through refreshes, renames, later saves or a restart
\* (oauth.ts:424 signOut against the check of refresh at 479 and the queue of
\* saves at 322).
SignedOutForGood == signedOut \cap (FlowsOf(grants) \cup FlowsOf(file)) = {}

\* A sign-in that was reported as done and neither signed out nor replaced is
\* in memory and in oauth.json (complete and save: told only after the file).
DoneIsKept == told \ over \subseteq FlowsOf(grants) \cap FlowsOf(file)

\* The kept token is the one the authorization server honours, and no refresh
\* is refused, unless an answer or a save was lost, the daemon died or the server
\* was renamed during the refresh, or the user gave the grant up (refresh,
\* oauth.ts:472).
KeptIsCurrent ==
    \A n \in Name :
      /\ grants[n] # None /\ refreshing[n] = None /\ grants[n].flow \notin mishap \cup over
           => grants[n].v = live[grants[n].flow]
      /\ refreshing[n] # None => refreshing[n].stage # "refused" \/ refreshing[n].of.flow \in mishap \cup over

\* Whoever waits for the browser is heard: the listener is open or being opened
\* (openListener and the two places that close it, oauth.ts:404 and 421).
PendingIsHeard == Pending(flows) # {} => listening \/ opening

\* A refresh under way for a name ends, so that no agent waits for ever and the
\* next one can refresh again (the finally of refresh, oauth.ts:487).
RefreshEnds == \A n \in Name : refreshing[n] # None ~> refreshing[n] = None

\* Whoever holds the service's queue gives it up (finish, signOut and rename
\* wait for an exchange or a save).
QueueMoves == holder # None ~> holder = None

\* The comment of refresh: a rotated refresh token works only once, so it is
\* sent once (oauth.ts:471).
OneRefreshPerToken ==
    \A n, m \in Name :
      /\ n # m
      /\ refreshing[n] # None /\ refreshing[m] # None
      => refreshing[n].of # refreshing[m].of
=============================================================================
