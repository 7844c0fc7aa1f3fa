--------------------------- MODULE SharedGateway ---------------------------
(***************************************************************************)
(* The gateway of shared-tools (src/shared-tools/server/gateway.ts, class  *)
(* Gateway): other machines reach a shared MCP server with a device        *)
(* credential.  A request is authenticated, authorized, registered as      *)
(* active, and checked twice more across the awaits before it reaches the  *)
(* upstream server.  Beside it devices are revoked, narrowed and deleted   *)
(* in the gateway's queue, the listener is closed and opened, the servers' *)
(* configuration changes, and reconcile walks the active requests and the  *)
(* sessions to end what is no longer allowed.                              *)
(*                                                                         *)
(* There is one shared server.  Its configuration is the set of providers  *)
(* whose MCP switch is on, the set of those that may use the server        *)
(* (enablement and permissions taken together) and its upstream target,    *)
(* which is what the fingerprint tells apart.  A device check reads memory;*)
(* a configuration check reads the file twice, first for the switch, then  *)
(* for the server.                                                         *)
(***************************************************************************)
EXTENDS Naturals, FiniteSets, Sequences

CONSTANTS
    Device, Provider, Target,
    Uses,         \* the providers that requests are made as
    Edits,        \* the configurations the shared server gets, in their order
    MaxSlots,     \* bound: requests under way at once
    Reconciler,   \* reconciliations that may overlap
    MaxActive,    \* MAX_ACTIVE_REQUESTS
    MaxMinted,    \* bound: sessions ever opened
    MaxRequests,  \* bound: requests
    MaxEvents,    \* bound: calls of the page, edits, clients that leave, idle sessions, failures
    None

ASSUME GatewayAssumption ==
    /\ MaxActive \in Nat \ {0} /\ MaxMinted \in Nat
    /\ MaxRequests \in Nat /\ MaxEvents \in Nat
    /\ Uses \subseteq Provider /\ Provider # {}
    /\ Edits \in Seq([on : SUBSET Provider, for : SUBSET Provider, target : Target]) /\ Edits # <<>>
    /\ MaxSlots \in Nat

VARIABLES
    devices,     \* the device rows, in memory
    saved,       \* the same, in gateway.json
    queue,       \* the call of the page that holds the gateway's queue
    wanted,      \* the gateway is switched on, in memory
    kept,        \* the same, in gateway.json
    running,     \* it listens
    past,        \* the configurations of the server, the last one current
    requests,    \* what every request has come to
    sessions,    \* the sessions, by their number
    minted,      \* sessions opened so far
    walks,       \* the reconciliations under way
    settled,     \* the newest configuration a finished reconciliation saw
    epoch,       \* how often a provider was taken from a device, as answered
    revoked,     \* devices whose revocation was answered
    unsaved,     \* devices of which a write failed
    missed,      \* a change of the gateway's settings was not written, and it listens as before
    asked, events

settings == <<wanted, kept, running, missed>>
control == <<devices, saved, queue, settings>>
traffic == <<requests, sessions, minted>>
history == <<epoch, revoked, unsaved>>
bounds == <<asked, events>>
vars == <<devices, saved, queue, wanted, running, past, requests, sessions, minted,
          kept, missed, walks, settled, epoch, revoked, unsaved, asked, events>>

Config == [on : SUBSET Provider, for : SUBSET Provider, target : Target]
Request == 1..MaxSlots
Row == [status : {"live", "revoked", "deleted"}, providers : (SUBSET Provider) \ {{}}]
\* A request on a session is taken as a GET, which does not wait for a body.
Kinds == {"initialize", "get"}
\* Where a request waits: for the switch of its provider and for the server after
\* its authentication, for its body, for the same two readings before and after
\* the authorization header, for the upstream server, for the end of its stream.
Unregistered == {"known", "switched"}
Stages == Unregistered \cup {"body", "look", "server", "header", "lookAgain", "serverAgain", "upstream", "stream"}
RequestRow == [stage : Stages, kind : Kinds, dev : Device, prov : Provider, target : Target \cup {None},
               via : 0..MaxMinted, gone : BOOLEAN, aborted : BOOLEAN, epoch : Nat]
\* A reconciliation on its way through the requests, then through the sessions.
WalkRow == [seen : 1..Len(Edits), phase : {"request"}, todo : SUBSET Request]
           \cup [seen : 1..Len(Edits), phase : {"session"}, todo : SUBSET (1..MaxMinted)]
SessionRow == [dev : Device, prov : Provider, target : Target, epoch : Nat]
Ops == [op : {"revoke", "delete"}, dev : Device]
       \cup [op : {"update"}, dev : Device, removed : SUBSET Provider]
       \cup [op : {"config"}, moved : BOOLEAN] \cup [op : {"listen"}]

ASSUME NoneAssumption == None \notin Target \cup RequestRow \cup SessionRow \cup WalkRow \cup Ops

config == past[Len(past)]
Active == {r \in Request : requests[r] # None /\ requests[r].stage \notin Unregistered}
\* A request that has gone to the upstream server and was not aborted.
Flowing == {r \in Active : requests[r].stage \in {"upstream", "stream"} /\ ~requests[r].aborted}
Open == {s \in 1..minted : sessions[s] # None}

Happens == events < MaxEvents /\ events' = events + 1

MayUse(d, p) == devices[d].status = "live" /\ p \in devices[d].providers

Init ==
    /\ devices \in [Device -> [status : {"live"}, providers : {Provider}]]
    /\ saved = devices
    /\ queue = None /\ wanted = TRUE /\ kept = TRUE /\ running = TRUE /\ missed = FALSE
    /\ past = <<Edits[1]>>
    /\ requests = [r \in Request |-> None]
    /\ sessions = [s \in 1..MaxMinted |-> None] /\ minted = 0
    /\ walks = [k \in Reconciler |-> None] /\ settled = 1
    /\ epoch = [d \in Device |-> [p \in Provider |-> 0]]
    /\ revoked = {} /\ unsaved = {}
    /\ asked = 0 /\ events = 0
----------------------------------------------------------------------------
(* A request *)

\* handle: the credential is read, the session is looked up, the provider chosen.
Arrive(r, d, p, kind, s) ==
    /\ running /\ asked < MaxRequests
    /\ requests[r] = None /\ \A q \in 1..(r - 1) : requests[q] # None
    /\ MayUse(d, p)
    /\ s # 0 => s \in Open /\ sessions[s].dev = d
    /\ kind = "initialize" => s = 0
    /\ requests' = [requests EXCEPT ![r] =
         [stage |-> "known", kind |-> kind, dev |-> d, prov |-> p, target |-> None,
          via |-> s, gone |-> FALSE, aborted |-> FALSE, epoch |-> 0]]
    /\ asked' = asked + 1
    /\ UNCHANGED <<control, past, sessions, minted, walks, settled, history, events>>

Without(w, r) == IF w # None /\ w.phase = "request" THEN [w EXCEPT !.todo = @ \ {r}] ELSE w

\* A request that is over leaves active, also for a reconciliation on its way to it.
End(r) ==
    /\ requests' = [requests EXCEPT ![r] = None]
    /\ walks' = [k \in Reconciler |-> Without(walks[k], r)]

HasRoom == Cardinality(Active) < MaxActive

Step(r, from, to, goesOn) ==
    /\ requests[r] # None /\ requests[r].stage = from
    /\ \/ /\ goesOn
          /\ requests' = [requests EXCEPT ![r].stage = to]
          /\ UNCHANGED walks
       \/ ~goesOn /\ End(r)
    /\ UNCHANGED <<control, past, sessions, minted, settled, history, bounds>>

\* What the two readings of the file tell about a request
SwitchedOn(r) == requests[r].prov \in config.on
SameServer(r) == requests[r].prov \in config.for /\ config.target = requests[r].target

\* serverFor reads the switch of the provider ...
Serve(r) == Step(r, "known", "switched", SwitchedOn(r))

\* ... and then the servers; forward checks the session against that and takes a
\* slot before it waits again.
Admitted(r) ==
    LET q == requests[r] IN
    /\ q.prov \in config.for
    /\ q.via # 0 => /\ sessions[q.via] # None
                    /\ sessions[q.via].prov = q.prov
                    /\ sessions[q.via].target = config.target
    /\ HasRoom

Authorize(r) ==
    /\ requests[r] # None /\ requests[r].stage = "switched"
    /\ Admitted(r)
    /\ requests' = [requests EXCEPT ![r].stage = "body", ![r].target = config.target,
                                    ![r].epoch = epoch[requests[r].dev][requests[r].prov]]
    /\ UNCHANGED <<control, past, sessions, minted, walks, settled, history, bounds>>

\* A session whose target was reconfigured is deleted on the way.
Refuse(r) ==
    /\ requests[r] # None /\ requests[r].stage = "switched"
    /\ ~Admitted(r)
    /\ LET q == requests[r]
           stale == q.prov \in config.for /\ q.via # 0 /\ sessions[q.via] # None
                    /\ sessions[q.via].prov = q.prov /\ sessions[q.via].target # config.target
       IN sessions' = IF stale THEN [sessions EXCEPT ![q.via] = None] ELSE sessions
    /\ End(r)
    /\ UNCHANGED <<control, past, minted, settled, history, bounds>>

\* The client goes away: only a registered request hears of it.
Leave(r) ==
    /\ Happens
    /\ requests[r] # None /\ ~requests[r].gone /\ ~requests[r].aborted
    /\ requests' = [requests EXCEPT ![r].gone = (requests[r].stage \in Unregistered),
                                    ![r].aborted = (requests[r].stage \notin Unregistered)]
    /\ UNCHANGED <<control, past, sessions, minted, walks, settled, history, asked>>

\* currentTarget looks at the device row first, then at the switch and the server.
StillAllowed(r) == MayUse(requests[r].dev, requests[r].prov)

HasBody(q) == q.kind = "initialize"

\* The body of a client that has gone never ends; a GET or DELETE has none.
Body(r) == Step(r, "body", "look",
                ~requests[r].aborted /\ ~(HasBody(requests[r]) /\ requests[r].gone) /\ StillAllowed(r))
Look(r) == Step(r, "look", "server", SwitchedOn(r))
Match(r) == Step(r, "server", "header", SameServer(r))
\* authHeader may refresh the sign-in of the server meanwhile (module SignIns).
Header(r) == Step(r, "header", "lookAgain", ~requests[r].aborted /\ StillAllowed(r))
LookAgain(r) == Step(r, "lookAgain", "serverAgain", SwitchedOn(r))
\* An aborted request is refused by fetch.
Send(r) == Step(r, "serverAgain", "upstream", SameServer(r) /\ ~requests[r].aborted)

\* A body that times out, a write to the upstream server that fails, or no answer in time.
GiveUp(r) ==
    /\ requests[r] # None /\ requests[r].stage \in {"body", "upstream"}
    /\ End(r)
    /\ UNCHANGED <<control, past, sessions, minted, settled, history, bounds>>

\* The upstream server answers: initialize opens a session here; a 404 and a
\* successful DELETE end the one that was used, and the answer is passed on; so
\* does a 401 or 403, and the request is over.
Answer(r) ==
    /\ requests[r] # None /\ requests[r].stage = "upstream" /\ ~requests[r].aborted
    /\ LET q == requests[r]
           passed == /\ requests' = [requests EXCEPT ![r].stage = "stream"]
                     /\ UNCHANGED walks
           dropped == sessions' = [sessions EXCEPT ![q.via] = None] /\ UNCHANGED minted
       IN
       \/ /\ q.kind = "initialize" /\ minted < MaxMinted
          /\ sessions' = [sessions EXCEPT ![minted + 1] =
               [dev |-> q.dev, prov |-> q.prov, target |-> q.target, epoch |-> epoch[q.dev][q.prov]]]
          /\ minted' = minted + 1
          /\ passed
       \/ q.via # 0 /\ dropped /\ (passed \/ End(r))
       \/ passed /\ UNCHANGED <<sessions, minted>>
    /\ UNCHANGED <<control, past, settled, history, bounds>>

\* The stream ends, stays silent too long, or was aborted.
EndStream(r) ==
    /\ requests[r] # None /\ requests[r].stage = "stream"
    /\ End(r)
    /\ UNCHANGED <<control, past, sessions, minted, settled, history, bounds>>

\* A session that was not used for half an hour, or that makes room for another
\* (MAX_SESSIONS).
Sweep(s) ==
    /\ Happens
    /\ running /\ s \in Open
    /\ sessions' = [sessions EXCEPT ![s] = None]
    /\ UNCHANGED <<control, past, requests, minted, walks, settled, history, asked>>
----------------------------------------------------------------------------
(* The page: one call at a time *)

Called == queue = None /\ Happens

\* A device that is already revoked is answered at once.
Revoke(d) ==
    /\ Called
    /\ devices[d].status # "deleted"
    /\ \/ /\ devices[d].status = "live"
          /\ devices' = [devices EXCEPT ![d].status = "revoked"]
          /\ queue' = [op |-> "revoke", dev |-> d]
          /\ UNCHANGED revoked
       \/ /\ devices[d].status = "revoked"
          /\ revoked' = revoked \cup {d}
          /\ UNCHANGED <<devices, queue>>
    /\ UNCHANGED <<saved, settings, past, traffic, walks, settled, epoch, unsaved, asked>>

Delete(d) ==
    /\ Called
    /\ devices[d].status = "revoked"
    /\ devices' = [devices EXCEPT ![d].status = "deleted"]
    /\ queue' = [op |-> "delete", dev |-> d]
    /\ UNCHANGED <<saved, settings, past, traffic, walks, settled, history, asked>>

\* The same providers again are saved too, and nothing is taken.
UpdateProviders(d, providers) ==
    /\ Called
    /\ devices[d].status # "deleted"
    /\ devices' = [devices EXCEPT ![d].providers = providers]
    /\ queue' = [op |-> "update", dev |-> d, removed |-> devices[d].providers \ providers]
    /\ UNCHANGED <<saved, settings, past, traffic, walks, settled, history, asked>>

\* saveConfig switches on or off, with another address or the one it has: what is
\* to be done depends on the settings in memory, which change before the write.
SaveConfig(on, elsewhere) ==
    /\ Called
    /\ wanted' = on
    /\ queue' = [op |-> "config", moved |-> elsewhere \/ on # wanted]
    /\ UNCHANGED <<devices, saved, kept, running, missed, past, traffic, walks, settled, history, asked>>

\* What a call takes from a device: all of it, or some of its providers.
Taken(x) == x.dev = queue.dev /\ (queue.op = "update" => x.prov \in queue.removed)

\* Mutants: the requests or the sessions are kept.
KeepRequests == UNCHANGED requests
KeepSessions == UNCHANGED sessions

\* endActive and the loss of the sessions, for what a call takes.
CutRequests ==
    requests' = [r \in Request |->
                   IF r \in Active /\ Taken(requests[r])
                   THEN [requests[r] EXCEPT !.aborted = TRUE] ELSE requests[r]]
CutSessions ==
    sessions' = [s \in 1..MaxMinted |->
                   IF s \in Open /\ Taken(sessions[s]) THEN None ELSE sessions[s]]

\* closeServer destroys the sockets too: a request that is not registered yet
\* does not notice.
CloseServer ==
    /\ requests' = [r \in Request |->
                      IF requests[r] = None THEN None
                      ELSE IF r \in Active THEN [requests[r] EXCEPT !.aborted = TRUE]
                      ELSE [requests[r] EXCEPT !.gone = TRUE]]
    /\ sessions' = [s \in 1..MaxMinted |-> None]
    /\ running' = FALSE /\ missed' = FALSE

\* Another endpoint, or one that could not be bound before. Mutant: a gateway that
\* was switched off is left as it is.
Reopens == wanted /\ (queue.moved \/ ~running)
Restarts == queue.moved \/ (wanted /\ ~running)

\* A save writes the whole of gateway.json, whatever call it is for.
Save ==
    /\ queue # None /\ queue.op # "listen"
    /\ saved' = devices /\ kept' = wanted
    /\ \/ /\ queue.op \in {"revoke", "delete"}
          /\ CutRequests /\ CutSessions
          /\ revoked' = revoked \cup {queue.dev}
          /\ queue' = None
          /\ UNCHANGED <<running, missed, epoch>>
       \/ /\ queue.op = "update"
          /\ CutRequests /\ CutSessions
          /\ epoch' = [epoch EXCEPT ![queue.dev] = [p \in Provider |-> IF p \in queue.removed THEN @[p] + 1 ELSE @[p]]]
          /\ queue' = None
          /\ UNCHANGED <<running, missed, revoked>>
       \/ /\ queue.op = "config" /\ Restarts
          /\ CloseServer
          /\ queue' = [op |-> "listen"]
          /\ UNCHANGED <<epoch, revoked>>
       \/ /\ queue.op = "config" /\ ~Restarts
          /\ queue' = None
          /\ UNCHANGED <<running, missed, requests, sessions, epoch, revoked>>
    /\ UNCHANGED <<devices, wanted, past, minted, walks, settled, unsaved, bounds>>

\* The port may be taken: the gateway then stays off until it is saved again.
Listen ==
    /\ queue # None /\ queue.op = "listen"
    /\ running' \in IF wanted THEN BOOLEAN ELSE {FALSE}
    /\ queue' = None
    /\ UNCHANGED <<devices, saved, wanted, kept, missed, past, traffic, walks, settled, history, bounds>>

\* The call is told; what it changed in memory stays changed and nothing is cut.
SaveFails ==
    /\ queue # None /\ queue.op # "listen"
    /\ Happens
    /\ \/ queue.op = "config" /\ missed' = (missed \/ queue.moved) /\ UNCHANGED unsaved
       \/ queue.op # "config" /\ unsaved' = unsaved \cup {queue.dev} /\ UNCHANGED missed
    /\ queue' = None
    /\ UNCHANGED <<devices, saved, wanted, kept, running, past, traffic, walks, settled, epoch, revoked, asked>>

Crash ==
    /\ Happens
    /\ devices' = saved /\ wanted' = kept
    /\ queue' = None /\ missed' = FALSE
    /\ requests' = [r \in Request |-> None]
    /\ sessions' = [s \in 1..MaxMinted |-> None]
    /\ walks' = [k \in Reconciler |-> None]
    /\ running' \in IF kept THEN BOOLEAN ELSE {FALSE}
    /\ UNCHANGED <<saved, kept, past, minted, settled, history, asked>>
----------------------------------------------------------------------------
(* Configuration and reconciliation *)

\* A reconciliation has the requests of its start to look at, then the sessions
\* there are by then; when nothing is left it ends.
After(w, todo) ==
    IF todo # {} THEN [w EXCEPT !.todo = todo]
    ELSE IF w.phase = "request" /\ Open # {} THEN [w EXCEPT !.phase = "session", !.todo = Open]
    ELSE None

Go(k, w, todo) ==
    /\ walks' = [walks EXCEPT ![k] = After(w, todo)]
    /\ settled' = IF After(w, todo) = None /\ w.seen > settled THEN w.seen ELSE settled

\* reconcile reads the servers and takes the requests there are.
Begin(k, seen) ==
    /\ walks[k] = None
    /\ Go(k, [seen |-> seen, phase |-> "request", todo |-> {}], Active)

\* The timer runs while the gateway listens.
StartWalk(k) ==
    /\ running /\ Begin(k, Len(past))
    /\ UNCHANGED <<control, past, traffic, history, bounds>>

\* An editor or the page changes the shared server; the page has it reconciled at
\* once, also while nothing listens.
Configure(page) ==
    /\ Happens
    /\ Len(past) < Len(Edits)
    /\ past' = Append(past, Edits[Len(past) + 1])
    /\ \/ ~page /\ UNCHANGED <<walks, settled>>
       \/ page /\ \E k \in Reconciler : Begin(k, Len(past'))
    /\ UNCHANGED <<control, traffic, history, asked>>

\* Mutants: the target is not compared, or the device not looked up.
KeepsTarget(w, x, v) == MayUse(x.dev, x.prov) /\ x.prov \in past[w.seen].for /\ x.prov \in past[v].on
KeepsDevice(w, x, v) == x.prov \in past[w.seen].for /\ x.target = past[w.seen].target /\ x.prov \in past[v].on

\* What reconcile still allows, by the servers it read at its start and by the
\* switch it read for the provider since then (once, and remembered).
Keeps(w, x, v) ==
    /\ MayUse(x.dev, x.prov)
    /\ x.prov \in past[w.seen].for
    /\ x.target = past[w.seen].target
    /\ x.prov \in past[v].on

VisitRequest(k) ==
    /\ walks[k] # None /\ walks[k].phase = "request"
    /\ \E r \in walks[k].todo, v \in walks[k].seen..Len(past) :
         /\ requests' = IF Keeps(walks[k], requests[r], v) THEN requests ELSE [requests EXCEPT ![r].aborted = TRUE]
         /\ Go(k, walks[k], walks[k].todo \ {r})
    /\ UNCHANGED <<control, past, sessions, minted, history, bounds>>

VisitSession(k) ==
    /\ walks[k] # None /\ walks[k].phase = "session"
    /\ \E s \in walks[k].todo, v \in walks[k].seen..Len(past) :
         /\ sessions' = IF sessions[s] = None \/ Keeps(walks[k], sessions[s], v) THEN sessions
                        ELSE [sessions EXCEPT ![s] = None]
         /\ Go(k, walks[k], walks[k].todo \ {s})
    /\ UNCHANGED <<control, past, requests, minted, history, bounds>>

\* The requests it had still to look at have all ended.
NothingLeft(k) ==
    /\ walks[k] # None /\ walks[k].todo = {}
    /\ Go(k, walks[k], {})
    /\ UNCHANGED <<control, past, traffic, history, bounds>>

RequestStep(r) ==
    \/ Serve(r) \/ Authorize(r) \/ Refuse(r)
    \/ Body(r) \/ Look(r) \/ Match(r) \/ Header(r) \/ LookAgain(r) \/ Send(r)
    \/ GiveUp(r) \/ Answer(r) \/ EndStream(r)
Walk(k) == StartWalk(k) \/ VisitRequest(k) \/ VisitSession(k) \/ NothingLeft(k)

Next ==
    \/ \E r \in Request, d \in Device, p \in Uses, kind \in Kinds, s \in {0} \cup Open : Arrive(r, d, p, kind, s)
    \/ \E r \in Request : RequestStep(r) \/ Leave(r)
    \/ \E s \in 1..MaxMinted : Sweep(s)
    \/ \E d \in Device : Revoke(d) \/ Delete(d)
    \/ \E d \in Device, providers \in (SUBSET Provider) \ {{}} : UpdateProviders(d, providers)
    \/ \E on, elsewhere \in BOOLEAN : SaveConfig(on, elsewhere)
    \/ Save \/ Listen \/ SaveFails \/ Crash
    \/ \E page \in BOOLEAN : Configure(page)
    \/ \E k \in Reconciler : Walk(k)

Spec == Init /\ [][Next]_vars

\* The timer of reconcile runs on; nobody has to use the page, and a stream that
\* nobody cuts may last.
FairSpec == Spec /\ \A k \in Reconciler : WF_vars(Walk(k))
----------------------------------------------------------------------------
(* Properties *)

\* Every variable has its type, and a reconciliation is only on its way to
\* requests that are still registered (gateway.ts:613).
TypeOK ==
    /\ devices \in [Device -> Row] /\ saved \in [Device -> Row]
    /\ queue \in Ops \cup {None} /\ {wanted, kept, running, missed} \subseteq BOOLEAN
    /\ past \in Seq(Config) /\ Len(past) \in 1..Len(Edits)
    /\ requests \in [Request -> RequestRow \cup {None}]
    /\ sessions \in [1..MaxMinted -> SessionRow \cup {None}] /\ minted \in 0..MaxMinted
    /\ walks \in [Reconciler -> WalkRow \cup {None}]
    /\ \A k \in Reconciler : walks[k] # None /\ walks[k].phase = "request" => walks[k].todo \subseteq Active
    /\ settled \in 1..Len(Edits)
    /\ epoch \in [Device -> [Provider -> Nat]]
    /\ revoked \subseteq Device /\ unsaved \subseteq Device

\* No more requests are under way than there is room for, however their waits
\* interleave (gateway.ts:899, the slot reserved before any await).
SlotsBounded == Cardinality(Active) <= MaxActive

\* When a reconciliation has ended, whatever goes on upstream or has a session
\* was allowed by the configuration it read or a later one (reconcile, beside
\* requests that were checked before it and registered sessions after it).
SettledIsCut ==
    LET Permitted(x) ==
          /\ \E v \in settled..Len(past) : x.prov \in past[v].for /\ x.target = past[v].target
          /\ \E v \in settled..Len(past) : x.prov \in past[v].on
    IN /\ \A s \in Open : Permitted(sessions[s])
       /\ \A r \in Flowing : Permitted(requests[r])

\* Once a revocation is answered and its writes succeeded, the device has no
\* session and nothing upstream, and never will, through restarts
\* (README.md:80 "Revoke a device on the center to stop it at once").
RevokedIsCut ==
    \A d \in revoked \ unsaved :
      /\ devices[d].status # "live" /\ saved[d].status # "live"
      /\ \A s \in Open : sessions[s].dev # d
      /\ \A r \in Flowing : requests[r].dev # d

\* What was opened before a provider was taken from a device is not revived when
\* the provider is granted again (abortDeviceProviders, gateway.ts:702).
NarrowedIsCut ==
    /\ \A s \in Open : sessions[s].epoch = epoch[sessions[s].dev][sessions[s].prov]
    /\ \A r \in Flowing : requests[r].epoch = epoch[requests[r].dev][requests[r].prov]

\* Once a call has switched the gateway off and its write did not fail, nothing
\* listens; and a gateway that does not listen has no session and serves nobody
\* who is still there, whoever was on the way when it closed (saveConfig and
\* closeServer, gateway.ts:418, 709).
OffIsEmpty ==
    LET answered == queue = None \/ queue.op \notin {"config", "listen"}
    IN (answered /\ ~wanted /\ ~missed) \/ ~running =>
         ~running /\ Open = {} /\ \A r \in Flowing : requests[r].gone

\* README.md:108: the gateway "listens only while it is switched on".
ListensWhileOn == queue = None /\ ~kept => ~running

AllowedNow(x) ==
    MayUse(x.dev, x.prov) /\ x.prov \in config.on /\ x.prov \in config.for /\ x.target = config.target

\* While the gateway listens, what is no longer allowed is cut in the end, also
\* when the write that should have cut it failed or a file was edited by hand (the
\* timer of reconcile).
DeniedEnds ==
    /\ \A r \in Request : []<>(running => r \notin Flowing \/ AllowedNow(requests[r]))
    /\ \A s \in 1..MaxMinted : []<>(running => s \notin Open \/ AllowedNow(sessions[s]))

\* README.md:80: revoking a device stops it at once, its live calls are cut.
RevokeCutsAtOnce == \A r \in Flowing : requests[r].dev \notin revoked
=============================================================================
