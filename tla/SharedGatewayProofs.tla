----------------------- MODULE SharedGatewayProofs -----------------------
(***************************************************************************)
(* Proofs about SharedGateway, for any devices, providers, edits and       *)
(* bounds.                                                                 *)
(***************************************************************************)
EXTENDS SharedGateway, TLAPS

\* A request that is registered and was not cut.
Alive(r) == r \in Active /\ ~requests[r].aborted

\* What the types leave out: a request that is registered has its target.
ShapeInv ==
    /\ \A r \in Active : requests[r].target # None
    /\ settled <= Len(past)
    /\ \A k \in Reconciler : walks[k] # None => walks[k].seen <= Len(past)

\* Who is revoked in memory or in the file was revoked by an answered call, or
\* by one whose write failed, or by the one that holds the queue.
RevokedInv ==
    /\ \A d \in Device :
         /\ devices[d].status # "live" =>
              \/ d \in revoked \cup unsaved
              \/ queue # None /\ queue.op = "revoke" /\ queue.dev = d
         /\ saved[d].status # "live" => d \in revoked \cup unsaved
         /\ d \in revoked \ unsaved => devices[d].status # "live" /\ saved[d].status # "live"
    /\ queue # None /\ queue.op \in {"revoke", "delete"} => devices[queue.dev].status # "live"
    /\ \A s \in Open : sessions[s].dev \notin revoked \ unsaved
    /\ \A r \in Request : Alive(r) /\ requests[r].stage # "body" => requests[r].dev \notin revoked \ unsaved

NarrowedInv ==
    /\ \A s \in Open : sessions[s].epoch = epoch[sessions[s].dev][sessions[s].prov]
    /\ \A r \in Request : Alive(r) => requests[r].epoch = epoch[requests[r].dev][requests[r].prov]

OffInv ==
    /\ queue # None /\ queue.op = "listen" => ~running
    /\ running => wanted \/ missed \/ (queue # None /\ queue.op = "config" /\ queue.moved)
    /\ \A r \in Request : Alive(r) /\ requests[r].gone /\ requests[r].kind = "initialize" => requests[r].stage = "body"
    /\ ~running => /\ Open = {}
                   /\ \A r \in Request : requests[r] # None /\ ~requests[r].aborted => requests[r].gone

\* What the servers, and the switches, of a configuration from v on allowed.
ServedFrom(v, x) == \E i \in v..Len(past) : x.prov \in past[i].for /\ x.target = past[i].target
SwitchedFrom(v, x) == \E i \in v..Len(past) : x.prov \in past[i].on
PermittedFrom(v, x) == ServedFrom(v, x) /\ SwitchedFrom(v, x)

\* A request that is registered has the switch looked at once it has its body.
Unlooked == {"body", "look"}
FitsFrom(v, q) == ServedFrom(v, q) /\ (q.stage \notin Unlooked => SwitchedFrom(v, q))

SettledInv ==
    /\ \A s \in Open : PermittedFrom(settled, sessions[s])
    /\ \A r \in Request : Alive(r) => FitsFrom(settled, requests[r])
    /\ \A k \in Reconciler : walks[k] # None =>
         /\ \A r \in Request : Alive(r) /\ (walks[k].phase = "request" => r \notin walks[k].todo)
              => FitsFrom(walks[k].seen, requests[r])
         /\ walks[k].phase = "session" =>
              \A s \in Open \ walks[k].todo : PermittedFrom(walks[k].seen, sessions[s])
-----------------------------------------------------------------------------
(* Types *)

USE DEF Request, Unregistered, settings

LEMMA RowEdits ==
  ASSUME NEW q \in RequestRow
  PROVE  /\ \A st \in Stages : [q EXCEPT !.stage = st] \in RequestRow
         /\ [q EXCEPT !.aborted = TRUE] \in RequestRow
         /\ [q EXCEPT !.gone = TRUE] \in RequestRow
         /\ \A b, c \in BOOLEAN : [q EXCEPT !.gone = b, !.aborted = c] \in RequestRow
BY DEF RequestRow

LEMMA DeviceEdits ==
  ASSUME NEW x \in Row
  PROVE  /\ \A st \in {"live", "revoked", "deleted"} : [x EXCEPT !.status = st] \in Row
         /\ \A ps \in (SUBSET Provider) \ {{}} : [x EXCEPT !.providers = ps] \in Row
         /\ x.providers \subseteq Provider
BY DEF Row

\* A request that ends leaves the others, and the reconciliations lose it.
LEMMA EndType ==
  ASSUME TypeOK, NEW r \in Request, End(r)
  PROVE  /\ requests' \in [Request -> RequestRow \cup {None}]
         /\ walks' \in [Reconciler -> WalkRow \cup {None}]
         /\ \A k \in Reconciler : walks'[k] # None /\ walks'[k].phase = "request" => walks'[k].todo \subseteq Active'
<1> USE NoneAssumption
<1>1. requests' \in [Request -> RequestRow \cup {None}]
  BY DEF TypeOK, End
<1>2. Active' = Active \ {r}
  BY DEF TypeOK, End, Active
<1>3. ASSUME NEW k \in Reconciler
      PROVE  /\ walks'[k] \in WalkRow \cup {None}
             /\ walks'[k] # None /\ walks'[k].phase = "request" => walks'[k].todo \subseteq Active'
  <2>1. walks'[k] = Without(walks[k], r)
    BY DEF End
  <2>2. CASE walks[k] = None \/ walks[k].phase # "request"
    BY <2>1, <2>2 DEF TypeOK, Without
  <2>3. CASE walks[k] # None /\ walks[k].phase = "request"
    <3>1. walks'[k] = [walks[k] EXCEPT !.todo = @ \ {r}]
      BY <2>1, <2>3 DEF Without
    <3>2. walks[k] \in WalkRow /\ walks[k].todo \subseteq Active
      BY <2>3 DEF TypeOK
    <3>3. walks'[k] \in WalkRow
      BY <2>3, <3>1, <3>2 DEF WalkRow
    <3>4. walks'[k].todo = walks[k].todo \ {r}
      BY <3>1, <3>2 DEF WalkRow
    <3> QED BY <1>2, <3>2, <3>3, <3>4
  <2> QED BY <2>2, <2>3
<1>4. walks' = [k \in Reconciler |-> Without(walks[k], r)]
  BY DEF End
<1> QED BY <1>1, <1>3, <1>4

\* What a call of the page makes of a request: nothing, or a request that is cut.
LEMMA CutType ==
  ASSUME TypeOK, CutRequests
  PROVE  /\ requests' \in [Request -> RequestRow \cup {None}] /\ Active' = Active
         /\ \A r \in Request : \/ requests'[r] = requests[r]
                              \/ /\ r \in Active /\ requests'[r] = [requests[r] EXCEPT !.aborted = TRUE]
                                 /\ requests'[r] \in RequestRow
<1>1. ASSUME NEW r \in Request
      PROVE  /\ requests'[r] \in RequestRow \cup {None}
             /\ \/ requests'[r] = requests[r]
                \/ /\ r \in Active /\ requests'[r] = [requests[r] EXCEPT !.aborted = TRUE]
                   /\ requests'[r] \in RequestRow
             /\ r \in Active' <=> r \in Active
  <2>1. CASE r \in Active /\ Taken(requests[r])
    <3>1. requests'[r] = [requests[r] EXCEPT !.aborted = TRUE]
      BY <2>1 DEF CutRequests
    <3>2. requests[r] \in RequestRow
      BY <2>1 DEF Active, TypeOK
    <3>3. requests'[r] \in RequestRow
      BY <3>1, <3>2, RowEdits
    <3>4. requests'[r] # None /\ requests'[r].stage = requests[r].stage
      BY <3>1, <3>2, <3>3, NoneAssumption DEF RequestRow
    <3> QED BY <2>1, <3>1, <3>3, <3>4 DEF Active
  <2>2. CASE ~(r \in Active /\ Taken(requests[r]))
    <3>1. requests'[r] = requests[r]
      BY <2>2 DEF CutRequests
    <3> QED BY <3>1 DEF TypeOK, Active
  <2> QED BY <2>1, <2>2
<1>2. requests' = [r \in Request |-> requests'[r]]
  BY DEF CutRequests
<1>3. Active' = Active
  BY <1>1 DEF Active
<1> QED BY <1>1, <1>2, <1>3

LEMMA CloseType ==
  ASSUME TypeOK, CloseServer
  PROVE  /\ requests' \in [Request -> RequestRow \cup {None}] /\ Active' = Active
         /\ \A r \in Request : requests[r] # None => requests'[r] \in RequestRow
         /\ \A r \in Active : requests'[r].aborted
         /\ \A r \in Request \ Active : requests[r] # None => requests'[r].gone
<1>1. ASSUME NEW r \in Request, requests[r] # None
      PROVE  /\ requests'[r] \in RequestRow
             /\ r \in Active => requests'[r].aborted
             /\ r \notin Active => requests'[r].gone
             /\ r \in Active' <=> r \in Active
  <2>1. requests[r] \in RequestRow
    BY <1>1 DEF TypeOK
  <2>2. requests'[r] = IF r \in Active THEN [requests[r] EXCEPT !.aborted = TRUE] ELSE [requests[r] EXCEPT !.gone = TRUE]
    BY <1>1 DEF CloseServer
  <2>3. requests'[r] \in RequestRow
    BY <2>1, <2>2, RowEdits
  <2>4. requests'[r] # None /\ requests'[r].stage = requests[r].stage
    BY <2>1, <2>2, <2>3, NoneAssumption DEF RequestRow
  <2>5. (r \in Active => requests'[r].aborted) /\ (r \notin Active => requests'[r].gone)
    BY <2>1, <2>2 DEF RequestRow
  <2> QED BY <1>1, <2>3, <2>4, <2>5 DEF Active
<1>2. ASSUME NEW r \in Request, requests[r] = None
      PROVE  requests'[r] = None
  BY <1>2 DEF CloseServer
<1>3. requests' = [r \in Request |-> requests'[r]]
  BY DEF CloseServer
<1>4. Active' = Active
  BY <1>1, <1>2 DEF Active
<1> QED BY <1>1, <1>2, <1>3, <1>4 DEF Active

\* A reconciliation that goes on has registered requests or its sessions to look at.
LEMMA GoType ==
  ASSUME TypeOK, NEW k \in Reconciler, NEW w \in WalkRow, NEW todo, Go(k, w, todo),
         w.phase = "request" => todo \subseteq Active,
         w.phase = "session" => todo \subseteq 1..MaxMinted
  PROVE  /\ walks' \in [Reconciler -> WalkRow \cup {None}]
         /\ \A j \in Reconciler : walks'[j] # None /\ walks'[j].phase = "request" => walks'[j].todo \subseteq Active
         /\ settled' \in 1..Len(Edits)
<1> DEFINE a == After(w, todo)
<1>1. a \in WalkRow \cup {None} /\ (a # None /\ a.phase = "request" => a.todo \subseteq Active)
  <2>1. CASE todo # {}
    BY <2>1 DEF After, WalkRow, Active
  <2>2. CASE todo = {} /\ w.phase = "request" /\ Open # {}
    <3>1. a = [w EXCEPT !.phase = "session", !.todo = Open]
      BY <2>2 DEF After
    <3>2. Open \subseteq 1..MaxMinted
      BY GatewayAssumption DEF Open, TypeOK
    <3> QED BY <3>1, <3>2 DEF WalkRow
  <2>3. CASE todo = {} /\ ~(w.phase = "request" /\ Open # {})
    BY <2>3 DEF After
  <2> QED BY <2>1, <2>2, <2>3
<1>2. walks' = [walks EXCEPT ![k] = a]
  BY DEF Go
<1>3. settled' \in 1..Len(Edits)
  BY DEF Go, TypeOK, WalkRow
<1> HIDE DEF a
<1> QED BY <1>1, <1>2, <1>3 DEF TypeOK

LEMMA GatewayTypeStep == TypeOK /\ ShapeInv /\ [Next]_vars => TypeOK'
<1> SUFFICES ASSUME TypeOK, ShapeInv, [Next]_vars PROVE TypeOK'
  OBVIOUS
<1> USE GatewayAssumption, NoneAssumption DEF TypeOK
<1>1. CASE UNCHANGED vars
  BY <1>1 DEF vars, Active
<1>2. ASSUME NEW r \in Request, NEW d \in Device, NEW p \in Uses, NEW kind \in Kinds, NEW s \in {0} \cup Open,
             Arrive(r, d, p, kind, s)
      PROVE  TypeOK'
  <2>1. requests' \in [Request -> RequestRow \cup {None}] /\ Active \subseteq Active'
    BY <1>2 DEF Arrive, RequestRow, Stages, Active, Open
  <2> QED BY <1>2, <2>1 DEF Arrive, control, history
<1>3. ASSUME NEW r \in Request, RequestStep(r) PROVE TypeOK'
  <2>1. CASE Authorize(r)
    <3> DEFINE row == [requests[r] EXCEPT !.stage = "body", !.target = config.target,
                                          !.epoch = epoch[requests[r].dev][requests[r].prov]]
    <3>1. requests[r] \in RequestRow
      BY <2>1 DEF Authorize
    <3>2. config.target \in Target
      <4>1. past[Len(past)] \in Config
        OBVIOUS
      <4> QED BY <4>1 DEF config, Config
    <3>3. epoch[requests[r].dev][requests[r].prov] \in Nat
      BY <3>1 DEF RequestRow
    <3>4. row \in RequestRow
      BY <3>1, <3>2, <3>3 DEF RequestRow, Stages
    <3>5. requests' = [requests EXCEPT ![r] = row]
      BY <2>1 DEF Authorize
    <3>6. row # None /\ row.stage = "body"
      BY <3>1, <3>4 DEF RequestRow
    <3> HIDE DEF row
    <3>7. requests' \in [Request -> RequestRow \cup {None}] /\ Active \subseteq Active'
      BY <3>4, <3>5, <3>6 DEF Active
    <3> QED BY <2>1, <3>7 DEF Authorize, control, history, bounds
  <2>2. CASE Refuse(r)
    <3>1. sessions' \in [1..MaxMinted -> SessionRow \cup {None}]
      BY <2>2 DEF Refuse
    <3> QED BY <2>2, <3>1, EndType DEF Refuse, control, history, bounds
  <2>3. ASSUME NEW from \in Stages, NEW to \in Stages, to \in Unregistered => from \in Unregistered,
               NEW goesOn, Step(r, from, to, goesOn)
        PROVE  TypeOK'
    <3>1. CASE End(r)
      BY <2>3, <3>1, EndType DEF Step, control, history, bounds
    <3>2. CASE requests' = [requests EXCEPT ![r].stage = to] /\ UNCHANGED walks
      <4>1. requests[r] \in RequestRow
        BY <2>3 DEF Step
      <4>2. [requests[r] EXCEPT !.stage = to] \in RequestRow /\ [requests[r] EXCEPT !.stage = to].stage = to
        BY <4>1, RowEdits DEF RequestRow
      <4>3. requests' \in [Request -> RequestRow \cup {None}] /\ Active \subseteq Active'
        BY <2>3, <3>2, <4>2 DEF Step, Active
      <4> QED BY <2>3, <3>2, <4>3 DEF Step, control, history, bounds
    <3> QED BY <2>3, <3>1, <3>2 DEF Step
  <2>4. CASE Serve(r) \/ Body(r) \/ Look(r) \/ Match(r) \/ Header(r) \/ LookAgain(r) \/ Send(r)
    BY <2>3, <2>4 DEF Serve, Body, Look, Match, Header, LookAgain, Send, Stages
  <2>5. CASE GiveUp(r) \/ EndStream(r)
    BY <2>5, EndType DEF GiveUp, EndStream, control, history, bounds
  <2>6. CASE Answer(r)
    <3>1. requests[r] \in RequestRow
      BY <2>6 DEF Answer
    <3>2. [requests[r] EXCEPT !.stage = "stream"] \in RequestRow /\ [requests[r] EXCEPT !.stage = "stream"].stage = "stream"
      <4>1. "stream" \in Stages
        BY DEF Stages
      <4> QED BY <3>1, <4>1, RowEdits DEF RequestRow
    <3>3. CASE requests' = [requests EXCEPT ![r].stage = "stream"] /\ UNCHANGED walks
      <4>1. requests' \in [Request -> RequestRow \cup {None}] /\ Active \subseteq Active'
        BY <3>2, <3>3 DEF Active
      <4>2. minted' \in 0..MaxMinted
        BY <2>6 DEF Answer
      <4>3. sessions' \in [1..MaxMinted -> SessionRow \cup {None}]
        <5> DEFINE row == [dev |-> requests[r].dev, prov |-> requests[r].prov, target |-> requests[r].target,
                           epoch |-> epoch[requests[r].dev][requests[r].prov]]
        <5>1. requests[r].target # None
          BY <2>6, <3>1 DEF Answer, ShapeInv, Active
        <5>2. row \in SessionRow
          BY <3>1, <5>1 DEF RequestRow, SessionRow
        <5>3. \/ sessions' = sessions
              \/ sessions' = [sessions EXCEPT ![requests[r].via] = None]
              \/ sessions' = [sessions EXCEPT ![minted + 1] = row]
          BY <2>6 DEF Answer
        <5> HIDE DEF row
        <5> QED BY <5>2, <5>3
      <4> QED BY <2>6, <3>3, <4>1, <4>2, <4>3 DEF Answer, control, history, bounds
    <3>4. CASE End(r) /\ sessions' = [sessions EXCEPT ![requests[r].via] = None] /\ UNCHANGED minted
      BY <2>6, <3>4, EndType DEF Answer, control, history, bounds
    <3> QED BY <2>6, <3>3, <3>4 DEF Answer
  <2> QED BY <1>3, <2>1, <2>2, <2>4, <2>5, <2>6 DEF RequestStep
<1>4. ASSUME NEW r \in Request, Leave(r) PROVE TypeOK'
  <2> DEFINE row == [requests[r] EXCEPT !.gone = (requests[r].stage \in Unregistered),
                                        !.aborted = (requests[r].stage \notin Unregistered)]
  <2>1. row \in RequestRow /\ row.stage = requests[r].stage
    <3>1. requests[r] \in RequestRow
      BY <1>4 DEF Leave
    <3>2. CASE requests[r].stage \in Unregistered
      <4>1. row = [requests[r] EXCEPT !.gone = TRUE, !.aborted = FALSE]
        BY <3>2
      <4> QED BY <3>1, <4>1 DEF RequestRow
    <3>3. CASE requests[r].stage \notin Unregistered
      <4>1. row = [requests[r] EXCEPT !.gone = FALSE, !.aborted = TRUE]
        BY <3>3, (requests[r].stage \in Unregistered) = FALSE, (requests[r].stage \notin Unregistered) = TRUE
      <4> QED BY <3>1, <4>1 DEF RequestRow
    <3> QED BY <3>2, <3>3
  <2>2. requests' = [requests EXCEPT ![r] = row]
    BY <1>4 DEF Leave
  <2>3. requests' \in [Request -> RequestRow \cup {None}] /\ Active = Active'
    <3> HIDE DEF row
    <3>1. requests[r] # None /\ row # None
      BY <1>4, <2>1 DEF Leave
    <3> QED BY <2>1, <2>2, <3>1 DEF Active
  <2> QED BY <1>4, <2>3 DEF Leave, control, history
<1>5. ASSUME NEW s \in 1..MaxMinted, Sweep(s) PROVE TypeOK'
  BY <1>5 DEF Sweep, control, history, Active
<1>6. ASSUME NEW d \in Device, Revoke(d) \/ Delete(d) PROVE TypeOK'
  <2>1. devices' \in [Device -> Row]
    <3>1. \A st \in {"revoked", "deleted"} : [devices EXCEPT ![d].status = st] \in [Device -> Row]
      BY DeviceEdits
    <3> QED BY <1>6, <3>1 DEF Revoke, Delete
  <2>2. queue' \in Ops \cup {None} /\ revoked' \subseteq Device /\ UNCHANGED unsaved
    BY <1>6 DEF Revoke, Delete, history, Ops
  <2>3. UNCHANGED <<saved, settings, past, requests, sessions, minted, walks, settled, epoch, asked>>
    BY <1>6 DEF Revoke, Delete, traffic, history
  <2> QED BY <2>1, <2>2, <2>3 DEF Active
<1>7. ASSUME NEW d \in Device, NEW providers \in (SUBSET Provider) \ {{}}, UpdateProviders(d, providers) PROVE TypeOK'
  <2>1. devices' \in [Device -> Row]
    BY <1>7, DeviceEdits DEF UpdateProviders
  <2>2. queue' \in Ops
    BY <1>7, DeviceEdits DEF UpdateProviders, Ops
  <2> QED BY <1>7, <2>1, <2>2 DEF UpdateProviders, traffic, history, Active
<1>8. ASSUME NEW on \in BOOLEAN, NEW elsewhere \in BOOLEAN, SaveConfig(on, elsewhere) PROVE TypeOK'
  BY <1>8 DEF SaveConfig, traffic, history, Ops, Active
<1>9. CASE Save
  <2>1. CASE queue.op # "config"
    <3>1. CutRequests /\ CutSessions
      BY <1>9, <2>1 DEF Save
    <3>2. sessions' \in [1..MaxMinted -> SessionRow \cup {None}]
      BY <3>1 DEF CutSessions
    <3>3. requests' \in [Request -> RequestRow \cup {None}] /\ Active' = Active
      BY <3>1, CutType
    <3>4. queue \in Ops /\ queue.dev \in Device
      BY <1>9, <2>1 DEF Save, Ops
    <3>5. epoch' \in [Device -> [Provider -> Nat]]
      <4>1. CASE queue.op = "update"
        <5> DEFINE e == [p \in Provider |-> IF p \in queue.removed THEN epoch[queue.dev][p] + 1 ELSE epoch[queue.dev][p]]
        <5>1. e \in [Provider -> Nat]
          BY <3>4
        <5>2. epoch' = [epoch EXCEPT ![queue.dev] = e]
          BY <1>9, <4>1 DEF Save
        <5> HIDE DEF e
        <5> QED BY <5>1, <5>2
      <4> QED BY <1>9, <2>1, <4>1 DEF Save
    <3>6. revoked' \subseteq Device
      BY <1>9, <2>1, <3>4 DEF Save
    <3>7. queue' = None /\ UNCHANGED <<running, missed, devices, wanted, past, minted, walks, settled, unsaved>>
          /\ saved' = devices /\ kept' = wanted
      BY <1>9, <2>1 DEF Save
    <3> QED BY <3>2, <3>3, <3>5, <3>6, <3>7
  <2>2. CASE queue.op = "config" /\ Restarts
    <3>1. CloseServer
      BY <1>9, <2>2 DEF Save
    <3>2. requests' \in [Request -> RequestRow \cup {None}] /\ Active' = Active
      BY <3>1, CloseType
    <3>3. queue' \in Ops /\ UNCHANGED <<epoch, revoked, devices, wanted, past, minted, walks, settled, unsaved>>
          /\ saved' = devices /\ kept' = wanted
      BY <1>9, <2>2 DEF Save, Ops
    <3>4. sessions' \in [1..MaxMinted -> SessionRow \cup {None}] /\ running' = FALSE /\ missed' = FALSE
      BY <3>1 DEF CloseServer
    <3> QED BY <3>2, <3>3, <3>4
  <2>3. CASE queue.op = "config" /\ ~Restarts
    BY <1>9, <2>3 DEF Save, bounds, Active
  <2> QED BY <2>1, <2>2, <2>3
<1>10. CASE Listen
  BY <1>10 DEF Listen, traffic, history, Active
<1>11. CASE SaveFails
  BY <1>11 DEF SaveFails, traffic, Ops, Active
<1>12. CASE Crash
  BY <1>12 DEF Crash, history, Active
<1>13. ASSUME NEW page \in BOOLEAN, Configure(page) PROVE TypeOK'
  <2>1. Edits[Len(past) + 1] \in Config /\ Len(past) + 1 \in 1..Len(Edits)
    <3>1. Len(past) + 1 \in 1..Len(Edits)
      BY <1>13 DEF Configure
    <3>2. Edits \in Seq(Config)
      BY DEF Config
    <3> QED BY <3>1, <3>2
  <2>2. past' \in Seq(Config) /\ Len(past') = Len(past) + 1
    BY <1>13, <2>1 DEF Configure
  <2>3. CASE UNCHANGED <<walks, settled>>
    BY <1>13, <2>1, <2>2, <2>3 DEF Configure, control, traffic, history, Active
  <2>4. ASSUME NEW k \in Reconciler, Begin(k, Len(past')) PROVE TypeOK'
    <3> DEFINE w == [seen |-> Len(past'), phase |-> "request", todo |-> {}]
    <3>1. w \in WalkRow /\ w.phase = "request"
      BY <2>1, <2>2 DEF WalkRow
    <3>2. Go(k, w, Active)
      BY <2>4 DEF Begin
    <3> HIDE DEF w
    <3>3. /\ walks' \in [Reconciler -> WalkRow \cup {None}] /\ settled' \in 1..Len(Edits)
          /\ \A j \in Reconciler : walks'[j] # None /\ walks'[j].phase = "request" => walks'[j].todo \subseteq Active
      BY <3>1, <3>2, GoType
    <3> QED BY <1>13, <2>1, <2>2, <3>3 DEF Configure, control, traffic, history, Active
  <2> QED BY <1>13, <2>3, <2>4 DEF Configure
<1>14. ASSUME NEW k \in Reconciler, Walk(k) PROVE TypeOK'
  <2>1. CASE StartWalk(k)
    <3> DEFINE w == [seen |-> Len(past), phase |-> "request", todo |-> {}]
    <3>1. w \in WalkRow
      BY DEF WalkRow
    <3> QED BY <2>1, <3>1, GoType DEF StartWalk, Begin, control, traffic, history, bounds, Active
  <2>2. CASE VisitRequest(k)
    <3>1. PICK r \in walks[k].todo, v \in walks[k].seen..Len(past) :
            /\ requests' = IF Keeps(walks[k], requests[r], v) THEN requests ELSE [requests EXCEPT ![r].aborted = TRUE]
            /\ Go(k, walks[k], walks[k].todo \ {r})
      BY <2>2 DEF VisitRequest
    <3>2. walks[k] \in WalkRow /\ walks[k].phase = "request" /\ r \in Active /\ r \in Request
      BY <2>2 DEF VisitRequest, Active
    <3>3. [requests[r] EXCEPT !.aborted = TRUE] \in RequestRow
          /\ [requests[r] EXCEPT !.aborted = TRUE].stage = requests[r].stage
      <4>1. requests[r] \in RequestRow
        BY <3>2 DEF Active
      <4> QED BY <4>1, RowEdits DEF RequestRow
    <3>4. requests' \in [Request -> RequestRow \cup {None}] /\ Active' = Active
      BY ZenonT(40), <3>1, <3>2, <3>3 DEF Active
    <3> QED BY <2>2, <3>1, <3>2, <3>4, GoType DEF VisitRequest, control, history, bounds
  <2>3. CASE VisitSession(k)
    <3>1. PICK s \in walks[k].todo, v \in walks[k].seen..Len(past) :
            /\ sessions' = IF sessions[s] = None \/ Keeps(walks[k], sessions[s], v) THEN sessions
                           ELSE [sessions EXCEPT ![s] = None]
            /\ Go(k, walks[k], walks[k].todo \ {s})
      BY <2>3 DEF VisitSession
    <3>2. walks[k] \in WalkRow /\ walks[k].phase = "session" /\ walks[k].todo \subseteq 1..MaxMinted
      BY <2>3 DEF VisitSession, WalkRow
    <3>3. sessions' \in [1..MaxMinted -> SessionRow \cup {None}]
      BY <3>1
    <3> QED BY <2>3, <3>1, <3>2, <3>3, GoType DEF VisitSession, control, history, bounds, Active
  <2>4. CASE NothingLeft(k)
    <3>1. walks[k] \in WalkRow
      BY <2>4 DEF NothingLeft
    <3> QED BY <2>4, <3>1, GoType DEF NothingLeft, control, traffic, history, bounds, Active
  <2> QED BY <1>14, <2>1, <2>2, <2>3, <2>4 DEF Walk
<1> QED BY <1>1, <1>2, <1>3, <1>4, <1>5, <1>6, <1>7, <1>8, <1>9, <1>10, <1>11, <1>12, <1>13, <1>14 DEF Next

\* What a step of a request makes of the others: nothing.
LEMMA StepRow ==
  ASSUME TypeOK, NEW r \in Request, requests[r] # None, NEW to \in Stages,
         requests' = [requests EXCEPT ![r].stage = to]
  PROVE  /\ requests[r] \in RequestRow /\ requests'[r] \in RequestRow
         /\ requests'[r] = [requests[r] EXCEPT !.stage = to]
         /\ requests'[r].stage = to /\ requests'[r].aborted = requests[r].aborted
         /\ requests'[r].dev = requests[r].dev /\ requests'[r].prov = requests[r].prov
         /\ requests'[r].target = requests[r].target /\ requests'[r].epoch = requests[r].epoch
         /\ requests'[r].gone = requests[r].gone /\ requests'[r].kind = requests[r].kind
         /\ \A q \in Request \ {r} : requests'[q] = requests[q]
         /\ to \notin Unregistered => Active' = Active \cup {r}
<1>1. requests[r] \in RequestRow /\ requests'[r] = [requests[r] EXCEPT !.stage = to]
      /\ \A q \in Request \ {r} : requests'[q] = requests[q]
  BY DEF TypeOK
<1>2. requests'[r] \in RequestRow
  BY ZenonT(40), <1>1, RowEdits
<1>3. /\ requests'[r].stage = to /\ requests'[r].aborted = requests[r].aborted
      /\ requests'[r].dev = requests[r].dev /\ requests'[r].prov = requests[r].prov
      /\ requests'[r].target = requests[r].target /\ requests'[r].epoch = requests[r].epoch
      /\ requests'[r].gone = requests[r].gone /\ requests'[r].kind = requests[r].kind
  BY <1>1 DEF RequestRow
<1>4. to \notin Unregistered => Active' = Active \cup {r}
  BY <1>1, <1>2, <1>3, NoneAssumption DEF Active
<1> QED BY <1>1, <1>2, <1>3, <1>4

LEMMA CutRow ==
  ASSUME TypeOK, NEW r \in Active, NEW row, row = [requests[r] EXCEPT !.aborted = TRUE]
  PROVE  /\ requests[r] \in RequestRow /\ row \in RequestRow /\ row # None
         /\ row.stage = requests[r].stage /\ row.aborted
         /\ row.dev = requests[r].dev /\ row.prov = requests[r].prov
         /\ row.target = requests[r].target /\ row.epoch = requests[r].epoch
         /\ row.gone = requests[r].gone /\ row.kind = requests[r].kind
<1>1. requests[r] \in RequestRow
  BY DEF TypeOK, Active
<1>2. row \in RequestRow
  BY <1>1, RowEdits
<1> QED BY <1>1, <1>2, NoneAssumption DEF RequestRow

LEMMA AuthorizeRow ==
  ASSUME TypeOK, NEW r \in Request, Authorize(r)
  PROVE  /\ requests[r] \in RequestRow /\ requests'[r] \in RequestRow
         /\ requests'[r].stage = "body" /\ requests'[r].aborted = requests[r].aborted
         /\ requests'[r].dev = requests[r].dev /\ requests'[r].prov = requests[r].prov
         /\ requests'[r].target = config.target /\ config.target \in Target /\ requests[r].prov \in config.for
         /\ requests'[r].epoch = epoch[requests[r].dev][requests[r].prov]
         /\ requests'[r].gone = requests[r].gone /\ requests'[r].kind = requests[r].kind
         /\ \A q \in Request \ {r} : requests'[q] = requests[q]
         /\ Active' = Active \cup {r}
<1>1. requests[r] \in RequestRow
  BY DEF Authorize, TypeOK
<1>2. config \in Config
  BY GatewayAssumption DEF config, TypeOK
<1>3. requests'[r] = [requests[r] EXCEPT !.stage = "body", !.target = config.target,
                                         !.epoch = epoch[requests[r].dev][requests[r].prov]]
      /\ \A q \in Request \ {r} : requests'[q] = requests[q]
  BY DEF Authorize, TypeOK
<1>4. epoch[requests[r].dev][requests[r].prov] \in Nat
  BY <1>1 DEF RequestRow, TypeOK
<1>5. requests'[r] \in RequestRow
  BY <1>1, <1>2, <1>3, <1>4 DEF RequestRow, Config, Stages
<1>6. /\ requests'[r].stage = "body" /\ requests'[r].aborted = requests[r].aborted
      /\ requests'[r].dev = requests[r].dev /\ requests'[r].prov = requests[r].prov
      /\ requests'[r].target = config.target
      /\ requests'[r].epoch = epoch[requests[r].dev][requests[r].prov]
      /\ requests'[r].gone = requests[r].gone /\ requests'[r].kind = requests[r].kind
  BY <1>1, <1>3 DEF RequestRow
<1>7. Active' = Active \cup {r}
  BY <1>3, <1>5, <1>6, NoneAssumption DEF Active
<1> QED BY <1>1, <1>2, <1>3, <1>5, <1>6, <1>7 DEF Authorize, Admitted, Config

-----------------------------------------------------------------------------
(* What a step makes of the requests and the sessions *)

\* What a request was registered for does not change.
SameAs(q, o) == /\ q.dev = o.dev /\ q.prov = o.prov /\ q.target = o.target /\ q.epoch = o.epoch
                /\ q.kind = o.kind /\ q.gone = o.gone

\* A registered request goes on, or is cut; it gets its body only when its
\* device may still go on and its client is still there.
GoesOn(r) ==
    /\ r \in Active /\ SameAs(requests'[r], requests[r])
    /\ requests[r].aborted => requests'[r].aborted
    /\ requests'[r].stage = "body" => requests[r].stage = "body"
    /\ requests[r].stage = "body" /\ requests'[r].stage # "body" =>
         StillAllowed(r) /\ ~(requests[r].kind = "initialize" /\ requests[r].gone)
    /\ requests[r].stage \in Unlooked /\ requests'[r].stage \notin Unlooked => SwitchedOn(r) /\ UNCHANGED past

LEMMA EndRow ==
  ASSUME TypeOK, NEW r \in Request, End(r), NEW q \in Request, requests'[q] # None
  PROVE  requests'[q] = requests[q] /\ q # r
BY DEF TypeOK, End

LEMMA SameGoesOn ==
  ASSUME NEW r \in Active', requests'[r] = requests[r]
  PROVE  GoesOn(r)
BY DEF GoesOn, SameAs, Active

LEMMA CutGoesOn ==
  ASSUME TypeOK, NEW r \in Active, requests'[r] = [requests[r] EXCEPT !.aborted = TRUE]
  PROVE  GoesOn(r)
BY CutRow DEF GoesOn, SameAs

\* Whoever is registered after a step was registered before or is being authorized.
LEMMA ActiveStep ==
  ASSUME TypeOK, [Next]_vars, NEW r \in Active'
  PROVE  GoesOn(r) \/ Authorize(r)
<1> r \in Request /\ requests'[r] # None /\ requests'[r].stage \notin Unregistered
  BY DEF Active
<1>1. CASE UNCHANGED requests
  BY <1>1, SameGoesOn
<1>2. ASSUME NEW q \in Request, NEW d \in Device, NEW p \in Uses, NEW kind \in Kinds, NEW s \in {0} \cup Open,
             Arrive(q, d, p, kind, s)
      PROVE  GoesOn(r)
  <2>1. r # q
    BY <1>2 DEF Arrive, TypeOK
  <2> QED BY <1>2, <2>1, SameGoesOn DEF Arrive, TypeOK
<1>3. ASSUME NEW q \in Request, End(q) PROVE GoesOn(r)
  BY <1>3, EndRow, SameGoesOn
<1>4. ASSUME NEW q \in Request, RequestStep(q) PROVE GoesOn(r) \/ Authorize(r)
  <2>1. CASE Authorize(q)
    BY <2>1, AuthorizeRow, SameGoesOn
  <2>2. ASSUME NEW from \in Stages \ Unregistered, NEW to \in (Stages \ Unregistered) \ {"body"}, NEW goesOn,
               Step(q, from, to, goesOn),
               from = "body" => (goesOn => StillAllowed(q) /\ ~(requests[q].kind = "initialize" /\ requests[q].gone)),
               from \in Unlooked /\ to \notin Unlooked => (goesOn => SwitchedOn(q))
        PROVE  GoesOn(r)
    <3>1. CASE End(q)
      BY <1>3, <3>1
    <3>2. CASE goesOn /\ requests' = [requests EXCEPT ![q].stage = to]
      <4>1. CASE r = q
        <5>1. requests[q] # None /\ requests[q].stage = from
          BY <2>2 DEF Step
        <5>2. UNCHANGED past
          BY <2>2 DEF Step
        <5> QED BY <2>2, <3>2, <4>1, <5>1, <5>2, StepRow DEF GoesOn, SameAs, Active
      <4>2. CASE r # q
        BY <3>2, <4>2, SameGoesOn DEF TypeOK
      <4> QED BY <4>1, <4>2
    <3> QED BY <2>2, <3>1, <3>2 DEF Step
  <2>3. CASE Body(q) \/ Look(q) \/ Match(q) \/ Header(q) \/ LookAgain(q) \/ Send(q)
    BY <2>2, <2>3 DEF Body, Look, Match, Header, LookAgain, Send, Stages, HasBody, Unlooked
  <2>4. CASE Refuse(q) \/ GiveUp(q) \/ EndStream(q)
    BY <1>3, <2>4 DEF Refuse, GiveUp, EndStream
  <2>5. CASE Answer(q)
    <3>1. requests[q] # None /\ requests[q].stage = "upstream" /\ "stream" \in Stages
      BY <2>5 DEF Answer, Stages
    <3>2. CASE End(q)
      BY <1>3, <3>2
    <3>3. CASE requests' = [requests EXCEPT ![q].stage = "stream"]
      <4>1. CASE r = q
        BY <3>1, <3>3, <4>1, StepRow DEF GoesOn, SameAs, Active, Unlooked
      <4>2. CASE r # q
        BY <3>3, <4>2, SameGoesOn DEF TypeOK
      <4> QED BY <4>1, <4>2
    <3> QED BY <2>5, <3>2, <3>3 DEF Answer
  <2>6. CASE Serve(q)
    <3>1. CASE End(q)
      BY <1>3, <3>1
    <3>2. CASE requests' = [requests EXCEPT ![q].stage = "switched"]
      <4>1. requests[q] # None /\ "switched" \in Stages
        BY <2>6 DEF Serve, Step, Stages
      <4>2. requests'[q].stage = "switched" /\ \A x \in Request \ {q} : requests'[x] = requests[x]
        BY <3>2, <4>1, StepRow
      <4> QED BY <4>2, SameGoesOn
    <3> QED BY <2>6, <3>1, <3>2 DEF Serve, Step
  <2> QED BY <1>4, <2>1, <2>3, <2>4, <2>5, <2>6 DEF RequestStep
<1>5. ASSUME NEW q \in Request, Leave(q) PROVE GoesOn(r)
  <2>1. CASE r = q
    <3> DEFINE row == [requests[r] EXCEPT !.gone = (requests[r].stage \in Unregistered),
                                          !.aborted = (requests[r].stage \notin Unregistered)]
    <3>1. requests'[r] = row
      BY <1>5, <2>1 DEF Leave, TypeOK
    <3>2. requests[r] \in RequestRow /\ ~requests[r].gone /\ ~requests[r].aborted
      BY <1>5, <2>1 DEF Leave, TypeOK
    <3>3. row.stage = requests[r].stage
      BY <3>2 DEF RequestRow
    <3>4. requests[r].stage \notin Unregistered
      BY <3>1, <3>3
    <3>5. row = [requests[r] EXCEPT !.gone = FALSE, !.aborted = TRUE]
      BY <3>4, (requests[r].stage \in Unregistered) = FALSE, (requests[r].stage \notin Unregistered) = TRUE
    <3>6. SameAs(row, requests[r])
      BY <3>2, <3>5 DEF SameAs, RequestRow
    <3>7. r \in Active
      BY <3>2, <3>4, NoneAssumption DEF Active
    <3> QED BY <3>1, <3>2, <3>3, <3>6, <3>7 DEF GoesOn
  <2>2. CASE r # q
    BY <1>5, <2>2, SameGoesOn DEF Leave, TypeOK
  <2> QED BY <2>1, <2>2
<1>6. CASE Save
  <2>1. CASE CutRequests
    <3>1. \/ requests'[r] = requests[r]
          \/ r \in Active /\ requests'[r] = [requests[r] EXCEPT !.aborted = TRUE]
      BY <2>1, CutType
    <3> QED BY <3>1, SameGoesOn, CutGoesOn
  <2>2. CASE CloseServer
    <3>1. r \in Active
      BY <2>2, CloseType
    <3>2. requests'[r] = [requests[r] EXCEPT !.aborted = TRUE]
      BY <2>2, <3>1 DEF CloseServer, Active
    <3> QED BY <3>1, <3>2, CutGoesOn
  <2> QED BY <1>1, <1>6, <2>1, <2>2 DEF Save
<1>7. CASE Crash
  BY <1>7 DEF Crash
<1>8. ASSUME NEW k \in Reconciler, VisitRequest(k) PROVE GoesOn(r)
  <2>1. PICK q \in walks[k].todo, v \in walks[k].seen..Len(past) :
          requests' = IF Keeps(walks[k], requests[q], v) THEN requests ELSE [requests EXCEPT ![q].aborted = TRUE]
    BY <1>8 DEF VisitRequest
  <2>2. q \in Active
    BY <1>8, <2>1 DEF VisitRequest, TypeOK
  <2>3. requests'[r] = requests[r] \/ (r = q /\ requests'[r] = [requests[r] EXCEPT !.aborted = TRUE])
    BY <2>1 DEF TypeOK
  <2> QED BY <2>2, <2>3, SameGoesOn, CutGoesOn
<1>9. CASE \/ \E s \in 1..MaxMinted : Sweep(s)
           \/ \E d \in Device : Revoke(d) \/ Delete(d)
           \/ \E d \in Device, providers \in (SUBSET Provider) \ {{}} : UpdateProviders(d, providers)
           \/ \E on, elsewhere \in BOOLEAN : SaveConfig(on, elsewhere)
           \/ Listen \/ SaveFails \/ (\E page \in BOOLEAN : Configure(page))
           \/ \E k \in Reconciler : StartWalk(k) \/ VisitSession(k) \/ NothingLeft(k)
           \/ UNCHANGED vars
  BY <1>1, <1>9 DEF Sweep, Revoke, Delete, UpdateProviders, SaveConfig, Listen, SaveFails, Configure,
     StartWalk, VisitSession, NothingLeft, traffic, vars
<1> QED BY <1>2, <1>4, <1>5, <1>6, <1>7, <1>8, <1>9 DEF Next, Walk

\* A session after a step was there before, or a request that reached upstream opens it.
Opens(r, s) ==
    /\ r \in Active /\ ~requests[r].aborted /\ requests[r].stage = "upstream" /\ requests[r].kind = "initialize"
    /\ sessions'[s] = [dev |-> requests[r].dev, prov |-> requests[r].prov, target |-> requests[r].target,
                       epoch |-> epoch[requests[r].dev][requests[r].prov]]
    /\ UNCHANGED <<control, past, settled, history>>

Stays(s) == s \in Open /\ sessions'[s] = sessions[s]

LEMMA OpenStep ==
  ASSUME TypeOK, [Next]_vars, NEW s \in Open'
  PROVE  Stays(s) \/ \E r \in Request : Answer(r) /\ Opens(r, s)
<1> s \in 1..minted' /\ sessions'[s] # None
  BY DEF Open
<1> USE NoneAssumption, GatewayAssumption
<1>1. CASE UNCHANGED minted /\ sessions'[s] = sessions[s]
  BY <1>1 DEF Open, Stays
<1>2. ASSUME NEW q \in Request, Answer(q) PROVE Stays(s) \/ Opens(q, s)
  <2>1. CASE UNCHANGED minted /\ (sessions' = sessions \/ sessions' = [sessions EXCEPT ![requests[q].via] = None])
    <3>1. s \in 1..MaxMinted
      BY <2>1 DEF TypeOK
    <3>2. sessions'[s] = sessions[s]
      BY <2>1, <3>1 DEF TypeOK
    <3> QED BY <2>1, <3>2 DEF Open, Stays
  <2>2. CASE /\ requests[q].kind = "initialize" /\ minted < MaxMinted
             /\ sessions' = [sessions EXCEPT ![minted + 1] =
                  [dev |-> requests[q].dev, prov |-> requests[q].prov, target |-> requests[q].target,
                   epoch |-> epoch[requests[q].dev][requests[q].prov]]]
             /\ minted' = minted + 1
    <3>1. s \in 1..MaxMinted /\ minted \in Nat
      BY <2>2, GatewayAssumption DEF TypeOK
    <3>2. CASE s = minted + 1
      <4>1. q \in Active /\ ~requests[q].aborted /\ requests[q].stage = "upstream"
        BY <1>2 DEF Answer, Active
      <4> QED BY <1>2, <2>2, <3>1, <3>2, <4>1 DEF Answer, Opens, TypeOK
    <3>3. CASE s # minted + 1
      <4>1. sessions'[s] = sessions[s]
        BY <2>2, <3>1, <3>3 DEF TypeOK
      <4> QED BY <2>2, <3>1, <3>3, <4>1 DEF Open, Stays
    <3> QED BY <3>2, <3>3
  <2> QED BY <1>2, <2>1, <2>2 DEF Answer
<1>3. CASE UNCHANGED minted /\ \E q : sessions' = [sessions EXCEPT ![q] = None]
  <2>1. s \in 1..MaxMinted
    BY <1>3 DEF TypeOK
  <2> QED BY <1>1, <1>3, <2>1 DEF TypeOK
<1>4. CASE UNCHANGED <<minted, sessions>>
  BY <1>1, <1>4
<1>5. ASSUME NEW q \in Request, RequestStep(q)
      PROVE  Answer(q) \/ (UNCHANGED minted /\ (sessions' = sessions \/ \E v : sessions' = [sessions EXCEPT ![v] = None]))
  BY <1>5 DEF RequestStep, Serve, Authorize, Refuse, Body, Look, Match, Header, LookAgain, Send, Step, GiveUp, EndStream
<1>6. CASE Save
  <2>1. UNCHANGED minted /\ (CutSessions \/ CloseServer \/ UNCHANGED sessions)
    BY <1>6 DEF Save
  <2>2. s \in 1..MaxMinted
    BY <2>1 DEF TypeOK
  <2> QED BY <1>1, <2>1, <2>2 DEF CutSessions, CloseServer
<1>7. CASE Crash
  <2>1. s \in 1..MaxMinted
    BY <1>7 DEF TypeOK, Crash
  <2> QED BY <1>7, <2>1 DEF Crash
<1>8. ASSUME NEW k \in Reconciler, VisitSession(k)
      PROVE  Stays(s) \/ \E r \in Request : Answer(r) /\ Opens(r, s)
  <2>1. UNCHANGED minted /\ (sessions' = sessions \/ \E v : sessions' = [sessions EXCEPT ![v] = None])
    BY <1>8 DEF VisitSession
  <2> QED BY <1>3, <1>4, <2>1
<1>9. CASE \/ \E q \in Request, d \in Device, p \in Uses, kind \in Kinds, v \in {0} \cup Open : Arrive(q, d, p, kind, v)
           \/ \E q \in Request : Leave(q)
           \/ \E d \in Device : Revoke(d) \/ Delete(d)
           \/ \E d \in Device, providers \in (SUBSET Provider) \ {{}} : UpdateProviders(d, providers)
           \/ \E on, elsewhere \in BOOLEAN : SaveConfig(on, elsewhere)
           \/ Listen \/ SaveFails \/ (\E page \in BOOLEAN : Configure(page))
           \/ \E k \in Reconciler : StartWalk(k) \/ VisitRequest(k) \/ NothingLeft(k)
           \/ UNCHANGED vars
  BY <1>4, <1>9 DEF Arrive, Leave, Revoke, Delete, UpdateProviders, SaveConfig, Listen, SaveFails, Configure,
     StartWalk, VisitRequest, NothingLeft, traffic, vars
<1>10. CASE \E v \in 1..MaxMinted : Sweep(v)
  BY <1>3, <1>10 DEF Sweep
<1> QED BY <1>2, <1>3, <1>4, <1>5, <1>6, <1>7, <1>8, <1>9, <1>10 DEF Next, Walk
-----------------------------------------------------------------------------
(* The invariants, step by step *)

\* The configurations only grow, so what one of them allowed it still allowed.
LEMMA PastGrows ==
  ASSUME TypeOK, [Next]_vars
  PROVE  /\ Len(past') \in Nat /\ Len(past) <= Len(past')
         /\ \A i \in 1..Len(past) : past'[i] = past[i]
<1>1. CASE UNCHANGED past
  BY <1>1 DEF TypeOK
<1>2. CASE \E page \in BOOLEAN : Configure(page)
  BY <1>2 DEF Configure, TypeOK
<1>3. CASE ~\E page \in BOOLEAN : Configure(page)
  BY ZenonT(40), <1>1, <1>3 DEF Next, Arrive, RequestStep, Serve, Authorize, Refuse, Body, Look, Match, Header, LookAgain, Send, Step, GiveUp, Answer,
     EndStream, Leave, Sweep, Revoke, Delete, UpdateProviders, SaveConfig, Save, Listen, SaveFails, Crash,
     Walk, StartWalk, VisitRequest, VisitSession, NothingLeft, vars
<1> QED BY <1>2, <1>3

\* What a configuration from v on allows when the step is done.
ServedThen(v, x) == \E i \in v..Len(past') : x.prov \in past'[i].for /\ x.target = past'[i].target
SwitchedThen(v, x) == \E i \in v..Len(past') : x.prov \in past'[i].on
PermittedThen(v, x) == ServedThen(v, x) /\ SwitchedThen(v, x)
FitsThen(v, q) == ServedThen(v, q) /\ (q.stage \notin Unlooked => SwitchedThen(v, q))

LEMMA StillPermitted ==
  ASSUME TypeOK, [Next]_vars, NEW v \in Nat, v >= 1, NEW x
  PROVE  /\ ServedFrom(v, x) => ServedThen(v, x)
         /\ SwitchedFrom(v, x) => SwitchedThen(v, x)
<1>1. \A i \in v..Len(past) : i \in v..Len(past') /\ i \in 1..Len(past)
  BY PastGrows DEF TypeOK
<1>2. ASSUME ServedFrom(v, x) PROVE ServedThen(v, x)
  <2>1. PICK i \in v..Len(past) : x.prov \in past[i].for /\ x.target = past[i].target
    BY <1>2 DEF ServedFrom
  <2> QED BY <1>1, <2>1, PastGrows DEF ServedThen
<1>3. ASSUME SwitchedFrom(v, x) PROVE SwitchedThen(v, x)
  <2>1. PICK i \in v..Len(past) : x.prov \in past[i].on
    BY <1>3 DEF SwitchedFrom
  <2> QED BY <1>1, <2>1, PastGrows DEF SwitchedThen
<1> QED BY <1>2, <1>3

\* What a step makes of the reconciliations: one of them may go on or start, and
\* the others at most lose a request that is over.
Goes(k) == Walk(k) \/ (Configure(TRUE) /\ Begin(k, Len(past')))
LEMMA WalkStep ==
  ASSUME TypeOK, [Next]_vars
  PROVE  \/ UNCHANGED <<walks, settled>>
         \/ \E r \in Request : End(r) /\ UNCHANGED settled
         \/ walks' = [k \in Reconciler |-> None] /\ UNCHANGED settled
         \/ \E k \in Reconciler : Goes(k)
<1>1. ASSUME NEW page \in BOOLEAN, Configure(page)
      PROVE  UNCHANGED <<walks, settled>> \/ \E k \in Reconciler : Goes(k)
  BY <1>1 DEF Configure, Goes
<1>2. ASSUME NEW k \in Reconciler, Walk(k) PROVE Goes(k)
  BY <1>2 DEF Goes
<1>3. CASE ~(\E page \in BOOLEAN : Configure(page)) /\ ~(\E k \in Reconciler : Walk(k))
  BY ZenonT(40), <1>3 DEF Next, Arrive, RequestStep, Serve, Authorize, Refuse, Body, Look, Match, Header, LookAgain, Send, Step, GiveUp, Answer,
     EndStream, Leave, Sweep, Revoke, Delete, UpdateProviders, SaveConfig, Save, Listen, SaveFails, Crash, vars
<1> QED BY <1>1, <1>2, <1>3

\* A reconciliation that goes on keeps what it saw and leaves the others alone.
LEMMA WalkGoes ==
  ASSUME TypeOK, NEW k \in Reconciler, NEW w \in WalkRow, NEW todo, Go(k, w, todo)
  PROVE  /\ walks'[k] = After(w, todo)
         /\ \A j \in Reconciler \ {k} : walks'[j] = walks[j]
         /\ walks'[k] # None => walks'[k].seen = w.seen
         /\ settled' = IF walks'[k] = None /\ w.seen > settled THEN w.seen ELSE settled
<1>1. walks'[k] = After(w, todo) /\ \A j \in Reconciler \ {k} : walks'[j] = walks[j]
  BY DEF Go, TypeOK
<1>2. After(w, todo) # None => After(w, todo).seen = w.seen
  BY DEF After, WalkRow
<1> QED BY <1>1, <1>2 DEF Go

\* The reconciliation that takes a step, and what it has left to look at.
Walks(k, w, todo) ==
    /\ Go(k, w, todo)
    /\ \/ w = [seen |-> Len(past'), phase |-> "request", todo |-> {}]
       \/ walks[k] # None /\ w = walks[k]

LEMMA WalkTakes ==
  ASSUME TypeOK, TypeOK', NEW k \in Reconciler, Goes(k)
  PROVE  \E w \in WalkRow, todo \in SUBSET Nat : Walks(k, w, todo)
<1>1. CASE Begin(k, Len(past'))
  <2>1. [seen |-> Len(past'), phase |-> "request", todo |-> {}] \in WalkRow
    BY DEF WalkRow, TypeOK
  <2>2. Active \in SUBSET Nat
    BY GatewayAssumption DEF Active
  <2> QED BY <1>1, <2>1, <2>2 DEF Begin, Walks
<1>2. CASE VisitRequest(k) \/ VisitSession(k) \/ NothingLeft(k)
  <2>1. walks[k] # None /\ walks[k] \in WalkRow /\ walks[k].todo \in SUBSET Nat
    <3>1. walks[k] # None /\ walks[k] \in WalkRow
      BY <1>2 DEF VisitRequest, VisitSession, NothingLeft, TypeOK
    <3> QED BY <3>1, GatewayAssumption DEF WalkRow
  <2>2. \E todo \in SUBSET walks[k].todo : Go(k, walks[k], todo)
    BY <1>2 DEF VisitRequest, VisitSession, NothingLeft
  <2> QED BY <1>2, <2>1, <2>2 DEF VisitRequest, VisitSession, NothingLeft, Walks
<1>3. CASE StartWalk(k)
  BY <1>1, <1>3 DEF StartWalk
<1> QED BY <1>1, <1>2, <1>3 DEF Goes, Walk

LEMMA WithoutSeen ==
  ASSUME NEW w \in WalkRow, NEW r
  PROVE  /\ Without(w, r) # None => w # None
         /\ Without(w, r).seen = w.seen /\ Without(w, r).phase = w.phase
         /\ Without(w, r).todo = IF w.phase = "request" THEN w.todo \ {r} ELSE w.todo
BY NoneAssumption DEF Without, WalkRow

LEMMA GatewayShapeStep == TypeOK /\ TypeOK' /\ ShapeInv /\ [Next]_vars => ShapeInv'
<1> SUFFICES ASSUME TypeOK, TypeOK', ShapeInv, [Next]_vars PROVE ShapeInv'
  OBVIOUS
<1>1. ASSUME NEW r \in Active' PROVE requests'[r].target # None
  <2>1. CASE Authorize(r)
    BY <1>1, <2>1, AuthorizeRow, NoneAssumption DEF Active
  <2> QED BY <1>1, <2>1, ActiveStep DEF GoesOn, SameAs, ShapeInv
<1>2. settled' <= Len(past') /\ \A k \in Reconciler : walks'[k] # None => walks'[k].seen <= Len(past')
  <2>1. ASSUME NEW k \in Reconciler, walks[k] # None PROVE walks[k] \in WalkRow /\ walks[k].seen \in Nat
    <3>1. walks[k] \in WalkRow
      BY <2>1 DEF TypeOK
    <3> QED BY <3>1 DEF WalkRow
  <2>2. Len(past) <= Len(past') /\ Len(past) \in Nat /\ Len(past') \in Nat /\ settled \in Nat
    BY PastGrows DEF TypeOK
  <2>3. CASE UNCHANGED <<walks, settled>>
    BY <2>1, <2>2, <2>3 DEF ShapeInv
  <2>4. ASSUME NEW r \in Request, End(r), UNCHANGED settled
        PROVE  settled' <= Len(past') /\ \A k \in Reconciler : walks'[k] # None => walks'[k].seen <= Len(past')
    <3>1. \A k \in Reconciler : walks'[k] = Without(walks[k], r)
      BY <2>4 DEF End
    <3>2. \A k \in Reconciler : walks'[k] # None => walks[k] # None
      BY <3>1 DEF Without
    <3>3. ASSUME NEW k \in Reconciler, walks'[k] # None
          PROVE  walks'[k].seen <= Len(past) /\ walks'[k].seen \in Nat
      <4>1. walks[k] \in WalkRow /\ walks[k].seen <= Len(past) /\ walks[k].seen \in Nat
        BY <2>1, <3>2, <3>3 DEF ShapeInv
      <4>2. Without(walks[k], r).seen = walks[k].seen
        BY <4>1, WithoutSeen
      <4> QED BY <3>1, <4>1, <4>2
    <3> QED BY <2>2, <2>4, <3>3 DEF ShapeInv
  <2>5. CASE walks' = [k \in Reconciler |-> None] /\ UNCHANGED settled
    BY <2>2, <2>5 DEF ShapeInv
  <2>6. ASSUME NEW k \in Reconciler, Goes(k)
        PROVE  settled' <= Len(past') /\ \A j \in Reconciler : walks'[j] # None => walks'[j].seen <= Len(past')
    <3>1. PICK w \in WalkRow, todo \in SUBSET Nat : Walks(k, w, todo)
      BY <2>6, WalkTakes
    <3>2. w.seen <= Len(past') /\ w.seen \in Nat
      BY <2>1, <2>2, <3>1 DEF Walks, ShapeInv
    <3> QED BY <2>1, <2>2, <3>1, <3>2, WalkGoes DEF Walks, ShapeInv
  <2> QED BY <2>3, <2>4, <2>5, <2>6, WalkStep
<1> QED BY <1>1, <1>2 DEF ShapeInv

LEMMA NarrowedStep == TypeOK /\ NarrowedInv /\ [Next]_vars => NarrowedInv'
<1> SUFFICES ASSUME TypeOK, NarrowedInv, [Next]_vars PROVE NarrowedInv'
  OBVIOUS
<1>1. CASE UNCHANGED epoch
  <2>1. ASSUME NEW r \in Request, Alive(r)' PROVE requests'[r].epoch = epoch[requests'[r].dev][requests'[r].prov]
    <3>1. r \in Active' /\ ~requests'[r].aborted
      BY <2>1 DEF Alive
    <3>2. CASE Authorize(r)
      BY <3>2, AuthorizeRow
    <3>3. CASE GoesOn(r)
      BY <3>1, <3>3 DEF GoesOn, SameAs, NarrowedInv, Alive
    <3> QED BY <3>1, <3>2, <3>3, ActiveStep
  <2>2. ASSUME NEW s \in Open' PROVE sessions'[s].epoch = epoch[sessions'[s].dev][sessions'[s].prov]
    <3>1. CASE Stays(s)
      BY <3>1 DEF Stays, NarrowedInv
    <3>2. CASE \E r \in Request : Opens(r, s)
      BY <3>2 DEF Opens
    <3> QED BY <3>1, <3>2, OpenStep
  <2> QED BY <1>1, <2>1, <2>2 DEF NarrowedInv
\* Whatever is not cut is not of the device, or not of a provider, that was taken.
<1>2. CASE Save /\ queue.op = "update"
  <2>1. CutRequests /\ CutSessions /\ queue \in Ops /\ queue # None /\ UNCHANGED minted
    BY <1>2 DEF Save, TypeOK
  <2>2. ASSUME NEW d \in Device, NEW p \in Provider, d = queue.dev => p \notin queue.removed
        PROVE  epoch'[d][p] = epoch[d][p]
    <3>1. epoch' = [epoch EXCEPT ![queue.dev] =
                      [p2 \in Provider |-> IF p2 \in queue.removed THEN epoch[queue.dev][p2] + 1 ELSE epoch[queue.dev][p2]]]
      BY <1>2 DEF Save
    <3> QED BY <2>2, <3>1 DEF TypeOK
  <2>3. ASSUME NEW r \in Request, Alive(r)' PROVE requests'[r].epoch = epoch'[requests'[r].dev][requests'[r].prov]
    <3>1. r \in Active' /\ ~requests'[r].aborted
      BY <2>3 DEF Alive
    <3>2. requests'[r] = requests[r] /\ r \in Active
      BY <2>1, <3>1, CutType, CutRow
    <3>3. requests[r] \in RequestRow
      BY <3>2 DEF TypeOK, Active
    <3>4. ~Taken(requests[r])
      <4>1. requests[r].aborted = FALSE
        BY <3>1, <3>2, <3>3 DEF RequestRow
      <4>2. Taken(requests[r]) => requests'[r].aborted
        BY <2>1, <3>2, <3>3 DEF CutRequests, RequestRow
      <4> QED BY <3>1, <4>2
    <3>5. requests[r].dev \in Device /\ requests[r].prov \in Provider
      BY <3>3 DEF RequestRow
    <3>6. requests[r].dev = queue.dev => requests[r].prov \notin queue.removed
      BY <3>4 DEF Taken
    <3>7. Alive(r)
      BY <3>1, <3>2 DEF Alive
    <3> QED BY <2>2, <3>2, <3>5, <3>6, <3>7 DEF NarrowedInv
  <2>4. ASSUME NEW s \in Open' PROVE sessions'[s].epoch = epoch'[sessions'[s].dev][sessions'[s].prov]
    <3>1. s \in 1..MaxMinted /\ s \in 1..minted /\ sessions'[s] # None
      BY <2>1, GatewayAssumption DEF Open, TypeOK
    <3>2. sessions'[s] = sessions[s] /\ s \in Open /\ ~Taken(sessions[s])
      BY <2>1, <3>1 DEF CutSessions, Open
    <3>3. sessions[s] \in SessionRow
      BY <3>1, <3>2 DEF TypeOK
    <3>4. sessions[s].dev \in Device /\ sessions[s].prov \in Provider
      BY <3>3 DEF SessionRow
    <3>5. sessions[s].dev = queue.dev => sessions[s].prov \notin queue.removed
      BY <3>2 DEF Taken
    <3> QED BY <2>2, <3>2, <3>4, <3>5 DEF NarrowedInv
  <2> QED BY <2>3, <2>4 DEF NarrowedInv
<1>3. CASE ~(Save /\ queue.op = "update")
  <2>1. UNCHANGED epoch
    BY ZenonT(40), <1>3 DEF Next, Arrive, RequestStep, Serve, Authorize, Refuse, Body, Look, Match, Header, LookAgain, Send, Step, GiveUp, Answer,
       EndStream, Leave, Sweep, Revoke, Delete, UpdateProviders, SaveConfig, Save, Listen, SaveFails, Crash, Configure,
       Walk, StartWalk, VisitRequest, VisitSession, NothingLeft, vars, history
  <2> QED BY <1>1, <2>1
<1> QED BY <1>2, <1>3

\* A request after a step was there before, unless it has just arrived.
LEMMA AnyRequestStep ==
  ASSUME TypeOK, [Next]_vars, NEW r \in Request, requests'[r] # None, ~requests'[r].aborted
  PROVE  \/ requests[r] # None /\ ~requests[r].aborted /\ (requests[r].gone => requests'[r].gone)
         \/ running /\ UNCHANGED running
         \/ Listen \/ Crash
<1>1. CASE r \in Active'
  <2>1. CASE GoesOn(r)
    BY <2>1, <1>1 DEF GoesOn, SameAs, Active
  <2>2. CASE Authorize(r)
    BY <2>2, AuthorizeRow DEF Authorize
  <2> QED BY <1>1, <2>1, <2>2, ActiveStep
<1>2. CASE r \notin Active'
  <2>1. CASE UNCHANGED requests
    BY <2>1
  <2>2. CASE requests'[r] = requests[r]
    BY <2>2
  <2>3. ASSUME NEW q \in Request, End(q) PROVE requests'[r] = requests[r]
    BY <2>3, EndRow
  <2>4. ASSUME NEW q \in Request, RequestStep(q)
        PROVE  requests[r] # None /\ requests'[r].aborted = requests[r].aborted /\ requests'[r].gone = requests[r].gone
    <3>1. ASSUME NEW to \in Stages, to \notin Unregistered, requests[q] # None, requests' = [requests EXCEPT ![q].stage = to]
          PROVE  requests'[r] = requests[r]
      <4>1. Active' = Active \cup {q} /\ \A x \in Request \ {q} : requests'[x] = requests[x]
        BY <3>1, StepRow
      <4>2. r # q
        BY <1>2, <4>1
      <4> QED BY <4>1, <4>2
    <3>2. CASE Authorize(q)
      BY <1>2, <3>2, AuthorizeRow
    <3>3. CASE Serve(q) /\ ~End(q)
      <4>1. requests[q] # None /\ "switched" \in Stages /\ requests' = [requests EXCEPT ![q].stage = "switched"]
        BY <3>3 DEF Serve, Step, Stages
      <4>2. /\ requests'[q].aborted = requests[q].aborted /\ requests'[q].gone = requests[q].gone
            /\ \A x \in Request \ {q} : requests'[x] = requests[x]
        BY <4>1, StepRow
      <4> QED BY <4>1, <4>2
    <3> QED BY <2>3, <2>4, <3>1, <3>2, <3>3 DEF RequestStep, Serve, Refuse, Body, Look, Match, Header, LookAgain, Send, Step,
       GiveUp, Answer, EndStream, Stages
  <2>5. ASSUME NEW q \in Request, Leave(q)
        PROVE  requests[r] # None /\ ~requests[r].aborted /\ (requests[r].gone => requests'[r].gone)
    BY <2>5, <2>2 DEF Leave, TypeOK
  <2>6. CASE Save
    <3>1. CASE CutRequests
      BY <1>2, <2>2, <3>1, CutType
    <3>2. CASE CloseServer
      <4>1. r \notin Active /\ requests[r] # None
        BY <1>2, <3>2, CloseType DEF CloseServer
      <4>2. requests'[r] = [requests[r] EXCEPT !.gone = TRUE] /\ requests[r] \in RequestRow
        BY <3>2, <4>1 DEF CloseServer, TypeOK
      <4> QED BY <4>1, <4>2 DEF RequestRow
    <3> QED BY <2>1, <2>6, <3>1, <3>2 DEF Save
  <2>7. ASSUME NEW k \in Reconciler, VisitRequest(k) PROVE requests'[r] = requests[r]
    <3>1. PICK q \in walks[k].todo, v \in walks[k].seen..Len(past) :
            requests' = IF Keeps(walks[k], requests[q], v) THEN requests ELSE [requests EXCEPT ![q].aborted = TRUE]
      BY <2>7 DEF VisitRequest
    <3>2. q \in Active
      BY <2>7, <3>1 DEF VisitRequest, TypeOK
    <3>3. CASE r = q
      <4>1. r \in Active
        BY <3>2, <3>3
      <4>2. requests'[r] = requests[r] \/ requests'[r] = [requests[r] EXCEPT !.aborted = TRUE]
        BY <3>1, <3>3 DEF TypeOK
      <4>3. CASE requests'[r] = [requests[r] EXCEPT !.aborted = TRUE]
        BY <4>1, <4>3, CutRow
      <4> QED BY <4>2, <4>3
    <3>4. CASE r # q
      BY <3>1, <3>4 DEF TypeOK
    <3> QED BY <3>3, <3>4
  <2>8. CASE \E q \in Request, d \in Device, p \in Uses, kind \in Kinds, s \in {0} \cup Open : Arrive(q, d, p, kind, s)
    BY <2>8 DEF Arrive, control
  <2>9. CASE \/ \E s \in 1..MaxMinted : Sweep(s)
             \/ \E d \in Device : Revoke(d) \/ Delete(d)
             \/ \E d \in Device, providers \in (SUBSET Provider) \ {{}} : UpdateProviders(d, providers)
             \/ \E on, elsewhere \in BOOLEAN : SaveConfig(on, elsewhere)
             \/ SaveFails \/ (\E page \in BOOLEAN : Configure(page))
             \/ \E k \in Reconciler : StartWalk(k) \/ VisitSession(k) \/ NothingLeft(k)
             \/ UNCHANGED vars
    BY <2>1, <2>9 DEF Sweep, Revoke, Delete, UpdateProviders, SaveConfig, SaveFails, Configure,
       StartWalk, VisitSession, NothingLeft, traffic, vars
  <2> QED BY <2>2, <2>4, <2>5, <2>6, <2>7, <2>8, <2>9 DEF Next, Walk
<1> QED BY <1>1, <1>2

LEMMA OffStep == TypeOK /\ OffInv /\ [Next]_vars => OffInv'
<1> SUFFICES ASSUME TypeOK, OffInv, [Next]_vars PROVE OffInv'
  OBVIOUS
<1>1. ASSUME NEW r \in Request, Alive(r)', requests'[r].gone, requests'[r].kind = "initialize"
      PROVE  requests'[r].stage = "body"
  <2>1. r \in Active' /\ ~requests'[r].aborted
    BY <1>1 DEF Alive
  <2>2. CASE GoesOn(r)
    BY <1>1, <2>1, <2>2 DEF GoesOn, SameAs, OffInv, Alive
  <2> QED BY <2>1, <2>2, ActiveStep, AuthorizeRow
<1>2. running' => wanted' \/ missed' \/ (queue' # None /\ queue'.op = "config" /\ queue'.moved)
  <2>1. CASE UNCHANGED control
    BY <2>1 DEF control, OffInv
  <2>2. CASE \/ \E d \in Device : Revoke(d) \/ Delete(d)
             \/ \E d \in Device, providers \in (SUBSET Provider) \ {{}} : UpdateProviders(d, providers)
    BY <2>2 DEF Revoke, Delete, UpdateProviders, Called, OffInv
  <2>3. ASSUME NEW on \in BOOLEAN, NEW elsewhere \in BOOLEAN, SaveConfig(on, elsewhere)
        PROVE  running' => wanted' \/ missed' \/ (queue' # None /\ queue'.op = "config" /\ queue'.moved)
    <3>1. queue' = [op |-> "config", moved |-> elsewhere \/ on # wanted] /\ wanted' = on /\ UNCHANGED <<running, missed>>
      BY <2>3 DEF SaveConfig
    <3>2. queue' # None
      <4>1. \A m \in BOOLEAN : [op |-> "config", moved |-> m] \in Ops
        BY DEF Ops
      <4>2. (elsewhere \/ on # wanted) \in BOOLEAN
        OBVIOUS
      <4> QED BY <3>1, <4>1, <4>2, NoneAssumption
    <3>3. queue = None
      BY <2>3 DEF SaveConfig, Called
    <3>4. running => wanted \/ missed
      BY <3>3 DEF OffInv
    <3>5. wanted \in BOOLEAN
      BY DEF TypeOK
    <3>6. ~on /\ wanted => queue'.moved
      BY <3>1, <3>5
    <3>7. queue'.op = "config"
      BY <3>1
    <3> QED BY <3>1, <3>2, <3>4, <3>6, <3>7
  <2>4. CASE Save
    <3>1. queue # None /\ UNCHANGED wanted
      BY <2>4 DEF Save
    <3>2. CASE CloseServer
      BY <3>2 DEF CloseServer
    <3>3. CASE UNCHANGED <<running, missed>> /\ queue.op # "config"
      BY <3>1, <3>3 DEF OffInv
    <3>4. CASE UNCHANGED <<running, missed>> /\ ~Restarts
      BY <3>1, <3>4 DEF OffInv, Restarts
    <3> QED BY <2>4, <3>2, <3>3, <3>4 DEF Save
  <2>5. CASE Listen
    BY <2>5 DEF Listen
  <2>6. CASE SaveFails
    <3>1. queue # None /\ UNCHANGED <<wanted, running>>
      BY <2>6 DEF SaveFails
    <3>2. CASE queue.op = "config" /\ missed' = (missed \/ queue.moved)
      <4>1. missed \in BOOLEAN /\ queue.moved \in BOOLEAN
        BY <3>1, <3>2 DEF TypeOK, Ops
      <4>2. missed \/ queue.moved => missed'
        BY <3>2, <4>1
      <4> QED BY <3>1, <4>2 DEF OffInv
    <3>3. CASE queue.op # "config" /\ UNCHANGED missed
      BY <3>1, <3>3 DEF OffInv
    <3> QED BY <2>6, <3>2, <3>3 DEF SaveFails
  <2>7. CASE Crash
    BY <2>7 DEF Crash
  <2>8. CASE \/ \E r \in Request, d \in Device, p \in Uses, kind \in Kinds, s \in {0} \cup Open : Arrive(r, d, p, kind, s)
             \/ \E r \in Request : RequestStep(r) \/ Leave(r)
             \/ \E s \in 1..MaxMinted : Sweep(s)
             \/ \E page \in BOOLEAN : Configure(page)
             \/ \E k \in Reconciler : Walk(k)
    BY ZenonT(40), <2>1, <2>8 DEF Arrive, RequestStep, Serve, Authorize, Refuse, Body, Look, Match, Header, LookAgain, Send, Step,
       GiveUp, Answer, EndStream, Leave, Sweep, Configure, Walk, StartWalk, VisitRequest, VisitSession, NothingLeft
  <2>9. CASE UNCHANGED vars
    BY <2>1, <2>9 DEF vars, control
  <2> QED BY <2>2, <2>3, <2>4, <2>5, <2>6, <2>7, <2>8, <2>9 DEF Next
<1>3. CASE Save /\ queue.op = "config" /\ Restarts
  <2>1. CloseServer /\ UNCHANGED minted
    BY <1>3 DEF Save
  <2>2. Open' = {}
    BY <2>1, GatewayAssumption DEF CloseServer, Open, TypeOK
  <2>3. ASSUME NEW r \in Request, requests'[r] # None, ~requests'[r].aborted PROVE requests'[r].gone
    BY <2>1, <2>3, CloseType DEF CloseServer
  <2>4. ~running'
    BY <2>1 DEF CloseServer
  <2> QED BY <1>1, <1>2, <2>2, <2>3, <2>4 DEF OffInv
<1>4. CASE Crash
  <2>1. Open' = {}
    BY <1>4, GatewayAssumption DEF Crash, Open, TypeOK
  <2>2. queue' = None /\ \A r \in Request : requests'[r] = None
    BY <1>4 DEF Crash
  <2> QED BY <1>1, <1>2, <2>1, <2>2 DEF OffInv
<1>5. CASE Listen
  <2>1. ~running /\ queue' = None /\ UNCHANGED traffic
    BY <1>5 DEF Listen, OffInv
  <2>2. Open' = Open
    BY <2>1 DEF Open, traffic
  <2> QED BY <1>1, <1>2, <2>1, <2>2 DEF OffInv, traffic
<1>6. CASE ~(Save /\ queue.op = "config" /\ Restarts) /\ ~Crash /\ ~Listen
  <2>1. UNCHANGED running /\ (queue' = queue \/ queue' = None \/ queue'.op # "listen")
    <3>1. CASE \/ \E d \in Device : Revoke(d) \/ Delete(d)
               \/ \E d \in Device, providers \in (SUBSET Provider) \ {{}} : UpdateProviders(d, providers)
               \/ \E on, elsewhere \in BOOLEAN : SaveConfig(on, elsewhere)
      BY <3>1 DEF Revoke, Delete, UpdateProviders, SaveConfig
    <3>2. CASE Save \/ SaveFails
      BY <1>6, <3>2 DEF Save, SaveFails
    <3>3. CASE (\E page \in BOOLEAN : Configure(page)) \/ UNCHANGED vars \/ (\E k \in Reconciler : Walk(k)) \/ (\E s \in 1..MaxMinted : Sweep(s))
      BY <3>3 DEF Configure, Walk, StartWalk, VisitRequest, VisitSession, NothingLeft, Sweep, vars, control
    <3>4. CASE \/ \E r \in Request, d \in Device, p \in Uses, kind \in Kinds, s \in {0} \cup Open : Arrive(r, d, p, kind, s)
               \/ \E r \in Request : RequestStep(r) \/ Leave(r)
      BY ZenonT(40), <3>4 DEF Arrive, RequestStep, Serve, Authorize, Refuse, Body, Look, Match, Header, LookAgain, Send, Step, GiveUp, Answer,
         EndStream, Leave, control
    <3> QED BY <1>6, <3>1, <3>2, <3>3, <3>4 DEF Next
  <2>2. ASSUME ~running PROVE Open' = {} /\ \A r \in Request : requests'[r] # None /\ ~requests'[r].aborted => requests'[r].gone
    <3>1. ASSUME NEW r \in Request, requests'[r] # None, ~requests'[r].aborted PROVE requests'[r].gone
      BY <1>6, <2>2, <3>1, AnyRequestStep DEF OffInv
    <3>2. ASSUME NEW s \in Open' PROVE FALSE
      <4>1. s \notin Open
        BY <2>2 DEF OffInv
      <4>2. PICK r \in Request : Opens(r, s)
        BY <3>2, <4>1, OpenStep DEF Stays
      <4>3. requests[r] # None /\ requests[r].gone /\ requests[r].stage = "body"
        BY <2>2, <4>2 DEF Opens, OffInv, Alive, Active
      <4> QED BY <4>2, <4>3 DEF Opens
    <3> QED BY <3>1, <3>2
  <2> QED BY <1>1, <1>2, <2>1, <2>2 DEF OffInv
<1> QED BY <1>3, <1>4, <1>5, <1>6

\* The devices that were cut for good.
Cut == revoked \ unsaved

\* Only an answered call adds one.
LEMMA CutGrows ==
  ASSUME TypeOK, RevokedInv, [Next]_vars
  PROVE  \/ Cut' \subseteq Cut
         \/ /\ Save /\ queue \in Ops /\ queue.op \in {"revoke", "delete"} /\ Cut' \subseteq Cut \cup {queue.dev}
            /\ CutRequests /\ CutSessions /\ UNCHANGED minted
<1>1. CASE UNCHANGED <<revoked, unsaved>>
  BY <1>1 DEF Cut
<1>2. CASE Save
  <2>1. CASE queue.op \in {"revoke", "delete"}
    BY <1>2, <2>1 DEF Save, Cut, TypeOK
  <2>2. CASE queue.op \notin {"revoke", "delete"}
    BY <1>1, <1>2, <2>2 DEF Save
  <2> QED BY <2>1, <2>2
<1>3. ASSUME NEW d \in Device, Revoke(d) PROVE Cut' \subseteq Cut
  <2>1. CASE UNCHANGED revoked
    BY <1>3, <2>1 DEF Revoke, Cut
  <2>2. CASE devices[d].status = "revoked" /\ revoked' = revoked \cup {d}
    <3>1. d \in revoked \cup unsaved
      BY <1>3, <2>2 DEF Revoke, Called, RevokedInv
    <3> QED BY <1>3, <2>2, <3>1 DEF Revoke, Cut
  <2> QED BY <1>3, <2>1, <2>2 DEF Revoke
<1>4. CASE SaveFails
  BY <1>4 DEF SaveFails, Cut
<1>5. CASE \/ \E r \in Request, d \in Device, p \in Uses, kind \in Kinds, s \in {0} \cup Open : Arrive(r, d, p, kind, s)
           \/ \E r \in Request : RequestStep(r) \/ Leave(r)
           \/ \E s \in 1..MaxMinted : Sweep(s)
           \/ \E d \in Device : Delete(d)
           \/ \E d \in Device, providers \in (SUBSET Provider) \ {{}} : UpdateProviders(d, providers)
           \/ \E on, elsewhere \in BOOLEAN : SaveConfig(on, elsewhere)
           \/ Listen \/ Crash \/ (\E page \in BOOLEAN : Configure(page))
           \/ \E k \in Reconciler : Walk(k)
           \/ UNCHANGED vars
  BY ZenonT(40), <1>1, <1>5 DEF Arrive, RequestStep, Serve, Authorize, Refuse, Body, Look, Match, Header, LookAgain, Send, Step, GiveUp, Answer,
     EndStream, Leave, Sweep, Delete, UpdateProviders, SaveConfig, Listen, Crash, Configure,
     Walk, StartWalk, VisitRequest, VisitSession, NothingLeft, vars, history
<1> QED BY <1>2, <1>3, <1>4, <1>5 DEF Next

\* The rows in memory and in the file, and who is known to be revoked.
RowsInv ==
    /\ \A d \in Device :
         /\ devices[d].status # "live" =>
              \/ d \in revoked \cup unsaved
              \/ queue # None /\ queue.op = "revoke" /\ queue.dev = d
         /\ saved[d].status # "live" => d \in revoked \cup unsaved
         /\ d \in revoked \ unsaved => devices[d].status # "live" /\ saved[d].status # "live"
    /\ queue # None /\ queue.op \in {"revoke", "delete"} => devices[queue.dev].status # "live"

LEMMA RowsStep == TypeOK /\ RowsInv /\ [Next]_vars => RowsInv'
<1> SUFFICES ASSUME TypeOK, RowsInv, [Next]_vars PROVE RowsInv'
  OBVIOUS
<1>1. CASE UNCHANGED <<control, revoked, unsaved>>
  BY <1>1 DEF control, RowsInv
<1>2. ASSUME NEW d \in Device, Revoke(d) PROVE RowsInv'
  <2>1. CASE devices[d].status = "live" /\ devices' = [devices EXCEPT ![d].status = "revoked"]
             /\ queue' = [op |-> "revoke", dev |-> d] /\ UNCHANGED revoked
    <3>1. devices'[d].status = "revoked" /\ \A x \in Device \ {d} : devices'[x] = devices[x]
      BY <2>1 DEF TypeOK, Row
    <3>2. queue' # None /\ queue'.op = "revoke" /\ queue'.dev = d
      BY <2>1, NoneAssumption DEF Ops
    <3>3. UNCHANGED <<saved, revoked, unsaved>> /\ queue = None
      BY <1>2, <2>1 DEF Revoke, Called
    <3> QED BY <2>1, <3>1, <3>2, <3>3 DEF RowsInv
  <2>2. CASE devices[d].status = "revoked" /\ revoked' = revoked \cup {d} /\ UNCHANGED <<devices, queue>>
    <3>1. d \in revoked \cup unsaved
      BY <1>2, <2>2 DEF Revoke, Called, RowsInv
    <3> QED BY <1>2, <2>2, <3>1 DEF Revoke, Called, RowsInv
  <2> QED BY <1>2, <2>1, <2>2 DEF Revoke
<1>3. ASSUME NEW d \in Device, Delete(d) PROVE RowsInv'
  <2>1. devices'[d].status = "deleted" /\ \A x \in Device \ {d} : devices'[x] = devices[x]
    BY <1>3 DEF Delete, TypeOK, Row
  <2>2. queue = None /\ queue' = [op |-> "delete", dev |-> d] /\ devices[d].status = "revoked"
        /\ UNCHANGED <<saved, revoked, unsaved>>
    BY <1>3 DEF Delete, Called, history
  <2>3. d \in revoked \cup unsaved
    BY <2>2 DEF RowsInv
  <2> QED BY <2>1, <2>2, <2>3 DEF RowsInv
<1>4. ASSUME NEW d \in Device, NEW providers \in (SUBSET Provider) \ {{}}, UpdateProviders(d, providers) PROVE RowsInv'
  <2>1. \A x \in Device : devices'[x].status = devices[x].status
    BY <1>4 DEF UpdateProviders, TypeOK, Row
  <2>2. queue = None /\ queue'.op = "update" /\ UNCHANGED <<saved, revoked, unsaved>>
    BY <1>4 DEF UpdateProviders, Called, history
  <2> QED BY <2>1, <2>2 DEF RowsInv
<1>5. ASSUME NEW on \in BOOLEAN, NEW elsewhere \in BOOLEAN, SaveConfig(on, elsewhere) PROVE RowsInv'
  BY <1>5 DEF SaveConfig, Called, history, RowsInv
<1>6. CASE Save
  <2>1. queue # None /\ saved' = devices /\ UNCHANGED <<devices, unsaved>>
    BY <1>6 DEF Save
  <2>2. CASE queue.op \in {"revoke", "delete"}
    <3>1. revoked' = revoked \cup {queue.dev} /\ queue' = None
      BY <1>6, <2>2 DEF Save
    <3> QED BY <2>1, <2>2, <3>1 DEF RowsInv
  <2>3. CASE queue.op \notin {"revoke", "delete"}
    <3>1. revoked' = revoked /\ (queue' = None \/ queue' = [op |-> "listen"])
      BY <1>6, <2>3 DEF Save
    <3> QED BY <2>1, <2>3, <3>1 DEF RowsInv
  <2> QED BY <2>2, <2>3
<1>7. CASE Listen
  BY <1>7 DEF Listen, history, RowsInv
<1>8. CASE SaveFails
  <2>1. queue \in Ops
    BY <1>8 DEF SaveFails, TypeOK
  <2> QED BY <1>8, <2>1 DEF SaveFails, RowsInv, Ops
<1>9. CASE Crash
  BY <1>9 DEF Crash, history, RowsInv
<1>10. CASE \/ \E r \in Request, d \in Device, p \in Uses, kind \in Kinds, s \in {0} \cup Open : Arrive(r, d, p, kind, s)
            \/ \E r \in Request : RequestStep(r) \/ Leave(r)
            \/ \E s \in 1..MaxMinted : Sweep(s)
            \/ \E page \in BOOLEAN : Configure(page)
            \/ \E k \in Reconciler : Walk(k)
            \/ UNCHANGED vars
  <2>1. UNCHANGED <<control, history>>
    <3>1. CASE UNCHANGED vars
      BY <3>1 DEF vars, control, history
    <3>2. CASE ~UNCHANGED vars
      BY ZenonT(40), <1>10, <3>2 DEF Arrive, RequestStep, Serve, Authorize, Refuse, Body, Look, Match, Header, LookAgain, Send, Step, GiveUp, Answer,
         EndStream, Leave, Sweep, Configure, Walk, StartWalk, VisitRequest, VisitSession, NothingLeft
    <3> QED BY <3>1, <3>2
  <2> QED BY <1>1, <2>1 DEF history
<1> QED BY <1>2, <1>3, <1>4, <1>5, <1>6, <1>7, <1>8, <1>9, <1>10 DEF Next

LEMMA RevokedStep == TypeOK /\ RevokedInv /\ [Next]_vars => RevokedInv'
<1> SUFFICES ASSUME TypeOK, RevokedInv, [Next]_vars PROVE RevokedInv'
  OBVIOUS
<1>1. RowsInv'
  BY RowsStep DEF RevokedInv, RowsInv
<1>2. ASSUME NEW s \in Open' PROVE sessions'[s].dev \notin Cut
  <2>1. CASE Stays(s)
    BY <2>1 DEF Stays, RevokedInv, Cut
  <2>2. CASE \E r \in Request : Opens(r, s)
    BY <2>2 DEF Opens, RevokedInv, Alive, Cut, Active
  <2> QED BY <2>1, <2>2, OpenStep
<1>3. ASSUME NEW r \in Request, Alive(r)', requests'[r].stage # "body" PROVE requests'[r].dev \notin Cut
  <2>1. r \in Active' /\ ~requests'[r].aborted
    BY <1>3 DEF Alive
  <2>2. CASE Authorize(r)
    BY <1>3, <2>2, AuthorizeRow
  <2>3. CASE GoesOn(r) /\ requests[r].stage # "body"
    BY <2>1, <2>3 DEF GoesOn, SameAs, RevokedInv, Alive, Cut
  <2>4. CASE GoesOn(r) /\ requests[r].stage = "body"
    <3>1. devices[requests[r].dev].status = "live" /\ requests[r].dev = requests'[r].dev
      BY <1>3, <2>4 DEF GoesOn, SameAs, StillAllowed, MayUse
    <3>2. requests[r].dev \in Device
      BY <2>4 DEF GoesOn, Active, TypeOK, RequestRow
    <3> QED BY <3>1, <3>2 DEF RevokedInv, Cut
  <2> QED BY <2>1, <2>2, <2>3, <2>4, ActiveStep
<1>4. CASE Cut' \subseteq Cut
  BY <1>1, <1>2, <1>3, <1>4 DEF RevokedInv, RowsInv, Cut
<1>5. CASE /\ Save /\ queue \in Ops /\ queue.op \in {"revoke", "delete"} /\ Cut' \subseteq Cut \cup {queue.dev}
           /\ CutRequests /\ CutSessions /\ UNCHANGED minted
  <2>1. ASSUME NEW s \in Open' PROVE sessions'[s].dev # queue.dev
    <3>1. s \in 1..MaxMinted /\ s \in 1..minted /\ sessions'[s] # None
      BY <1>5, GatewayAssumption DEF Open, TypeOK
    <3>2. sessions'[s] = sessions[s] /\ s \in Open /\ ~Taken(sessions[s])
      BY <1>5, <3>1 DEF CutSessions, Open
    <3> QED BY <1>5, <3>2 DEF Taken
  <2>2. ASSUME NEW r \in Request, Alive(r)' PROVE requests'[r].dev # queue.dev
    <3>1. r \in Active' /\ ~requests'[r].aborted
      BY <2>2 DEF Alive
    <3>2. requests'[r] = requests[r] /\ r \in Active
      BY <1>5, <3>1, CutType, CutRow
    <3>3. requests[r] \in RequestRow
      BY <3>2 DEF TypeOK, Active
    <3>4. Taken(requests[r]) => requests'[r].aborted
      BY <1>5, <3>2, <3>3 DEF CutRequests, RequestRow
    <3> QED BY <1>5, <3>1, <3>2, <3>4 DEF Taken
  <2> QED BY <1>1, <1>2, <1>3, <1>5, <2>1, <2>2 DEF RevokedInv, RowsInv, Cut
<1> QED BY <1>4, <1>5, CutGrows

LEMMA AliveStep ==
  ASSUME TypeOK, [Next]_vars, NEW r \in Request, Alive(r)'
  PROVE  \/ /\ Alive(r)
            /\ \A v \in 1..Len(past) : FitsFrom(v, requests[r]) => FitsThen(v, requests'[r])
         \/ \A v \in 1..Len(past) : FitsThen(v, requests'[r])
<1>1. r \in Active' /\ ~requests'[r].aborted
  BY DEF Alive
<1>2. CASE GoesOn(r)
  <2>1. Alive(r) /\ requests'[r].prov = requests[r].prov /\ requests'[r].target = requests[r].target
    BY <1>1, <1>2 DEF GoesOn, SameAs, Alive
  <2>2. ASSUME NEW v \in 1..Len(past), FitsFrom(v, requests[r]) PROVE FitsThen(v, requests'[r])
    <3>1. ServedThen(v, requests[r]) /\ (SwitchedFrom(v, requests[r]) => SwitchedThen(v, requests[r]))
      BY <2>2, StillPermitted DEF FitsFrom, TypeOK
    <3>2. ServedThen(v, requests'[r]) /\ (SwitchedThen(v, requests[r]) => SwitchedThen(v, requests'[r]))
      BY <2>1, <3>1 DEF ServedThen, SwitchedThen
    <3>3. CASE requests[r].stage \in Unlooked /\ requests'[r].stage \notin Unlooked
      <4>1. requests[r].prov \in past[Len(past)].on /\ UNCHANGED past
        BY <1>2, <3>3 DEF GoesOn, SwitchedOn, config
      <4>2. SwitchedThen(v, requests'[r])
        BY <2>1, <4>1 DEF SwitchedThen, TypeOK
      <4> QED BY <3>2, <4>2 DEF FitsThen
    <3>4. CASE ~(requests[r].stage \in Unlooked /\ requests'[r].stage \notin Unlooked)
      BY <2>2, <3>1, <3>2, <3>4 DEF FitsFrom, FitsThen
    <3> QED BY <3>3, <3>4
  <2> QED BY <2>1, <2>2
<1>3. CASE Authorize(r)
  <2>1. /\ requests'[r].prov \in past[Len(past)].for /\ requests'[r].target = past[Len(past)].target
        /\ requests'[r].stage = "body" /\ UNCHANGED past
    BY <1>3, AuthorizeRow DEF config, Authorize
  <2> QED BY <2>1 DEF FitsThen, ServedThen, Unlooked, TypeOK
<1> QED BY <1>1, <1>2, <1>3, ActiveStep

LEMMA OpenPermitted ==
  ASSUME TypeOK, [Next]_vars, NEW s \in Open', NEW v \in Nat \ {0},
         s \in Open => PermittedFrom(v, sessions[s]),
         s \notin Open => \A r \in Request : Alive(r) => FitsFrom(v, requests[r])
  PROVE  PermittedThen(v, sessions'[s])
<1>1. CASE Stays(s)
  BY <1>1, StillPermitted DEF Stays, PermittedFrom, PermittedThen
<1>2. ASSUME NEW r \in Request, Opens(r, s), s \notin Open PROVE PermittedThen(v, sessions'[s])
  <2>1. PermittedFrom(v, requests[r])
    BY <1>2 DEF Opens, Alive, FitsFrom, PermittedFrom, Unlooked
  <2>2. sessions'[s].prov = requests[r].prov /\ sessions'[s].target = requests[r].target
    BY <1>2 DEF Opens
  <2> QED BY <2>1, <2>2, StillPermitted DEF PermittedFrom, PermittedThen, ServedThen, SwitchedThen
<1>3. ASSUME NEW r \in Request, Answer(r), Opens(r, s), s \in Open PROVE PermittedThen(v, sessions'[s])
  <2>1. s \in 1..minted /\ minted \in Nat /\ sessions[s] # None
    BY <1>3 DEF Open, TypeOK
  <2>2. sessions'[s] # None
    BY DEF Open
  <2>3. sessions'[s] = sessions[s]
    <3>1. sessions \in [1..MaxMinted -> SessionRow \cup {None}] /\ s \in 1..MaxMinted /\ s # minted + 1
      BY <2>1, GatewayAssumption DEF TypeOK
    <3>2. \/ sessions' = sessions \/ \E q : sessions' = [sessions EXCEPT ![q] = None]
          \/ \E row : sessions' = [sessions EXCEPT ![minted + 1] = row]
      BY <1>3 DEF Answer
    <3> QED BY <2>2, <3>1, <3>2
  <2> QED BY <1>1, <1>3, <2>3 DEF Stays
<1> QED BY <1>1, <1>2, <1>3, OpenStep

\* A reconciliation that goes on stays sound, and one that ends has settled everything.
LEMMA GoSound ==
  ASSUME TypeOK, TypeOK', NEW k \in Reconciler, NEW w \in WalkRow, NEW todo, Go(k, w, todo),
         w.phase = "request" => todo \subseteq Active, w.phase = "session" => todo \subseteq 1..MaxMinted,
         \A r \in Request : Alive(r)' /\ (w.phase = "request" => r \notin todo) => FitsThen(w.seen, requests'[r]),
         w.phase = "session" => \A s \in Open' \ todo : PermittedThen(w.seen, sessions'[s]),
         w.phase = "request" => Open' = Open
  PROVE  /\ walks'[k] # None =>
              /\ \A r \in Request : Alive(r)' /\ (walks'[k].phase = "request" => r \notin walks'[k].todo)
                                      => FitsThen(w.seen, requests'[r])
              /\ walks'[k].phase = "session" => \A s \in Open' \ walks'[k].todo : PermittedThen(w.seen, sessions'[s])
         /\ walks'[k] = None =>
              /\ \A r \in Request : Alive(r)' => FitsThen(w.seen, requests'[r])
              /\ \A s \in Open' : PermittedThen(w.seen, sessions'[s])
<1>1. walks'[k] = After(w, todo)
  BY WalkGoes
<1>2. CASE todo # {}
  <2>1. walks'[k] = [w EXCEPT !.todo = todo]
    BY <1>1, <1>2 DEF After
  <2>2. walks'[k].phase = w.phase /\ walks'[k].todo = todo /\ walks'[k] # None
    <3>1. walks'[k].phase = w.phase /\ walks'[k].todo = todo
      BY <2>1 DEF WalkRow
    <3>2. walks'[k] \in WalkRow
      BY <2>1 DEF WalkRow, Active
    <3> QED BY <3>1, <3>2, NoneAssumption
  <2> QED BY <2>2
<1>3. CASE todo = {} /\ w.phase = "request" /\ Open # {}
  <2>1. walks'[k] = [w EXCEPT !.phase = "session", !.todo = Open]
    BY <1>1, <1>3 DEF After
  <2>2. walks'[k].phase = "session" /\ walks'[k].todo = Open
    BY <2>1 DEF WalkRow
  <2>3. Open \subseteq 1..MaxMinted
    BY GatewayAssumption DEF Open, TypeOK
  <2>4. walks'[k] \in WalkRow
    BY <2>1, <2>3 DEF WalkRow
  <2> QED BY <1>3, <2>2, <2>4, NoneAssumption
<1>4. CASE todo = {} /\ ~(w.phase = "request" /\ Open # {})
  <2>1. walks'[k] = None
    BY <1>1, <1>4 DEF After
  <2>2. w.phase \in {"request", "session"}
    BY DEF WalkRow
  <2> QED BY <1>4, <2>1, <2>2
<1> QED BY <1>2, <1>3, <1>4

LEMMA SettledStep == TypeOK /\ TypeOK' /\ ShapeInv /\ SettledInv /\ [Next]_vars => SettledInv'
<1> SUFFICES ASSUME TypeOK, TypeOK', ShapeInv, SettledInv, [Next]_vars PROVE SettledInv'
  OBVIOUS
<1> DEFINE SoundNext(w) ==
      /\ \A r \in Request : Alive(r)' /\ (w.phase = "request" => r \notin w.todo) => FitsThen(w.seen, requests'[r])
      /\ w.phase = "session" => \A s \in Open' \ w.todo : PermittedThen(w.seen, sessions'[s])
<1> DEFINE Settles(v) ==
      /\ \A r \in Request : Alive(r)' => FitsThen(v, requests'[r])
      /\ \A s \in Open' : PermittedThen(v, sessions'[s])
<1> DEFINE AllSound == \A j \in Reconciler : walks'[j] # None => SoundNext(walks'[j])
<1> DEFINE Looks(k, w, todo) ==
      /\ Go(k, w, todo)
      /\ w.phase = "request" => todo \subseteq Active
      /\ w.phase = "session" => todo \subseteq 1..MaxMinted
      /\ \A r \in Request : Alive(r)' /\ (w.phase = "request" => r \notin todo) => FitsThen(w.seen, requests'[r])
      /\ w.phase = "session" => \A s \in Open' \ todo : PermittedThen(w.seen, sessions'[s])
      /\ w.phase = "request" => Open' = Open
<1>1. settled \in Nat \ {0} /\ settled \in 1..Len(past)
  BY DEF TypeOK, ShapeInv
<1>2. Settles(settled)
  <2>1. ASSUME NEW r \in Request, Alive(r)' PROVE FitsThen(settled, requests'[r])
    BY <1>1, <2>1, AliveStep DEF SettledInv
  <2>2. ASSUME NEW s \in Open' PROVE PermittedThen(settled, sessions'[s])
    BY <1>1, OpenPermitted DEF SettledInv
  <2> QED BY <2>1, <2>2
\* A reconciliation that is left alone.
<1>3. ASSUME NEW j \in Reconciler, walks[j] # None PROVE SoundNext(walks[j])
  <2>1. walks[j].seen \in Nat \ {0} /\ walks[j].seen \in 1..Len(past)
    BY <1>3 DEF TypeOK, ShapeInv, WalkRow
  <2>2. ASSUME NEW r \in Request, Alive(r)', walks[j].phase = "request" => r \notin walks[j].todo
        PROVE  FitsThen(walks[j].seen, requests'[r])
    BY <1>3, <2>1, <2>2, AliveStep DEF SettledInv
  <2>3. ASSUME NEW s \in Open' \ walks[j].todo, walks[j].phase = "session" PROVE PermittedThen(walks[j].seen, sessions'[s])
    BY <1>3, <2>1, <2>3, OpenPermitted DEF SettledInv
  <2> QED BY <2>2, <2>3
<1>4. ASSUME NEW j \in Reconciler, walks'[j] = walks[j], walks'[j] # None PROVE SoundNext(walks'[j])
  BY <1>3, <1>4
<1>5. ASSUME NEW j \in Reconciler, NEW r \in Request, End(r), walks'[j] # None PROVE SoundNext(walks'[j])
  <2>1. walks'[j] = Without(walks[j], r)
    BY <1>5 DEF End
  <2>2. walks[j] # None
    BY <1>5, <2>1 DEF Without
  <2>3. walks[j] \in WalkRow
    BY <2>2 DEF TypeOK
  <2>4. requests'[r] = None
    BY <1>5 DEF End, TypeOK
  <2>5. ~Alive(r)'
    BY <2>4 DEF Alive, Active
  <2>6. /\ walks'[j].seen = walks[j].seen /\ walks'[j].phase = walks[j].phase
        /\ walks'[j].todo = IF walks[j].phase = "request" THEN walks[j].todo \ {r} ELSE walks[j].todo
    BY <2>1, <2>3, WithoutSeen
  <2>7. SoundNext(walks[j])
    BY <1>3, <2>2
  <2>8. ASSUME NEW q \in Request, Alive(q)', walks'[j].phase = "request" => q \notin walks'[j].todo
        PROVE  FitsThen(walks'[j].seen, requests'[q])
    <3>1. walks[j].phase = "request" => q \notin walks[j].todo
      BY <2>5, <2>6, <2>8
    <3> QED BY <2>6, <2>7, <2>8, <3>1
  <2> QED BY <2>6, <2>7, <2>8
\* The one that looks at something.
<1>6. ASSUME NEW k \in Reconciler, Goes(k)
      PROVE  \E w \in WalkRow, todo \in SUBSET Nat : Looks(k, w, todo)
  <2>1. CASE Begin(k, Len(past')) /\ UNCHANGED <<requests, sessions, minted>>
    <3> DEFINE w == [seen |-> Len(past'), phase |-> "request", todo |-> {}]
    <3>1. w \in WalkRow /\ w.phase = "request"
      BY DEF WalkRow, TypeOK
    <3>2. Active \in SUBSET Nat
      BY GatewayAssumption DEF Active
    <3>3. Go(k, w, Active) /\ UNCHANGED <<requests, sessions, minted>>
      BY <2>1 DEF Begin
    <3>4. Open' = Open /\ \A r \in Request : Alive(r)' => r \in Active
      BY <3>3 DEF Open, Active, Alive
    <3> HIDE DEF w
    <3> QED BY <3>1, <3>2, <3>3, <3>4
  <2>2. CASE VisitRequest(k)
    <3>1. PICK r \in walks[k].todo, v \in walks[k].seen..Len(past) :
            /\ requests' = IF Keeps(walks[k], requests[r], v) THEN requests ELSE [requests EXCEPT ![r].aborted = TRUE]
            /\ Go(k, walks[k], walks[k].todo \ {r})
      BY <2>2 DEF VisitRequest
    <3>2. /\ walks[k] # None /\ walks[k] \in WalkRow /\ walks[k].phase = "request" /\ walks[k].todo \subseteq Active
          /\ r \in Active /\ r \in Request
      BY <2>2, <3>1 DEF VisitRequest, TypeOK, Active
    <3>3. walks[k].seen \in 1..Len(past') /\ UNCHANGED past
      BY <2>2, <3>2 DEF VisitRequest, ShapeInv, WalkRow, TypeOK
    <3>4. Alive(r)' => FitsThen(walks[k].seen, requests'[r])
      <4>1. CASE Keeps(walks[k], requests[r], v)
        <5>1. requests'[r] = requests[r]
          BY <3>1, <4>1
        <5>2. /\ requests[r].prov \in past'[walks[k].seen].for /\ requests[r].target = past'[walks[k].seen].target
              /\ requests[r].prov \in past'[v].on
          BY <3>3, <4>1 DEF Keeps
        <5>3. walks[k].seen \in walks[k].seen..Len(past') /\ v \in walks[k].seen..Len(past')
          BY <3>1, <3>3
        <5> QED BY <5>1, <5>2, <5>3 DEF FitsThen, ServedThen, SwitchedThen
      <4>2. CASE ~Keeps(walks[k], requests[r], v)
        <5>1. requests'[r] = [requests[r] EXCEPT !.aborted = TRUE]
          BY <3>1, <3>2, <4>2 DEF TypeOK
        <5> QED BY <3>2, <5>1, CutRow DEF Alive
      <4> QED BY <4>1, <4>2
    <3>5. Open' = Open /\ walks[k].todo \ {r} \in SUBSET Nat
      <4>1. walks[k].todo \ {r} \in SUBSET Nat
        BY <3>2, GatewayAssumption DEF Active
      <4> QED BY <2>2, <4>1 DEF VisitRequest, Open
    <3>6. ASSUME NEW q \in Request, Alive(q)', q \notin walks[k].todo \ {r} PROVE FitsThen(walks[k].seen, requests'[q])
      BY <1>3, <3>2, <3>4, <3>6
    <3> QED BY ZenonT(40), <3>1, <3>2, <3>5, <3>6
  <2>3. CASE VisitSession(k)
    <3>1. PICK s \in walks[k].todo, v \in walks[k].seen..Len(past) :
            /\ sessions' = IF sessions[s] = None \/ Keeps(walks[k], sessions[s], v) THEN sessions
                           ELSE [sessions EXCEPT ![s] = None]
            /\ Go(k, walks[k], walks[k].todo \ {s})
      BY <2>3 DEF VisitSession
    <3>2. /\ walks[k] # None /\ walks[k] \in WalkRow /\ walks[k].phase = "session" /\ walks[k].todo \subseteq 1..MaxMinted
          /\ s \in 1..MaxMinted
      BY <2>3, <3>1 DEF VisitSession, TypeOK, WalkRow
    <3>3. walks[k].seen \in 1..Len(past') /\ UNCHANGED past
      BY <2>3, <3>2 DEF VisitSession, ShapeInv, WalkRow, TypeOK
    <3>4. s \in Open' => PermittedThen(walks[k].seen, sessions'[s])
      <4>1. CASE sessions[s] # None /\ Keeps(walks[k], sessions[s], v)
        <5>1. sessions'[s] = sessions[s]
          BY <3>1, <4>1
        <5>2. /\ sessions[s].prov \in past'[walks[k].seen].for /\ sessions[s].target = past'[walks[k].seen].target
              /\ sessions[s].prov \in past'[v].on
          BY <3>3, <4>1 DEF Keeps
        <5>3. walks[k].seen \in walks[k].seen..Len(past') /\ v \in walks[k].seen..Len(past')
          BY <3>1, <3>3
        <5> QED BY <5>1, <5>2, <5>3 DEF PermittedThen, ServedThen, SwitchedThen
      <4>2. CASE sessions[s] = None \/ ~Keeps(walks[k], sessions[s], v)
        <5>1. sessions'[s] = None
          BY <3>1, <3>2, <4>2 DEF TypeOK
        <5> QED BY <5>1 DEF Open
      <4> QED BY <4>1, <4>2
    <3>5. walks[k].todo \ {s} \in SUBSET Nat
      BY <3>2, GatewayAssumption
    <3>6. ASSUME NEW q \in Open', q \notin walks[k].todo \ {s} PROVE PermittedThen(walks[k].seen, sessions'[q])
      BY <1>3, <3>2, <3>4, <3>6
    <3>7. \A q \in Request : Alive(q)' => FitsThen(walks[k].seen, requests'[q])
      BY <1>3, <3>2
    <3> QED BY <3>1, <3>2, <3>5, <3>6, <3>7
  <2>4. CASE NothingLeft(k)
    <3>1. walks[k] # None /\ walks[k] \in WalkRow /\ walks[k].todo = {} /\ Go(k, walks[k], {})
      BY <2>4 DEF NothingLeft, TypeOK
    <3>2. Open' = Open
      BY <2>4 DEF NothingLeft, traffic, Open
    <3>3. SoundNext(walks[k])
      BY <1>3, <3>1
    <3> QED BY <3>1, <3>2, <3>3
  <2> QED BY <1>6, <2>1, <2>2, <2>3, <2>4 DEF Goes, Walk, StartWalk, Configure, traffic
<1>7. Settles(settled') /\ AllSound
  <2>1. CASE UNCHANGED <<walks, settled>>
    BY <1>2, <1>4, <2>1
  <2>2. ASSUME NEW r \in Request, End(r), UNCHANGED settled PROVE Settles(settled') /\ AllSound
    BY <1>2, <1>5, <2>2
  <2>3. CASE walks' = [k \in Reconciler |-> None] /\ UNCHANGED settled
    BY <1>2, <2>3
  <2>4. ASSUME NEW k \in Reconciler, Goes(k) PROVE Settles(settled') /\ AllSound
    <3>1. PICK w \in WalkRow, todo \in SUBSET Nat : Looks(k, w, todo)
      BY <1>6, <2>4
    <3>2. /\ walks'[k] = None => Settles(w.seen)
          /\ walks'[k] # None => SoundNext(walks'[k])
      <4>1. walks'[k] # None => walks'[k].seen = w.seen
        BY <3>1, WalkGoes
      <4> QED BY <3>1, <4>1, GoSound
    <3>3. ASSUME NEW j \in Reconciler \ {k}, walks'[j] # None PROVE SoundNext(walks'[j])
      <4>1. walks'[j] = walks[j]
        BY <3>1, WalkGoes
      <4> QED BY <1>4, <3>3, <4>1
    <3>4. settled' = settled \/ (walks'[k] = None /\ settled' = w.seen)
      BY <3>1, WalkGoes
    <3>5. Settles(settled')
      BY <1>2, <3>2, <3>4
    <3> QED BY <3>2, <3>3, <3>5
  <2> QED BY <2>1, <2>2, <2>3, <2>4, WalkStep
<1> QED BY <1>7 DEF SettledInv, PermittedFrom, PermittedThen, FitsFrom, FitsThen, ServedFrom, SwitchedFrom, ServedThen, SwitchedThen
-----------------------------------------------------------------------------
(* Theorems *)

IInv == TypeOK /\ ShapeInv /\ RevokedInv /\ NarrowedInv /\ OffInv /\ SettledInv

LEMMA GatewayInit == Init => IInv
<1> SUFFICES ASSUME Init PROVE IInv
  OBVIOUS
<1> USE GatewayAssumption, NoneAssumption
<1>1. Edits[1] \in Config /\ Len(Edits) \in Nat \ {0}
  <2>1. Edits \in Seq(Config)
    BY DEF Config
  <2> QED BY <2>1
<1>2. Active = {} /\ Open = {} /\ \A r \in Request : requests[r] = None
  BY DEF Init, Active, Open
<1>3. TypeOK
  <2>1. devices \in [Device -> Row] /\ \A d \in Device : devices[d].status = "live"
    BY DEF Init, Row
  <2>2. past \in Seq(Config) /\ Len(past) = 1
    BY <1>1 DEF Init
  <2>3. {wanted, kept, running, missed} \subseteq BOOLEAN
    BY DEF Init
  <2> QED BY <1>1, <1>2, <2>1, <2>2, <2>3 DEF Init, TypeOK
<1>4. ShapeInv /\ NarrowedInv
  BY <1>1, <1>2 DEF Init, ShapeInv, NarrowedInv, Alive
<1>5. RevokedInv /\ OffInv
  <2>1. \A d \in Device : devices[d].status = "live" /\ saved[d].status = "live"
    BY DEF Init
  <2> QED BY <1>2, <2>1 DEF Init, RevokedInv, OffInv, Alive
<1>6. SettledInv
  BY <1>2 DEF Init, SettledInv, Alive
<1> QED BY <1>3, <1>4, <1>5, <1>6 DEF IInv

LEMMA GatewayStep == IInv /\ [Next]_vars => IInv'
BY GatewayTypeStep, GatewayShapeStep, RevokedStep, NarrowedStep, OffStep, SettledStep DEF IInv

\* Every variable keeps its type, and a reconciliation is only on its way to
\* requests that are registered, through every request, call, edit, failed
\* write and restart of class Gateway.
THEOREM GatewayTypeCorrect == Spec => []TypeOK
<1>1. IInv => TypeOK
  BY DEF IInv
<1> QED BY <1>1, GatewayInit, GatewayStep, PTL DEF Spec

\* A device whose revocation was answered, and of which no write failed, has no
\* session and nothing upstream, also after a restart (revoke, deleteDevice).
THEOREM GatewayRevokedIsCut == Spec => []RevokedIsCut
<1>1. IInv => RevokedIsCut
  BY DEF IInv, TypeOK, RevokedInv, RevokedIsCut, Flowing, Alive, Active
<1> QED BY <1>1, GatewayInit, GatewayStep, PTL DEF Spec

\* What was opened before a provider was taken from a device is not revived when
\* the provider is granted again (updateDeviceProviders, abortDeviceProviders).
THEOREM GatewayNarrowedIsCut == Spec => []NarrowedIsCut
<1>1. IInv => NarrowedIsCut
  BY DEF IInv, NarrowedInv, NarrowedIsCut, Flowing, Alive, Active
<1> QED BY <1>1, GatewayInit, GatewayStep, PTL DEF Spec

\* Once a call has switched the gateway off and its write did not fail, nothing
\* listens; and a gateway that does not listen has no session and serves nobody
\* who is still there, whichever requests its closing found between two checks
\* (saveConfig, closeServer).
THEOREM GatewayOffIsEmpty == Spec => []OffIsEmpty
<1>1. IInv => OffIsEmpty
  BY DEF IInv, OffInv, OffIsEmpty, Flowing, Active
<1> QED BY <1>1, GatewayInit, GatewayStep, PTL DEF Spec

\* When a reconciliation has ended, whatever is upstream or has a session was
\* allowed by the configuration it read or a later one (reconcile).
THEOREM GatewaySettledIsCut == Spec => []SettledIsCut
<1>1. IInv => SettledIsCut
  BY DEF IInv, SettledInv, SettledIsCut, PermittedFrom, FitsFrom, ServedFrom, SwitchedFrom, Unlooked, Flowing, Alive, Active
<1> QED BY <1>1, GatewayInit, GatewayStep, PTL DEF Spec
=============================================================================
