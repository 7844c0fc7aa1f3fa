---------------------------- MODULE SignInsProofs ----------------------------
(***************************************************************************)
(* Proofs about SignIns, for any names, sign-ins, refreshes, failed saves  *)
(* and restarts: what was signed out stays away, what was reported as done *)
(* is kept, and the kept token is the one the server honours.              *)
(***************************************************************************)
EXTENDS SignIns, SequenceTheorems, TLAPS

\* A flow has the name it was started for.
NamedInv == \A f \in Flow :
    /\ flows[f].result # "new" => flows[f].name \in Name
    /\ flows[f].listed => flows[f].result # "new"
    /\ \A via \in Via : exchange[f][via] # "idle" => flows[f].result # "new"
TypeInv == TypeOK /\ NamedInv

\* Whoever waits for a save is where it asked for it; and nobody waits twice.
Asked(i) ==
    LET s == saves[i] IN
    /\ s.kind = "refresh" => refreshing[s.name] # None /\ refreshing[s.name].stage = "saving"
    /\ s.kind = "exchange" => exchange[s.flow][s.via] = "saving"
    /\ s.kind = "queue" => holder # None /\ holder.op \in {"signOut", "rename"}
QueueInv ==
    /\ \A i \in 1..Len(saves) : Asked(i)
    /\ \A i, j \in 1..Len(saves) : i # j => saves[i] # saves[j]
    /\ \A f \in Flow : exchange[f]["paste"] # "idle" => holder = [op |-> "finish", flow |-> f]
    /\ saves = <<>> => tmp = None

\* Wherever grants are kept: in memory, in the file, in the file being written.
Holdings == {grants, file} \cup ({tmp} \ {None})
Distinct(X) == \A n, m \in Name : X[n] # None /\ X[m] # None /\ X[n].flow = X[m].flow => n = m
Issued(X) == \A n \in Name : X[n] # None => X[n].v <= live[X[n].flow]
Nowhere(f) == \A X \in Holdings : f \notin FlowsOf(X)
SaveOf(kind) == saves # <<>> /\ tmp # None /\ Head(saves).kind = kind

\* The grant of a flow is out, and none is on its way.
Out(f) == live[f] # 0 /\ f \notin FlowsOf(grants) /\ \A via \in Via : exchange[f][via] # "granted"
HeldInv == \A X \in Holdings : Distinct(X) /\ Issued(X)
JobsInv == \A n \in Name : refreshing[n] # None =>
    LET of == refreshing[n].of IN
    /\ of.v <= live[of.flow] /\ of.v < MaxVersion
    /\ refreshing[n].stage = "granted" => of.v < live[of.flow]
CodesInv == \A f \in Flow, via \in Via : exchange[f][via] = "granted" =>
    /\ live[f] = 1 /\ Nowhere(f)
    /\ \A n \in Name : refreshing[n] # None => refreshing[n].of.flow # f
    /\ \A w \in Via : exchange[f][w] = "granted" => w = via
SignOutInv == holder # None /\ holder.op = "signOut" =>
    /\ Out(holder.flow)
    /\ SaveOf("queue") => holder.flow \notin FlowsOf(tmp)
GoneInv == \A f \in signedOut : Out(f) /\ Nowhere(f)
GrantInv == HeldInv /\ JobsInv /\ CodesInv /\ SignOutInv /\ GoneInv

\* A sign-in that was reported is in every holding, until it is given up.
KeepInv ==
    /\ \A f \in told \ over : \A X \in Holdings : f \in FlowsOf(X)
    /\ \A f \in Flow, via \in Via : exchange[f][via] = "saving" => f \in FlowsOf(grants) \cup over
    /\ SaveOf("exchange") => Head(saves).flow \in FlowsOf(tmp) \cup over

\* No answer and no save about the flow was lost, and its user did not give it up.
Regular(f) == f \notin mishap \cup over
Refreshes(n, f) == refreshing[n] # None /\ refreshing[n].of.flow = f
\* What is held is current, or a refresh under way explains it.
Fresh(X) == \A n \in Name : X[n] # None /\ Regular(X[n].flow) =>
                X[n].v = live[X[n].flow] \/ \E m \in Name : Refreshes(m, X[n].flow)
\* A refresh knows the grant in memory and what the server makes of it.
Follows(n) ==
    LET of == refreshing[n].of IN
    \/ refreshing[n].stage = "sent" /\ grants[n] = of /\ live[of.flow] = of.v
    \/ refreshing[n].stage = "granted" /\ grants[n] = of /\ live[of.flow] = of.v + 1
    \/ refreshing[n].stage = "saving" /\ grants[n] = NextGrant(of) /\ live[of.flow] = of.v + 1
MemoryInv == \A n \in Name :
    grants[n] # None /\ Regular(grants[n].flow) /\ ~Refreshes(n, grants[n].flow)
      => grants[n].v = live[grants[n].flow]
FollowInv == \A n \in Name : refreshing[n] # None /\ Regular(refreshing[n].of.flow) => Follows(n)
FreshInv == \A X \in Holdings : Fresh(X)
WrittenInv == SaveOf("refresh") =>
    LET f == refreshing[Head(saves).name].of.flow IN
    Regular(f) => \A n \in Name : tmp[n] # None /\ tmp[n].flow = f => tmp[n].v = live[f]
CurrentInv == MemoryInv /\ FollowInv /\ FreshInv /\ WrittenInv

IInv == TypeInv /\ QueueInv /\ GrantInv /\ KeepInv /\ CurrentInv /\ PendingIsHeard

-----------------------------------------------------------------------------
(* Types *)

LEMMA InitIsTyped == ASSUME Init PROVE TypeInv
<1>1. grants \in Grants /\ file \in Grants /\ tmp \in Grants \cup {None}
  BY DEF Init, Grants
<1>2. flows \in [Flow -> [name : Name \cup {None}, result : Results, listed : BOOLEAN]]
  BY DEF Init, Results
<1>3. exchange \in [Flow -> [Via -> Stages]] /\ refreshing \in [Name -> Job \cup {None}]
  BY DEF Init, Stages
<1>4. holder \in Holders \cup {None} /\ saves \in Seq(Owners) /\ live \in [Flow -> 0..MaxVersion]
  BY SignInsAssumption DEF Init
<1>7. calls \in 0..MaxCalls /\ faults \in 0..MaxFaults
  BY SignInsAssumption DEF Init
<1>8. /\ listening \in BOOLEAN /\ opening \in BOOLEAN
      /\ told \subseteq Flow /\ over \subseteq Flow /\ signedOut \subseteq Flow /\ mishap \subseteq Flow
  BY DEF Init
<1>5. TypeOK
  BY <1>1, <1>2, <1>3, <1>4, <1>7, <1>8 DEF TypeOK
<1>6. NamedInv
  BY DEF Init, NamedInv
<1>q. QED BY <1>5, <1>6 DEF TypeInv

BoundsOK == calls \in 0..MaxCalls /\ faults \in 0..MaxFaults

LEMMA CallCounts == ASSUME BoundsOK, Called PROVE BoundsOK'
BY SignInsAssumption DEF BoundsOK, Called

LEMMA FaultCounts == ASSUME BoundsOK, Fault, UNCHANGED calls PROVE BoundsOK'
BY SignInsAssumption DEF BoundsOK, Fault

LEMMA StartIsTyped ==
  ASSUME TypeInv, NEW f \in Flow, NEW n \in Name, Start(f, n)
  PROVE  TypeInv'
<1>1. PICK old \in SUBSET Flow :
         flows' = [g \in Flow |->
                     IF g = f THEN [name |-> n, result |-> "pending", listed |-> TRUE]
                     ELSE IF flows[g].name = n \/ g \in old THEN [flows[g] EXCEPT !.listed = FALSE]
                     ELSE flows[g]]
  BY DEF Start
<1>2. flows' \in [Flow -> [name : Name \cup {None}, result : Results, listed : BOOLEAN]]
  BY <1>1 DEF TypeInv, TypeOK, Results
<1>3. BoundsOK'
  BY CallCounts DEF Start, TypeInv, TypeOK, BoundsOK
<1>4. TypeOK'
  BY <1>2, <1>3 DEF TypeInv, TypeOK, BoundsOK, Start, history
<1>5. NamedInv'
  BY <1>1 DEF TypeInv, TypeOK, NamedInv, Start
<1>q. QED BY <1>4, <1>5 DEF TypeInv

\* Cancelling, signing out and forgetting take flows off the list, no more.
LEMMA UnlistedIsTyped ==
  ASSUME TypeInv, NEW n \in Name
  PROVE  /\ Unlisted(n) \in [Flow -> [name : Name \cup {None}, result : Results, listed : BOOLEAN]]
         /\ \A f \in Flow : /\ Unlisted(n)[f].name = flows[f].name
                            /\ Unlisted(n)[f].result = flows[f].result
                            /\ Unlisted(n)[f].listed = (flows[f].listed /\ flows[f].name # n)
BY DEF TypeInv, TypeOK, Unlisted

LEMMA CancelIsTyped ==
  ASSUME TypeInv, NEW n \in Name, Cancel(n)
  PROVE  TypeInv'
<1>1. BoundsOK'
  BY CallCounts DEF Cancel, TypeInv, TypeOK, BoundsOK
<1>2. TypeOK'
  BY <1>1, UnlistedIsTyped DEF TypeInv, TypeOK, BoundsOK, Cancel, history, StaysOpen
<1>3. NamedInv'
  BY UnlistedIsTyped DEF TypeInv, NamedInv, Cancel
<1>q. QED BY <1>2, <1>3 DEF TypeInv

LEMMA CompleteIsTyped ==
  ASSUME TypeInv, NEW f \in Flow, NEW via \in Via, Complete(f, via)
  PROVE  TypeInv'
<1>1. BoundsOK'
  BY CallCounts DEF Complete, TypeInv, TypeOK, BoundsOK
<1>2. exchange' \in [Flow -> [Via -> Stages]] /\ holder' \in Holders \cup {None}
  BY DEF TypeInv, TypeOK, Complete, Stages, Holders
<1>3. TypeOK'
  BY <1>1, <1>2 DEF TypeInv, TypeOK, BoundsOK, Complete, history
<1>4. NamedInv'
  BY DEF TypeInv, TypeOK, NamedInv, Complete
<1>q. QED BY <1>3, <1>4 DEF TypeInv

LEMMA RedeemIsTyped ==
  ASSUME TypeInv, NEW f \in Flow, NEW via \in Via, Redeem(f, via)
  PROVE  TypeInv'
<1>1. BoundsOK'
  BY FaultCounts DEF Redeem, TypeInv, TypeOK, BoundsOK
<1>2. live' \in [Flow -> 0..MaxVersion]
  <2>1. 1 \in 0..MaxVersion
    BY SignInsAssumption
  <2>q. QED BY <2>1 DEF TypeInv, TypeOK, Redeem
<1>3. PICK s \in {"granted", "refused"} : exchange' = [exchange EXCEPT ![f][via] = s]
  BY DEF Redeem
<1>4. exchange' \in [Flow -> [Via -> Stages]]
  BY <1>3 DEF TypeInv, TypeOK, Stages
<1>5. TypeOK'
  BY <1>1, <1>2, <1>4 DEF TypeInv, TypeOK, BoundsOK, Redeem, history
<1>6. NamedInv'
  <2>1. exchange[f][via] # "idle" /\ UNCHANGED flows
    BY DEF Redeem
  <2>2. \A g \in Flow, w \in Via : exchange'[g][w] # "idle" => exchange[g][w] # "idle"
    BY <1>3, <2>1 DEF TypeInv, TypeOK
  <2>q. QED BY <2>1, <2>2 DEF TypeInv, NamedInv
<1>q. QED BY <1>5, <1>6 DEF TypeInv

\* A save is asked for by one of those who may.
LEMMA SaveIsTyped ==
  ASSUME TypeOK, NEW s \in Owners, Save(s)
  PROVE  saves' \in Seq(Owners)
BY DEF TypeOK, Save

LEMMA GrantedIsTyped ==
  ASSUME TypeInv, NEW f \in Flow, NEW via \in Via, Granted(f, via)
  PROVE  TypeInv'
<1> DEFINE n == flows[f].name
<1>1. n \in Name /\ exchange[f][via] = "granted" /\ UNCHANGED flows
  BY DEF Granted, TypeInv, NamedInv
<1>2. [flow |-> f, v |-> 1] \in Grant
  BY SignInsAssumption DEF Grant
<1>3. grants' \in Grants
  BY <1>1, <1>2 DEF TypeInv, TypeOK, Granted, Grants
<1>4. exchange' \in [Flow -> [Via -> Stages]]
  BY DEF TypeInv, TypeOK, Granted, Stages
<1>5. saves' \in Seq(Owners)
  <2>1. [kind |-> "exchange", flow |-> f, via |-> via] \in Owners
    BY DEF Owners
  <2>q. QED BY <2>1, SaveIsTyped DEF Granted, TypeInv
<1>6. over' \subseteq Flow
  BY <1>1 DEF TypeInv, TypeOK, Granted, Replaced, Grants, Grant
<1>7. TypeOK'
  BY <1>3, <1>4, <1>5, <1>6 DEF TypeInv, TypeOK, Granted, bounds
<1>8. NamedInv'
  <2>1. \A g \in Flow, w \in Via : exchange'[g][w] # "idle" => exchange[g][w] # "idle"
    BY <1>1 DEF Granted, TypeInv, TypeOK
  <2>q. QED BY <1>1, <2>1 DEF TypeInv, NamedInv
<1>q. QED BY <1>7, <1>8 DEF TypeInv

\* The end of an exchange
LEMMA EndExchangeIsTyped ==
  ASSUME TypeInv, NEW f \in Flow, NEW via \in Via, NEW result \in {"done", "failed"},
         exchange[f][via] # "idle", EndExchange(f, via, result)
  PROVE  /\ flows' \in [Flow -> [name : Name \cup {None}, result : Results, listed : BOOLEAN]]
         /\ listening' \in BOOLEAN
         /\ exchange' \in [Flow -> [Via -> Stages]]
         /\ holder' \in Holders \cup {None}
         /\ NamedInv'
<1>1. flows' \in [Flow -> [name : Name \cup {None}, result : Results, listed : BOOLEAN]]
  BY DEF TypeInv, TypeOK, EndExchange, Results
<1>2. listening' \in BOOLEAN /\ holder' \in Holders \cup {None}
  BY DEF TypeInv, TypeOK, EndExchange, StaysOpen
<1>3. exchange' \in [Flow -> [Via -> Stages]]
  BY DEF TypeInv, TypeOK, EndExchange, Stages
<1>4. flows[f].result # "new"
  BY DEF TypeInv, NamedInv
<1>5. \A g \in Flow : /\ flows'[g].name = flows[g].name /\ flows'[g].listed = flows[g].listed
                      /\ flows'[g].result # flows[g].result => g = f
                      /\ flows'[g].result = "new" <=> flows[g].result = "new"
  BY <1>4 DEF TypeInv, TypeOK, EndExchange
<1>6. \A g \in Flow, w \in Via : exchange'[g][w] # "idle" => exchange[g][w] # "idle"
  BY DEF EndExchange, TypeInv, TypeOK
<1>7. NamedInv'
  BY <1>5, <1>6 DEF TypeInv, NamedInv
<1>q. QED BY <1>1, <1>2, <1>3, <1>7

LEMMA NotGrantedIsTyped ==
  ASSUME TypeInv, NEW f \in Flow, NEW via \in Via, NotGranted(f, via)
  PROVE  TypeInv'
<1>1. EndExchange(f, via, "failed") /\ exchange[f][via] # "idle"
  BY DEF NotGranted
<1>2. TypeOK' /\ NamedInv'
  BY <1>1, EndExchangeIsTyped DEF NotGranted, TypeInv, TypeOK, history, bounds
<1>q. QED BY <1>2 DEF TypeInv

LEMMA DeniedIsTyped ==
  ASSUME TypeInv, NEW f \in Flow, Denied(f)
  PROVE  TypeInv'
<1>1. BoundsOK'
  BY CallCounts DEF Denied, TypeInv, TypeOK, BoundsOK
<1>2. flows[f].listed /\ flows[f].result # "new" /\ flows' = [flows EXCEPT ![f].result = "failed"]
  BY DEF Denied, TypeInv, NamedInv
<1>3. flows' \in [Flow -> [name : Name \cup {None}, result : Results, listed : BOOLEAN]]
  BY <1>2 DEF TypeInv, TypeOK, Results
<1>4. TypeOK'
  BY <1>1, <1>3 DEF TypeInv, TypeOK, BoundsOK, Denied, history
<1>5. NamedInv'
  BY <1>2 DEF TypeInv, TypeOK, NamedInv, Denied
<1>q. QED BY <1>4, <1>5 DEF TypeInv

LEMMA ForgetIsTyped ==
  ASSUME TypeInv, NEW f \in Flow, Forget(f)
  PROVE  TypeInv'
<1>2. flows' = [flows EXCEPT ![f].listed = FALSE]
  BY DEF Forget
<1>3. flows' \in [Flow -> [name : Name \cup {None}, result : Results, listed : BOOLEAN]]
  BY <1>2 DEF TypeInv, TypeOK
<1>4. TypeOK'
  BY <1>3 DEF TypeInv, TypeOK, Forget, history, bounds
<1>5. NamedInv'
  BY <1>2 DEF TypeInv, TypeOK, NamedInv, Forget
<1>q. QED BY <1>4, <1>5 DEF TypeInv

LEMMA GrantFlow == ASSUME TypeOK, NEW n \in Name, grants[n] # None PROVE grants[n] \in Grant /\ grants[n].flow \in Flow
BY DEF TypeOK, Grants, Grant

LEMMA HoldsQueue ==
  ASSUME NEW f \in Flow, NEW op \in {"finish", "rename", "signOut"}
  PROVE  [op |-> op, flow |-> f] \in Holders /\ [op |-> op, flow |-> f] # None
BY NoneAssumption DEF Holders

LEMMA ReplacedIsTyped == ASSUME TypeOK, NEW n \in Name PROVE Replaced(n) \subseteq Flow
BY DEF TypeOK, Grants, Grant, Replaced

LEMMA SignOutIsTyped ==
  ASSUME TypeInv, NEW n \in Name, SignOut(n)
  PROVE  TypeInv'
<1>1. BoundsOK'
  BY CallCounts DEF SignOut, TypeInv, TypeOK, BoundsOK
<1>2. grants' \in Grants
  BY DEF TypeInv, TypeOK, SignOut, Grants
<1>3. holder' \in Holders
  BY GrantFlow, HoldsQueue DEF SignOut, TypeInv
<1>4. saves' \in Seq(Owners)
  <2>1. [kind |-> "queue"] \in Owners
    BY DEF Owners
  <2>q. QED BY <2>1, SaveIsTyped DEF SignOut, TypeInv
<1>5. TypeOK'
  BY <1>1, <1>2, <1>3, <1>4, UnlistedIsTyped, ReplacedIsTyped
     DEF TypeInv, TypeOK, BoundsOK, SignOut, StaysOpen
<1>6. NamedInv'
  BY UnlistedIsTyped DEF TypeInv, NamedInv, SignOut
<1>q. QED BY <1>5, <1>6 DEF TypeInv

LEMMA RenameIsTyped ==
  ASSUME TypeInv, NEW from \in Name, NEW to \in Name, Rename(from, to)
  PROVE  TypeInv'
<1>1. BoundsOK'
  BY CallCounts DEF Rename, TypeInv, TypeOK, BoundsOK
<1>2. grants' \in Grants
  BY DEF TypeInv, TypeOK, Rename, Grants
<1>3. holder' \in Holders /\ grants[from].flow \in Flow
  BY GrantFlow, HoldsQueue DEF Rename, TypeInv
<1>4. saves' \in Seq(Owners)
  <2>1. [kind |-> "queue"] \in Owners
    BY DEF Owners
  <2>q. QED BY <2>1, SaveIsTyped DEF Rename, TypeInv
<1>5. over' \subseteq Flow /\ mishap' \subseteq Flow
  BY <1>3, ReplacedIsTyped DEF TypeInv, TypeOK, Rename
<1>6. TypeOK'
  BY <1>1, <1>2, <1>3, <1>4, <1>5 DEF TypeInv, TypeOK, BoundsOK, Rename
<1>7. NamedInv'
  BY DEF TypeInv, NamedInv, Rename
<1>q. QED BY <1>6, <1>7 DEF TypeInv

LEMMA JobIsSome ==
  ASSUME NEW g \in Grant, NEW s \in Stages
  PROVE  [of |-> g, stage |-> s] \in Job /\ [of |-> g, stage |-> s] # None
BY NoneAssumption DEF Job

LEMMA JobOf ==
  ASSUME TypeOK, NEW n \in Name, refreshing[n] # None
  PROVE  /\ refreshing[n] \in Job
         /\ refreshing[n].of \in Grant /\ refreshing[n].of.flow \in Flow /\ refreshing[n].of.v \in 1..MaxVersion
BY DEF TypeOK, Job, Grant

LEMMA RefreshIsTyped ==
  ASSUME TypeInv, NEW n \in Name, Refresh(n)
  PROVE  TypeInv'
<1>1. BoundsOK'
  BY CallCounts DEF Refresh, TypeInv, TypeOK, BoundsOK
<1>2. refreshing' \in [Name -> Job \cup {None}]
  <2>1. [of |-> grants[n], stage |-> "sent"] \in Job
    BY GrantFlow, JobIsSome DEF Refresh, TypeInv, Stages
  <2>q. QED BY <2>1 DEF Refresh, TypeInv, TypeOK
<1>3. TypeOK'
  BY <1>1, <1>2 DEF TypeInv, TypeOK, BoundsOK, Refresh, history
<1>4. NamedInv'
  BY DEF TypeInv, NamedInv, Refresh
<1>q. QED BY <1>3, <1>4 DEF TypeInv

\* A job that moves on keeps what it was started for.
LEMMA StageIsTyped ==
  ASSUME TypeOK, NEW n \in Name, refreshing[n] # None, NEW s \in Stages,
         refreshing' = [refreshing EXCEPT ![n].stage = s]
  PROVE  /\ refreshing' \in [Name -> Job \cup {None}]
         /\ refreshing'[n] = [of |-> refreshing[n].of, stage |-> s]
         /\ refreshing'[n] # None
         /\ \A m \in Name \ {n} : refreshing'[m] = refreshing[m]
<1>1. refreshing[n] \in Job
  BY JobOf
<1>2. [refreshing[n] EXCEPT !.stage = s] = [of |-> refreshing[n].of, stage |-> s]
  BY <1>1 DEF Job
<1>3. [of |-> refreshing[n].of, stage |-> s] \in Job /\ [of |-> refreshing[n].of, stage |-> s] # None
  BY JobIsSome, JobOf
<1>4. refreshing'[n] = [of |-> refreshing[n].of, stage |-> s]
  BY <1>2 DEF TypeOK
<1>5. \A m \in Name \ {n} : refreshing'[m] = refreshing[m]
  BY DEF TypeOK
<1>6. refreshing' \in [Name -> Job \cup {None}]
  BY <1>2, <1>3 DEF TypeOK
<1>q. QED BY <1>3, <1>4, <1>5, <1>6

LEMMA RotateShape ==
  ASSUME TypeOK, NEW n \in Name, Rotate(n)
  PROVE  \E s \in {"granted", "refused"} :
           /\ refreshing' = [refreshing EXCEPT ![n].stage = s]
           /\ live' # live => refreshing[n].of.v = live[refreshing[n].of.flow]
           /\ live' \in {live, [live EXCEPT ![refreshing[n].of.flow] = @ + 1]}
           /\ s = "granted" => /\ live' = [live EXCEPT ![refreshing[n].of.flow] = @ + 1]
                               /\ refreshing[n].of.v = live[refreshing[n].of.flow]
           /\ mishap' \in {mishap, mishap \cup {refreshing[n].of.flow}}
           /\ live' # live => s = "granted" \/ refreshing[n].of.flow \in mishap'
           /\ s = "refused" => refreshing[n].of.flow \in mishap' \/ refreshing[n].of.v # live[refreshing[n].of.flow]
BY DEF Rotate

\* A rotation stays within the versions, as no job starts at the last one.
LEMMA RotateIsTyped ==
  ASSUME TypeInv, GrantInv, NEW n \in Name, Rotate(n)
  PROVE  TypeInv'
<1> DEFINE f == refreshing[n].of.flow
<1>1. f \in Flow /\ refreshing[n].of.v \in 1..MaxVersion /\ refreshing[n].of.v < MaxVersion
  BY JobOf DEF Rotate, TypeInv, GrantInv, JobsInv
<1>2. BoundsOK'
  BY FaultCounts DEF Rotate, TypeInv, TypeOK, BoundsOK
<1>3. PICK s \in {"granted", "refused"} :
        /\ refreshing' = [refreshing EXCEPT ![n].stage = s]
        /\ live' # live => refreshing[n].of.v = live[f]
        /\ live' \in {live, [live EXCEPT ![f] = @ + 1]}
        /\ mishap' \in {mishap, mishap \cup {f}}
  BY RotateShape DEF TypeInv
<1>4. live' \in [Flow -> 0..MaxVersion]
  <2>1. CASE live' = live
    BY <2>1 DEF TypeInv, TypeOK
  <2>2. CASE live' # live
    <3>1. live[f] + 1 \in 0..MaxVersion
      BY <1>1, <1>3, <2>2, SignInsAssumption
    <3>q. QED BY <3>1, <1>1, <1>3, <2>2 DEF TypeInv, TypeOK
  <2>q. QED BY <2>1, <2>2
<1>5. refreshing' \in [Name -> Job \cup {None}]
  <2>1. s \in Stages
    BY DEF Stages
  <2>q. QED BY <1>3, <2>1, StageIsTyped DEF TypeInv, Rotate
<1>6. mishap' \subseteq Flow
  BY <1>1, <1>3 DEF TypeInv, TypeOK
<1>7. TypeOK'
  BY <1>2, <1>4, <1>5, <1>6 DEF TypeInv, TypeOK, BoundsOK, Rotate
<1>8. NamedInv'
  BY DEF TypeInv, NamedInv, Rotate
<1>q. QED BY <1>7, <1>8 DEF TypeInv

LEMMA NextIsGrant ==
  ASSUME TypeInv, GrantInv, NEW n \in Name, refreshing[n] # None
  PROVE  /\ NextGrant(refreshing[n].of) \in Grant
         /\ NextGrant(refreshing[n].of) # None
         /\ NextGrant(refreshing[n].of).flow = refreshing[n].of.flow
         /\ NextGrant(refreshing[n].of).v = refreshing[n].of.v + 1
<1>1. refreshing[n].of \in Grant /\ refreshing[n].of.v < MaxVersion
  BY JobOf DEF TypeInv, GrantInv, JobsInv
<1>q. QED BY <1>1, SignInsAssumption, NoneAssumption DEF NextGrant, Grant

LEMMA RefreshedIsTyped ==
  ASSUME TypeInv, GrantInv, NEW n \in Name, Refreshed(n)
  PROVE  TypeInv'
<1>1. grants' \in Grants
  <2>1. refreshing[n] # None /\ grants' = [grants EXCEPT ![n] = NextGrant(refreshing[n].of)]
    BY DEF Refreshed
  <2>q. QED BY <2>1, NextIsGrant DEF TypeInv, TypeOK, Grants
<1>2. refreshing' \in [Name -> Job \cup {None}]
  BY StageIsTyped DEF Refreshed, TypeInv, Stages
<1>3. saves' \in Seq(Owners)
  <2>1. [kind |-> "refresh", name |-> n] \in Owners
    BY DEF Owners
  <2>q. QED BY <2>1, SaveIsTyped DEF Refreshed, TypeInv
<1>4. TypeOK'
  BY <1>1, <1>2, <1>3 DEF TypeInv, TypeOK, Refreshed, history, bounds
<1>5. NamedInv'
  BY DEF TypeInv, NamedInv, Refreshed
<1>q. QED BY <1>4, <1>5 DEF TypeInv

LEMMA NotRefreshedIsTyped ==
  ASSUME TypeInv, NEW n \in Name, NotRefreshed(n)
  PROVE  TypeInv'
<1>1. TypeOK'
  BY DEF TypeInv, TypeOK, NotRefreshed, EndRefresh, history, bounds
<1>2. NamedInv'
  BY DEF TypeInv, NamedInv, NotRefreshed
<1>q. QED BY <1>1, <1>2 DEF TypeInv

LEMMA WriteTmpIsTyped ==
  ASSUME TypeInv, WriteTmp \/ Bound
  PROVE  TypeInv'
<1>1. TypeOK'
  BY DEF TypeInv, TypeOK, WriteTmp, Bound, Snapshot, history, bounds
<1>2. NamedInv'
  BY DEF TypeInv, NamedInv, WriteTmp, Bound
<1>q. QED BY <1>1, <1>2 DEF TypeInv

\* What somebody who waits for a save may be
LEMMA OwnerShape ==
  ASSUME NEW s \in Owners
  PROVE  \/ s.kind = "refresh" /\ s.name \in Name /\ s = [kind |-> "refresh", name |-> s.name]
         \/ /\ s.kind = "exchange" /\ s.flow \in Flow /\ s.via \in Via
            /\ s = [kind |-> "exchange", flow |-> s.flow, via |-> s.via]
         \/ s.kind = "queue" /\ s = [kind |-> "queue"]
BY DEF Owners

LEMMA HeadWaits ==
  ASSUME TypeOK, saves # <<>>
  PROVE  /\ 1 \in 1..Len(saves) /\ saves[1] = Head(saves) /\ Head(saves) \in Owners
         /\ Tail(saves) \in Seq(Owners) /\ Len(Tail(saves)) = Len(saves) - 1 /\ Len(saves) \in Nat
         /\ \A i \in 1..Len(Tail(saves)) : i + 1 \in 1..Len(saves) /\ Tail(saves)[i] = saves[i + 1]
BY DEF TypeOK

\* The three ways a save ends, by whom it was for
RefreshSaved(ok) ==
  /\ Head(saves).kind = "refresh" /\ Head(saves).name \in Name
  /\ refreshing[Head(saves).name] # None /\ refreshing[Head(saves).name].stage = "saving"
  /\ EndRefresh(Head(saves).name)
  /\ UNCHANGED <<flows, exchange, holder, listening, told, signedOut>>
ExchangeSaved(ok) ==
  /\ Head(saves).kind = "exchange" /\ Head(saves).flow \in Flow /\ Head(saves).via \in Via
  /\ exchange[Head(saves).flow][Head(saves).via] = "saving"
  /\ EndExchange(Head(saves).flow, Head(saves).via, IF ok THEN "done" ELSE "failed")
  /\ told' = told \cup (IF ok THEN {Head(saves).flow} ELSE {})
  /\ UNCHANGED <<refreshing, signedOut>>
QueueSaved(ok) ==
  /\ Head(saves).kind = "queue"
  /\ holder # None /\ holder.op \in {"signOut", "rename"}
  /\ holder' = None
  /\ signedOut' = signedOut \cup (IF ok /\ holder.op = "signOut" THEN {holder.flow} ELSE {})
  /\ UNCHANGED <<flows, exchange, refreshing, listening, told>>
SavedFrame ==
  /\ saves # <<>> /\ saves' = Tail(saves) /\ tmp' = None
  /\ UNCHANGED <<grants, opening, live, over, calls>>

LEMMA SaveCases ==
  ASSUME TypeInv, QueueInv, saves # <<>>, NEW ok \in BOOLEAN, SaveEnds(ok)
  PROVE  SavedFrame /\ (RefreshSaved(ok) \/ ExchangeSaved(ok) \/ QueueSaved(ok))
<1>1. Head(saves) \in Owners /\ Asked(1) /\ saves[1] = Head(saves)
  BY HeadWaits DEF TypeInv, QueueInv
<1>2. SavedFrame
  BY DEF SaveEnds, SavedFrame
<1>3. CASE Head(saves).kind = "refresh"
  <2>1. Head(saves).name \in Name
    BY <1>1, <1>3, OwnerShape
  <2>q. QED BY <1>1, <1>2, <1>3, <2>1 DEF SaveEnds, RefreshSaved, Asked
<1>4. CASE Head(saves).kind = "exchange"
  <2>1. Head(saves).flow \in Flow /\ Head(saves).via \in Via
    BY <1>1, <1>4, OwnerShape
  <2>q. QED BY <1>1, <1>2, <1>4, <2>1 DEF SaveEnds, ExchangeSaved, Asked
<1>5. CASE Head(saves).kind = "queue"
  BY <1>1, <1>2, <1>5 DEF SaveEnds, QueueSaved, Asked
<1>q. QED BY <1>1, <1>3, <1>4, <1>5, OwnerShape

LEMMA SaveEndsIsTyped ==
  ASSUME TypeInv, QueueInv, saves # <<>>, NEW ok \in BOOLEAN, SaveEnds(ok), BoundsOK',
         file' \in Grants, mishap' \subseteq Flow
  PROVE  TypeInv'
<1>1. SavedFrame /\ (RefreshSaved(ok) \/ ExchangeSaved(ok) \/ QueueSaved(ok))
  BY SaveCases
<1>2. saves' \in Seq(Owners) /\ tmp' = None /\ UNCHANGED <<grants, opening, live, over>>
  BY <1>1, HeadWaits DEF SavedFrame, TypeInv
<1>3. CASE RefreshSaved(ok)
  <2>1. TypeOK'
    BY <1>2, <1>3 DEF TypeInv, TypeOK, RefreshSaved, EndRefresh, BoundsOK
  <2>2. NamedInv'
    BY <1>3 DEF TypeInv, NamedInv, RefreshSaved
  <2>q. QED BY <2>1, <2>2 DEF TypeInv
<1>4. CASE ExchangeSaved(ok)
  <2> DEFINE f == Head(saves).flow
             via == Head(saves).via
             result == IF ok THEN "done" ELSE "failed"
  <2>1. /\ f \in Flow /\ via \in Via /\ result \in {"done", "failed"}
        /\ exchange[f][via] # "idle" /\ EndExchange(f, via, result)
    BY <1>4 DEF ExchangeSaved
  <2>2. /\ flows' \in [Flow -> [name : Name \cup {None}, result : Results, listed : BOOLEAN]]
        /\ listening' \in BOOLEAN
        /\ exchange' \in [Flow -> [Via -> Stages]]
        /\ holder' \in Holders \cup {None}
        /\ NamedInv'
    <3> HIDE DEF f, via, result
    <3>q. QED BY <2>1, EndExchangeIsTyped
  <2>3. told' \subseteq Flow /\ UNCHANGED <<refreshing, signedOut>>
    BY <1>4 DEF ExchangeSaved, TypeInv, TypeOK
  <2>4. TypeOK'
    BY <1>2, <2>2, <2>3 DEF TypeInv, TypeOK, BoundsOK
  <2>q. QED BY <2>2, <2>4 DEF TypeInv
<1>5. CASE QueueSaved(ok)
  <2>1. holder.flow \in Flow /\ holder' = None
    BY <1>5 DEF QueueSaved, TypeInv, TypeOK, Holders
  <2>2. signedOut' \subseteq Flow
    BY <1>5, <2>1 DEF QueueSaved, TypeInv, TypeOK
  <2>3. TypeOK'
    BY <1>2, <1>5, <2>1, <2>2 DEF TypeInv, TypeOK, QueueSaved, BoundsOK
  <2>4. NamedInv'
    BY <1>5 DEF TypeInv, NamedInv, QueueSaved
  <2>q. QED BY <2>3, <2>4 DEF TypeInv
<1>q. QED BY <1>1, <1>3, <1>4, <1>5

LEMMA FlowsOfIsTyped ==
  ASSUME NEW X \in Grants
  PROVE  FlowsOf(X) \subseteq Flow
BY DEF Grants, Grant, FlowsOf

LEMMA SavesAreTyped ==
  ASSUME TypeInv, QueueInv, RenameTmp \/ SaveFails
  PROVE  TypeInv'
<1>1. CASE RenameTmp
  <2>1. SaveEnds(TRUE) /\ saves # <<>> /\ file' = tmp /\ tmp # None /\ UNCHANGED <<mishap, faults>>
    BY <1>1 DEF RenameTmp, QueueInv
  <2>2. BoundsOK' /\ file' \in Grants /\ mishap' \subseteq Flow
    BY <2>1 DEF TypeInv, TypeOK, BoundsOK, SaveEnds
  <2>q. QED BY <2>1, <2>2, SaveEndsIsTyped
<1>2. CASE SaveFails
  <2>1. SaveEnds(FALSE) /\ saves # <<>> /\ file' = file /\ mishap' = mishap \cup FlowsOf(grants) /\ Fault
    BY <1>2 DEF SaveFails
  <2>2. BoundsOK'
    BY <2>1, FaultCounts DEF TypeInv, TypeOK, BoundsOK, SaveEnds
  <2>3. file' \in Grants /\ mishap' \subseteq Flow
    BY <2>1, FlowsOfIsTyped DEF TypeInv, TypeOK
  <2>q. QED BY <2>1, <2>2, <2>3, SaveEndsIsTyped
<1>q. QED BY <1>1, <1>2

LEMMA CrashIsTyped ==
  ASSUME TypeInv, Crash
  PROVE  TypeInv'
<1>1. BoundsOK'
  BY FaultCounts DEF Crash, TypeInv, TypeOK, BoundsOK
<1>2. /\ flows' \in [Flow -> [name : Name \cup {None}, result : Results, listed : BOOLEAN]]
      /\ \A f \in Flow : /\ flows'[f].name = flows[f].name /\ flows'[f].result = flows[f].result
                         /\ flows'[f].listed = FALSE
  BY DEF Crash, TypeInv, TypeOK
<1>3. mishap' \subseteq Flow
  BY JobOf DEF Crash, TypeInv, TypeOK
<1>4. exchange' \in [Flow -> [Via -> Stages]] /\ refreshing' \in [Name -> Job \cup {None}] /\ saves' \in Seq(Owners)
  BY DEF Crash, Stages
<1>5. TypeOK'
  BY <1>1, <1>2, <1>3, <1>4 DEF TypeInv, TypeOK, BoundsOK, Crash
<1>6. NamedInv'
  BY <1>2 DEF TypeInv, NamedInv, Crash
<1>q. QED BY <1>5, <1>6 DEF TypeInv

LEMMA StepIsTyped ==
  ASSUME TypeInv, QueueInv, GrantInv, [Next]_vars
  PROVE  TypeInv'
<1>1. CASE UNCHANGED vars
  BY <1>1 DEF vars, TypeInv, TypeOK, NamedInv
<1>2. CASE Next
  BY <1>2, StartIsTyped, CancelIsTyped, CompleteIsTyped, RedeemIsTyped, GrantedIsTyped, NotGrantedIsTyped,
     DeniedIsTyped, ForgetIsTyped, SignOutIsTyped, RenameIsTyped, RefreshIsTyped, RotateIsTyped,
     RefreshedIsTyped, NotRefreshedIsTyped, WriteTmpIsTyped, SavesAreTyped, CrashIsTyped
     DEF Next, Exchange, RefreshStep, SaveStep
<1>q. QED BY <1>1, <1>2
-----------------------------------------------------------------------------
(* Who waits for what *)

LEMMA SaveAppends ==
  ASSUME TypeOK, NEW s \in Owners, Save(s)
  PROVE  /\ Len(saves) \in Nat /\ Len(saves') = Len(saves) + 1
         /\ \A i \in 1..Len(saves) : saves'[i] = saves[i]
         /\ saves'[Len(saves) + 1] = s
         /\ saves' # <<>>
<1>1. saves \in Seq(Owners) /\ saves' = Append(saves, s)
  BY DEF TypeOK, Save
<1>2. /\ Len(saves) \in Nat /\ Len(saves') = Len(saves) + 1
      /\ \A i \in 1..Len(saves) : saves'[i] = saves[i]
      /\ saves'[Len(saves) + 1] = s
  BY <1>1
<1>q. QED BY <1>1, <1>2

LEMMA SavesAreOwners ==
  ASSUME TypeOK, NEW i \in 1..Len(saves)
  PROVE  saves[i] \in Owners
BY DEF TypeOK

\* Whoever waited before a new one came still waits as it did, and the new one
\* does not wait twice.
LEMMA QueueGrows ==
  ASSUME TypeInv, QueueInv, NEW s \in Owners, Save(s),
         \A i \in 1..Len(saves) : saves[i] # s /\ Asked(i)',
         NEW k, k = Len(saves) + 1, Asked(k)',
         \A f \in Flow : exchange'[f]["paste"] # "idle" => holder' = [op |-> "finish", flow |-> f]
  PROVE  QueueInv'
<1>1. /\ Len(saves) \in Nat /\ Len(saves') = Len(saves) + 1
      /\ \A i \in 1..Len(saves) : saves'[i] = saves[i]
      /\ saves'[Len(saves) + 1] = s
      /\ saves' # <<>>
  BY SaveAppends DEF TypeInv
<1>2. \A i \in 1..Len(saves') : i \in 1..Len(saves) \/ i = Len(saves) + 1
  BY <1>1
<1>3. \A i \in 1..Len(saves') : Asked(i)'
  BY <1>1, <1>2
<1>4. \A i, j \in 1..Len(saves') : i # j => saves'[i] # saves'[j]
  BY <1>1, <1>2 DEF QueueInv
<1>q. QED BY <1>1, <1>3, <1>4 DEF QueueInv

\* Nobody new came.
LEMMA QueueStays ==
  ASSUME TypeInv, QueueInv, UNCHANGED saves, tmp' = tmp \/ saves # <<>>,
         \A i \in 1..Len(saves) : Asked(i)',
         \A f \in Flow : exchange'[f]["paste"] # "idle" => holder' = [op |-> "finish", flow |-> f]
  PROVE  QueueInv'
<1>1. \A i \in 1..Len(saves') : Asked(i)'
  OBVIOUS
<1>q. QED BY <1>1 DEF QueueInv

\* An exchange that moves on disturbs only a save that was for it.
LEMMA ExchangeMoves ==
  ASSUME TypeInv, QueueInv, NEW f \in Flow, NEW via \in Via, NEW s \in Stages,
         exchange[f][via] # "saving", exchange' = [exchange EXCEPT ![f][via] = s],
         UNCHANGED <<refreshing, holder>>, NEW i \in 1..Len(saves), saves'[i] = saves[i]
  PROVE  Asked(i)'
<1>1. saves[i] \in Owners /\ Asked(i)
  BY SavesAreOwners DEF QueueInv, TypeInv
<1>2. \A g \in Flow, w \in Via : <<g, w>> # <<f, via>> => exchange'[g][w] = exchange[g][w]
  BY DEF TypeInv, TypeOK
<1>3. saves[i].kind = "exchange" => saves[i].flow \in Flow /\ saves[i].via \in Via
  BY <1>1, OwnerShape
<1>q. QED BY <1>1, <1>2, <1>3 DEF Asked

LEMMA CompleteQueues ==
  ASSUME TypeInv, QueueInv, NEW f \in Flow, NEW via \in Via, Complete(f, via)
  PROVE  QueueInv'
<1>1. \A g \in Flow, w \in Via : <<g, w>> # <<f, via>> => exchange'[g][w] = exchange[g][w]
  BY DEF Complete, TypeInv, TypeOK
<1>2. \A i \in 1..Len(saves) : Asked(i)'
  <2> TAKE i \in 1..Len(saves)
  <2>1. saves[i] \in Owners /\ Asked(i)
    BY SavesAreOwners DEF QueueInv, TypeInv
  <2>2. saves[i].kind = "exchange" => saves[i].flow \in Flow /\ saves[i].via \in Via
    BY <2>1, OwnerShape
  <2>q. QED BY <2>1, <2>2, <1>1 DEF Asked, Complete
<1>3. \A g \in Flow : exchange'[g]["paste"] # "idle" => holder' = [op |-> "finish", flow |-> g]
  <2> SUFFICES ASSUME NEW g \in Flow, exchange'[g]["paste"] # "idle"
               PROVE  holder' = [op |-> "finish", flow |-> g]
    OBVIOUS
  <2>1. "paste" \in Via
    BY DEF Via
  <2>2. CASE g = f /\ via = "paste"
    BY <2>2 DEF Complete
  <2>3. CASE ~(g = f /\ via = "paste")
    <3>1. exchange[g]["paste"] # "idle"
      BY <2>1, <2>3, <1>1
    <3>2. holder = [op |-> "finish", flow |-> g] /\ holder # None
      BY <3>1, HoldsQueue DEF QueueInv
    <3>q. QED BY <3>2 DEF Complete
  <2>q. QED BY <2>2, <2>3
<1>q. QED BY <1>2, <1>3, QueueStays DEF Complete

LEMMA RedeemQueues ==
  ASSUME TypeInv, QueueInv, NEW f \in Flow, NEW via \in Via, Redeem(f, via)
  PROVE  QueueInv'
<1>1. PICK s \in {"granted", "refused"} : exchange' = [exchange EXCEPT ![f][via] = s]
  BY DEF Redeem
<1>2. \A i \in 1..Len(saves) : Asked(i)'
  BY <1>1, ExchangeMoves DEF Redeem, Stages
<1>3. \A g \in Flow : exchange'[g]["paste"] # "idle" => exchange[g]["paste"] # "idle"
  BY <1>1 DEF Redeem, TypeInv, TypeOK, Via
<1>q. QED BY <1>2, <1>3, QueueStays DEF Redeem, QueueInv

LEMMA GrantedQueues ==
  ASSUME TypeInv, QueueInv, NEW f \in Flow, NEW via \in Via, Granted(f, via)
  PROVE  QueueInv'
<1> DEFINE s == [kind |-> "exchange", flow |-> f, via |-> via]
<1>1. s \in Owners /\ Save(s)
  BY DEF Owners, Granted
<1>2. exchange' = [exchange EXCEPT ![f][via] = "saving"] /\ exchange[f][via] = "granted"
  BY DEF Granted
<1>3. \A i \in 1..Len(saves) : saves[i] # s
  BY <1>2 DEF QueueInv, Asked
<1>4. \A i \in 1..Len(saves) : Asked(i)'
  BY <1>1, <1>2, SaveAppends, ExchangeMoves DEF Granted, Stages, TypeInv
<1>5. \E k : k = Len(saves) + 1 /\ Asked(k)'
  <2>0. PICK k : k = Len(saves) + 1
    OBVIOUS
  <2>1. saves'[k] = s
    BY <2>0, <1>1, SaveAppends DEF TypeInv
  <2>2. exchange'[f][via] = "saving"
    BY <1>2 DEF TypeInv, TypeOK
  <2>q. QED BY <2>0, <2>1, <2>2 DEF Asked
<1>6. \A g \in Flow : exchange'[g]["paste"] # "idle" => exchange[g]["paste"] # "idle"
  BY <1>2 DEF TypeInv, TypeOK, Via
<1>7. \A g \in Flow : exchange'[g]["paste"] # "idle" => holder' = [op |-> "finish", flow |-> g]
  BY <1>6 DEF Granted, QueueInv
<1>q. QED
  <2> HIDE DEF s
  <2>q. QED BY <1>1, <1>3, <1>4, <1>5, <1>7, QueueGrows

\* The end of an exchange leaves the queue to whoever has it.
LEMMA EndExchangeQueues ==
  ASSUME TypeInv, QueueInv, NEW f \in Flow, NEW via \in Via, NEW result, EndExchange(f, via, result),
         exchange[f][via] # "idle"
  PROVE  /\ \A g \in Flow : exchange'[g]["paste"] # "idle" => holder' = [op |-> "finish", flow |-> g]
         /\ holder # None /\ holder.op \in {"signOut", "rename"} => holder' = holder
<1>0. \A g \in Flow, w \in Via : exchange'[g][w] = IF g = f /\ w = via THEN "idle" ELSE exchange[g][w]
  BY DEF EndExchange, TypeInv, TypeOK
<1>1. ASSUME NEW g \in Flow, exchange'[g]["paste"] # "idle"
      PROVE  holder' = [op |-> "finish", flow |-> g]
  <2>1. exchange[g]["paste"] # "idle" /\ ~(g = f /\ via = "paste")
    BY <1>0, <1>1 DEF Via
  <2>2. holder = [op |-> "finish", flow |-> g]
    BY <2>1 DEF QueueInv
  <2>3. via # "paste"
    <3>1. SUFFICES ASSUME via = "paste" PROVE FALSE
      OBVIOUS
    <3>2. holder = [op |-> "finish", flow |-> f]
      BY <3>1 DEF QueueInv
    <3>3. g = f
      BY <2>2, <3>2
    <3>q. QED BY <3>1, <3>3, <2>1
  <2>q. QED BY <2>2, <2>3 DEF EndExchange
<1>2. via = "paste" => holder = [op |-> "finish", flow |-> f]
  BY DEF QueueInv
<1>q. QED BY <1>1, <1>2 DEF EndExchange

LEMMA NotGrantedQueues ==
  ASSUME TypeInv, QueueInv, NEW f \in Flow, NEW via \in Via, NotGranted(f, via)
  PROVE  QueueInv'
<1>1. EndExchange(f, via, "failed") /\ exchange[f][via] = "refused" /\ UNCHANGED <<refreshing, saves, tmp>>
  BY DEF NotGranted
<1>2. \A g \in Flow, w \in Via : exchange'[g][w] = IF g = f /\ w = via THEN "idle" ELSE exchange[g][w]
  BY <1>1 DEF EndExchange, TypeInv, TypeOK
<1>3. /\ \A g \in Flow : exchange'[g]["paste"] # "idle" => holder' = [op |-> "finish", flow |-> g]
      /\ holder # None /\ holder.op \in {"signOut", "rename"} => holder' = holder
  BY <1>1, EndExchangeQueues
<1>4. \A i \in 1..Len(saves) : Asked(i)'
  <2> TAKE i \in 1..Len(saves)
  <2>1. saves[i] \in Owners /\ Asked(i)
    BY SavesAreOwners DEF QueueInv, TypeInv
  <2>2. saves[i].kind = "exchange" => saves[i].flow \in Flow /\ saves[i].via \in Via
    BY <2>1, OwnerShape
  <2>q. QED BY <2>1, <2>2, <1>1, <1>2, <1>3 DEF Asked
<1>q. QED BY <1>1, <1>3, <1>4, QueueStays

\* Signing out and renaming take the queue when nobody has it.
LEMMA TakesQueues ==
  ASSUME TypeInv, QueueInv, holder = None, NEW h \in Holders, holder' = h, h.op \in {"signOut", "rename"},
         Save([kind |-> "queue"]), UNCHANGED <<exchange, refreshing>>
  PROVE  QueueInv'
<1> DEFINE s == [kind |-> "queue"]
<1>1. s \in Owners /\ Save(s)
  BY DEF Owners
<1>2. h # None
  BY NoneAssumption
<1>3. \A i \in 1..Len(saves) : saves[i] # s /\ saves[i].kind # "queue"
  BY DEF QueueInv, Asked
<1>4. \A i \in 1..Len(saves) : saves'[i] = saves[i]
  BY <1>1, SaveAppends DEF TypeInv
<1>5. \A i \in 1..Len(saves) : Asked(i)'
  BY <1>3, <1>4 DEF Asked, QueueInv
<1>6. \E k : k = Len(saves) + 1 /\ Asked(k)'
  <2>0. PICK k : k = Len(saves) + 1
    OBVIOUS
  <2>1. saves'[k] = s
    BY <2>0, <1>1, SaveAppends DEF TypeInv
  <2>q. QED BY <2>0, <2>1, <1>2 DEF Asked
<1>7. \A g \in Flow : exchange'[g]["paste"] = "idle"
  BY HoldsQueue DEF QueueInv
<1>q. QED
  <2> HIDE DEF s
  <2>q. QED BY <1>1, <1>3, <1>5, <1>6, <1>7, QueueGrows

LEMMA SignOutQueues ==
  ASSUME TypeInv, QueueInv, NEW n \in Name, SignOut(n)
  PROVE  QueueInv'
<1>1. [op |-> "signOut", flow |-> grants[n].flow] \in Holders
  BY GrantFlow, HoldsQueue DEF SignOut, TypeInv
<1>q. QED BY <1>1, TakesQueues DEF SignOut

LEMMA RenameQueues ==
  ASSUME TypeInv, QueueInv, NEW from \in Name, NEW to \in Name, Rename(from, to)
  PROVE  QueueInv'
<1>1. [op |-> "rename", flow |-> grants[from].flow] \in Holders
  BY GrantFlow, HoldsQueue DEF Rename, TypeInv
<1>q. QED BY <1>1, TakesQueues DEF Rename

\* A refresh that moves on disturbs no save that is not for it.
LEMMA RefreshMoves ==
  ASSUME TypeInv, QueueInv, NEW n \in Name, refreshing[n] = None \/ refreshing[n].stage # "saving",
         \A m \in Name \ {n} : refreshing'[m] = refreshing[m], UNCHANGED <<exchange, holder>>,
         NEW i \in 1..Len(saves), saves'[i] = saves[i]
  PROVE  Asked(i)' /\ saves[i] # [kind |-> "refresh", name |-> n]
<1>1. saves[i] \in Owners /\ Asked(i)
  BY SavesAreOwners DEF QueueInv, TypeInv
<1>2. saves[i].kind = "refresh" => saves[i].name \in Name
  BY <1>1, OwnerShape
<1>3. saves[i].kind = "refresh" => saves[i].name # n
  BY <1>1 DEF Asked
<1>4. saves[i] # [kind |-> "refresh", name |-> n]
  BY <1>3
<1>5. Asked(i)'
  BY <1>1, <1>2, <1>3 DEF Asked
<1>q. QED BY <1>4, <1>5

LEMMA RefreshQueues ==
  ASSUME TypeInv, QueueInv, NEW n \in Name, Refresh(n) \/ Rotate(n) \/ NotRefreshed(n)
  PROVE  QueueInv'
<1>1. refreshing[n] = None \/ refreshing[n].stage # "saving"
  BY DEF Refresh, Rotate, NotRefreshed
<1>2. UNCHANGED <<exchange, holder, saves, tmp>>
  BY DEF Refresh, Rotate, NotRefreshed
<1>3. \A m \in Name \ {n} : refreshing'[m] = refreshing[m]
  BY DEF Refresh, Rotate, NotRefreshed, EndRefresh, TypeInv, TypeOK
<1>4. \A i \in 1..Len(saves) : Asked(i)'
  BY <1>1, <1>2, <1>3, RefreshMoves
<1>q. QED BY <1>2, <1>4, QueueStays DEF QueueInv

LEMMA RefreshedQueues ==
  ASSUME TypeInv, QueueInv, NEW n \in Name, Refreshed(n)
  PROVE  QueueInv'
<1> DEFINE s == [kind |-> "refresh", name |-> n]
<1>1. s \in Owners /\ Save(s) /\ UNCHANGED <<exchange, holder>>
  BY DEF Owners, Refreshed
<1>2. refreshing[n] # None /\ refreshing[n].stage = "granted" /\ refreshing' = [refreshing EXCEPT ![n].stage = "saving"]
  BY DEF Refreshed
<1>3. /\ refreshing'[n] = [of |-> refreshing[n].of, stage |-> "saving"]
      /\ refreshing'[n] # None
      /\ \A m \in Name \ {n} : refreshing'[m] = refreshing[m]
  BY <1>2, StageIsTyped DEF TypeInv, Stages
<1>4. \A i \in 1..Len(saves) : saves'[i] = saves[i]
  BY <1>1, SaveAppends DEF TypeInv
<1>5. \A i \in 1..Len(saves) : Asked(i)' /\ saves[i] # s
  BY <1>1, <1>2, <1>3, <1>4, RefreshMoves
<1>6. \E k : k = Len(saves) + 1 /\ Asked(k)'
  <2>0. PICK k : k = Len(saves) + 1
    OBVIOUS
  <2>1. saves'[k] = s
    BY <2>0, <1>1, SaveAppends DEF TypeInv
  <2>q. QED BY <2>0, <2>1, <1>3 DEF Asked
<1>7. \A g \in Flow : exchange'[g]["paste"] # "idle" => holder' = [op |-> "finish", flow |-> g]
  BY <1>1 DEF QueueInv
<1>q. QED
  <2> HIDE DEF s
  <2>q. QED BY <1>1, <1>5, <1>6, <1>7, QueueGrows

\* What no save waits for, and what the saves behind the first one wait for
LEMMA QueueShrinks ==
  ASSUME TypeInv, QueueInv, SavedFrame,
         \A i \in 2..Len(saves) : saves[i] \in Owners /\ Asked(i) /\ saves[i] # Head(saves) =>
            /\ saves[i].kind = "refresh" => refreshing'[saves[i].name] = refreshing[saves[i].name]
            /\ saves[i].kind = "exchange" => exchange'[saves[i].flow][saves[i].via] = exchange[saves[i].flow][saves[i].via]
            /\ saves[i].kind = "queue" => holder' = holder,
         \A f \in Flow : exchange'[f]["paste"] # "idle" => holder' = [op |-> "finish", flow |-> f]
  PROVE  QueueInv'
<1>1. /\ saves' = Tail(saves) /\ tmp' = None /\ Len(saves) \in Nat \ {0}
      /\ Len(saves') = Len(saves) - 1
      /\ \A i \in 1..Len(saves') : i + 1 \in 2..Len(saves) /\ saves'[i] = saves[i + 1]
  BY HeadWaits DEF SavedFrame, TypeInv
<1>2. \A i \in 1..Len(saves') : Asked(i)'
  <2> TAKE i \in 1..Len(saves')
  <2>1. PICK j \in 2..Len(saves) : j = i + 1 /\ saves'[i] = saves[j]
    BY <1>1
  <2>2. j \in 1..Len(saves) /\ j # 1 /\ 1 \in 1..Len(saves)
    BY <1>1
  <2>3. saves[j] \in Owners /\ Asked(j) /\ saves[j] # Head(saves)
    BY <2>2, SavesAreOwners, HeadWaits DEF QueueInv, TypeInv, SavedFrame
  <2>4. /\ saves[j].kind = "refresh" => refreshing'[saves[j].name] = refreshing[saves[j].name]
        /\ saves[j].kind = "exchange" => exchange'[saves[j].flow][saves[j].via] = exchange[saves[j].flow][saves[j].via]
        /\ saves[j].kind = "queue" => holder' = holder
    BY <2>3
  <2>q. QED BY <2>1, <2>3, <2>4 DEF Asked
<1>3. \A i, j \in 1..Len(saves') : i # j => saves'[i] # saves'[j]
  <2> TAKE i, j \in 1..Len(saves')
  <2>1. i + 1 \in 1..Len(saves) /\ j + 1 \in 1..Len(saves)
    BY <1>1
  <2>q. QED BY <1>1, <2>1 DEF QueueInv
<1>q. QED BY <1>1, <1>2, <1>3 DEF QueueInv

LEMMA SaveEndsQueues ==
  ASSUME TypeInv, QueueInv, saves # <<>>, NEW ok \in BOOLEAN, SaveEnds(ok)
  PROVE  QueueInv'
<1> DEFINE h == Head(saves)
<1>1. SavedFrame /\ (RefreshSaved(ok) \/ ExchangeSaved(ok) \/ QueueSaved(ok))
  BY SaveCases
<1>2. CASE RefreshSaved(ok)
  <2>1. \A m \in Name \ {h.name} : refreshing'[m] = refreshing[m]
    BY <1>2 DEF RefreshSaved, EndRefresh, TypeInv, TypeOK
  <2>2. h \in Owners
    BY HeadWaits DEF TypeInv
  <2>3. \A s \in Owners : s # h /\ s.kind = "refresh" => s.name \in Name \ {h.name}
    BY <1>2, <2>2, OwnerShape DEF RefreshSaved
  <2>q. QED BY <1>1, <1>2, <2>1, <2>3, QueueShrinks DEF RefreshSaved, QueueInv
<1>3. CASE ExchangeSaved(ok)
  <2> DEFINE f == h.flow
             via == h.via
             result == IF ok THEN "done" ELSE "failed"
  <2>1. /\ f \in Flow /\ via \in Via /\ exchange[f][via] # "idle"
        /\ EndExchange(f, via, result) /\ UNCHANGED refreshing
    BY <1>3 DEF ExchangeSaved
  <2>2. /\ \A g \in Flow : exchange'[g]["paste"] # "idle" => holder' = [op |-> "finish", flow |-> g]
        /\ holder # None /\ holder.op \in {"signOut", "rename"} => holder' = holder
    <3> HIDE DEF f, via, result
    <3>q. QED BY <2>1, EndExchangeQueues
  <2>3. \A g \in Flow, w \in Via : exchange'[g][w] = IF g = f /\ w = via THEN "idle" ELSE exchange[g][w]
    BY <2>1 DEF EndExchange, TypeInv, TypeOK
  <2>4. h \in Owners
    BY HeadWaits DEF TypeInv
  <2>5. \A s \in Owners : s # h /\ s.kind = "exchange" =>
           s.flow \in Flow /\ s.via \in Via /\ ~(s.flow = f /\ s.via = via)
    BY <1>3, <2>4, OwnerShape DEF ExchangeSaved
  <2>6. \A s \in Owners : s # h /\ s.kind = "exchange" => exchange'[s.flow][s.via] = exchange[s.flow][s.via]
    BY <2>3, <2>5
  <2>q. QED BY <1>1, <2>1, <2>2, <2>6, QueueShrinks DEF Asked
<1>4. CASE QueueSaved(ok)
  <2>1. holder # None /\ holder.op \in {"signOut", "rename"} /\ UNCHANGED <<exchange, refreshing>>
    BY <1>4 DEF QueueSaved
  <2>2. \A g \in Flow : exchange[g]["paste"] = "idle"
    BY <2>1 DEF QueueInv
  <2>3. h \in Owners
    BY HeadWaits DEF TypeInv
  <2>4. \A s \in Owners : s # h => s.kind # "queue"
    BY <1>4, <2>3, OwnerShape DEF QueueSaved
  <2>q. QED BY <1>1, <2>1, <2>2, <2>4, QueueShrinks
<1>q. QED BY <1>1, <1>2, <1>3, <1>4

LEMMA StepQueues ==
  ASSUME TypeInv, QueueInv, [Next]_vars
  PROVE  QueueInv'
<1>1. CASE UNCHANGED <<saves, tmp, exchange, refreshing, holder>>
  BY <1>1 DEF QueueInv, Asked
<1>2. CASE WriteTmp
  BY <1>2, QueueStays DEF WriteTmp, QueueInv, Asked
<1>3. CASE RenameTmp \/ SaveFails
  <2>1. saves # <<>> /\ \E ok \in BOOLEAN : SaveEnds(ok)
    BY <1>3 DEF RenameTmp, SaveFails, QueueInv
  <2>q. QED BY <2>1, SaveEndsQueues
<1>4. CASE Crash
  BY <1>4 DEF Crash, QueueInv, Asked, Via
<1>5. CASE Next
  <2>1. ASSUME NEW f \in Flow, Denied(f) \/ Forget(f) PROVE QueueInv'
    BY <1>1, <2>1 DEF Denied, Forget
  <2>2. ASSUME NEW f \in Flow, NEW n \in Name, Start(f, n) PROVE QueueInv'
    BY <1>1, <2>2 DEF Start
  <2>3. ASSUME NEW n \in Name, Cancel(n) PROVE QueueInv'
    BY <1>1, <2>3 DEF Cancel
  <2>4. Bound => QueueInv'
    BY <1>1 DEF Bound
  <2>q. QED BY <1>5, <1>2, <1>3, <1>4, <2>1, <2>2, <2>3, <2>4, CompleteQueues, RedeemQueues, GrantedQueues,
               NotGrantedQueues, SignOutQueues, RenameQueues, RefreshQueues, RefreshedQueues
            DEF Next, Exchange, RefreshStep, SaveStep
<1>q. QED BY <1>1, <1>5 DEF vars
-----------------------------------------------------------------------------
(* Where grants are *)

LEMMA InFlowsOf ==
  ASSUME NEW X, NEW f
  PROVE  f \in FlowsOf(X) <=> \E n \in Name : X[n] # None /\ X[n].flow = f
BY DEF FlowsOf

LEMMA HeldIsTyped ==
  ASSUME TypeOK, NEW X \in Holdings, NEW n \in Name, X[n] # None
  PROVE  X \in Grants /\ X[n] \in Grant /\ X[n].flow \in Flow /\ X[n].v \in Nat \ {0}
<1>1. X \in Grants
  BY DEF TypeOK, Holdings
<1>2. X[n] \in Grant
  BY <1>1 DEF Grants
<1>q. QED BY <1>1, <1>2, SignInsAssumption DEF Grant

\* A step may make one new holding, the grants in memory.
LEMMA HoldingsStep ==
  ASSUME TypeOK, Next
  PROVE  Holdings' \subseteq Holdings \cup {grants'}
<1>1. CASE UNCHANGED <<file, tmp>>
  BY <1>1 DEF Holdings
<1>2. CASE WriteTmp
  BY <1>2 DEF Holdings, WriteTmp, Snapshot
<1>3. CASE RenameTmp
  BY <1>3 DEF Holdings, RenameTmp, SaveEnds
<1>4. CASE SaveFails
  BY <1>4 DEF Holdings, SaveFails, SaveEnds
<1>5. CASE Crash
  BY <1>5 DEF Holdings, Crash
<1>7. ASSUME NEW f \in Flow, Denied(f) \/ Forget(f) PROVE UNCHANGED <<file, tmp>>
  BY <1>7 DEF Denied, Forget
<1>8. ASSUME NEW f \in Flow, NEW n \in Name, Start(f, n) PROVE UNCHANGED <<file, tmp>>
  BY <1>8 DEF Start
<1>9. ASSUME NEW f \in Flow, NEW via \in Via, Complete(f, via) \/ Exchange(f, via) PROVE UNCHANGED <<file, tmp>>
  BY <1>9 DEF Complete, Exchange, Redeem, Granted, NotGranted
<1>10. ASSUME NEW n \in Name, Cancel(n) \/ SignOut(n) \/ Refresh(n) \/ RefreshStep(n) PROVE UNCHANGED <<file, tmp>>
  BY <1>10 DEF Cancel, SignOut, Refresh, RefreshStep, Rotate, Refreshed, NotRefreshed
<1>11. ASSUME NEW n \in Name, NEW m \in Name, Rename(n, m) PROVE UNCHANGED <<file, tmp>>
  BY <1>11 DEF Rename
<1>12. Bound => UNCHANGED <<file, tmp>>
  BY DEF Bound
<1>q. QED BY <1>1, <1>2, <1>3, <1>4, <1>5, <1>7, <1>8, <1>9, <1>10, <1>11, <1>12 DEF Next, SaveStep

\* How the grants in memory change
LEMMA GrantedShape ==
  ASSUME TypeInv, NEW f \in Flow, NEW via \in Via, Granted(f, via)
  PROVE  \E n \in Name :
           /\ n = flows[f].name
           /\ grants'[n] = [flow |-> f, v |-> 1] /\ grants'[n] # None
           /\ \A m \in Name \ {n} : grants'[m] = grants[m]
           /\ over' = over \cup Replaced(n)
<1>1. flows[f].name \in Name
  BY DEF Granted, TypeInv, NamedInv
<1>2. [flow |-> f, v |-> 1] # None
  BY NoneAssumption, SignInsAssumption DEF Grant
<1>q. QED BY <1>1, <1>2 DEF Granted, TypeInv, TypeOK, Grants

LEMMA SignOutShape ==
  ASSUME TypeOK, NEW n \in Name, SignOut(n)
  PROVE  grants'[n] = None /\ \A m \in Name \ {n} : grants'[m] = grants[m]
BY DEF SignOut, TypeOK, Grants

LEMMA RenameShape ==
  ASSUME TypeOK, NEW from \in Name, NEW to \in Name, Rename(from, to)
  PROVE  /\ grants'[to] = grants[from] /\ grants'[from] = None
         /\ \A m \in Name \ {from, to} : grants'[m] = grants[m]
BY DEF Rename, TypeOK, Grants

LEMMA RefreshedShape ==
  ASSUME TypeInv, GrantInv, NEW n \in Name, Refreshed(n)
  PROVE  /\ refreshing[n] # None /\ refreshing[n].stage = "granted" /\ grants[n] = refreshing[n].of
         /\ grants[n] \in Grant /\ grants[n] # None
         /\ grants'[n] = NextGrant(grants[n]) /\ grants'[n] # None
         /\ grants'[n].flow = grants[n].flow /\ grants'[n].v = grants[n].v + 1
         /\ \A m \in Name \ {n} : grants'[m] = grants[m]
<1>1. refreshing[n] # None /\ refreshing[n].stage = "granted" /\ grants[n] = refreshing[n].of
  BY DEF Refreshed, StillThere
<1>2. grants[n] \in Grant /\ grants[n] # None
  BY <1>1, JobOf, NoneAssumption DEF TypeInv
<1>3. grants'[n] = NextGrant(grants[n]) /\ \A m \in Name \ {n} : grants'[m] = grants[m]
  BY <1>1 DEF Refreshed, TypeInv, TypeOK, Grants
<1>q. QED BY <1>1, <1>2, <1>3, NextIsGrant

\* The steps that change what is in memory
Grantings == \E f \in Flow, via \in Via : Granted(f, via)
SignOuts == \E n \in Name : SignOut(n)
Renames == \E from, to \in Name : Rename(from, to)
Refreshings == \E n \in Name : Refreshed(n)
Redeems == \E f \in Flow, via \in Via : Redeem(f, via)
Rotates == \E n \in Name : Rotate(n)
Moves == Grantings \/ SignOuts \/ Renames \/ Refreshings \/ Crash

LEMMA GrantsStay ==
  ASSUME Next, ~Moves
  PROVE  UNCHANGED <<grants, over>>
<1>1. ASSUME NEW f \in Flow, Denied(f) \/ Forget(f) PROVE UNCHANGED <<grants, over>>
  BY <1>1 DEF Denied, Forget, history
<1>2. ASSUME NEW f \in Flow, NEW n \in Name, Start(f, n) PROVE UNCHANGED <<grants, over>>
  BY <1>2 DEF Start, history
<1>3. ASSUME NEW f \in Flow, NEW via \in Via, Complete(f, via) \/ Exchange(f, via) PROVE UNCHANGED <<grants, over>>
  BY <1>3 DEF Complete, Exchange, Redeem, NotGranted, history, Moves, Grantings
<1>4. ASSUME NEW n \in Name, Cancel(n) \/ SignOut(n) \/ Refresh(n) \/ RefreshStep(n) PROVE UNCHANGED <<grants, over>>
  BY <1>4 DEF Cancel, Refresh, RefreshStep, Rotate, NotRefreshed, history, Moves, SignOuts, Refreshings
<1>5. ASSUME NEW from \in Name, NEW to \in Name, Rename(from, to) PROVE UNCHANGED <<grants, over>>
  BY <1>5 DEF Moves, Renames
<1>6. Bound \/ SaveStep \/ SaveFails => UNCHANGED <<grants, over>>
  BY DEF Bound, SaveStep, WriteTmp, RenameTmp, SaveFails, SaveEnds, history
<1>q. QED BY <1>1, <1>2, <1>3, <1>4, <1>5, <1>6 DEF Next, Moves

LEMMA LiveStays ==
  ASSUME Next, ~Redeems, ~Rotates
  PROVE  UNCHANGED live
<1>1. ASSUME NEW f \in Flow, Denied(f) \/ Forget(f) PROVE UNCHANGED live
  BY <1>1 DEF Denied, Forget
<1>2. ASSUME NEW f \in Flow, NEW n \in Name, Start(f, n) PROVE UNCHANGED live
  BY <1>2 DEF Start
<1>3. ASSUME NEW f \in Flow, NEW via \in Via, Complete(f, via) \/ Exchange(f, via) PROVE UNCHANGED live
  BY <1>3 DEF Complete, Exchange, Granted, NotGranted, Redeems
<1>4. ASSUME NEW n \in Name, Cancel(n) \/ SignOut(n) \/ Refresh(n) \/ RefreshStep(n) PROVE UNCHANGED live
  BY <1>4 DEF Cancel, SignOut, Refresh, RefreshStep, Refreshed, NotRefreshed, Rotates
<1>5. ASSUME NEW from \in Name, NEW to \in Name, Rename(from, to) PROVE UNCHANGED live
  BY <1>5 DEF Rename
<1>6. Bound \/ SaveStep \/ SaveFails \/ Crash => UNCHANGED live
  BY DEF Bound, SaveStep, WriteTmp, RenameTmp, SaveFails, SaveEnds, Crash
<1>q. QED BY <1>1, <1>2, <1>3, <1>4, <1>5, <1>6 DEF Next

\* The authorization server never goes back.
LEMMA LiveGrows ==
  ASSUME TypeInv, Next, NEW f \in Flow
  PROVE  live[f] \in Nat /\ live'[f] \in Nat /\ live[f] <= live'[f]
<1>0. live[f] \in Nat
  BY DEF TypeInv, TypeOK
<1>1. ASSUME NEW g \in Flow, NEW via \in Via, Redeem(g, via) PROVE live'[f] \in Nat /\ live[f] <= live'[f]
  BY <1>0, <1>1 DEF Redeem, TypeInv, TypeOK
<1>2. ASSUME NEW n \in Name, Rotate(n) PROVE live'[f] \in Nat /\ live[f] <= live'[f]
  <2>1. refreshing[n].of.flow \in Flow
    BY <1>2, JobOf DEF Rotate, TypeInv
  <2>2. live' \in {live, [live EXCEPT ![refreshing[n].of.flow] = @ + 1]}
    BY <1>2, RotateShape DEF TypeInv
  <2>3. CASE live' = live
    BY <1>0, <2>3
  <2>4. CASE live' = [live EXCEPT ![refreshing[n].of.flow] = @ + 1]
    <3>1. live'[f] = IF f = refreshing[n].of.flow THEN live[f] + 1 ELSE live[f]
      BY <2>1, <2>4 DEF TypeInv, TypeOK
    <3>q. QED BY <1>0, <3>1
  <2>q. QED BY <2>2, <2>3, <2>4
<1>q. QED BY <1>0, <1>1, <1>2, LiveStays DEF Redeems, Rotates

\* Who is signed in comes from an exchange, or was signed in before.
LEMMA FlowsStep ==
  ASSUME TypeInv, GrantInv, Next, NEW f \in Flow, ~Crash, f \in FlowsOf(grants'), f \notin FlowsOf(grants)
  PROVE  \E via \in Via : Granted(f, via)
<1>1. CASE Grantings
  <2>1. PICK g \in Flow, via \in Via : Granted(g, via)
    BY <1>1 DEF Grantings
  <2>2. PICK m \in Name : grants'[m] # None /\ grants'[m].flow = f
    BY InFlowsOf
  <2>3. grants[m] = None \/ grants[m].flow # f
    BY InFlowsOf
  <2>4. grants'[m] # grants[m]
    BY <2>2, <2>3
  <2>5. grants'[m] = [flow |-> g, v |-> 1]
    BY <2>1, <2>4, GrantedShape
  <2>6. g = f
    BY <2>2, <2>5
  <2>q. QED BY <2>1, <2>6
<1>2. CASE SignOuts
  BY <1>2, SignOutShape, InFlowsOf DEF SignOuts, TypeInv
<1>3. CASE Renames
  BY <1>3, RenameShape, InFlowsOf DEF Renames, TypeInv
<1>4. CASE Refreshings
  BY <1>4, RefreshedShape, InFlowsOf DEF Refreshings
<1>q. QED BY <1>1, <1>2, <1>3, <1>4, GrantsStay DEF Moves

LEMMA NowhereStays ==
  ASSUME TypeInv, GrantInv, Next, NEW f \in Flow, Nowhere(f), \A via \in Via : ~Granted(f, via)
  PROVE  Nowhere(f)'
<1>1. f \notin FlowsOf(grants) /\ f \notin FlowsOf(file)
  BY DEF Nowhere, Holdings
<1>2. f \notin FlowsOf(grants')
  <2>1. CASE Crash
    BY <1>1, <2>1 DEF Crash
  <2>2. CASE ~Crash
    BY <1>1, <2>2, FlowsStep
  <2>q. QED BY <2>1, <2>2
<1>3. \A X \in Holdings' : f \notin FlowsOf(X)
  BY <1>2, HoldingsStep DEF Nowhere, TypeInv
<1>q. QED BY <1>3 DEF Nowhere, FlowsOf

LEMMA HeldStep ==
  ASSUME TypeInv, GrantInv, Next
  PROVE  HeldInv'
<1>1. \A X \in Holdings : Distinct(X) /\ Issued(X)'
  <2> SUFFICES ASSUME NEW X \in Holdings PROVE Distinct(X) /\ Issued(X)'
    OBVIOUS
  <2>1. Distinct(X) /\ Issued(X)
    BY DEF GrantInv, HeldInv
  <2>2. ASSUME NEW n \in Name, X[n] # None PROVE X[n].v <= live'[X[n].flow]
    <3>1. X[n].flow \in Flow /\ X[n].v \in Nat
      BY <2>2, HeldIsTyped DEF TypeInv
    <3>q. QED BY <2>1, <2>2, <3>1, LiveGrows DEF Issued
  <2>q. QED BY <2>1, <2>2 DEF Issued
<1>2. PICK G : G = grants'
  OBVIOUS
<1>3. grants \in Holdings /\ file \in Holdings
  BY DEF Holdings
<1>4. Distinct(grants) /\ Issued(grants) /\ \A n \in Name : grants[n] # None => grants[n].v <= live'[grants[n].flow]
  <2>1. PICK H : H = grants
    OBVIOUS
  <2>2. Distinct(H) /\ Issued(H)'
    BY <1>1, <1>3, <2>1
  <2>q. QED BY <1>3, <2>1, <2>2 DEF Issued, GrantInv, HeldInv
<1>5. CASE ~Moves
  <2>1. G = grants
    BY <1>2, <1>5, GrantsStay
  <2>q. QED BY <1>1, <1>2, <1>3, <2>1, HoldingsStep DEF HeldInv, TypeInv
<1>6. CASE Crash
  <2>1. G = file
    BY <1>2, <1>6 DEF Crash
  <2>q. QED BY <1>1, <1>2, <1>3, <2>1, HoldingsStep DEF HeldInv, TypeInv
<1>7. SUFFICES ASSUME Moves, ~Crash PROVE Distinct(G) /\ \A n \in Name : G[n] # None => G[n].v <= live'[G[n].flow]
  BY <1>1, <1>2, <1>5, <1>6, HoldingsStep DEF HeldInv, TypeInv, Issued
<1>8. CASE Grantings
  <2>1. PICK f \in Flow, via \in Via : Granted(f, via)
    BY <1>8 DEF Grantings
  <2>2. live[f] = 1 /\ f \notin FlowsOf(grants) /\ live'[f] \in Nat /\ live[f] <= live'[f]
    BY <2>1, <1>3, LiveGrows DEF GrantInv, CodesInv, Nowhere, Granted
  <2>3. PICK n \in Name : /\ G[n] = [flow |-> f, v |-> 1] /\ G[n] # None
                          /\ \A m \in Name \ {n} : G[m] = grants[m]
    BY <1>2, <2>1, GrantedShape
  <2>4. \A m \in Name : grants[m] # None => grants[m].flow # f
    BY <2>2, InFlowsOf
  <2>5. Distinct(G)
    BY <1>4, <2>3, <2>4 DEF Distinct
  <2>6. \A m \in Name : G[m] # None => G[m].v <= live'[G[m].flow]
    BY <1>4, <2>2, <2>3
  <2>q. QED BY <2>5, <2>6
<1>9. CASE SignOuts
  <2>1. PICK n \in Name : G[n] = None /\ \A m \in Name \ {n} : G[m] = grants[m]
    BY <1>2, <1>9, SignOutShape DEF SignOuts, TypeInv
  <2>q. QED BY <1>4, <2>1 DEF Distinct
<1>10. CASE Renames
  <2>1. PICK from \in Name, to \in Name :
           /\ G[to] = grants[from] /\ G[from] = None
           /\ \A m \in Name \ {from, to} : G[m] = grants[m]
    BY <1>2, <1>10, RenameShape DEF Renames, TypeInv
  <2>q. QED BY <1>4, <2>1 DEF Distinct
<1>11. CASE Refreshings
  <2>1. PICK n \in Name : Refreshed(n)
    BY <1>11 DEF Refreshings
  <2>2. /\ refreshing[n] # None /\ refreshing[n].stage = "granted" /\ grants[n] = refreshing[n].of
        /\ grants[n] \in Grant /\ grants[n] # None
        /\ G[n] # None /\ G[n].flow = grants[n].flow /\ G[n].v = grants[n].v + 1
        /\ \A m \in Name \ {n} : G[m] = grants[m]
    BY <1>2, <2>1, RefreshedShape
  <2>3. grants[n].v < live[grants[n].flow] /\ grants[n].v \in Nat /\ grants[n].flow \in Flow
    BY <2>2, SignInsAssumption DEF GrantInv, JobsInv, Grant
  <2>4. G[n].v <= live'[G[n].flow]
    BY <2>2, <2>3, LiveGrows
  <2>5. Distinct(G)
    BY <1>4, <2>2 DEF Distinct
  <2>6. \A m \in Name : G[m] # None => G[m].v <= live'[G[m].flow]
    BY <1>4, <2>2, <2>4
  <2>q. QED BY <2>5, <2>6
<1>q. QED BY <1>7, <1>8, <1>9, <1>10, <1>11 DEF Moves

-----------------------------------------------------------------------------
(* Refreshes under way *)

RefreshStarts == \E n \in Name : Refresh(n)
RefreshDrops == \E n \in Name : NotRefreshed(n)

LEMMA RefreshingStays ==
  ASSUME TypeInv, QueueInv, Next, ~RefreshStarts, ~Rotates, ~Refreshings
  PROVE  \A n \in Name : \/ refreshing'[n] = refreshing[n]
                         \/ refreshing'[n] = None /\ (NotRefreshed(n) \/ RenameTmp \/ SaveFails \/ Crash)
<1>1. ASSUME NEW f \in Flow, Denied(f) \/ Forget(f) PROVE UNCHANGED refreshing
  BY <1>1 DEF Denied, Forget
<1>2. ASSUME NEW f \in Flow, NEW n \in Name, Start(f, n) PROVE UNCHANGED refreshing
  BY <1>2 DEF Start
<1>3. ASSUME NEW f \in Flow, NEW via \in Via, Complete(f, via) \/ Exchange(f, via) PROVE UNCHANGED refreshing
  BY <1>3 DEF Complete, Exchange, Redeem, Granted, NotGranted
<1>4. ASSUME NEW n \in Name, Cancel(n) \/ SignOut(n) PROVE UNCHANGED refreshing
  BY <1>4 DEF Cancel, SignOut
<1>5. ASSUME NEW from \in Name, NEW to \in Name, Rename(from, to) PROVE UNCHANGED refreshing
  BY <1>5 DEF Rename
<1>6. Bound \/ WriteTmp => UNCHANGED refreshing
  BY DEF Bound, WriteTmp
<1>7. ASSUME NEW m \in Name, NotRefreshed(m)
      PROVE  \A n \in Name : refreshing'[n] = refreshing[n] \/ (refreshing'[n] = None /\ NotRefreshed(n))
  BY <1>7 DEF NotRefreshed, EndRefresh, TypeInv, TypeOK
<1>8. ASSUME NEW ok \in BOOLEAN, saves # <<>>, SaveEnds(ok)
      PROVE  \A n \in Name : refreshing'[n] = refreshing[n] \/ refreshing'[n] = None
  <2>1. RefreshSaved(ok) \/ ExchangeSaved(ok) \/ QueueSaved(ok)
    BY <1>8, SaveCases
  <2>q. QED BY <2>1 DEF RefreshSaved, ExchangeSaved, QueueSaved, EndRefresh, TypeInv, TypeOK
<1>9. RenameTmp \/ SaveFails => \A n \in Name : refreshing'[n] = refreshing[n] \/ refreshing'[n] = None
  BY <1>8 DEF RenameTmp, SaveFails, QueueInv
<1>10. Crash => \A n \in Name : refreshing'[n] = None
  BY DEF Crash
<1>11. ASSUME NEW n \in Name, RefreshStep(n)
       PROVE  \A k \in Name : refreshing'[k] = refreshing[k] \/ (refreshing'[k] = None /\ NotRefreshed(k))
  BY <1>7, <1>11 DEF RefreshStep, Rotates, Refreshings
<1> DEFINE P == \A n \in Name : \/ refreshing'[n] = refreshing[n]
                                \/ refreshing'[n] = None /\ (NotRefreshed(n) \/ RenameTmp \/ SaveFails \/ Crash)
<1>12. UNCHANGED refreshing => P
  OBVIOUS
<1>13. RenameTmp \/ SaveFails \/ Crash => P
  BY <1>9, <1>10
<1>14. ASSUME NEW n \in Name, RefreshStep(n) PROVE P
  BY <1>11, <1>14
<1> HIDE DEF P
<1>15. P
  BY <1>1, <1>2, <1>3, <1>4, <1>5, <1>6, <1>12, <1>13, <1>14 DEF Next, SaveStep, RefreshStarts
<1>q. QED BY <1>15 DEF P

LEMMA RefreshShape ==
  ASSUME TypeInv, NEW n \in Name, Refresh(n)
  PROVE  /\ refreshing[n] = None /\ grants[n] # None /\ UNCHANGED live
         /\ refreshing'[n] = [of |-> grants[n], stage |-> "sent"] /\ refreshing'[n] # None
         /\ live[grants[n].flow] < MaxVersion
         /\ \A m \in Name \ {n} : refreshing'[m] = refreshing[m]
<1>1. [of |-> grants[n], stage |-> "sent"] # None
  BY GrantFlow, JobIsSome DEF Refresh, TypeInv, Stages
<1>q. QED BY <1>1 DEF Refresh, TypeInv, TypeOK

\* A refresh keeps the grant it was started for.
LEMMA StagesMove ==
  ASSUME TypeInv, NEW n \in Name, Rotate(n) \/ Refreshed(n)
  PROVE  /\ refreshing[n] # None /\ refreshing[n].stage # "saving"
         /\ refreshing'[n] # None /\ refreshing'[n].of = refreshing[n].of
         /\ \A m \in Name \ {n} : refreshing'[m] = refreshing[m]
         /\ Refreshed(n) => refreshing'[n].stage = "saving"
<1>1. PICK s \in Stages : refreshing[n] # None /\ refreshing' = [refreshing EXCEPT ![n].stage = s] /\ (Refreshed(n) => s = "saving")
  <2>1. CASE Refreshed(n)
    BY <2>1 DEF Refreshed, Stages
  <2>2. CASE ~Refreshed(n)
    BY <2>2 DEF Rotate, Stages
  <2>q. QED BY <2>1, <2>2
<1>2. refreshing[n].stage # "saving"
  BY DEF Rotate, Refreshed
<1>3. /\ refreshing'[n] = [of |-> refreshing[n].of, stage |-> s]
      /\ refreshing'[n] # None
      /\ \A m \in Name \ {n} : refreshing'[m] = refreshing[m]
  BY <1>1, StageIsTyped DEF TypeInv
<1>4. refreshing'[n].of = refreshing[n].of /\ refreshing'[n].stage = s
  BY <1>3
<1>q. QED BY <1>1, <1>2, <1>3, <1>4

LEMMA JobsStep ==
  ASSUME TypeInv, QueueInv, GrantInv, Next
  PROVE  JobsInv'
<1>0. \A n \in Name : refreshing[n] # None =>
         /\ refreshing[n].of.flow \in Flow /\ refreshing[n].of.v \in Nat
         /\ refreshing[n].of.v <= live'[refreshing[n].of.flow] /\ refreshing[n].of.v < MaxVersion
         /\ refreshing[n].stage = "granted" => refreshing[n].of.v < live'[refreshing[n].of.flow]
  <2> SUFFICES ASSUME NEW n \in Name, refreshing[n] # None
               PROVE  /\ refreshing[n].of.flow \in Flow /\ refreshing[n].of.v \in Nat
                      /\ refreshing[n].of.v <= live'[refreshing[n].of.flow] /\ refreshing[n].of.v < MaxVersion
                      /\ refreshing[n].stage = "granted" => refreshing[n].of.v < live'[refreshing[n].of.flow]
    OBVIOUS
  <2>1. refreshing[n].of.flow \in Flow /\ refreshing[n].of.v \in Nat
    BY JobOf DEF TypeInv
  <2>q. QED BY <2>1, LiveGrows DEF GrantInv, JobsInv
<1>1. CASE ~RefreshStarts /\ ~Rotates /\ ~Refreshings
  BY <1>0, <1>1, RefreshingStays DEF JobsInv
<1>2. ASSUME NEW n \in Name, Refresh(n) PROVE JobsInv'
  <2>1. /\ grants[n] # None /\ UNCHANGED live
        /\ refreshing'[n] = [of |-> grants[n], stage |-> "sent"]
        /\ live[grants[n].flow] < MaxVersion
        /\ \A m \in Name \ {n} : refreshing'[m] = refreshing[m]
    BY <1>2, RefreshShape
  <2>2. grants[n].v <= live[grants[n].flow] /\ grants[n].v \in Nat /\ live[grants[n].flow] \in Nat
    BY <2>1, HeldIsTyped, LiveGrows DEF GrantInv, HeldInv, Holdings, Issued, TypeInv
  <2>3. refreshing'[n].of = grants[n] /\ refreshing'[n].stage = "sent"
    BY <2>1
  <2>q. QED BY <1>0, <2>1, <2>2, <2>3, SignInsAssumption DEF JobsInv
<1>3. ASSUME NEW n \in Name, Rotate(n) PROVE JobsInv'
  <2>1. PICK s \in {"granted", "refused"} :
          /\ refreshing' = [refreshing EXCEPT ![n].stage = s]
          /\ s = "granted" => /\ live' = [live EXCEPT ![refreshing[n].of.flow] = @ + 1]
                              /\ refreshing[n].of.v = live[refreshing[n].of.flow]
    BY <1>3, RotateShape DEF TypeInv
  <2>2. /\ refreshing[n] # None /\ refreshing'[n] = [of |-> refreshing[n].of, stage |-> s]
        /\ \A m \in Name \ {n} : refreshing'[m] = refreshing[m]
    BY <1>3, <2>1, StageIsTyped DEF TypeInv, Stages, Rotate
  <2>3. s = "granted" => refreshing[n].of.v < live'[refreshing[n].of.flow]
    <3>1. refreshing[n].of.flow \in Flow /\ live[refreshing[n].of.flow] \in Nat
      BY <1>0, <2>2, LiveGrows
    <3>2. s = "granted" => live'[refreshing[n].of.flow] = live[refreshing[n].of.flow] + 1
      BY <2>1, <3>1 DEF TypeInv, TypeOK
    <3>q. QED BY <2>1, <3>1, <3>2
  <2>4. refreshing'[n].of = refreshing[n].of /\ refreshing'[n].stage = s
    BY <2>2
  <2>q. QED BY <1>0, <2>2, <2>3, <2>4 DEF JobsInv
<1>4. ASSUME NEW n \in Name, Refreshed(n) PROVE JobsInv'
  <2>1. /\ refreshing[n] # None /\ refreshing'[n].of = refreshing[n].of /\ refreshing'[n].stage = "saving"
        /\ \A m \in Name \ {n} : refreshing'[m] = refreshing[m]
    BY <1>4, StagesMove
  <2>q. QED BY <1>0, <2>1 DEF JobsInv
<1>q. QED BY <1>1, <1>2, <1>3, <1>4 DEF RefreshStarts, Rotates, Refreshings
-----------------------------------------------------------------------------
(* Codes and what was signed out *)

\* The new stage of an exchange, wherever it changes
LEMMA ExchangeSteps ==
  ASSUME TypeInv, QueueInv, Next, NEW f \in Flow, NEW via \in Via
  PROVE  \/ exchange'[f][via] = exchange[f][via]
         \/ exchange'[f][via] = "idle"
         \/ exchange'[f][via] = "sent" /\ exchange[f][via] = "idle"
         \/ Redeem(f, via) /\ exchange'[f][via] \in {"granted", "refused"}
         \/ Granted(f, via) /\ exchange'[f][via] = "saving"
<1> DEFINE P == \/ exchange'[f][via] = exchange[f][via]
                \/ exchange'[f][via] = "idle"
                \/ exchange'[f][via] = "sent" /\ exchange[f][via] = "idle"
                \/ Redeem(f, via) /\ exchange'[f][via] \in {"granted", "refused"}
                \/ Granted(f, via) /\ exchange'[f][via] = "saving"
<1>1. ASSUME NEW g \in Flow, Denied(g) \/ Forget(g) PROVE UNCHANGED exchange
  BY <1>1 DEF Denied, Forget
<1>2. ASSUME NEW g \in Flow, NEW n \in Name, Start(g, n) PROVE UNCHANGED exchange
  BY <1>2 DEF Start
<1>3. ASSUME NEW g \in Flow, NEW w \in Via, Complete(g, w) PROVE P
  BY <1>3 DEF Complete, TypeInv, TypeOK
<1>4. ASSUME NEW g \in Flow, NEW w \in Via, Redeem(g, w) PROVE P
  <2>1. PICK s \in {"granted", "refused"} : exchange' = [exchange EXCEPT ![g][w] = s]
    BY <1>4 DEF Redeem
  <2>2. exchange'[f][via] = IF f = g /\ via = w THEN s ELSE exchange[f][via]
    BY <2>1 DEF TypeInv, TypeOK
  <2>q. QED BY <1>4, <2>2
<1>5. ASSUME NEW g \in Flow, NEW w \in Via, Granted(g, w) PROVE P
  <2>1. exchange'[f][via] = IF f = g /\ via = w THEN "saving" ELSE exchange[f][via]
    BY <1>5 DEF Granted, TypeInv, TypeOK
  <2>q. QED BY <1>5, <2>1
<1>6. ASSUME NEW g \in Flow, NEW w \in Via, NEW r, EndExchange(g, w, r)
      PROVE  exchange'[f][via] = exchange[f][via] \/ exchange'[f][via] = "idle"
  BY <1>6 DEF EndExchange, TypeInv, TypeOK
<1>7. ASSUME NEW g \in Flow, NEW w \in Via, NotGranted(g, w) PROVE P
  BY <1>6, <1>7 DEF NotGranted
<1>8. ASSUME NEW ok \in BOOLEAN, saves # <<>>, SaveEnds(ok) PROVE P
  <2>1. RefreshSaved(ok) \/ ExchangeSaved(ok) \/ QueueSaved(ok)
    BY <1>8, SaveCases
  <2>q. QED BY <2>1, <1>6 DEF RefreshSaved, ExchangeSaved, QueueSaved
<1>9. RenameTmp \/ SaveFails => P
  BY <1>8 DEF RenameTmp, SaveFails, QueueInv
<1>10. Crash => P
  BY DEF Crash
<1>11. ASSUME NEW n \in Name, Cancel(n) \/ SignOut(n) \/ Refresh(n) \/ RefreshStep(n) PROVE UNCHANGED exchange
  BY <1>11 DEF Cancel, SignOut, Refresh, RefreshStep, Rotate, Refreshed, NotRefreshed
<1>12. ASSUME NEW from \in Name, NEW to \in Name, Rename(from, to) PROVE UNCHANGED exchange
  BY <1>12 DEF Rename
<1>13. Bound \/ WriteTmp => UNCHANGED exchange
  BY DEF Bound, WriteTmp
<1>q. QED BY <1>1, <1>2, <1>3, <1>4, <1>5, <1>7, <1>9, <1>10, <1>11, <1>12, <1>13 DEF Next, Exchange, SaveStep

\* What becomes of a flow whose code was granted
LEMMA LiveSame ==
  ASSUME TypeInv, Next, NEW f \in Flow, live[f] # 0,
         \A n \in Name : refreshing[n] # None => refreshing[n].of.flow # f
  PROVE  live'[f] = live[f]
<1>1. ASSUME NEW g \in Flow, NEW via \in Via, Redeem(g, via) PROVE live'[f] = live[f]
  BY <1>1 DEF Redeem, TypeInv, TypeOK
<1>2. ASSUME NEW n \in Name, Rotate(n) PROVE live'[f] = live[f]
  <2>1. refreshing[n].of.flow \in Flow /\ refreshing[n].of.flow # f
    BY <1>2, JobOf DEF Rotate, TypeInv
  <2>2. live' \in {live, [live EXCEPT ![refreshing[n].of.flow] = @ + 1]}
    BY <1>2, RotateShape DEF TypeInv
  <2>q. QED BY <2>1, <2>2 DEF TypeInv, TypeOK
<1>q. QED BY <1>1, <1>2, LiveStays DEF Redeems, Rotates

LEMMA RedeemShape ==
  ASSUME TypeInv, NEW f \in Flow, NEW via \in Via, Redeem(f, via), exchange'[f][via] = "granted"
  PROVE  live[f] = 0 /\ live'[f] = 1 /\ exchange[f][via] = "sent"
         /\ \A w \in Via \ {via} : exchange'[f][w] = exchange[f][w]
BY DEF Redeem, TypeInv, TypeOK

\* Before its code is redeemed, nothing of a flow is anywhere.
LEMMA NothingYet ==
  ASSUME TypeInv, GrantInv, NEW f \in Flow, live[f] = 0
  PROVE  Nowhere(f) /\ \A n \in Name : refreshing[n] # None => refreshing[n].of.flow # f
<1>1. ASSUME NEW X \in Holdings PROVE f \notin FlowsOf(X)
  <2>1. ASSUME NEW n \in Name, X[n] # None, X[n].flow = f PROVE FALSE
    <3>1. X[n].v \in Nat \ {0} /\ X[n].v <= live[f]
      BY <2>1, HeldIsTyped DEF TypeInv, GrantInv, HeldInv, Issued
    <3>q. QED BY <3>1
  <2>q. QED BY <2>1, InFlowsOf
<1>2. ASSUME NEW n \in Name, refreshing[n] # None, refreshing[n].of.flow = f PROVE FALSE
  <2>1. refreshing[n].of.v \in 1..MaxVersion /\ refreshing[n].of.v <= live[f]
    BY <1>2, JobOf DEF TypeInv, GrantInv, JobsInv
  <2>q. QED BY <2>1, SignInsAssumption
<1>q. QED BY <1>1, <1>2 DEF Nowhere

\* A refresh starts for what is in memory.
LEMMA JobsFrom ==
  ASSUME TypeInv, QueueInv, Next, NEW n \in Name, refreshing'[n] # None, NEW f \in Flow, refreshing'[n].of.flow = f
  PROVE  (refreshing[n] # None /\ refreshing[n].of.flow = f) \/ f \in FlowsOf(grants)
<1>1. CASE ~RefreshStarts /\ ~Rotates /\ ~Refreshings
  BY <1>1, RefreshingStays
<1>2. ASSUME NEW m \in Name, Refresh(m)
      PROVE  (refreshing[n] # None /\ refreshing[n].of.flow = f) \/ f \in FlowsOf(grants)
  <2>1. /\ grants[m] # None /\ refreshing'[m] = [of |-> grants[m], stage |-> "sent"]
        /\ \A k \in Name \ {m} : refreshing'[k] = refreshing[k]
    BY <1>2, RefreshShape
  <2>2. refreshing'[m].of = grants[m]
    BY <2>1
  <2>q. QED BY <2>1, <2>2, InFlowsOf
<1>3. ASSUME NEW m \in Name, Rotate(m) \/ Refreshed(m)
      PROVE  refreshing[n] # None /\ refreshing[n].of.flow = f
  BY <1>3, StagesMove
<1>q. QED BY <1>1, <1>2, <1>3 DEF RefreshStarts, Rotates, Refreshings

LEMMA CodesStep ==
  ASSUME TypeInv, QueueInv, GrantInv, Next
  PROVE  CodesInv'
<1> SUFFICES ASSUME NEW f \in Flow, NEW via \in Via, exchange'[f][via] = "granted"
             PROVE  /\ live'[f] = 1 /\ Nowhere(f)'
                    /\ \A n \in Name : refreshing'[n] # None => refreshing'[n].of.flow # f
                    /\ \A w \in Via : exchange'[f][w] = "granted" => w = via
  BY DEF CodesInv
<1>1. CASE Redeem(f, via)
  <2>1. /\ live[f] = 0 /\ live'[f] = 1 /\ exchange[f][via] = "sent"
        /\ \A w \in Via \ {via} : exchange'[f][w] = exchange[f][w]
    BY <1>1, RedeemShape
  <2>2. Nowhere(f) /\ \A n \in Name : refreshing[n] # None => refreshing[n].of.flow # f
    BY <2>1, NothingYet
  <2>3. \A w \in Via : exchange[f][w] # "granted"
    BY <2>1 DEF GrantInv, CodesInv
  <2>4. Nowhere(f)'
    BY <2>2, <2>3, NowhereStays DEF Granted
  <2>5. \A n \in Name : refreshing'[n] # None => refreshing'[n].of.flow # f
    BY <2>2, JobsFrom DEF Nowhere, Holdings
  <2>q. QED BY <2>1, <2>3, <2>4, <2>5
<1>2. CASE ~Redeem(f, via)
  <2>1. exchange[f][via] = "granted"
    BY <1>2, ExchangeSteps
  <2>2. /\ live[f] = 1 /\ Nowhere(f)
        /\ \A n \in Name : refreshing[n] # None => refreshing[n].of.flow # f
        /\ \A w \in Via : exchange[f][w] = "granted" => w = via
    BY <2>1 DEF GrantInv, CodesInv
  <2>3. \A w \in Via : ~Granted(f, w)
    <3>1. SUFFICES ASSUME NEW w \in Via, Granted(f, w) PROVE FALSE
      OBVIOUS
    <3>2. w = via
      BY <2>2, <3>1 DEF Granted
    <3>q. QED BY <3>1, <3>2 DEF Granted, TypeInv, TypeOK
  <2>4. Nowhere(f)'
    BY <2>2, <2>3, NowhereStays
  <2>5. live'[f] = 1
    BY <2>2, LiveSame
  <2>6. \A n \in Name : refreshing'[n] # None => refreshing'[n].of.flow # f
    BY <2>2, JobsFrom DEF Nowhere, Holdings
  <2>7. ASSUME NEW w \in Via, exchange'[f][w] = "granted" PROVE w = via
    <3>1. ~Redeem(f, w)
      BY <2>2, <2>7, RedeemShape
    <3>q. QED BY <2>2, <2>7, <3>1, ExchangeSteps
  <2>q. QED BY <2>4, <2>5, <2>6, <2>7
<1>q. QED BY <1>1, <1>2

\* A flow that is out stays out.
LEMMA OutStays ==
  ASSUME TypeInv, QueueInv, GrantInv, Next, NEW f \in Flow, Out(f), Crash => f \notin FlowsOf(file)
  PROVE  Out(f)' /\ \A via \in Via : ~Granted(f, via)
<1>1. \A via \in Via : ~Granted(f, via)
  BY DEF Out, Granted
<1>2. live'[f] # 0
  BY LiveGrows DEF Out
<1>3. f \notin FlowsOf(grants')
  <2>1. CASE Crash
    BY <2>1 DEF Crash
  <2>q. QED BY <1>1, <2>1, FlowsStep DEF Out
<1>4. ASSUME NEW via \in Via PROVE exchange'[f][via] # "granted"
  BY ExchangeSteps, RedeemShape DEF Out
<1>q. QED BY <1>1, <1>2, <1>3, <1>4 DEF Out, FlowsOf

\* The save at work is the one it was, or has just read what is in memory.
LEMMA SaveOfSteps ==
  ASSUME TypeInv, QueueInv, Next, NEW kind, SaveOf(kind)'
  PROVE  \/ SaveOf(kind) /\ tmp' = tmp /\ Head(saves') = Head(saves)
         \/ WriteTmp /\ tmp' = grants /\ saves' = saves /\ saves # <<>> /\ Head(saves).kind = kind
<1> DEFINE P == \/ SaveOf(kind) /\ tmp' = tmp /\ Head(saves') = Head(saves)
                \/ WriteTmp /\ tmp' = grants /\ saves' = saves /\ saves # <<>> /\ Head(saves).kind = kind
<1>0. tmp' # None /\ saves' # <<>> /\ Head(saves').kind = kind
  BY DEF SaveOf
<1>1. CASE UNCHANGED <<saves, tmp>>
  BY <1>0, <1>1 DEF SaveOf
<1>2. ASSUME NEW s \in Owners, Save(s), UNCHANGED tmp PROVE P
  <2>1. saves # <<>> /\ tmp # None
    BY <1>0, <1>2 DEF QueueInv
  <2>2. Head(saves') = Head(saves)
    BY <1>2, <2>1 DEF Save, TypeInv, TypeOK
  <2>q. QED BY <1>0, <1>2, <2>1, <2>2 DEF SaveOf
<1>3. WriteTmp => P
  BY <1>0 DEF WriteTmp, Snapshot
<1>4. RenameTmp \/ SaveFails \/ Crash => P
  BY <1>0 DEF RenameTmp, SaveFails, SaveEnds, Crash
<1>5. ASSUME NEW f \in Flow, NEW via \in Via, Complete(f, via) \/ Exchange(f, via) PROVE P
  <2>1. CASE Granted(f, via)
    <3>1. [kind |-> "exchange", flow |-> f, via |-> via] \in Owners
      BY DEF Owners
    <3>q. QED BY <1>2, <2>1, <3>1 DEF Granted
  <2>q. QED BY <1>1, <1>5, <2>1 DEF Complete, Exchange, Redeem, NotGranted
<1>6. ASSUME NEW n \in Name, Cancel(n) \/ SignOut(n) \/ Refresh(n) \/ RefreshStep(n) PROVE P
  <2>1. [kind |-> "queue"] \in Owners /\ [kind |-> "refresh", name |-> n] \in Owners
    BY DEF Owners
  <2>2. CASE SignOut(n)
    BY <1>2, <2>1, <2>2 DEF SignOut
  <2>3. CASE Refreshed(n)
    BY <1>2, <2>1, <2>3 DEF Refreshed
  <2>q. QED BY <1>1, <1>6, <2>2, <2>3 DEF Cancel, Refresh, RefreshStep, Rotate, NotRefreshed
<1>7. ASSUME NEW from \in Name, NEW to \in Name, Rename(from, to) PROVE P
  <2>1. [kind |-> "queue"] \in Owners
    BY DEF Owners
  <2>q. QED BY <1>2, <1>7, <2>1 DEF Rename
<1>8. ASSUME NEW f \in Flow, Denied(f) \/ Forget(f) PROVE P
  BY <1>1, <1>8 DEF Denied, Forget
<1>9. ASSUME NEW f \in Flow, NEW n \in Name, Start(f, n) PROVE P
  BY <1>1, <1>9 DEF Start
<1>10. Bound => P
  BY <1>1 DEF Bound
<1>q. QED BY <1>3, <1>4, <1>5, <1>6, <1>7, <1>8, <1>9, <1>10 DEF Next, SaveStep

LEMMA HolderSteps ==
  ASSUME TypeInv, QueueInv, Next, holder' # None, holder'.op = "signOut"
  PROVE  (holder' = holder /\ ~Crash) \/ \E n \in Name : SignOut(n) /\ holder'.flow = grants[n].flow
<1> DEFINE P == (holder' = holder /\ ~Crash) \/ \E n \in Name : SignOut(n) /\ holder'.flow = grants[n].flow
<1>0. ~Crash
  BY DEF Crash
<1>1. ASSUME NEW f \in Flow, Denied(f) \/ Forget(f) PROVE P
  BY <1>0, <1>1 DEF Denied, Forget
<1>2. ASSUME NEW f \in Flow, NEW n \in Name, Start(f, n) PROVE P
  BY <1>0, <1>2 DEF Start
<1>3. ASSUME NEW f \in Flow, NEW via \in Via, Complete(f, via) \/ Exchange(f, via) PROVE P
  BY <1>0, <1>3 DEF Complete, Exchange, Redeem, Granted, NotGranted, EndExchange
<1>4. ASSUME NEW n \in Name, Cancel(n) \/ Refresh(n) \/ RefreshStep(n) PROVE P
  BY <1>0, <1>4 DEF Cancel, Refresh, RefreshStep, Rotate, Refreshed, NotRefreshed
<1>5. ASSUME NEW n \in Name, SignOut(n) PROVE P
  BY <1>5 DEF SignOut
<1>6. ASSUME NEW from \in Name, NEW to \in Name, Rename(from, to) PROVE P
  BY <1>6 DEF Rename
<1>7. Bound \/ WriteTmp => P
  BY <1>0 DEF Bound, WriteTmp
<1>8. ASSUME NEW ok \in BOOLEAN, saves # <<>>, SaveEnds(ok) PROVE P
  <2>1. RefreshSaved(ok) \/ ExchangeSaved(ok) \/ QueueSaved(ok)
    BY <1>8, SaveCases
  <2>q. QED BY <1>0, <2>1 DEF RefreshSaved, ExchangeSaved, QueueSaved, EndExchange
<1>9. RenameTmp \/ SaveFails => P
  BY <1>8 DEF RenameTmp, SaveFails, QueueInv
<1>q. QED BY <1>0, <1>1, <1>2, <1>3, <1>4, <1>5, <1>6, <1>7, <1>9 DEF Next, SaveStep

\* A name that is signed out held the only grant of its flow.
LEMMA SignOutIsOut ==
  ASSUME TypeInv, QueueInv, GrantInv, NEW n \in Name, SignOut(n), NEW g \in Flow, g = grants[n].flow
  PROVE  Out(g)'
<1>1. grants[n] # None /\ grants[n].flow \in Flow /\ grants[n].v \in Nat \ {0} /\ UNCHANGED <<live, exchange>>
  BY HeldIsTyped DEF SignOut, TypeInv, Holdings
<1>2. live[g] # 0
  BY <1>1 DEF GrantInv, HeldInv, Holdings, Issued, TypeInv, TypeOK
<1>4. g \notin FlowsOf(grants')
  <2>1. ASSUME NEW m \in Name, grants'[m] # None, grants'[m].flow = g PROVE FALSE
    <3>1. m # n /\ grants'[m] = grants[m]
      BY <2>1, SignOutShape DEF TypeInv
    <3>q. QED BY <1>1, <2>1, <3>1 DEF GrantInv, HeldInv, Holdings, Distinct
  <2>q. QED BY <2>1, InFlowsOf
<1>5. g \in FlowsOf(grants)
  BY <1>1, InFlowsOf
<1>6. \A via \in Via : exchange'[g][via] # "granted"
  BY <1>1, <1>5 DEF GrantInv, CodesInv, Nowhere, Holdings
<1>q. QED BY <1>1, <1>2, <1>4, <1>6 DEF Out, FlowsOf

LEMMA SignOutStep ==
  ASSUME TypeInv, QueueInv, GrantInv, Next
  PROVE  SignOutInv'
<1> SUFFICES ASSUME holder' # None, holder'.op = "signOut"
             PROVE  Out(holder.flow)' /\ (SaveOf("queue")' => holder'.flow \notin FlowsOf(tmp'))
  BY DEF SignOutInv, FlowsOf
<1>1. CASE holder' = holder /\ ~Crash
  <2>1. PICK f \in Flow : f = holder.flow
    BY <1>1 DEF TypeInv, TypeOK, Holders
  <2>2. Out(f) /\ (SaveOf("queue") => f \notin FlowsOf(tmp))
    BY <1>1, <2>1 DEF GrantInv, SignOutInv
  <2>3. Out(f)'
    BY <1>1, <2>2, OutStays
  <2>4. SaveOf("queue")' => f \notin FlowsOf(tmp')
    BY <2>2, SaveOfSteps DEF Out
  <2>5. Out(holder.flow)'
    BY <1>1, <2>1, <2>3 DEF Out
  <2>q. QED BY <1>1, <2>1, <2>4, <2>5
<1>2. ASSUME NEW n \in Name, SignOut(n), holder'.flow = grants[n].flow
      PROVE  Out(holder.flow)' /\ ~SaveOf("queue")'
  <2>1. PICK f \in Flow : f = grants[n].flow
    BY <1>2, GrantFlow DEF SignOut, TypeInv
  <2>2. Out(f)'
    BY <1>2, <2>1, SignOutIsOut
  <2>3. Out(holder.flow)'
    BY <1>2, <2>1, <2>2 DEF Out
  <2>4. ASSUME SaveOf("queue")' PROVE FALSE
    <3>1. holder = None /\ UNCHANGED tmp
      BY <1>2 DEF SignOut
    <3>2. saves # <<>> /\ Head(saves).kind = "queue"
      BY <2>4, SaveOfSteps DEF SaveOf
    <3>q. QED BY <3>1, <3>2, HeadWaits DEF QueueInv, Asked, TypeInv
  <2>q. QED BY <2>3, <2>4
<1>q. QED BY <1>1, <1>2, HolderSteps

\* Only a save for a sign-out reports one.
LEMMA SignedOutSteps ==
  ASSUME TypeInv, QueueInv, Next
  PROVE  \/ UNCHANGED signedOut
         \/ /\ RenameTmp /\ SaveOf("queue") /\ holder # None /\ holder.op = "signOut"
            /\ signedOut' = signedOut \cup {holder.flow}
<1> DEFINE P == \/ UNCHANGED signedOut
                \/ /\ RenameTmp /\ SaveOf("queue") /\ holder # None /\ holder.op = "signOut"
                   /\ signedOut' = signedOut \cup {holder.flow}
<1>1. ASSUME NEW f \in Flow, Denied(f) \/ Forget(f) PROVE P
  BY <1>1 DEF Denied, Forget, history
<1>2. ASSUME NEW f \in Flow, NEW n \in Name, Start(f, n) PROVE P
  BY <1>2 DEF Start, history
<1>3. ASSUME NEW f \in Flow, NEW via \in Via, Complete(f, via) \/ Exchange(f, via) PROVE P
  BY <1>3 DEF Complete, Exchange, Redeem, Granted, NotGranted, history
<1>4. ASSUME NEW n \in Name, Cancel(n) \/ SignOut(n) \/ Refresh(n) \/ RefreshStep(n) PROVE P
  BY <1>4 DEF Cancel, SignOut, Refresh, RefreshStep, Rotate, Refreshed, NotRefreshed, history
<1>5. ASSUME NEW from \in Name, NEW to \in Name, Rename(from, to) PROVE P
  BY <1>5 DEF Rename
<1>6. Bound \/ WriteTmp \/ Crash => P
  BY DEF Bound, WriteTmp, Crash, history
<1>7. RenameTmp => P
  <2>1. SUFFICES ASSUME RenameTmp PROVE P
    OBVIOUS
  <2>2. saves # <<>> /\ tmp # None /\ SaveEnds(TRUE)
    BY <2>1 DEF RenameTmp, QueueInv
  <2>3. RefreshSaved(TRUE) \/ ExchangeSaved(TRUE) \/ QueueSaved(TRUE)
    BY <2>2, SaveCases
  <2>q. QED BY <2>1, <2>2, <2>3 DEF RefreshSaved, ExchangeSaved, QueueSaved, SaveOf
<1>8. SaveFails => P
  <2>1. SUFFICES ASSUME SaveFails PROVE P
    OBVIOUS
  <2>2. saves # <<>> /\ SaveEnds(FALSE)
    BY <2>1 DEF SaveFails
  <2>3. RefreshSaved(FALSE) \/ ExchangeSaved(FALSE) \/ QueueSaved(FALSE)
    BY <2>2, SaveCases
  <2>q. QED BY <2>3 DEF RefreshSaved, ExchangeSaved, QueueSaved
<1>q. QED BY <1>1, <1>2, <1>3, <1>4, <1>5, <1>6, <1>7, <1>8 DEF Next, SaveStep

LEMMA GoneStep ==
  ASSUME TypeInv, QueueInv, GrantInv, Next
  PROVE  GoneInv'
<1> SUFFICES ASSUME NEW f, f \in signedOut' PROVE Out(f)' /\ Nowhere(f)'
  BY DEF GoneInv
<1>1. CASE f \in signedOut
  <2>1. f \in Flow /\ Out(f) /\ Nowhere(f)
    BY <1>1 DEF GrantInv, GoneInv, TypeInv, TypeOK
  <2>2. f \notin FlowsOf(file)
    BY <2>1 DEF Nowhere, Holdings
  <2>q. QED BY <2>1, <2>2, OutStays, NowhereStays
<1>2. CASE f \notin signedOut
  <2>1. RenameTmp /\ SaveOf("queue") /\ holder # None /\ holder.op = "signOut" /\ f = holder.flow
    BY <1>2, SignedOutSteps
  <2>2. f \in Flow
    BY <2>1 DEF TypeInv, TypeOK, Holders
  <2>3. Out(f) /\ f \notin FlowsOf(tmp)
    BY <2>1 DEF GrantInv, SignOutInv
  <2>4. Out(f)'
    BY <2>1, <2>2, <2>3, OutStays DEF RenameTmp, Crash
  <2>5. Holdings' = {grants, tmp}
    BY <2>1 DEF Holdings, RenameTmp, SaveEnds
  <2>6. Nowhere(f)'
    BY <2>3, <2>5 DEF Nowhere, Out, FlowsOf
  <2>q. QED BY <2>4, <2>6
<1>q. QED BY <1>1, <1>2

LEMMA StepHolds ==
  ASSUME TypeInv, QueueInv, GrantInv, [Next]_vars
  PROVE  GrantInv'
<1>1. CASE UNCHANGED vars
  BY <1>1 DEF vars, GrantInv, HeldInv, JobsInv, CodesInv, SignOutInv, GoneInv, Holdings, Distinct, Issued,
              Nowhere, Out, SaveOf, FlowsOf
<1>2. CASE Next
  BY <1>2, HeldStep, JobsStep, CodesStep, SignOutStep, GoneStep DEF GrantInv
<1>q. QED BY <1>1, <1>2
-----------------------------------------------------------------------------
(* What was reported as done *)

LEMMA OverGrows == ASSUME Next PROVE over \subseteq over'
<1>1. CASE ~Moves
  BY <1>1, GrantsStay
<1>2. CASE Moves
  BY <1>2 DEF Moves, Grantings, SignOuts, Renames, Refreshings, Granted, SignOut, Rename, Refreshed, Crash, history
<1>q. QED BY <1>1, <1>2

\* A sign-in leaves memory only if it is given up, or with the daemon.
LEMMA FlowKept ==
  ASSUME TypeInv, GrantInv, Next, ~Crash, NEW f \in FlowsOf(grants)
  PROVE  f \in FlowsOf(grants') \cup over'
<1>1. PICK n \in Name : grants[n] # None /\ grants[n].flow = f
  BY InFlowsOf
<1>2. CASE ~Moves
  BY <1>2, GrantsStay
<1>3. ASSUME NEW g \in Flow, NEW via \in Via, Granted(g, via) PROVE f \in FlowsOf(grants') \cup over'
  <2>1. PICK m \in Name : (\A k \in Name \ {m} : grants'[k] = grants[k]) /\ over' = over \cup Replaced(m)
    BY <1>3, GrantedShape
  <2>2. CASE n = m
    BY <1>1, <2>1, <2>2 DEF Replaced
  <2>3. CASE n # m
    BY <1>1, <2>1, <2>3, InFlowsOf
  <2>q. QED BY <2>2, <2>3
<1>4. ASSUME NEW m \in Name, SignOut(m) PROVE f \in FlowsOf(grants') \cup over'
  <2>1. (\A k \in Name \ {m} : grants'[k] = grants[k]) /\ over' = over \cup Replaced(m)
    BY <1>4, SignOutShape DEF SignOut, TypeInv
  <2>2. CASE n = m
    BY <1>1, <2>1, <2>2 DEF Replaced
  <2>3. CASE n # m
    BY <1>1, <2>1, <2>3, InFlowsOf
  <2>q. QED BY <2>2, <2>3
<1>5. ASSUME NEW from \in Name, NEW to \in Name, Rename(from, to) PROVE f \in FlowsOf(grants') \cup over'
  <2>1. /\ grants'[to] = grants[from] /\ over' = over \cup Replaced(to)
        /\ \A k \in Name \ {from, to} : grants'[k] = grants[k]
    BY <1>5, RenameShape DEF Rename, TypeInv
  <2>2. CASE n = to
    BY <1>1, <2>1, <2>2 DEF Replaced
  <2>3. CASE n = from
    BY <1>1, <2>1, <2>3, InFlowsOf
  <2>4. CASE n # from /\ n # to
    BY <1>1, <2>1, <2>4, InFlowsOf
  <2>q. QED BY <2>2, <2>3, <2>4
<1>6. ASSUME NEW m \in Name, Refreshed(m) PROVE f \in FlowsOf(grants') \cup over'
  <2>1. /\ grants'[m] # None /\ grants'[m].flow = grants[m].flow
        /\ \A k \in Name \ {m} : grants'[k] = grants[k]
    BY <1>6, RefreshedShape
  <2>2. grants'[n] # None /\ grants'[n].flow = f
    BY <1>1, <2>1
  <2>q. QED BY <2>2, InFlowsOf
<1>q. QED BY <1>2, <1>3, <1>4, <1>5, <1>6 DEF Moves, Grantings, SignOuts, Renames, Refreshings

\* Only a save for an exchange reports a sign-in.
LEMMA ToldSteps ==
  ASSUME TypeInv, QueueInv, Next
  PROVE  \/ UNCHANGED told
         \/ /\ RenameTmp /\ SaveOf("exchange") /\ told' = told \cup {Head(saves).flow}
            /\ Head(saves).flow \in Flow /\ Head(saves).via \in Via
            /\ exchange[Head(saves).flow][Head(saves).via] = "saving"
<1> DEFINE P == \/ UNCHANGED told
                \/ /\ RenameTmp /\ SaveOf("exchange") /\ told' = told \cup {Head(saves).flow}
                   /\ Head(saves).flow \in Flow /\ Head(saves).via \in Via
                   /\ exchange[Head(saves).flow][Head(saves).via] = "saving"
<1>1. ASSUME NEW f \in Flow, Denied(f) \/ Forget(f) PROVE P
  BY <1>1 DEF Denied, Forget, history
<1>2. ASSUME NEW f \in Flow, NEW n \in Name, Start(f, n) PROVE P
  BY <1>2 DEF Start, history
<1>3. ASSUME NEW f \in Flow, NEW via \in Via, Complete(f, via) \/ Exchange(f, via) PROVE P
  BY <1>3 DEF Complete, Exchange, Redeem, Granted, NotGranted, history
<1>4. ASSUME NEW n \in Name, Cancel(n) \/ SignOut(n) \/ Refresh(n) \/ RefreshStep(n) PROVE P
  BY <1>4 DEF Cancel, SignOut, Refresh, RefreshStep, Rotate, Refreshed, NotRefreshed, history
<1>5. ASSUME NEW from \in Name, NEW to \in Name, Rename(from, to) PROVE P
  BY <1>5 DEF Rename
<1>6. Bound \/ WriteTmp \/ Crash => P
  BY DEF Bound, WriteTmp, Crash, history
<1>7. RenameTmp => P
  <2>1. SUFFICES ASSUME RenameTmp PROVE P
    OBVIOUS
  <2>2. saves # <<>> /\ tmp # None /\ SaveEnds(TRUE)
    BY <2>1 DEF RenameTmp, QueueInv
  <2>3. RefreshSaved(TRUE) \/ ExchangeSaved(TRUE) \/ QueueSaved(TRUE)
    BY <2>2, SaveCases
  <2>q. QED BY <2>1, <2>2, <2>3 DEF RefreshSaved, ExchangeSaved, QueueSaved, SaveOf
<1>8. SaveFails => P
  <2>1. SUFFICES ASSUME SaveFails PROVE P
    OBVIOUS
  <2>2. saves # <<>> /\ SaveEnds(FALSE)
    BY <2>1 DEF SaveFails
  <2>3. RefreshSaved(FALSE) \/ ExchangeSaved(FALSE) \/ QueueSaved(FALSE)
    BY <2>2, SaveCases
  <2>q. QED BY <2>3 DEF RefreshSaved, ExchangeSaved, QueueSaved
<1>q. QED BY <1>1, <1>2, <1>3, <1>4, <1>5, <1>6, <1>7, <1>8 DEF Next, SaveStep

LEMMA StepKeeps ==
  ASSUME TypeInv, QueueInv, GrantInv, KeepInv, [Next]_vars
  PROVE  KeepInv'
<1>1. CASE UNCHANGED vars
  BY <1>1 DEF vars, KeepInv, Holdings, SaveOf, FlowsOf
<1>2. CASE Next
  <2>0. over \subseteq over' /\ grants \in Holdings /\ file \in Holdings
    BY <1>2, OverGrows DEF Holdings
  <2>1. ASSUME NEW f \in told' \ over', NEW X \in Holdings' PROVE f \in FlowsOf(X)
    <3>1. CASE f \in told
      <4>1. f \in told \ over /\ \A Y \in Holdings : f \in FlowsOf(Y)
        BY <2>0, <2>1, <3>1 DEF KeepInv
      <4>2. f \in FlowsOf(grants')
        <5>1. CASE Crash
          BY <2>0, <4>1, <5>1 DEF Crash
        <5>2. CASE ~Crash
          BY <1>2, <2>0, <2>1, <4>1, <5>2, FlowKept
        <5>q. QED BY <5>1, <5>2
      <4>q. QED BY <1>2, <4>1, <4>2, HoldingsStep DEF TypeInv
    <3>2. CASE f \notin told
      <4>1. /\ RenameTmp /\ SaveOf("exchange") /\ f = Head(saves).flow
            /\ Head(saves).flow \in Flow /\ Head(saves).via \in Via
            /\ exchange[Head(saves).flow][Head(saves).via] = "saving"
        BY <1>2, <2>1, <3>2, ToldSteps
      <4>2. f \in FlowsOf(grants) \cup over /\ f \in FlowsOf(tmp) \cup over
        BY <4>1 DEF KeepInv
      <4>3. Holdings' = {grants, tmp}
        BY <4>1 DEF Holdings, RenameTmp, SaveEnds
      <4>q. QED BY <2>0, <2>1, <4>2, <4>3
    <3>q. QED BY <3>1, <3>2
  <2>2. ASSUME NEW f \in Flow, NEW via \in Via, exchange'[f][via] = "saving" PROVE f \in FlowsOf(grants') \cup over'
    <3>1. CASE Granted(f, via)
      <4>1. PICK n \in Name : grants'[n] = [flow |-> f, v |-> 1] /\ grants'[n] # None
        BY <3>1, GrantedShape
      <4>2. grants'[n].flow = f
        BY <4>1
      <4>q. QED BY <4>1, <4>2, InFlowsOf
    <3>2. CASE ~Granted(f, via)
      <4>1. exchange[f][via] = "saving" /\ ~Crash
        BY <1>2, <2>2, <3>2, ExchangeSteps DEF Crash
      <4>2. f \in FlowsOf(grants) \cup over
        BY <4>1 DEF KeepInv
      <4>q. QED BY <1>2, <2>0, <4>1, <4>2, FlowKept
    <3>q. QED BY <3>1, <3>2
  <2>3. ASSUME SaveOf("exchange")' PROVE Head(saves').flow \in FlowsOf(tmp') \cup over'
    <3>1. CASE SaveOf("exchange") /\ tmp' = tmp /\ Head(saves') = Head(saves)
      BY <2>0, <3>1 DEF KeepInv
    <3>2. CASE tmp' = grants /\ saves' = saves /\ saves # <<>> /\ Head(saves).kind = "exchange"
      <4>1. Head(saves) \in Owners /\ Asked(1) /\ saves[1] = Head(saves)
        BY <3>2, HeadWaits DEF TypeInv, QueueInv
      <4>2. Head(saves).flow \in Flow /\ Head(saves).via \in Via
        BY <3>2, <4>1, OwnerShape
      <4>3. exchange[Head(saves).flow][Head(saves).via] = "saving"
        BY <3>2, <4>1 DEF Asked
      <4>q. QED BY <2>0, <3>2, <4>2, <4>3 DEF KeepInv
    <3>q. QED BY <1>2, <2>3, <3>1, <3>2, SaveOfSteps
  <2>q. QED BY <2>1, <2>2, <2>3 DEF KeepInv, FlowsOf
<1>q. QED BY <1>1, <1>2
-----------------------------------------------------------------------------
(* Which token is kept *)

LEMMA MishapGrows == ASSUME TypeInv, Next PROVE mishap \subseteq mishap'
<1>1. ASSUME NEW f \in Flow, Denied(f) \/ Forget(f) PROVE mishap \subseteq mishap'
  BY <1>1 DEF Denied, Forget, history
<1>2. ASSUME NEW f \in Flow, NEW n \in Name, Start(f, n) PROVE mishap \subseteq mishap'
  BY <1>2 DEF Start, history
<1>3. ASSUME NEW f \in Flow, NEW via \in Via, Complete(f, via) \/ Exchange(f, via) PROVE mishap \subseteq mishap'
  BY <1>3 DEF Complete, Exchange, Redeem, Granted, NotGranted, history
<1>4. ASSUME NEW n \in Name, Cancel(n) \/ SignOut(n) \/ Refresh(n) \/ Refreshed(n) \/ NotRefreshed(n)
      PROVE  mishap \subseteq mishap'
  BY <1>4 DEF Cancel, SignOut, Refresh, Refreshed, NotRefreshed, history
<1>5. ASSUME NEW n \in Name, Rotate(n) PROVE mishap \subseteq mishap'
  BY <1>5, RotateShape DEF TypeInv
<1>6. ASSUME NEW from \in Name, NEW to \in Name, Rename(from, to) PROVE mishap \subseteq mishap'
  BY <1>6 DEF Rename
<1>7. Bound \/ SaveStep \/ SaveFails \/ Crash => mishap \subseteq mishap'
  BY DEF Bound, SaveStep, WriteTmp, RenameTmp, SaveFails, Crash, history
<1>q. QED BY <1>1, <1>2, <1>3, <1>4, <1>5, <1>6, <1>7 DEF Next, RefreshStep

LEMMA LessRegular == ASSUME TypeInv, Next, NEW f, Regular(f)' PROVE Regular(f)
BY MishapGrows, OverGrows DEF Regular

\* A refresh of a regular flow is the only one, of the only name that has it.
LEMMA FollowsHeld ==
  ASSUME TypeInv, GrantInv, CurrentInv, NEW n \in Name, refreshing[n] # None, Regular(refreshing[n].of.flow)
  PROVE  /\ Follows(n) /\ grants[n] # None /\ grants[n].flow = refreshing[n].of.flow
         /\ \A k \in Name : grants[k] # None /\ grants[k].flow = refreshing[n].of.flow => k = n
<1>1. Follows(n)
  BY DEF CurrentInv, FollowInv
<1>2. refreshing[n].of # None /\ NextGrant(refreshing[n].of) # None
      /\ NextGrant(refreshing[n].of).flow = refreshing[n].of.flow
  BY NextIsGrant, JobOf, NoneAssumption DEF TypeInv
<1>3. grants[n] # None /\ grants[n].flow = refreshing[n].of.flow
  BY <1>1, <1>2 DEF Follows
<1>q. QED BY <1>1, <1>3 DEF GrantInv, HeldInv, Holdings, Distinct

LEMMA OneFollower ==
  ASSUME TypeInv, GrantInv, CurrentInv, NEW n \in Name, NEW m \in Name, refreshing[n] # None, refreshing[m] # None,
         refreshing[n].of.flow = refreshing[m].of.flow, Regular(refreshing[n].of.flow)
  PROVE  n = m
BY FollowsHeld

\* What a step does to a regular flow that is somewhere: it stays as it is, or
\* a refresh of it is under way afterwards.
Explained(f) ==
  Regular(f)' /\ live[f] # 0 =>
     \/ live'[f] = live[f] /\ \A m \in Name : Refreshes(m, f) => Refreshes(m, f)'
     \/ \E m \in Name : Refreshes(m, f)'

LEMMA FreshStays ==
  ASSUME TypeInv, GrantInv, CurrentInv, Next, \A f \in Flow : Explained(f), NEW X \in Holdings
  PROVE  Fresh(X)'
<1> SUFFICES ASSUME NEW n \in Name, X[n] # None, Regular(X[n].flow)'
             PROVE  X[n].v = live'[X[n].flow] \/ \E m \in Name : Refreshes(m, X[n].flow)'
  BY DEF Fresh
<1>1. PICK f \in Flow : f = X[n].flow
  BY HeldIsTyped DEF TypeInv
<1>2. Regular(f)' /\ Regular(f)
  <2>1. Regular(f)'
    BY <1>1 DEF Regular
  <2>q. QED BY <2>1, LessRegular
<1>3. live[f] # 0
  <2>1. X[n].v \in Nat \ {0} /\ X[n].v <= live[f]
    BY <1>1, HeldIsTyped DEF GrantInv, HeldInv, Issued, TypeInv
  <2>q. QED BY <2>1
<1>4. X[n].v = live[f] \/ \E m \in Name : Refreshes(m, f)
  BY <1>1, <1>2 DEF CurrentInv, FreshInv, Fresh
<1>5. X[n].v = live'[f] \/ \E m \in Name : Refreshes(m, f)'
  BY <1>2, <1>3, <1>4 DEF Explained
<1>q. QED BY <1>1, <1>5 DEF Refreshes

\* The new content of memory is fresh if each grant of it is.
LEMMA FreshStep ==
  ASSUME TypeInv, GrantInv, CurrentInv, Next, \A f \in Flow : Explained(f),
         \A n \in Name : grants'[n] # None =>
            \/ \E k \in Name : grants'[n] = grants[k]
            \/ grants'[n].v = live'[grants'[n].flow]
            \/ \E m \in Name, f \in Flow : f = grants'[n].flow /\ Refreshes(m, f)'
  PROVE  FreshInv'
<1>1. \A X \in Holdings : Fresh(X)'
  BY FreshStays
<1>2. PICK H : H = grants
  OBVIOUS
<1>3. Fresh(H)'
  BY <1>1, <1>2 DEF Holdings
<1>4. PICK G : G = grants'
  OBVIOUS
<1>5. Fresh(G)'
  <2> SUFFICES ASSUME NEW n \in Name, G[n] # None, Regular(G[n].flow)'
               PROVE  G[n].v = live'[G[n].flow] \/ \E m \in Name : Refreshes(m, G[n].flow)'
    BY DEF Fresh
  <2>1. CASE \E k \in Name : G[n] = H[k]
    BY <1>3, <2>1 DEF Fresh
  <2>2. CASE \E m \in Name, f \in Flow : f = G[n].flow /\ Refreshes(m, f)'
    BY <2>2 DEF Refreshes
  <2>q. QED BY <1>2, <1>4, <2>1, <2>2
<1>q. QED BY <1>1, <1>4, <1>5, HoldingsStep DEF FreshInv, TypeInv

\* The save of a refresh reads the new token.
LEMMA WrittenStep ==
  ASSUME TypeInv, QueueInv, GrantInv, CurrentInv, Next
  PROVE  WrittenInv'
<1> SUFFICES ASSUME SaveOf("refresh")', NEW f, f = refreshing'[Head(saves').name].of.flow, Regular(f)',
                    NEW n \in Name, tmp'[n] # None, tmp'[n].flow = f
             PROVE  tmp'[n].v = live'[f]
  <2>1. PICK f : f = refreshing'[Head(saves').name].of.flow
    OBVIOUS
  <2>q. QED BY <2>1 DEF WrittenInv, Regular
<1> DEFINE h == Head(saves).name
<1>1. /\ saves # <<>> /\ Head(saves).kind = "refresh" /\ Head(saves') = Head(saves)
      /\ (SaveOf("refresh") /\ tmp' = tmp) \/ (WriteTmp /\ tmp' = grants)
  BY SaveOfSteps DEF SaveOf
<1>2. h \in Name /\ refreshing[h] # None /\ refreshing[h].stage = "saving"
  BY <1>1, HeadWaits, OwnerShape DEF QueueInv, Asked, TypeInv
<1>3. ~Crash /\ ~RenameTmp /\ ~SaveFails /\ ~NotRefreshed(h) /\ ~Refresh(h) /\ ~Rotate(h) /\ ~Refreshed(h)
  BY <1>2 DEF Crash, RenameTmp, SaveFails, SaveEnds, SaveOf, NotRefreshed, Refresh, Rotate, Refreshed
<1>4. refreshing'[h] = refreshing[h]
  <2>1. CASE ~RefreshStarts /\ ~Rotates /\ ~Refreshings
    BY <1>2, <1>3, <2>1, RefreshingStays
  <2>2. ASSUME NEW m \in Name, Refresh(m) PROVE refreshing'[h] = refreshing[h]
    BY <1>2, <1>3, <2>2, RefreshShape
  <2>3. ASSUME NEW m \in Name, Rotate(m) \/ Refreshed(m) PROVE refreshing'[h] = refreshing[h]
    BY <1>2, <1>3, <2>3, StagesMove
  <2>q. QED BY <2>1, <2>2, <2>3 DEF RefreshStarts, Rotates, Refreshings
<1>5. /\ f = refreshing[h].of.flow /\ f \in Flow /\ Regular(f) /\ Follows(h) /\ grants[h].flow = f
      /\ \A k \in Name : grants[k] # None /\ grants[k].flow = f => k = h
  <2>1. f = refreshing[h].of.flow
    BY <1>1, <1>4
  <2>2. Regular(f)
    BY LessRegular
  <2>q. QED BY <1>2, <2>1, <2>2, FollowsHeld, JobOf DEF TypeInv
<1>6. tmp'[n].v = live[f]
  <2>1. CASE SaveOf("refresh") /\ tmp' = tmp
    BY <1>5, <2>1 DEF CurrentInv, WrittenInv
  <2>2. CASE tmp' = grants
    <3>1. n = h
      BY <1>5, <2>2
    <3>2. grants[h] = NextGrant(refreshing[h].of) /\ live[f] = refreshing[h].of.v + 1
      BY <1>2, <1>5 DEF Follows
    <3>q. QED BY <1>2, <2>2, <3>1, <3>2, NextIsGrant
  <2>q. QED BY <1>1, <2>1, <2>2
<1>7. live[f] # 0
  <2>1. refreshing[h].of.v \in 1..MaxVersion
    BY <1>2, JobOf DEF TypeInv
  <2>2. refreshing[h].of.v <= live[f]
    BY <1>2, <1>5 DEF GrantInv, JobsInv
  <2>3. live[f] \in 0..MaxVersion
    BY <1>5 DEF TypeInv, TypeOK
  <2>q. QED BY <2>1, <2>2, <2>3, SignInsAssumption
<1>8. live'[f] = live[f]
  <2>1. ASSUME NEW g \in Flow, NEW via \in Via, Redeem(g, via) PROVE live'[f] = live[f]
    BY <1>5, <1>7, <2>1 DEF Redeem, TypeInv, TypeOK
  <2>2. ASSUME NEW m \in Name, Rotate(m) PROVE live'[f] = live[f]
    <3>1. m # h /\ refreshing[m] # None
      BY <1>3, <2>2 DEF Rotate
    <3>2. refreshing[m].of.flow # f
      BY <1>2, <1>5, <3>1, OneFollower
    <3>3. live' \in {live, [live EXCEPT ![refreshing[m].of.flow] = @ + 1]}
      BY <2>2, RotateShape DEF TypeInv
    <3>q. QED BY <1>5, <3>2, <3>3 DEF TypeInv, TypeOK
  <2>q. QED BY <2>1, <2>2, LiveStays DEF Redeems, Rotates
<1>q. QED BY <1>6, <1>8

\* A grant in memory and a refresh belong to a flow whose code was redeemed.
LEMMA Redeemed ==
  ASSUME TypeInv, GrantInv, NEW n \in Name
  PROVE  /\ grants[n] # None => grants[n].flow \in Flow /\ live[grants[n].flow] # 0
         /\ refreshing[n] # None => refreshing[n].of.flow \in Flow /\ live[refreshing[n].of.flow] # 0
<1>1. ASSUME grants[n] # None PROVE grants[n].flow \in Flow /\ live[grants[n].flow] # 0
  <2>1. grants[n].flow \in Flow /\ grants[n].v \in Nat \ {0} /\ grants[n].v <= live[grants[n].flow]
    BY <1>1, HeldIsTyped DEF GrantInv, HeldInv, Issued, TypeInv, Holdings
  <2>q. QED BY <2>1
<1>2. ASSUME refreshing[n] # None PROVE refreshing[n].of.flow \in Flow /\ live[refreshing[n].of.flow] # 0
  <2>1. /\ refreshing[n].of.flow \in Flow /\ refreshing[n].of.v \in 1..MaxVersion
        /\ refreshing[n].of.v <= live[refreshing[n].of.flow]
    BY <1>2, JobOf DEF GrantInv, JobsInv, TypeInv
  <2>q. QED BY <2>1, SignInsAssumption
<1>q. QED BY <1>1, <1>2

\* Steps that neither store nor refresh anything, the redemption of a code included
LEMMA QuietStep ==
  ASSUME TypeInv, QueueInv, GrantInv, CurrentInv, Next, UNCHANGED <<grants, refreshing>>,
         \A f \in Flow : live[f] # 0 => live'[f] = live[f]
  PROVE  CurrentInv'
<1>1. \A f \in Flow : Explained(f)
  BY DEF Explained, Refreshes
<1>2. MemoryInv'
  <2> SUFFICES ASSUME NEW n \in Name, grants[n] # None, NEW f, f = grants[n].flow, Regular(f)', ~Refreshes(n, f)'
               PROVE  grants[n].v = live'[f]
    BY DEF MemoryInv, Regular, Refreshes
  <2>1. Regular(f) /\ f \in Flow /\ live[f] # 0 /\ ~Refreshes(n, f)
    BY LessRegular, Redeemed DEF Refreshes
  <2>q. QED BY <2>1 DEF CurrentInv, MemoryInv
<1>3. FollowInv'
  <2> SUFFICES ASSUME NEW n \in Name, refreshing[n] # None, NEW f, f = refreshing[n].of.flow, Regular(f)'
               PROVE  Follows(n)'
    BY DEF FollowInv, Regular
  <2>1. Regular(f) /\ f \in Flow /\ live[f] # 0
    BY LessRegular, Redeemed
  <2>2. Follows(n)
    BY <2>1 DEF CurrentInv, FollowInv
  <2>q. QED BY <2>1, <2>2 DEF Follows
<1>4. FreshInv'
  BY <1>1, FreshStep
<1>5. WrittenInv'
  BY WrittenStep
<1>q. QED BY <1>2, <1>3, <1>4, <1>5 DEF CurrentInv

\* What is stored in memory without a refresh: every grant that stays is where
\* it was, or comes from a name that no refresh is about.
LEMMA StoredStep ==
  ASSUME TypeInv, QueueInv, GrantInv, CurrentInv, Next, UNCHANGED <<refreshing, live>>,
         \A n \in Name : \/ grants'[n] = grants[n]
                         \/ /\ grants[n] # None => grants[n].flow \in over' \cup mishap' \/ refreshing[n] = None
                            /\ \/ grants'[n] = None
                               \/ grants'[n].v = live[grants'[n].flow]
                               \/ \E k \in Name : /\ grants'[n] = grants[k]
                                                  /\ grants[k] # None => grants[k].flow \in mishap' \/ refreshing[k] = None
  PROVE  CurrentInv'
<1>1. \A f \in Flow : Explained(f)
  BY DEF Explained, Refreshes
<1>2. MemoryInv'
  <2> SUFFICES ASSUME NEW n \in Name, grants'[n] # None, NEW f, f = grants'[n].flow, Regular(f)', ~Refreshes(n, f)'
               PROVE  grants'[n].v = live[f]
    BY DEF MemoryInv, Regular, Refreshes
  <2>1. Regular(f)
    BY LessRegular
  <2>2. CASE grants'[n] = grants[n]
    BY <2>1, <2>2 DEF CurrentInv, MemoryInv, Refreshes
  <2>3. ASSUME NEW k \in Name, grants'[n] = grants[k], grants[k] # None => grants[k].flow \in mishap' \/ refreshing[k] = None
        PROVE  grants'[n].v = live[f]
    <3>1. refreshing[k] = None
      BY <2>3 DEF Regular
    <3>q. QED BY <2>1, <2>3, <3>1 DEF CurrentInv, MemoryInv, Refreshes
  <2>q. QED BY <2>2, <2>3
<1>3. FollowInv'
  <2> SUFFICES ASSUME NEW n \in Name, refreshing[n] # None, NEW f, f = refreshing[n].of.flow, Regular(f)'
               PROVE  Follows(n)'
    BY DEF FollowInv, Regular
  <2>1. Regular(f)
    BY LessRegular
  <2>2. Follows(n) /\ grants[n] # None /\ grants[n].flow = f
    BY <2>1, FollowsHeld
  <2>3. grants'[n] = grants[n]
    BY <2>2 DEF Regular
  <2>q. QED BY <2>2, <2>3 DEF Follows
<1>4. FreshInv'
  BY <1>1, FreshStep
<1>5. WrittenInv'
  BY WrittenStep
<1>q. QED BY <1>2, <1>3, <1>4, <1>5 DEF CurrentInv

LEMMA StoresStep ==
  ASSUME TypeInv, QueueInv, GrantInv, CurrentInv, Next, Grantings \/ SignOuts \/ Renames
  PROVE  CurrentInv'
<1>1. ASSUME NEW f \in Flow, NEW via \in Via, Granted(f, via) PROVE CurrentInv'
  <2>1. PICK n \in Name : /\ grants'[n] = [flow |-> f, v |-> 1]
                          /\ \A m \in Name \ {n} : grants'[m] = grants[m]
                          /\ over' = over \cup Replaced(n)
    BY <1>1, GrantedShape
  <2>2. live[f] = 1 /\ UNCHANGED <<refreshing, live>>
    BY <1>1 DEF Granted, GrantInv, CodesInv
  <2>3. grants'[n].flow = f /\ grants'[n].v = 1
    BY <2>1
  <2>4. grants[n] # None => grants[n].flow \in over'
    BY <2>1 DEF Replaced
  <2>q. QED BY <2>1, <2>2, <2>3, <2>4, StoredStep
<1>2. ASSUME NEW n \in Name, SignOut(n) PROVE CurrentInv'
  <2>1. grants'[n] = None /\ \A m \in Name \ {n} : grants'[m] = grants[m]
    BY <1>2, SignOutShape DEF TypeInv
  <2>2. UNCHANGED <<refreshing, live>> /\ (grants[n] # None => grants[n].flow \in over')
    BY <1>2 DEF SignOut, Replaced
  <2>q. QED BY <2>1, <2>2, StoredStep
<1>3. ASSUME NEW from \in Name, NEW to \in Name, Rename(from, to) PROVE CurrentInv'
  <2>1. /\ grants'[to] = grants[from] /\ grants'[from] = None /\ from # to
        /\ \A m \in Name \ {from, to} : grants'[m] = grants[m]
    BY <1>3, RenameShape DEF TypeInv, Rename
  <2>2. /\ UNCHANGED <<refreshing, live>>
        /\ grants[to] # None => grants[to].flow \in over'
        /\ grants[from].flow \in mishap' \/ refreshing[from] = None
    BY <1>3 DEF Rename, Replaced
  <2>q. QED BY <2>1, <2>2, StoredStep
<1>q. QED BY <1>1, <1>2, <1>3 DEF Grantings, SignOuts, Renames

LEMMA RefreshStartsStep ==
  ASSUME TypeInv, QueueInv, GrantInv, CurrentInv, Next, NEW n \in Name, Refresh(n)
  PROVE  CurrentInv'
<1>1. /\ refreshing[n] = None /\ grants[n] # None /\ UNCHANGED <<live, grants>>
      /\ refreshing'[n] = [of |-> grants[n], stage |-> "sent"] /\ refreshing'[n] # None
      /\ \A m \in Name \ {n} : refreshing'[m] = refreshing[m]
  BY RefreshShape DEF Refresh
<1>2. refreshing'[n].of = grants[n] /\ refreshing'[n].stage = "sent"
  BY <1>1
<1>3. \A m \in Name : \A f : Refreshes(m, f) => Refreshes(m, f)'
  BY <1>1 DEF Refreshes
<1>4. \A f \in Flow : Explained(f)
  BY <1>1, <1>3 DEF Explained
<1>5. MemoryInv'
  <2> SUFFICES ASSUME NEW m \in Name, grants[m] # None, NEW f, f = grants[m].flow, Regular(f)', ~Refreshes(m, f)'
               PROVE  grants[m].v = live[f]
    BY <1>1 DEF MemoryInv, Regular, Refreshes
  <2>1. Regular(f) /\ ~Refreshes(m, f)
    BY <1>3, LessRegular
  <2>q. QED BY <2>1 DEF CurrentInv, MemoryInv
<1>6. FollowInv'
  <2> SUFFICES ASSUME NEW m \in Name, refreshing'[m] # None, NEW f, f = refreshing'[m].of.flow, Regular(f)'
               PROVE  Follows(m)'
    BY DEF FollowInv, Regular
  <2>1. Regular(f)
    BY LessRegular
  <2>2. CASE m = n
    <3>1. grants[n].v = live[f] /\ f = grants[n].flow
      BY <1>1, <1>2, <2>1, <2>2 DEF CurrentInv, MemoryInv, Refreshes
    <3>q. QED BY <1>1, <1>2, <2>2, <3>1 DEF Follows
  <2>3. CASE m # n
    BY <1>1, <2>1, <2>3 DEF CurrentInv, FollowInv, Follows
  <2>q. QED BY <2>2, <2>3
<1>7. FreshInv'
  BY <1>1, <1>4, FreshStep
<1>8. WrittenInv'
  BY WrittenStep
<1>q. QED BY <1>5, <1>6, <1>7, <1>8 DEF CurrentInv

LEMMA RotatesStep ==
  ASSUME TypeInv, QueueInv, GrantInv, CurrentInv, Next, NEW n \in Name, Rotate(n)
  PROVE  CurrentInv'
<1> DEFINE of == refreshing[n].of
<1>1. PICK s \in {"granted", "refused"} :
        /\ refreshing' = [refreshing EXCEPT ![n].stage = s]
        /\ live' \in {live, [live EXCEPT ![of.flow] = @ + 1]}
        /\ s = "granted" => live' = [live EXCEPT ![of.flow] = @ + 1] /\ of.v = live[of.flow]
        /\ live' # live => s = "granted" \/ of.flow \in mishap'
        /\ s = "refused" => of.flow \in mishap' \/ of.v # live[of.flow]
  BY RotateShape DEF TypeInv
<1>2. /\ refreshing[n] # None /\ refreshing[n].stage = "sent" /\ UNCHANGED grants
      /\ refreshing'[n] = [of |-> of, stage |-> s] /\ refreshing'[n] # None
      /\ \A m \in Name \ {n} : refreshing'[m] = refreshing[m]
  BY <1>1, StageIsTyped DEF Rotate, TypeInv, Stages
<1>3. refreshing'[n].of = of /\ refreshing'[n].stage = s /\ of.flow \in Flow /\ live[of.flow] \in Nat
  BY <1>2, JobOf DEF TypeInv, TypeOK
<1>4. \A m \in Name : \A f : Refreshes(m, f)' <=> Refreshes(m, f)
  BY <1>2, <1>3 DEF Refreshes
<1>5. \A f \in Flow : f # of.flow => live'[f] = live[f]
  BY <1>1, <1>3 DEF TypeInv, TypeOK
<1>6. Refreshes(n, of.flow)
  BY <1>2 DEF Refreshes
<1>7. \A f \in Flow : Explained(f)
  <2> TAKE f \in Flow
  <2>1. CASE f = of.flow
    <3>1. Refreshes(n, f)'
      BY <1>4, <1>6, <2>1
    <3>q. QED BY <3>1 DEF Explained
  <2>2. CASE f # of.flow
    BY <1>4, <1>5, <2>2 DEF Explained
  <2>q. QED BY <2>1, <2>2
<1>8. MemoryInv'
  <2> SUFFICES ASSUME NEW m \in Name, grants[m] # None, NEW f, f = grants[m].flow, Regular(f)', ~Refreshes(m, f)'
               PROVE  grants[m].v = live'[f]
    BY <1>2 DEF MemoryInv, Regular, Refreshes
  <2>1. Regular(f) /\ f \in Flow /\ ~Refreshes(m, f) /\ grants[m].v = live[f]
    BY <1>4, LessRegular, Redeemed DEF CurrentInv, MemoryInv
  <2>2. f # of.flow
    <3>1. SUFFICES ASSUME f = of.flow PROVE FALSE
      OBVIOUS
    <3>2. m = n
      BY <1>2, <2>1, <3>1, FollowsHeld
    <3>q. QED BY <1>6, <2>1, <3>1, <3>2
  <2>q. QED BY <1>5, <2>1, <2>2
<1>9. FollowInv'
  <2> SUFFICES ASSUME NEW m \in Name, refreshing'[m] # None, NEW f, f = refreshing'[m].of.flow, Regular(f)'
               PROVE  Follows(m)'
    BY DEF FollowInv, Regular
  <2>1. Regular(f)
    BY LessRegular
  <2>2. CASE m = n
    <3>1. f = of.flow /\ Follows(n)
      BY <1>2, <1>3, <2>1, <2>2, FollowsHeld
    <3>2. grants[n] = of /\ live[f] = of.v
      BY <1>2, <3>1 DEF Follows
    <3>3. s = "granted"
      BY <1>1, <3>1, <3>2 DEF Regular
    <3>4. live'[f] = of.v + 1
      BY <1>1, <1>3, <3>1, <3>2, <3>3 DEF TypeInv, TypeOK
    <3>q. QED BY <1>2, <1>3, <2>2, <3>1, <3>2, <3>3, <3>4 DEF Follows
  <2>3. CASE m # n
    <3>1. refreshing'[m] = refreshing[m] /\ Follows(m) /\ f \in Flow
      BY <1>2, <2>1, <2>3, FollowsHeld, Redeemed
    <3>2. f # of.flow
      BY <1>2, <2>1, <2>3, <3>1, OneFollower
    <3>3. live'[f] = live[f]
      BY <1>5, <3>1, <3>2
    <3>q. QED BY <1>2, <3>1, <3>3 DEF Follows
  <2>q. QED BY <2>2, <2>3
<1>10. FreshInv'
  BY <1>2, <1>7, FreshStep
<1>11. WrittenInv'
  BY WrittenStep
<1>q. QED BY <1>8, <1>9, <1>10, <1>11 DEF CurrentInv

LEMMA RefreshedStep ==
  ASSUME TypeInv, QueueInv, GrantInv, CurrentInv, Next, NEW n \in Name, Refreshed(n)
  PROVE  CurrentInv'
<1> DEFINE of == refreshing[n].of
<1>1. /\ refreshing[n] # None /\ refreshing[n].stage = "granted" /\ grants[n] = of
      /\ grants[n] # None /\ grants'[n] = NextGrant(of) /\ grants'[n] # None /\ grants'[n].flow = of.flow
      /\ \A m \in Name \ {n} : grants'[m] = grants[m]
      /\ UNCHANGED live
  BY RefreshedShape DEF Refreshed
<1>2. /\ refreshing'[n] # None /\ refreshing'[n].of = of /\ refreshing'[n].stage = "saving"
      /\ \A m \in Name \ {n} : refreshing'[m] = refreshing[m]
  BY StagesMove
<1>3. \A m \in Name : \A f : Refreshes(m, f)' <=> Refreshes(m, f)
  BY <1>1, <1>2 DEF Refreshes
<1>4. Refreshes(n, of.flow) /\ of.flow \in Flow
  BY <1>1, Redeemed DEF Refreshes
<1>5. \A f \in Flow : Explained(f)
  BY <1>1, <1>3 DEF Explained
<1>6. MemoryInv'
  <2> SUFFICES ASSUME NEW m \in Name, grants'[m] # None, NEW f, f = grants'[m].flow, Regular(f)', ~Refreshes(m, f)'
               PROVE  grants'[m].v = live[f]
    BY <1>1 DEF MemoryInv, Regular, Refreshes
  <2>1. Regular(f) /\ ~Refreshes(m, f)
    BY <1>3, LessRegular
  <2>2. m # n
    BY <1>1, <1>4, <2>1
  <2>q. QED BY <1>1, <2>1, <2>2 DEF CurrentInv, MemoryInv
<1>7. FollowInv'
  <2> SUFFICES ASSUME NEW m \in Name, refreshing'[m] # None, NEW f, f = refreshing'[m].of.flow, Regular(f)'
               PROVE  Follows(m)'
    BY DEF FollowInv, Regular
  <2>1. Regular(f)
    BY LessRegular
  <2>2. CASE m = n
    <3>1. f = of.flow /\ Follows(n)
      BY <1>1, <1>2, <2>1, <2>2, FollowsHeld
    <3>2. live[f] = of.v + 1
      BY <1>1, <3>1 DEF Follows
    <3>q. QED BY <1>1, <1>2, <2>2, <3>1, <3>2 DEF Follows
  <2>3. CASE m # n
    BY <1>1, <1>2, <2>1, <2>3 DEF CurrentInv, FollowInv, Follows
  <2>q. QED BY <2>2, <2>3
<1>8. FreshInv'
  <2>1. \E m \in Name, f \in Flow : f = grants'[n].flow /\ Refreshes(m, f)'
    BY <1>1, <1>3, <1>4
  <2>2. \A m \in Name \ {n} : \E k \in Name : grants'[m] = grants[k]
    BY <1>1
  <2>q. QED BY <1>5, <2>1, <2>2, FreshStep
<1>9. WrittenInv'
  BY WrittenStep
<1>q. QED BY <1>6, <1>7, <1>8, <1>9 DEF CurrentInv

\* The end of a job: what it was about is stored, or is no longer regular.
LEMMA EndsStep ==
  ASSUME TypeInv, QueueInv, GrantInv, CurrentInv, Next, NEW n \in Name, refreshing[n] # None, EndRefresh(n),
         UNCHANGED <<grants, live>>,
         Regular(refreshing[n].of.flow) /\ refreshing[n].of.flow \notin mishap' =>
            /\ refreshing[n].stage = "saving"
            /\ \A X \in Holdings', k \in Name : X[k] # None /\ X[k].flow = refreshing[n].of.flow => X[k].v = live[X[k].flow]
  PROVE  MemoryInv' /\ FollowInv' /\ FreshInv'
<1> DEFINE g == refreshing[n].of.flow
<1>1. refreshing'[n] = None /\ \A m \in Name \ {n} : refreshing'[m] = refreshing[m]
  BY DEF EndRefresh, TypeInv, TypeOK
<1>2. \A m \in Name : \A f : f # g => (Refreshes(m, f)' <=> Refreshes(m, f))
  BY <1>1 DEF Refreshes
<1>3. ASSUME NEW f, Regular(f)', f = g
      PROVE  /\ refreshing[n].stage = "saving"
             /\ \A X \in Holdings', k \in Name : X[k] # None /\ X[k].flow = f => X[k].v = live[f]
  BY <1>3, LessRegular DEF Regular
<1>4. grants \in Holdings'
  BY DEF Holdings
<1>5. MemoryInv'
  <2> SUFFICES ASSUME NEW m \in Name, grants[m] # None, NEW f, f = grants[m].flow, Regular(f)', ~Refreshes(m, f)'
               PROVE  grants[m].v = live[f]
    BY DEF MemoryInv, Regular, Refreshes
  <2>1. CASE f = g
    BY <1>3, <1>4, <2>1
  <2>2. CASE f # g
    BY <1>2, <2>2, LessRegular DEF CurrentInv, MemoryInv
  <2>q. QED BY <2>1, <2>2
<1>6. FollowInv'
  <2> SUFFICES ASSUME NEW m \in Name, refreshing'[m] # None, NEW f, f = refreshing'[m].of.flow, Regular(f)'
               PROVE  Follows(m)'
    BY DEF FollowInv, Regular
  <2>q. QED BY <1>1, LessRegular DEF CurrentInv, FollowInv, Follows
<1>7. FreshInv'
  <2> SUFFICES ASSUME NEW X \in Holdings', NEW m \in Name, X[m] # None, NEW f, f = X[m].flow, Regular(f)'
               PROVE  X[m].v = live[f] \/ \E k \in Name : Refreshes(k, f)'
    BY DEF FreshInv, Fresh, Regular, Refreshes
  <2>1. CASE f = g
    BY <1>3, <2>1
  <2>2. CASE f # g
    <3>1. X \in Holdings
      BY HoldingsStep DEF Holdings, TypeInv
    <3>2. X[m].v = live[f] \/ \E k \in Name : Refreshes(k, f)
      BY <3>1, LessRegular DEF CurrentInv, FreshInv, Fresh
    <3>q. QED BY <1>2, <2>2, <3>2
  <2>q. QED BY <2>1, <2>2
<1>q. QED BY <1>5, <1>6, <1>7

LEMMA NotRefreshedStep ==
  ASSUME TypeInv, QueueInv, GrantInv, CurrentInv, Next, NEW n \in Name, NotRefreshed(n)
  PROVE  CurrentInv'
<1>1. refreshing[n] # None /\ EndRefresh(n) /\ UNCHANGED <<grants, live>>
  BY DEF NotRefreshed
<1>2. ~Regular(refreshing[n].of.flow)
  BY <1>1 DEF CurrentInv, FollowInv, Follows, NotRefreshed, StillThere
<1>3. MemoryInv' /\ FollowInv' /\ FreshInv'
  BY <1>1, <1>2, EndsStep
<1>q. QED BY <1>3, WrittenStep DEF CurrentInv

LEMMA SavesStep ==
  ASSUME TypeInv, QueueInv, GrantInv, CurrentInv, Next, RenameTmp \/ SaveFails
  PROVE  CurrentInv'
<1> DEFINE n == Head(saves).name
<1>1. PICK ok \in BOOLEAN : saves # <<>> /\ SaveEnds(ok)
  BY DEF RenameTmp, SaveFails, QueueInv
<1>2. SavedFrame /\ (RefreshSaved(ok) \/ ExchangeSaved(ok) \/ QueueSaved(ok))
  BY <1>1, SaveCases
<1>3. UNCHANGED <<grants, live>>
  BY <1>2 DEF SavedFrame
<1>4. CASE ExchangeSaved(ok) \/ QueueSaved(ok)
  BY <1>3, <1>4, QuietStep DEF ExchangeSaved, QueueSaved
<1>5. CASE RefreshSaved(ok)
  <2>1. n \in Name /\ refreshing[n] # None /\ refreshing[n].stage = "saving" /\ EndRefresh(n) /\ Head(saves).kind = "refresh"
    BY <1>5 DEF RefreshSaved
  <2>2. ASSUME NEW f, f = refreshing[n].of.flow, Regular(f), f \notin mishap'
        PROVE  \A X \in Holdings', k \in Name : X[k] # None /\ X[k].flow = f => X[k].v = live[X[k].flow]
    <3>1. /\ Follows(n) /\ grants[n] # None /\ grants[n].flow = f
          /\ \A k \in Name : grants[k] # None /\ grants[k].flow = f => k = n
      BY <2>1, <2>2, FollowsHeld
    <3>2. ~SaveFails
      <4>1. f \in FlowsOf(grants)
        BY <2>1, <3>1, InFlowsOf
      <4>q. QED BY <2>2, <4>1 DEF SaveFails
    <3>3. Holdings' = {grants, tmp} /\ tmp # None
      BY <3>2 DEF Holdings, RenameTmp, SaveEnds
    <3>4. grants[n].v = live[f]
      BY <2>1, <2>2, <3>1, NextIsGrant DEF Follows
    <3>5. \A k \in Name : tmp[k] # None /\ tmp[k].flow = f => tmp[k].v = live[f]
      BY <1>1, <2>1, <2>2, <3>3 DEF CurrentInv, WrittenInv, SaveOf
    <3>q. QED BY <3>1, <3>3, <3>4, <3>5
  <2>3. MemoryInv' /\ FollowInv' /\ FreshInv'
    <3> HIDE DEF n
    <3>q. QED BY <1>3, <2>1, <2>2, EndsStep
  <2>q. QED BY <2>3, WrittenStep DEF CurrentInv
<1>q. QED BY <1>2, <1>4, <1>5

LEMMA CrashStep ==
  ASSUME TypeInv, QueueInv, GrantInv, CurrentInv, Next, Crash
  PROVE  CurrentInv'
<1>1. /\ grants' = file /\ UNCHANGED <<file, live>> /\ tmp' = None
      /\ refreshing' = [n \in Name |-> None]
      /\ mishap' = mishap \cup {refreshing[n].of.flow : n \in {m \in Name : refreshing[m] # None}}
  BY DEF Crash
<1>2. \A f : \A m \in Name : Refreshes(m, f) => f \in mishap'
  BY <1>1 DEF Refreshes
<1>3. ASSUME NEW n \in Name, file[n] # None, NEW f, f = file[n].flow, Regular(f)'
      PROVE  file[n].v = live[f]
  <2>1. Regular(f) /\ \A m \in Name : ~Refreshes(m, f)
    BY <1>2, <1>3, LessRegular DEF Regular, Refreshes
  <2>q. QED BY <1>3, <2>1 DEF CurrentInv, FreshInv, Fresh, Holdings
<1>4. MemoryInv'
  BY <1>1, <1>3 DEF MemoryInv, Regular
<1>5. FollowInv'
  BY <1>1 DEF FollowInv
<1>6. FreshInv'
  <2>1. Holdings' = {file}
    BY <1>1 DEF Holdings
  <2>q. QED BY <1>1, <1>3, <2>1 DEF FreshInv, Fresh, Regular
<1>7. WrittenInv'
  BY WrittenStep
<1>q. QED BY <1>4, <1>5, <1>6, <1>7 DEF CurrentInv

LEMMA StepIsCurrent ==
  ASSUME TypeInv, QueueInv, GrantInv, CurrentInv, [Next]_vars
  PROVE  CurrentInv'
<1>1. CASE UNCHANGED vars
  BY <1>1 DEF vars, CurrentInv, MemoryInv, FollowInv, FreshInv, WrittenInv, Regular, Refreshes, Follows, Fresh,
              Holdings, SaveOf
<1>2. CASE Next
  <2>1. ASSUME NEW f \in Flow, Denied(f) \/ Forget(f) PROVE CurrentInv'
    BY <1>2, <2>1, QuietStep DEF Denied, Forget
  <2>2. ASSUME NEW f \in Flow, NEW n \in Name, Start(f, n) PROVE CurrentInv'
    BY <1>2, <2>2, QuietStep DEF Start
  <2>3. ASSUME NEW f \in Flow, NEW via \in Via, Complete(f, via) \/ NotGranted(f, via) PROVE CurrentInv'
    BY <1>2, <2>3, QuietStep DEF Complete, NotGranted
  <2>4. ASSUME NEW f \in Flow, NEW via \in Via, Redeem(f, via) PROVE CurrentInv'
    <3>1. UNCHANGED <<grants, refreshing>> /\ \A g \in Flow : live[g] # 0 => live'[g] = live[g]
      BY <2>4 DEF Redeem, TypeInv, TypeOK
    <3>q. QED BY <1>2, <3>1, QuietStep
  <2>5. ASSUME NEW n \in Name, Cancel(n) PROVE CurrentInv'
    BY <1>2, <2>5, QuietStep DEF Cancel
  <2>6. Bound \/ WriteTmp => CurrentInv'
    BY <1>2, QuietStep DEF Bound, WriteTmp
  <2>7. ASSUME NEW n \in Name, Refresh(n) \/ RefreshStep(n) PROVE CurrentInv'
    BY <1>2, <2>7, RefreshStartsStep, RotatesStep, RefreshedStep, NotRefreshedStep DEF RefreshStep
  <2>8. Grantings \/ SignOuts \/ Renames => CurrentInv'
    BY <1>2, StoresStep
  <2>9. RenameTmp \/ SaveFails \/ Crash => CurrentInv'
    BY <1>2, SavesStep, CrashStep
  <2>q. QED BY <1>2, <2>1, <2>2, <2>3, <2>4, <2>5, <2>6, <2>7, <2>8, <2>9
            DEF Next, Exchange, SaveStep, Grantings, SignOuts, Renames
<1>q. QED BY <1>1, <1>2

-----------------------------------------------------------------------------
(* The listener *)

\* Whoever closes the listener looks for others who wait, after the change.
LEMMA ClosedForNobody ==
  ASSUME TypeInv, PendingIsHeard, listening' = StaysOpen(flows'), UNCHANGED opening,
         \A f \in Flow : flows'[f].listed /\ flows'[f].result = "pending" => flows[f].listed /\ flows[f].result = "pending"
  PROVE  PendingIsHeard'
BY DEF PendingIsHeard, Pending, StaysOpen, TypeInv, TypeOK

LEMMA StillHeard ==
  ASSUME TypeInv, PendingIsHeard, UNCHANGED <<listening, opening>>,
         \A f \in Flow : flows'[f].listed /\ flows'[f].result = "pending" => flows[f].listed /\ flows[f].result = "pending"
  PROVE  PendingIsHeard'
BY DEF PendingIsHeard, Pending

LEMMA StepIsHeard ==
  ASSUME TypeInv, QueueInv, PendingIsHeard, [Next]_vars
  PROVE  PendingIsHeard'
<1>1. CASE UNCHANGED <<flows, listening, opening>>
  BY <1>1 DEF PendingIsHeard, Pending
<1>2. ASSUME NEW f \in Flow, Denied(f) \/ Forget(f) PROVE PendingIsHeard'
  <2>1. CASE Denied(f)
    BY <2>1, StillHeard DEF Denied, TypeInv, TypeOK
  <2>2. CASE Forget(f)
    BY <2>2, StillHeard DEF Forget, TypeInv, TypeOK
  <2>q. QED BY <1>2, <2>1, <2>2
<1>3. ASSUME NEW f \in Flow, NEW n \in Name, Start(f, n) PROVE PendingIsHeard'
  BY <1>3 DEF Start, PendingIsHeard, TypeInv, TypeOK
<1>4. ASSUME NEW f \in Flow, NEW via \in Via, NEW r \in {"done", "failed"}, EndExchange(f, via, r), UNCHANGED opening
      PROVE  PendingIsHeard'
  <2>1. \A g \in Flow : flows'[g].listed /\ flows'[g].result = "pending" => flows[g].listed /\ flows[g].result = "pending"
    BY <1>4 DEF EndExchange, TypeInv, TypeOK
  <2>q. QED BY <1>4, <2>1, ClosedForNobody DEF EndExchange
<1>5. ASSUME NEW f \in Flow, NEW via \in Via, Complete(f, via) \/ Exchange(f, via) PROVE PendingIsHeard'
  BY <1>1, <1>4, <1>5 DEF Complete, Exchange, Redeem, Granted, NotGranted
<1>6. ASSUME NEW n \in Name, Cancel(n) \/ SignOut(n) PROVE PendingIsHeard'
  <2>1. flows' = Unlisted(n) /\ listening' = StaysOpen(flows') /\ UNCHANGED opening
    BY <1>6 DEF Cancel, SignOut
  <2>q. QED BY <2>1, UnlistedIsTyped, ClosedForNobody
<1>7. ASSUME NEW n \in Name, Refresh(n) \/ RefreshStep(n) PROVE PendingIsHeard'
  BY <1>1, <1>7 DEF Refresh, RefreshStep, Rotate, Refreshed, NotRefreshed
<1>8. ASSUME NEW from \in Name, NEW to \in Name, Rename(from, to) PROVE PendingIsHeard'
  BY <1>1, <1>8 DEF Rename
<1>9. Bound => PendingIsHeard'
  BY DEF Bound, PendingIsHeard
<1>10. WriteTmp => PendingIsHeard'
  BY <1>1 DEF WriteTmp
<1>11. ASSUME NEW ok \in BOOLEAN, saves # <<>>, SaveEnds(ok) PROVE PendingIsHeard'
  <2>1. SavedFrame /\ (RefreshSaved(ok) \/ ExchangeSaved(ok) \/ QueueSaved(ok))
    BY <1>11, SaveCases
  <2>2. UNCHANGED opening
    BY <2>1 DEF SavedFrame
  <2>3. CASE ExchangeSaved(ok)
    BY <2>2, <2>3, <1>4 DEF ExchangeSaved
  <2>q. QED BY <1>1, <2>1, <2>2, <2>3 DEF RefreshSaved, QueueSaved
<1>12. RenameTmp \/ SaveFails => PendingIsHeard'
  BY <1>11 DEF RenameTmp, SaveFails, QueueInv
<1>13. Crash => PendingIsHeard'
  <2>1. SUFFICES ASSUME Crash PROVE PendingIsHeard'
    OBVIOUS
  <2>2. \A f \in Flow : flows'[f].listed = FALSE
    BY <2>1 DEF Crash, TypeInv, TypeOK
  <2>q. QED BY <2>2 DEF PendingIsHeard, Pending
<1>q. QED BY <1>1, <1>2, <1>3, <1>5, <1>6, <1>7, <1>8, <1>9, <1>10, <1>12, <1>13 DEF Next, SaveStep, vars

-----------------------------------------------------------------------------
(* Theorems *)

LEMMA InitHolds == ASSUME Init PROVE IInv
<1>1. TypeInv
  BY InitIsTyped
<1>2. /\ grants = [n \in Name |-> None] /\ file = grants /\ tmp = None /\ saves = <<>> /\ holder = None
      /\ exchange = [f \in Flow |-> [via \in Via |-> "idle"]] /\ refreshing = [n \in Name |-> None]
      /\ told = {} /\ signedOut = {}
  BY DEF Init
<1>3. Holdings = {grants}
  BY <1>2 DEF Holdings
<1>4. QueueInv
  BY <1>2 DEF QueueInv, Via
<1>5. GrantInv
  BY <1>2, <1>3 DEF GrantInv, HeldInv, JobsInv, CodesInv, SignOutInv, GoneInv, Distinct, Issued
<1>6. KeepInv
  BY <1>2 DEF KeepInv, SaveOf
<1>7. CurrentInv
  BY <1>2, <1>3 DEF CurrentInv, MemoryInv, FollowInv, FreshInv, WrittenInv, Fresh, SaveOf
<1>8. PendingIsHeard
  BY DEF Init, PendingIsHeard, Pending
<1>q. QED BY <1>1, <1>4, <1>5, <1>6, <1>7, <1>8 DEF IInv

LEMMA StepHoldsAll == ASSUME IInv, [Next]_vars PROVE IInv'
BY StepIsTyped, StepQueues, StepHolds, StepKeeps, StepIsCurrent, StepIsHeard DEF IInv

LEMMA SignInsInvariant == Spec => []IInv
BY InitHolds, StepHoldsAll, PTL DEF Spec

\* Every call, answer, save, failure and restart keeps every variable in its
\* type, with any names and any number of sign-ins, versions and calls.
THEOREM SignInsTypeCorrect == Spec => []TypeOK
<1>1. IInv => TypeOK
  BY DEF IInv, TypeInv
<1>q. QED BY <1>1, SignInsInvariant, PTL

\* A grant that was reported as signed out never comes back, in memory or in
\* oauth.json (signOut, refresh, rename, complete and save, oauth.ts).
THEOREM SignedOutStaysOut == Spec => []SignedOutForGood
<1>1. IInv => SignedOutForGood
  BY DEF IInv, GrantInv, GoneInv, Out, Nowhere, Holdings, SignedOutForGood
<1>q. QED BY <1>1, SignInsInvariant, PTL

\* A sign-in that was reported as done is in memory and in oauth.json until it
\* is signed out or replaced (complete and save).
THEOREM DoneStaysKept == Spec => []DoneIsKept
<1>1. IInv => DoneIsKept
  BY DEF IInv, KeepInv, Holdings, DoneIsKept
<1>q. QED BY <1>1, SignInsInvariant, PTL

\* The kept token is the one the authorization server honours, and no refresh
\* of it is refused, unless something was lost or given up (refresh).
THEOREM KeptStaysCurrent == Spec => []KeptIsCurrent
<1>1. IInv => KeptIsCurrent
  BY DEF IInv, CurrentInv, MemoryInv, FollowInv, Follows, Regular, Refreshes, KeptIsCurrent
<1>q. QED BY <1>1, SignInsInvariant, PTL

\* Whoever waits for the browser is heard: the listener is open or being
\* opened (start, cancel, complete and signOut).
THEOREM PendingStaysHeard == Spec => []PendingIsHeard
<1>1. IInv => PendingIsHeard
  BY DEF IInv
<1>q. QED BY <1>1, SignInsInvariant, PTL
=============================================================================
