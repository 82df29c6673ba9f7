------------------------------ MODULE StoreProofs ------------------------------
(***************************************************************************)
(* Theorems about Store for any number of clients, readers, campaigns and  *)
(* requests: what is stored, what clients may rely on, and that the        *)
(* repository implements the Ledger.                                       *)
(***************************************************************************)
EXTENDS Store, MonitoringProofs

-------------------------------------------------------------------------------
(* One command's change to one campaign. *)

\* A command's body as a client can have built it.
BodyOK(body) ==
    /\ body[1] = "create" => body[2] \in Plans
    /\ body[1] = "register" => body[2] \in InstrumentRequests
    /\ body[1] = "round" => body[2] \in RoundRequests

\* The accepted bodies, one by one.
LEMMA AcceptedForms ==
  ASSUME NEW c, NEW actor, NEW body, Accepts(c, actor, body)
  PROVE  \/ /\ body[1] = "register" /\ CanRegisterInstruments(c, body[2])
            /\ Change(c, actor, body) = RegisterInstruments(c, body[2])
         \/ /\ body[1] = "round" /\ CanAddRound(c, body[2], actor)
            /\ Change(c, actor, body) = AddRound(c, body[2])
         \/ /\ body[1] = "submit" /\ CanSubmitForReview(c)
            /\ Change(c, actor, body) = SubmitForReview(c)
         \/ /\ body[1] = "decide" /\ CanDecideFinding(c, body[2][1], body[2][2], TRUE)
            /\ Change(c, actor, body) = DecideFinding(c, body[2][1], body[2][2], actor)
         \/ /\ body[1] = "freeze" /\ CanFreeze(c)
            /\ Change(c, actor, body) = Freeze(c, Hash(c))
         \/ /\ body[1] = "issue"
            /\ \E k \in Issue(c, body[2]) :
                 CanCertify(c, k) /\ Change(c, actor, body) = Certify(c, k)
<1>1. \/ body[1] = "register" /\ CanRegisterInstruments(c, body[2])
      \/ body[1] = "round" /\ CanAddRound(c, body[2], actor)
      \/ body[1] = "submit" /\ CanSubmitForReview(c)
      \/ body[1] = "decide" /\ CanDecideFinding(c, body[2][1], body[2][2], TRUE)
      \/ body[1] = "freeze" /\ CanFreeze(c) /\ body[2] = Hash(c)
      \/ body[1] = "issue" /\ CanIssue(c) /\ \A k \in Issue(c, body[2]) : CanCertify(c, k)
  BY DEF Accepts
<1>2. CASE body[1] = "issue" /\ CanIssue(c) /\ \A k \in Issue(c, body[2]) : CanCertify(c, k)
  <2> DEFINE k == CHOOSE x \in Issue(c, body[2]) : TRUE
  <2>1. Issue(c, body[2]) # {}
    BY <1>2 DEF CanIssue, Issue
  <2>2. k \in Issue(c, body[2])
    BY <2>1
  <2>3. Change(c, actor, body) = Certify(c, k)
    BY <1>2 DEF Change
  <2>4. QED
    BY <1>2, <2>2, <2>3
<1>3. QED
  BY <1>1, <1>2 DEF Change

LEMMA ChangeHealthy ==
  ASSUME NEW c, Healthy(c), NEW actor \in Actors, NEW body, BodyOK(body), Accepts(c, actor, body)
  PROVE  Healthy(Change(c, actor, body)) /\ Advances(c, Change(c, actor, body))
<1> DEFINE d == Change(c, actor, body)
<1>1. CASE body[1] = "register" /\ CanRegisterInstruments(c, body[2])
           /\ d = RegisterInstruments(c, body[2])
  BY <1>1, RegisterHealthy, RegisterAdvances, StoreRequestsAssumption DEF BodyOK
<1>2. CASE body[1] = "round" /\ CanAddRound(c, body[2], actor) /\ d = AddRound(c, body[2])
  BY <1>2, AddRoundHealthy, AddRoundAdvances, StoreRequestsAssumption DEF BodyOK
<1>3. CASE CanSubmitForReview(c) /\ d = SubmitForReview(c)
  BY <1>3, SubmitHealthy, SubmitAdvances
<1>4. CASE CanDecideFinding(c, body[2][1], body[2][2], TRUE)
           /\ d = DecideFinding(c, body[2][1], body[2][2], actor)
  BY <1>4, DecideHealthy, DecideAdvances
<1>5. CASE CanFreeze(c) /\ d = Freeze(c, Hash(c))
  BY <1>5, FreezeHealthy, FreezeAdvances
<1>6. CASE \E k \in Issue(c, body[2]) : CanCertify(c, k) /\ d = Certify(c, k)
  BY <1>6, CertifyHealthy, CertifyAdvances
<1>7. QED
  <2> HIDE DEF d
  <2>1. \/ body[1] = "register" /\ CanRegisterInstruments(c, body[2])
           /\ d = RegisterInstruments(c, body[2])
        \/ body[1] = "round" /\ CanAddRound(c, body[2], actor) /\ d = AddRound(c, body[2])
        \/ CanSubmitForReview(c) /\ d = SubmitForReview(c)
        \/ /\ CanDecideFinding(c, body[2][1], body[2][2], TRUE)
           /\ d = DecideFinding(c, body[2][1], body[2][2], actor)
        \/ CanFreeze(c) /\ d = Freeze(c, Hash(c))
        \/ \E k \in Issue(c, body[2]) : CanCertify(c, k) /\ d = Certify(c, k)
    BY AcceptedForms DEF d
  <2>2. QED
    BY <1>1, <1>2, <1>3, <1>4, <1>5, <1>6, <2>1 DEF d

-------------------------------------------------------------------------------
(* What is committed. *)

\* What is stored of one campaign: nothing, or one healthy campaign with rows that say
\* the same, but for the findings that the last command raised.
StoredOK(id, stored, rows) ==
    \/ stored = {} /\ rows = NoRows
    \/ \E c : /\ stored = {c} /\ c.id = id /\ Healthy(c)
              /\ \E raised \in SUBSET Pending(c) : rows = EvidenceRows(c, raised)

\* Applied commands, each under its own key.
EntriesOK(entries) ==
    /\ \A r \in entries :
         r = [key |-> r.request.key, request |-> r.request, response |-> r.response]
    /\ \A r, s \in entries : r.key = s.key => r = s

DbOK(d) ==
    /\ DOMAIN d.campaigns = CampaignIds /\ DOMAIN d.rows = CampaignIds
    /\ \A id \in CampaignIds : StoredOK(id, d.campaigns[id], d.rows[id])
    /\ EntriesOK(d.idempotency)

CommandOK(x) ==
    /\ x.campaign \in CampaignIds /\ x.actor \in Actors /\ BodyOK(x.body)
    /\ x.expected \in Nat
    /\ Op(x) = "create" => x.expected = 0

\* The client has seen the version it names.
Seen(d, x) == x.expected = 0 \/ \E c \in d.campaigns[x.campaign] : x.expected <= c.version

LEMMA OutcomeForms ==
  ASSUME NEW d, DbOK(d), NEW x, CommandOK(x), NEW c \in Outcome(d, x)
  PROVE  /\ Healthy(c) /\ c.id = x.campaign /\ KeysFree(d, c)
         /\ \/ /\ d.campaigns[x.campaign] = {} /\ x.expected = 0 /\ c.version = 1
               /\ DOMAIN c.findings = {}
            \/ \E o : /\ d.campaigns[x.campaign] = {o} /\ o.version = x.expected
                      /\ Healthy(o) /\ o.id = x.campaign
                      /\ Advances(o, c)
                      /\ Accepts(o, x.actor, x.body) /\ c = Change(o, x.actor, x.body)
<1> DEFINE stored == d.campaigns[x.campaign]
<1>1. c \in Changed(d, x) /\ KeysFree(d, c)
  BY DEF Outcome
<1>2. x.campaign \in CampaignIds /\ StoredOK(x.campaign, stored, d.rows[x.campaign])
  BY DEF DbOK, CommandOK
<1>3. CASE Op(x) = "create"
  <2>1. PICK plan : /\ plan = Arg(x) /\ stored = {} /\ CanCreate(plan.points)
                    /\ c = NewCampaign(x.campaign, plan.plannedDate, plan.points)
    BY <1>1, <1>3 DEF Changed
  <2>2. plan.plannedDate \in Int /\ plan.points \in Seq(Point)
    BY <1>3, <2>1, StoreRequestsAssumption DEF CommandOK, BodyOK, Op, Arg
  <2>3. Healthy(c)
    BY <1>2, <2>1, <2>2, NewCampaignHealthy
  <2>4. c.id = x.campaign /\ c.version = 1 /\ DOMAIN c.findings = {}
    BY <2>1 DEF NewCampaign
  <2>5. QED
    BY <1>1, <1>3, <2>1, <2>3, <2>4 DEF CommandOK
<1>4. CASE Op(x) # "create"
  <2>1. PICK o \in stored : /\ o.version = x.expected /\ Accepts(o, x.actor, x.body)
                            /\ c = Change(o, x.actor, x.body)
    BY <1>1, <1>4 DEF Changed
  <2>2. stored = {o} /\ o.id = x.campaign /\ Healthy(o)
    BY <1>2, <2>1 DEF StoredOK
  <2>3. Healthy(c) /\ Advances(o, c)
    BY <2>1, <2>2, ChangeHealthy DEF CommandOK
  <2>4. c.id = x.campaign
    BY <2>2, <2>3 DEF Advances
  <2>5. QED
    BY <1>1, <2>1, <2>2, <2>3, <2>4
<1>5. QED
  BY <1>3, <1>4

NewlyFound(d, x, c) ==
    {f \in DOMAIN c.findings : \A old \in d.campaigns[x.campaign] : f \notin DOMAIN old.findings}

\* A transaction keeps the database in order.
LEMMA AppliedOK ==
  ASSUME NEW d, DbOK(d), NEW x, CommandOK(x), NEW c \in Outcome(d, x), Recorded(d, x.key) = {}
  PROVE  DbOK(Applied(d, x, c))
<1> DEFINE e == Applied(d, x, c)
<1>1. /\ e.campaigns = [d.campaigns EXCEPT ![x.campaign] = {c}]
      /\ e.rows = [d.rows EXCEPT ![x.campaign] = EvidenceRows(c, NewlyFound(d, x, c))]
      /\ e.audit = Append(d.audit, Event(d, x, c))
      /\ e.idempotency = d.idempotency \cup {[key |-> x.key, request |-> x, response |-> c]}
  BY DEF Applied, NewlyFound
<1> HIDE DEF e
<1>2. DOMAIN d.campaigns = CampaignIds /\ DOMAIN d.rows = CampaignIds /\ x.campaign \in CampaignIds
  BY DEF DbOK, CommandOK
<1>3. NewlyFound(d, x, c) \subseteq Pending(c)
  <2>1. CASE DOMAIN c.findings = {}
    BY <2>1 DEF NewlyFound
  <2>2. ASSUME NEW o, d.campaigns[x.campaign] = {o}, Advances(o, c)
        PROVE  NewlyFound(d, x, c) \subseteq Pending(c)
    BY <2>2 DEF NewlyFound, Advances
  <2>3. QED
    BY <2>1, <2>2, OutcomeForms
<1>4. ASSUME NEW id \in CampaignIds PROVE StoredOK(id, e.campaigns[id], e.rows[id])
  <2>1. CASE id = x.campaign
    <3>1. e.campaigns[id] = {c} /\ e.rows[id] = EvidenceRows(c, NewlyFound(d, x, c))
      BY <1>1, <1>2, <2>1
    <3>2. c.id = id /\ Healthy(c)
      BY <2>1, OutcomeForms
    <3>3. QED
      BY <1>3, <3>1, <3>2 DEF StoredOK
  <2>2. CASE id # x.campaign
    <3>1. e.campaigns[id] = d.campaigns[id] /\ e.rows[id] = d.rows[id]
      BY <1>1, <1>2, <2>2
    <3>2. QED
      BY <3>1 DEF DbOK
  <2>3. QED
    BY <2>1, <2>2
<1>5. EntriesOK(e.idempotency)
  <2> DEFINE new == [key |-> x.key, request |-> x, response |-> c]
  <2>1. new.key = x.key /\ new.request = x /\ new.response = c
    OBVIOUS
  <2>2. \A r \in d.idempotency : r.key # x.key
    BY DEF Recorded
  <2>3. new = [key |-> new.request.key, request |-> new.request, response |-> new.response]
    OBVIOUS
  <2>4. e.idempotency = d.idempotency \cup {new}
    BY <1>1
  <2> HIDE DEF new
  <2>5. QED
    BY <2>1, <2>2, <2>3, <2>4 DEF DbOK, EntriesOK
<1>6. DOMAIN e.campaigns = CampaignIds /\ DOMAIN e.rows = CampaignIds
  BY <1>1, <1>2
<1>7. QED
  BY <1>4, <1>5, <1>6 DEF DbOK, e

\* No id that is in use comes free again.
LEMMA KeysGrow ==
  ASSUME NEW d, DbOK(d), NEW x, CommandOK(x), NEW c \in Outcome(d, x),
         NEW table \in {"points", "instruments", "rounds"}
  PROVE  PrimaryKeys(d.rows[x.campaign])[table] \subseteq
           PrimaryKeys(Applied(d, x, c).rows[x.campaign])[table]
<1> DEFINE old == d.rows[x.campaign]
           new == EvidenceRows(c, NewlyFound(d, x, c))
<1>1. x.campaign \in CampaignIds /\ x.campaign \in DOMAIN d.rows
  BY DEF DbOK, CommandOK
<1>2. Applied(d, x, c).rows = [d.rows EXCEPT ![x.campaign] = new]
  BY DEF Applied, NewlyFound
<1>3. Applied(d, x, c).rows[x.campaign] = new
  BY <1>1, <1>2
<1>4. new.points = c.points /\ new.instruments = c.instruments /\ new.rounds = c.rounds
  BY DEF EvidenceRows
<1>5. CASE d.campaigns[x.campaign] = {}
  <2>1. old = NoRows
    BY <1>1, <1>5 DEF DbOK, StoredOK
  <2>2. /\ PrimaryKeys(old).points = {} /\ PrimaryKeys(old).instruments = {}
        /\ PrimaryKeys(old).rounds = {}
    BY <2>1 DEF PrimaryKeys, NoRows, RoundIdsOf
  <2> HIDE DEF old
  <2>3. PrimaryKeys(old)[table] = {}
    BY <2>2
  <2>4. QED
    BY <2>3 DEF old
<1>6. ASSUME NEW o, d.campaigns[x.campaign] = {o}, Advances(o, c)
      PROVE  PrimaryKeys(old)[table] \subseteq PrimaryKeys(new)[table]
  <2>1. PICK raised : old = EvidenceRows(o, raised)
    BY <1>1, <1>6 DEF DbOK, StoredOK
  <2>2. old.points = o.points /\ old.instruments = o.instruments /\ old.rounds = o.rounds
    BY <2>1 DEF EvidenceRows
  <2> HIDE DEF old, new
  <2>3. /\ PrimaryKeys(old).points \subseteq PrimaryKeys(new).points
        /\ PrimaryKeys(old).instruments \subseteq PrimaryKeys(new).instruments
        /\ PrimaryKeys(old).rounds \subseteq PrimaryKeys(new).rounds
    BY <1>4, <1>6, <2>2 DEF PrimaryKeys, Advances
  <2>4. QED
    BY <2>3
<1>7. QED
  BY <1>3, <1>5, <1>6, OutcomeForms

LEMMA SeenKept ==
  ASSUME NEW d, DbOK(d), NEW x, CommandOK(x), NEW c \in Outcome(d, x),
         NEW y, CommandOK(y), Seen(d, y)
  PROVE  Seen(Applied(d, x, c), y)
<1> DEFINE e == Applied(d, x, c)
<1>1. e.campaigns = [d.campaigns EXCEPT ![x.campaign] = {c}]
  BY DEF Applied
<1>2. DOMAIN d.campaigns = CampaignIds /\ x.campaign \in CampaignIds /\ y.campaign \in CampaignIds
  BY DEF DbOK, CommandOK
<1> HIDE DEF e
<1>3. CASE y.campaign # x.campaign
  BY <1>1, <1>2, <1>3 DEF Seen, e
<1>4. CASE y.campaign = x.campaign
  <2>1. e.campaigns[y.campaign] = {c}
    BY <1>1, <1>2, <1>4
  <2>2. ASSUME NEW o, d.campaigns[x.campaign] = {o}, Healthy(o), Advances(o, c), y.expected # 0
        PROVE  y.expected <= c.version
    <3>1. y.expected <= o.version
      BY <1>4, <2>2 DEF Seen
    <3>2. o.version \in Nat /\ y.expected \in Nat /\ c.version = o.version + 1
      BY <2>2 DEF Healthy, Sound, WellTyped, Advances, CommandOK
    <3>3. QED
      BY <3>1, <3>2
  <2>3. y.expected # 0 => y.expected <= c.version
    BY <1>4, <2>2, OutcomeForms DEF Seen
  <2>4. QED
    BY <2>1, <2>3 DEF Seen, e
<1>5. QED
  BY <1>3, <1>4

\* A command that can never take effect any more.
Dead(d, x) ==
    /\ \A r \in d.idempotency : r.request # x
    /\ Recorded(d, x.key) # {} \/ Outcome(d, x) = {}

LEMMA DeadKept ==
  ASSUME NEW d, DbOK(d), NEW x, CommandOK(x), NEW c \in Outcome(d, x), Recorded(d, x.key) = {},
         NEW y, CommandOK(y), Seen(d, y), Dead(d, y)
  PROVE  Dead(Applied(d, x, c), y)
<1> DEFINE e == Applied(d, x, c)
           new == [key |-> x.key, request |-> x, response |-> c]
<1>1. /\ e.campaigns = [d.campaigns EXCEPT ![x.campaign] = {c}]
      /\ e.rows = [d.rows EXCEPT ![x.campaign] = EvidenceRows(c, NewlyFound(d, x, c))]
      /\ e.idempotency = d.idempotency \cup {new}
  BY DEF Applied, NewlyFound
<1>2. /\ DOMAIN d.campaigns = CampaignIds /\ DOMAIN d.rows = CampaignIds
      /\ x.campaign \in CampaignIds /\ y.campaign \in CampaignIds
  BY DEF DbOK, CommandOK
<1>3. new.request = x
  OBVIOUS
<1>4. y # x
  BY DEF Dead
<1> HIDE DEF new
<1>5. \A r \in e.idempotency : r.request # y
  BY <1>1, <1>3, <1>4 DEF Dead
<1>6. Recorded(d, y.key) \subseteq Recorded(e, y.key)
  BY <1>1 DEF Recorded
<1>7. \A table \in {"points", "instruments", "rounds"} :
        PrimaryKeys(d.rows[x.campaign])[table] \subseteq PrimaryKeys(e.rows[x.campaign])[table]
  BY KeysGrow
<1> HIDE DEF e
<1>8. ASSUME Outcome(d, y) = {}, NEW k \in Outcome(e, y) PROVE FALSE
  <2>1. k \in Changed(e, y) /\ ValidateIntegrity(k) /\ KeysFree(e, k)
    BY <1>8 DEF Outcome
  <2>2. CASE y.campaign # x.campaign
    <3>1. e.campaigns[y.campaign] = d.campaigns[y.campaign]
      BY <1>1, <1>2, <2>2
    <3>2. k \in Changed(d, y)
      BY <2>1, <3>1 DEF Changed
    <3>3. KeysFree(d, k)
      <4> SUFFICES ASSUME NEW id \in CampaignIds \ {k.id},
                          NEW table \in {"points", "instruments", "rounds"}
                   PROVE  PrimaryKeys(d.rows[id])[table]
                            \cap PrimaryKeys(ExpectedEvidenceRows(k))[table] = {}
        BY DEF KeysFree
      <4>1. PrimaryKeys(e.rows[id])[table]
              \cap PrimaryKeys(ExpectedEvidenceRows(k))[table] = {}
        BY <2>1 DEF KeysFree
      <4>2. CASE id = x.campaign
        BY <1>7, <4>1, <4>2
      <4>3. CASE id # x.campaign
        <5>1. e.rows[id] = d.rows[id]
          BY <1>1, <1>2, <4>3
        <5>2. QED
          BY <4>1, <5>1
      <4>4. QED
        BY <4>2, <4>3
    <3>4. QED
      BY <1>8, <2>1, <3>2, <3>3 DEF Outcome
  <2>3. CASE y.campaign = x.campaign
    <3>1. e.campaigns[y.campaign] = {c}
      BY <1>1, <1>2, <2>3
    <3>2. Op(y) # "create" /\ c.version = y.expected
      BY <2>1, <3>1 DEF Changed
    <3>3. c.version \in Nat \ {0}
      BY OutcomeForms DEF Healthy, Sound, WellTyped
    <3>4. ASSUME NEW o, d.campaigns[x.campaign] = {o}, Healthy(o), Advances(o, c)
          PROVE  FALSE
      <4>1. y.expected <= o.version
        BY <2>3, <3>2, <3>3, <3>4 DEF Seen
      <4>2. c.version = o.version + 1 /\ o.version \in Nat
        BY <3>4 DEF Advances, Healthy, Sound, WellTyped
      <4>3. QED
        BY <3>2, <4>1, <4>2
    <3>5. d.campaigns[x.campaign] # {}
      BY <2>3, <3>2, <3>3 DEF Seen
    <3>6. QED
      BY <3>4, <3>5, OutcomeForms
  <2>4. QED
    BY <2>2, <2>3
<1>9. QED
  BY <1>5, <1>6, <1>8 DEF Dead, e

-------------------------------------------------------------------------------
(* What clients hold, what is under way: the inductive invariant. *)

ClientOK(d, k) ==
    /\ k = [state |-> k.state, command |-> k.command, response |-> k.response]
    /\ k.state \in {"idle", "waiting", "unknown", "answered", "refused"}
    /\ \A x, y \in k.command : x = y
    /\ \A x \in k.command : CommandOK(x) /\ Seen(d, x)
    /\ k.state = "answered" => \A x \in k.command, v \in k.response :
         [key |-> x.key, request |-> x, response |-> v] \in d.idempotency
    /\ k.state = "refused" => \A x \in k.command : Dead(d, x)

TxOK(d, tx) ==
    /\ tx = [client |-> tx.client, command |-> tx.command, staged |-> tx.staged,
             response |-> tx.response]
    /\ CommandOK(tx.command)
    /\ Recorded(d, tx.command.key) = {}
    /\ tx.response \in Outcome(d, tx.command)
    /\ tx.staged = Applied(d, tx.command, tx.response)

\* Whom the open transaction will answer waits for just its command.
AwaitedBy(tx, clients) ==
    /\ tx.client \subseteq Clients
    /\ \A cl \in tx.client : clients[cl].state = "waiting" /\ clients[cl].command = {tx.command}

ConnOK(d, open, clients) ==
    /\ \A tx, other \in open : tx = other
    /\ \A tx \in open : TxOK(d, tx) /\ AwaitedBy(tx, clients)

SInv ==
    /\ DbOK(db)
    /\ DOMAIN client = Clients
    /\ \A cl \in Clients : ClientOK(db, client[cl])
    /\ ConnOK(db, conn, client)
    /\ \A x \in orphans : CommandOK(x)

LEMMA StoreInitially == Init => SInv
<1> SUFFICES ASSUME Init PROVE SInv
  OBVIOUS
<1>1. DbOK(db)
  <2>1. /\ db.campaigns = [id \in CampaignIds |-> {}] /\ db.rows = [id \in CampaignIds |-> NoRows]
        /\ db.idempotency = {}
    BY DEF Init
  <2>2. \A id \in CampaignIds : db.campaigns[id] = {} /\ db.rows[id] = NoRows
    BY <2>1
  <2>3. QED
    BY <2>1, <2>2 DEF DbOK, StoredOK, EntriesOK
<1>2. ClientOK(db, Idle)
  BY DEF ClientOK, Idle
<1>3. QED
  BY <1>1, <1>2 DEF SInv, Init, ConnOK

\* A client's record with a new state and a new response.
LEMMA NewStateAndResponse ==
  ASSUME NEW k, NEW state, NEW v,
         k = [state |-> k.state, command |-> k.command, response |-> k.response]
  PROVE  [k EXCEPT !.state = state, !.response = v]
           = [state |-> state, command |-> k.command, response |-> v]
<1> DEFINE m == [k EXCEPT !.state = state]
<1>1. m = [state |-> state, command |-> k.command, response |-> k.response]
  OBVIOUS
<1>2. [k EXCEPT !.state = state, !.response = v] = [m EXCEPT !.response = v]
  OBVIOUS
<1> HIDE DEF m
<1>3. QED
  BY <1>1, <1>2

\* A client whose record changes in its state, or in what it was answered.
LEMMA ClientMoves ==
  ASSUME NEW d, NEW k, ClientOK(d, k), NEW state \in {"waiting", "unknown"}
  PROVE  /\ ClientOK(d, [k EXCEPT !.state = state])
         /\ ClientOK(d, [k EXCEPT !.state = state, !.response = {}])
<1>1. k = [state |-> k.state, command |-> k.command, response |-> k.response]
  BY DEF ClientOK
<1>2. [k EXCEPT !.state = state] = [state |-> state, command |-> k.command, response |-> k.response]
  BY <1>1
<1>3. [k EXCEPT !.state = state, !.response = {}]
        = [state |-> state, command |-> k.command, response |-> {}]
  BY <1>1, NewStateAndResponse
<1>4. QED
  BY <1>2, <1>3 DEF ClientOK

LEMMA ClientAnswered ==
  ASSUME NEW d, NEW k, ClientOK(d, k), NEW v,
         \A x \in k.command : [key |-> x.key, request |-> x, response |-> v] \in d.idempotency
  PROVE  ClientOK(d, [k EXCEPT !.state = "answered", !.response = {v}])
<1>1. k = [state |-> k.state, command |-> k.command, response |-> k.response]
  BY DEF ClientOK
<1>2. [k EXCEPT !.state = "answered", !.response = {v}]
        = [state |-> "answered", command |-> k.command, response |-> {v}]
  BY <1>1, NewStateAndResponse
<1>3. QED
  BY <1>2 DEF ClientOK

LEMMA ClientRefused ==
  ASSUME NEW d, NEW k, ClientOK(d, k), \A x \in k.command : Dead(d, x)
  PROVE  ClientOK(d, [k EXCEPT !.state = "refused", !.response = {}])
<1>1. k = [state |-> k.state, command |-> k.command, response |-> k.response]
  BY DEF ClientOK
<1>2. [k EXCEPT !.state = "refused", !.response = {}]
        = [state |-> "refused", command |-> k.command, response |-> {}]
  BY <1>1, NewStateAndResponse
<1>3. QED
  BY <1>2 DEF ClientOK

\* What a client relies on outlasts every command of somebody else.
LEMMA ClientKept ==
  ASSUME NEW d, DbOK(d), NEW k, ClientOK(d, k), NEW tx, TxOK(d, tx)
  PROVE  ClientOK(tx.staged, k)
<1> DEFINE e == Applied(d, tx.command, tx.response)
<1>1. /\ CommandOK(tx.command) /\ Recorded(d, tx.command.key) = {}
      /\ tx.response \in Outcome(d, tx.command) /\ tx.staged = e
  BY DEF TxOK
<1>2. d.idempotency \subseteq e.idempotency
  BY DEF Applied
<1>3. \A x \in k.command : CommandOK(x) /\ Seen(d, x)
  BY DEF ClientOK
<1>4. \A x \in k.command : Seen(e, x)
  BY <1>1, <1>3, SeenKept
<1>5. k.state = "refused" => \A x \in k.command : Dead(e, x)
  BY <1>1, <1>3, DeadKept DEF ClientOK
<1> HIDE DEF e
<1>6. QED
  BY <1>1, <1>2, <1>4, <1>5 DEF ClientOK

\* Only one client's record changes, and no open transaction waits to answer it.
LEMMA OneClientMoves ==
  ASSUME SInv, NEW cl \in Clients, NEW k, client' = [client EXCEPT ![cl] = k],
         ClientOK(db, k), client[cl].state # "waiting" \/ conn = {},
         UNCHANGED <<db, conn, orphans>>
  PROVE  SInv'
<1>1. /\ DbOK(db) /\ DOMAIN client = Clients /\ \A other \in Clients : ClientOK(db, client[other])
      /\ ConnOK(db, conn, client) /\ \A x \in orphans : CommandOK(x)
  BY DEF SInv
<1>2. DOMAIN client' = Clients /\ \A other \in Clients : ClientOK(db, client'[other])
  BY <1>1
<1>3. ConnOK(db, conn, client')
  <2>1. \A tx \in conn : cl \notin tx.client
    BY <1>1 DEF ConnOK, AwaitedBy
  <2>2. \A other \in Clients : other # cl => client'[other] = client[other]
    BY <1>1
  <2>3. \A tx \in conn : AwaitedBy(tx, client')
    BY <1>1, <2>1, <2>2 DEF ConnOK, AwaitedBy
  <2>4. QED
    BY <1>1, <2>3 DEF ConnOK
<1>4. QED
  BY <1>1, <1>2, <1>3 DEF SInv

LEMMA SendKeeps ==
  ASSUME SInv, NEW cl \in Clients, Send(cl)
  PROVE  SInv'
<1> DEFINE stored(id) == db.campaigns[id]
           makesSense(id, actor) ==
             IF stored(id) = {} THEN {<<0, x>> : x \in {"create"} \X Plans}
             ELSE UNION {{<<c.version, x>> : x \in {y \in Bodies(c, actor) : Accepts(c, actor, y)}}
                           : c \in stored(id)}
<1>1. PICK id \in CampaignIds, actor \in Actors : \E w \in makesSense(id, actor), key \in OfferedKeys :
        client' = [client EXCEPT ![cl] =
                [state |-> "waiting", response |-> {},
                 command |-> {[key |-> key, campaign |-> id, actor |-> actor,
                               expected |-> w[1], body |-> w[2]]}]]
  BY DEF Send
<1>2. PICK w \in makesSense(id, actor), key \in OfferedKeys :
        client' = [client EXCEPT ![cl] =
                [state |-> "waiting", response |-> {},
                 command |-> {[key |-> key, campaign |-> id, actor |-> actor,
                               expected |-> w[1], body |-> w[2]]}]]
  BY <1>1
<1> DEFINE x == [key |-> key, campaign |-> id, actor |-> actor, expected |-> w[1], body |-> w[2]]
           k == [state |-> "waiting", response |-> {}, command |-> {x}]
<1>3. \/ w[1] = 0 /\ w[2][1] = "create" /\ w[2][2] \in Plans
      \/ \E c \in stored(id) : /\ w[1] = c.version /\ w[1] \in Nat
                               /\ BodyOK(w[2]) /\ w[2][1] # "create"
  <2>1. CASE stored(id) = {}
    BY <2>1
  <2>2. CASE stored(id) # {}
    <3>0. PICK c \in stored(id) : \E y \in Bodies(c, actor) : w = <<c.version, y>>
      BY <2>2
    <3>1. PICK y \in Bodies(c, actor) : w = <<c.version, y>>
      BY <3>0
    <3>2. Healthy(c)
      BY <3>1 DEF SInv, DbOK, StoredOK
    <3>3. c.version \in Nat
      BY <3>2 DEF Healthy, Sound, WellTyped
    <3>4. BodyOK(y) /\ y[1] # "create"
      <4>1. \/ y \in {"register"} \X InstrumentRequests
            \/ y \in {"round"} \X RoundRequests
            \/ y[1] \in {"submit", "decide", "freeze", "issue"}
        BY DEF Bodies
      <4>2. QED
        BY <4>1 DEF BodyOK
    <3>5. w[1] = c.version /\ w[2] = y
      BY <3>1
    <3>6. QED
      BY <3>3, <3>4, <3>5
  <2>3. QED
    BY <2>1, <2>2
<1> HIDE DEF makesSense
<1>4. /\ x.campaign = id /\ x.actor = actor /\ x.expected = w[1] /\ x.body = w[2]
  OBVIOUS
<1>5. CommandOK(x) /\ Seen(db, x)
  <2> HIDE DEF x
  <2>1. CASE w[1] = 0 /\ w[2][1] = "create" /\ w[2][2] \in Plans
    BY <1>4, <2>1 DEF CommandOK, Seen, BodyOK, Op
  <2>2. ASSUME NEW c \in stored(id), w[1] = c.version, w[1] \in Nat, BodyOK(w[2]), w[2][1] # "create"
        PROVE  CommandOK(x) /\ Seen(db, x)
    <3>1. CommandOK(x)
      BY <1>4, <2>2 DEF CommandOK, Op
    <3>2. Seen(db, x)
      BY <1>4, <2>2 DEF Seen
    <3>3. QED
      BY <3>1, <3>2
  <2>3. QED
    BY <1>3, <2>1, <2>2
<1> HIDE DEF x
<1>6. ClientOK(db, k)
  BY <1>5 DEF ClientOK
<1>7. client' = [client EXCEPT ![cl] = k]
  BY <1>2 DEF x
<1> HIDE DEF k
<1>8. QED
  BY <1>6, <1>7, OneClientMoves DEF Send

LEMMA ResendKeeps ==
  ASSUME SInv, NEW cl \in Clients, Resend(cl)
  PROVE  SInv'
<1> DEFINE k == [client[cl] EXCEPT !.state = "waiting", !.response = {}]
<1>1. ClientOK(db, client[cl]) /\ DOMAIN client = Clients
  BY DEF SInv
<1>2. ClientOK(db, k)
  BY <1>1, ClientMoves
<1>3. client' = [client EXCEPT ![cl] = k]
  BY <1>1 DEF Resend
<1> HIDE DEF k
<1>4. client[cl].state # "waiting"
  BY DEF Resend
<1>5. QED
  BY <1>2, <1>3, <1>4, OneClientMoves DEF Resend

LEMMA ReplayKeeps ==
  ASSUME SInv, NEW cl \in Clients, Replay(cl)
  PROVE  SInv'
<1>1. ClientOK(db, client[cl]) /\ DOMAIN client = Clients /\ EntriesOK(db.idempotency)
  BY DEF SInv, DbOK
<1>2. PICK x \in client[cl].command, r \in db.idempotency :
        r.request = x /\ Answer(cl, "answered", {r.response})
  BY DEF Replay, Recorded
<1> DEFINE k == [client[cl] EXCEPT !.state = "answered", !.response = {r.response}]
<1>3. [key |-> x.key, request |-> x, response |-> r.response] \in db.idempotency
  BY <1>1, <1>2 DEF EntriesOK
<1>4. \A y \in client[cl].command : y = x
  BY <1>1 DEF ClientOK
<1>5. ClientOK(db, k)
  BY <1>1, <1>3, <1>4, ClientAnswered
<1>6. client' = [client EXCEPT ![cl] = k]
  BY <1>1, <1>2 DEF Answer
<1> HIDE DEF k
<1>7. QED
  BY <1>5, <1>6, OneClientMoves DEF Replay

LEMMA RefuseKeeps ==
  ASSUME SInv, NEW cl \in Clients, Refuse(cl)
  PROVE  SInv'
<1>1. ClientOK(db, client[cl]) /\ DOMAIN client = Clients /\ EntriesOK(db.idempotency)
  BY DEF SInv, DbOK
<1>2. PICK x \in client[cl].command :
        \/ \E r \in Recorded(db, x.key) : r.request # x
        \/ Recorded(db, x.key) = {} /\ Outcome(db, x) = {}
  BY DEF Refuse
<1>3. Dead(db, x)
  <2>1. ASSUME NEW r \in Recorded(db, x.key), r.request # x PROVE Dead(db, x)
    <3>1. \A s \in db.idempotency : s.request = x => s.key = x.key
      BY <1>1 DEF EntriesOK
    <3>2. \A s \in db.idempotency : s.request = x => s = r
      BY <1>1, <2>1, <3>1 DEF EntriesOK, Recorded
    <3>3. QED
      BY <2>1, <3>2 DEF Dead
  <2>2. ASSUME Recorded(db, x.key) = {}, Outcome(db, x) = {} PROVE Dead(db, x)
    <3>1. \A s \in db.idempotency : s.request = x => s.key = x.key
      BY <1>1 DEF EntriesOK
    <3>2. QED
      BY <2>2, <3>1 DEF Dead, Recorded
  <2>3. QED
    BY <1>2, <2>1, <2>2
<1> DEFINE k == [client[cl] EXCEPT !.state = "refused", !.response = {}]
<1>4. \A y \in client[cl].command : y = x
  BY <1>1 DEF ClientOK
<1>5. ClientOK(db, k)
  BY <1>1, <1>3, <1>4, ClientRefused
<1>6. client' = [client EXCEPT ![cl] = k]
  BY <1>1 DEF Refuse, Answer
<1> HIDE DEF k
<1>7. QED
  BY <1>5, <1>6, OneClientMoves DEF Refuse

LEMMA GiveUpKeeps ==
  ASSUME SInv, NEW cl \in Clients, GiveUp(cl)
  PROVE  SInv'
<1> DEFINE k == [client[cl] EXCEPT !.state = "unknown"]
           left(tx) == [tx EXCEPT !.client = @ \ {cl}]
<1>1. /\ DbOK(db) /\ DOMAIN client = Clients /\ \A other \in Clients : ClientOK(db, client[other])
      /\ ConnOK(db, conn, client) /\ \A x \in orphans : CommandOK(x)
  BY DEF SInv
<1>2. /\ client' = [client EXCEPT ![cl] = k] /\ conn' = {left(tx) : tx \in conn} /\ db' = db
      /\ orphans' = orphans \/ orphans' = orphans \cup client[cl].command
  BY <1>1 DEF GiveUp
<1>3. ClientOK(db, k)
  BY <1>1, ClientMoves
<1> HIDE DEF k
<1>4. DOMAIN client' = Clients /\ \A other \in Clients : ClientOK(db, client'[other])
  BY <1>1, <1>2, <1>3
<1>5. ASSUME NEW tx \in conn PROVE TxOK(db, left(tx)) /\ AwaitedBy(left(tx), client')
  <2>1. /\ tx = [client |-> tx.client, command |-> tx.command, staged |-> tx.staged,
                 response |-> tx.response]
        /\ TxOK(db, tx) /\ AwaitedBy(tx, client)
    BY <1>1 DEF ConnOK, TxOK
  <2>2. left(tx) = [client |-> tx.client \ {cl}, command |-> tx.command, staged |-> tx.staged,
                    response |-> tx.response]
    BY <2>1
  <2> HIDE DEF left
  <2>3. TxOK(db, left(tx))
    BY <2>1, <2>2 DEF TxOK
  <2>4. \A other \in Clients : other # cl => client'[other] = client[other]
    BY <1>1, <1>2
  <2>5. AwaitedBy(left(tx), client')
    BY <2>1, <2>2, <2>4 DEF AwaitedBy
  <2>6. QED
    BY <2>3, <2>5
<1> HIDE DEF left
<1>6. ConnOK(db, conn', client')
  BY <1>1, <1>2, <1>5 DEF ConnOK
<1>7. \A x \in orphans' : CommandOK(x)
  BY <1>1, <1>2 DEF ClientOK
<1>8. QED
  BY <1>1, <1>2, <1>4, <1>6, <1>7 DEF SInv

LEMMA ExecuteStages ==
  ASSUME SInv, NEW who \in SUBSET Clients, NEW x, CommandOK(x), Execute(who, x),
         \A cl \in who : client[cl].state = "waiting" /\ client[cl].command = {x}
  PROVE  ConnOK(db, conn', client)
<1>1. PICK c \in Outcome(db, x) :
        conn' = {[client |-> who, command |-> x, staged |-> Applied(db, x, c), response |-> c]}
  BY DEF Execute
<1> DEFINE tx == [client |-> who, command |-> x, staged |-> Applied(db, x, c), response |-> c]
<1>2. tx.client = who /\ tx.command = x /\ tx.staged = Applied(db, x, c) /\ tx.response = c
  OBVIOUS
<1>3. tx = [client |-> tx.client, command |-> tx.command, staged |-> tx.staged,
            response |-> tx.response]
  OBVIOUS
<1>4. conn' = {tx}
  BY <1>1
<1> HIDE DEF tx
<1>5. TxOK(db, tx) /\ AwaitedBy(tx, client)
  BY <1>2, <1>3 DEF TxOK, AwaitedBy, Execute
<1>6. QED
  BY <1>4, <1>5 DEF ConnOK

LEMMA BeginKeeps ==
  ASSUME SInv, NEW cl \in Clients, Begin(cl)
  PROVE  SInv'
<1>1. PICK x \in client[cl].command : Execute({cl}, x)
  BY DEF Begin
<1>2. CommandOK(x) /\ client[cl].command = {x} /\ client[cl].state = "waiting"
  BY DEF SInv, ClientOK, Begin
<1>3. ConnOK(db, conn', client)
  BY <1>1, <1>2, ExecuteStages
<1>4. QED
  BY <1>3 DEF SInv, Begin

LEMMA OrphanBeginsKeeps ==
  ASSUME SInv, OrphanBegins
  PROVE  SInv'
<1>1. PICK x \in orphans : Execute({}, x) /\ orphans' = orphans \ {x}
  BY DEF OrphanBegins
<1>2. ConnOK(db, conn', client)
  BY <1>1, ExecuteStages DEF SInv
<1>3. QED
  BY <1>1, <1>2 DEF SInv, OrphanBegins

LEMMA CommitKeeps ==
  ASSUME SInv, Commit
  PROVE  SInv'
<1>1. PICK tx \in conn : /\ db' = tx.staged /\ conn' = {}
                         /\ client' = [cl \in Clients |->
                              IF cl \in tx.client
                                THEN [client[cl] EXCEPT !.state = "answered", !.response = {tx.response}]
                                ELSE client[cl]]
  BY DEF Commit
<1>2. /\ DbOK(db) /\ \A cl \in Clients : ClientOK(db, client[cl])
      /\ TxOK(db, tx) /\ AwaitedBy(tx, client)
  BY DEF SInv, ConnOK
<1>3. DbOK(db')
  BY <1>1, <1>2, AppliedOK DEF TxOK
<1>4. \A cl \in Clients : ClientOK(db', client[cl])
  BY <1>1, <1>2, ClientKept
<1>5. [key |-> tx.command.key, request |-> tx.command, response |-> tx.response] \in db'.idempotency
  <2>1. db' = Applied(db, tx.command, tx.response)
    BY <1>1, <1>2 DEF TxOK
  <2>2. QED
    BY <2>1 DEF Applied
<1>6. ASSUME NEW cl \in Clients PROVE ClientOK(db', client'[cl])
  <2>1. CASE cl \in tx.client
    <3>1. client[cl].command = {tx.command}
      BY <1>2, <2>1 DEF AwaitedBy
    <3>2. ClientOK(db', [client[cl] EXCEPT !.state = "answered", !.response = {tx.response}])
      BY <1>4, <1>5, <3>1, ClientAnswered
    <3>3. QED
      BY <1>1, <2>1, <3>2
  <2>2. CASE cl \notin tx.client
    BY <1>1, <1>4, <2>2
  <2>3. QED
    BY <2>1, <2>2
<1>7. DOMAIN client' = Clients
  BY <1>1
<1>8. QED
  BY <1>1, <1>3, <1>6, <1>7 DEF SInv, ConnOK, Commit

\* A transaction that comes to nothing, and a restart.
LEMMA StopKeeps ==
  ASSUME SInv, Rollback \/ Crash
  PROVE  SInv'
<1>1. /\ db' = db /\ conn' = {} /\ orphans' \subseteq orphans /\ DOMAIN client' = Clients
      /\ \A cl \in Clients :
           client'[cl] \in {client[cl], [client[cl] EXCEPT !.state = "unknown"]}
  BY DEF Rollback, Crash
<1>2. \A cl \in Clients : ClientOK(db, [client[cl] EXCEPT !.state = "unknown"])
  BY ClientMoves DEF SInv
<1>3. \A cl \in Clients : ClientOK(db, client'[cl])
  BY <1>1, <1>2 DEF SInv
<1>4. QED
  BY <1>1, <1>3 DEF SInv, ConnOK

LEMMA StoreInductively == SInv /\ [Next]_vars => SInv'
<1> SUFFICES ASSUME SInv, [Next]_vars PROVE SInv'
  OBVIOUS
<1>1. ASSUME NEW cl \in Clients,
             Send(cl) \/ Resend(cl) \/ GiveUp(cl) \/ Replay(cl) \/ Refuse(cl) \/ Begin(cl)
      PROVE  SInv'
  BY <1>1, SendKeeps, ResendKeeps, GiveUpKeeps, ReplayKeeps, RefuseKeeps, BeginKeeps
<1>2. CASE OrphanBegins \/ Commit \/ Rollback \/ Crash
  BY <1>2, OrphanBeginsKeeps, CommitKeeps, StopKeeps
<1>3. CASE OrphanEnds
  BY <1>3 DEF OrphanEnds, SInv
<1>4. ASSUME NEW r \in Readers, ReadAggregate(r) \/ ReadTable(r) \/ ReadCredential(r) \/ FinishRead(r)
      PROVE  SInv'
  BY <1>4 DEF ReadAggregate, ReadTable, ReadCredential, FinishRead, SInv
<1>5. CASE UNCHANGED vars
  BY <1>5 DEF vars, SInv
<1>6. QED
  BY <1>1, <1>2, <1>3, <1>4, <1>5 DEF Next

LEMMA StoreInvariance == Spec => []SInv
<1>1. QED
  BY StoreInitially, StoreInductively, PTL DEF Spec

-------------------------------------------------------------------------------
(* What clients rely on. *)

\* A client that was answered finds its command on record with that answer for good,
\* whatever is repeated, lost, rolled back or restarted afterwards (repository.go: Run).
THEOREM AnswersLast == Spec => []AnswersDurable
<1>1. SInv => AnswersDurable
  BY DEF SInv, ClientOK, AnswersDurable
<1>2. QED
  BY <1>1, StoreInvariance, PTL

\* A client that was refused is never overtaken by a delayed copy of its command: its
\* key is taken, or the version it named has passed, or what stands in the way of the
\* command (a rule, an id in use elsewhere) stays (repository.go: Run).
THEOREM RefusalsLast == Spec => []RefusalsFinal
<1>1. SInv => RefusalsFinal
  BY DEF SInv, ClientOK, RefusalsFinal, Dead, ConnOK, TxOK
<1>2. QED
  BY <1>1, StoreInvariance, PTL

\* Of every campaign the rows in the tables say what its aggregate says (save.go).
THEOREM RowsFollow == Spec => []RowsFollowAggregate
<1>1. ASSUME NEW c, NEW raised
      PROVE  {<<f.finding, f.disposition>> : f \in EvidenceRows(c, raised).findings}
               = {<<f, c.findings[f]>> : f \in DOMAIN c.findings}
  <2> DEFINE row(f) == [finding |-> f, disposition |-> c.findings[f],
                        roundList |-> RoundListText(f, raised)]
  <2>1. \A f : row(f).finding = f /\ row(f).disposition = c.findings[f]
    OBVIOUS
  <2>2. EvidenceRows(c, raised).findings = {row(f) : f \in DOMAIN c.findings}
    BY DEF EvidenceRows
  <2> HIDE DEF row
  <2>3. QED
    BY <2>1, <2>2
<1>2. SInv => RowsFollowAggregate
  <2> SUFFICES ASSUME SInv, NEW id \in CampaignIds, NEW c \in db.campaigns[id]
               PROVE  LET rows == db.rows[id]
                          expected == ExpectedEvidenceRows(c)
                          plain(x) == {<<f.finding, f.disposition>> : f \in x.findings}
                      IN /\ \A table \in DOMAIN rows \ {"findings"} : rows[table] = expected[table]
                         /\ plain(rows) = plain(expected)
    BY DEF RowsFollowAggregate
  <2>1. PICK raised : db.rows[id] = EvidenceRows(c, raised)
    BY DEF SInv, DbOK, StoredOK
  <2>2. \A table \in DOMAIN EvidenceRows(c, raised) \ {"findings"} :
          EvidenceRows(c, raised)[table] = ExpectedEvidenceRows(c)[table]
    BY DEF EvidenceRows, ExpectedEvidenceRows
  <2>3. {<<f.finding, f.disposition>> : f \in ExpectedEvidenceRows(c).findings}
          = {<<f, c.findings[f]>> : f \in DOMAIN c.findings}
    BY <1>1 DEF ExpectedEvidenceRows
  <2>4. QED
    BY <1>1, <2>1, <2>2, <2>3
<1>3. QED
  BY <1>2, StoreInvariance, PTL

\* The repository is a ledger: each command takes effect at one commit, under a key of
\* its own, on the version it named, whatever happens to its clients and to the process
\* on the way; nothing else changes what is recorded.
THEOREM StoreKeepsLedger == Spec => LedgerPromise
<1>1. Init => Promise!Init
  <2> SUFFICES ASSUME Init PROVE Promise!Init
    OBVIOUS
  <2>1. db.campaigns = [id \in CampaignIds |-> {}] /\ db.idempotency = {}
    BY DEF Init
  <2>2. QED
    BY <2>1 DEF Promise!Init
<1>2. ASSUME SInv, [Next]_vars
      PROVE  [Promise!Apply]_(Promise!vars)
  <2>1. CASE Commit
    <3>1. PICK tx \in conn : db' = tx.staged
      BY <2>1 DEF Commit
    <3>2. DbOK(db) /\ TxOK(db, tx)
      BY <1>2 DEF SInv, ConnOK
    <3> DEFINE x == tx.command
               c == tx.response
               entry == [key |-> x.key, request |-> x, response |-> c]
               id == x.campaign
               version == Promise!VersionOf(db.campaigns[id])
    <3>3. CommandOK(x) /\ Recorded(db, x.key) = {} /\ c \in Outcome(db, x) /\ db' = Applied(db, x, c)
      BY <3>1, <3>2 DEF TxOK
    <3>4. /\ db'.campaigns = [db.campaigns EXCEPT ![id] = {c}]
          /\ db'.idempotency = db.idempotency \cup {entry}
      BY <3>3 DEF Applied
    <3>5. entry.key = x.key /\ entry.request = x /\ entry.response = c
      OBVIOUS
    <3>6. x.expected = version /\ c.version = version + 1
      <4>1. CASE db.campaigns[id] = {} /\ x.expected = 0 /\ c.version = 1
        BY <4>1 DEF Promise!VersionOf
      <4>2. ASSUME NEW o, db.campaigns[id] = {o}, o.version = x.expected, Advances(o, c)
            PROVE  x.expected = version /\ c.version = version + 1
        <5>1. version = o.version
          BY <4>2 DEF Promise!VersionOf
        <5>2. QED
          BY <4>2, <5>1 DEF Advances
      <4>3. QED
        BY <3>2, <3>3, <4>1, <4>2, OutcomeForms
    <3>7. \A e \in db.idempotency : e.key # x.key
      BY <3>3 DEF Recorded
    <3> HIDE DEF x, c, entry, version
    <3>8. Promise!Apply
      <4>1. entry \in db'.idempotency
        BY <3>4
      <4>2. LET i == entry.request.campaign
            IN /\ \A e \in db.idempotency : e.key # entry.key
               /\ db'.idempotency = db.idempotency \cup {entry}
               /\ entry.request.expected = Promise!VersionOf(db.campaigns[i])
               /\ entry.response.version = Promise!VersionOf(db.campaigns[i]) + 1
               /\ db'.campaigns = [db.campaigns EXCEPT ![i] = {entry.response}]
        BY <3>4, <3>5, <3>6, <3>7 DEF version
      <4>3. QED
        BY <4>1, <4>2 DEF Promise!Apply
    <3>9. QED
      BY <3>8
  <2>2. CASE UNCHANGED db
    BY <2>2 DEF Promise!vars
  <2>3. QED
    BY <1>2, <2>1, <2>2 DEF Next, vars, Send, Resend, GiveUp, Replay, Refuse, Begin, OrphanBegins,
       OrphanEnds, Rollback, Crash, ReadAggregate, ReadTable, ReadCredential, FinishRead
<1>3. QED
  BY <1>1, <1>2, StoreInvariance, PTL DEF Spec, LedgerPromise, Promise!Spec

-------------------------------------------------------------------------------
(* Readers: a settled campaign only gets frozen and certified any more, which leaves    *)
(* the evidence a reader compares as it was.                                            *)

Settled(c) == CanFreeze(c) \/ IsFrozen(c.status)

LEMMA SettledDecided ==
  ASSUME NEW c, Healthy(c), Settled(c)
  PROVE  Pending(c) = {}
<1>1. CASE IsFrozen(c.status)
  BY <1>1 DEF Healthy, Sound, StatusFits, IsFrozen
<1>2. CASE CanFreeze(c)
  BY <1>2, FreezeGuard DEF Healthy, Sound, WorkIsCurrent
<1>3. QED
  BY <1>1, <1>2 DEF Settled

LEMMA SettledStays ==
  ASSUME NEW c, Healthy(c), Settled(c), NEW actor, NEW body, Accepts(c, actor, body)
  PROVE  /\ Settled(Change(c, actor, body)) /\ SameEvidence(c, Change(c, actor, body))
         /\ c.status # "Certified"
<1> DEFINE d == Change(c, actor, body)
<1>1. DOMAIN c = CampaignFields
  BY DEF Healthy, Sound, WellTyped
<1>2. c.status \in {"ReviewPending", "Frozen", "Certified"}
  BY FreezeGuard DEF Settled, IsFrozen
<1>3. c.status = "ReviewPending" => Pending(c) = {}
  BY SettledDecided
<1>4. CASE CanFreeze(c) /\ d = Freeze(c, Hash(c))
  <2>1. Freeze(c, Hash(c)).status = "Frozen"
    BY <1>1, FreezeFrame
  <2>2. c.status = "ReviewPending"
    BY <1>4, FreezeGuard
  <2>3. QED
    BY <1>4, <2>1, <2>2, FreezeAdvances DEF Settled, IsFrozen
<1>5. ASSUME NEW k, CanCertify(c, k), d = Certify(c, k)
      PROVE  Settled(d) /\ SameEvidence(c, d) /\ c.status # "Certified"
  <2>1. Certify(c, k).status = "Certified"
    BY <1>1, CertifyFrame
  <2>2. c.status = "Frozen"
    BY <1>5 DEF CanCertify
  <2> HIDE DEF d
  <2>3. QED
    BY <1>5, <2>1, <2>2, CertifyAdvances DEF Settled, IsFrozen
<1>6. CASE \/ CanRegisterInstruments(c, body[2]) \/ CanAddRound(c, body[2], actor)
           \/ CanSubmitForReview(c) \/ CanDecideFinding(c, body[2][1], body[2][2], TRUE)
  BY <1>2, <1>3, <1>6
     DEF CanRegisterInstruments, CanAddRound, CanSubmitForReview, CanDecideFinding, Pending
<1>7. \/ CanRegisterInstruments(c, body[2]) \/ CanAddRound(c, body[2], actor)
      \/ CanSubmitForReview(c) \/ CanDecideFinding(c, body[2][1], body[2][2], TRUE)
      \/ CanFreeze(c) /\ d = Freeze(c, Hash(c))
      \/ \E k \in Issue(c, body[2]) : CanCertify(c, k) /\ d = Certify(c, k)
  BY AcceptedForms
<1> HIDE DEF d
<1>8. QED
  BY <1>4, <1>5, <1>6, <1>7 DEF d

\* What holds of a reader: the campaign it has read, if that was settled, has in the
\* meantime become at most frozen or certified.
SnapshotOK(d, k, c) ==
    /\ c.id \in CampaignIds /\ Healthy(c)
    /\ Settled(c) =>
         /\ k.evidenceMismatch = FALSE
         /\ \E e \in d.campaigns[c.id] :
              Settled(e) /\ SameEvidence(c, e) /\ (c.status = "Certified" => e = c)
    /\ c.status = "Certified" => k.credentialMismatch = FALSE

ReaderOK(d, k) ==
    /\ k = [stage |-> k.stage, snapshot |-> k.snapshot, evidenceMismatch |-> k.evidenceMismatch,
            credentialMismatch |-> k.credentialMismatch]
    /\ k.stage \in 0 .. Len(Tables) + 2
    /\ \A c, e \in k.snapshot : c = e
    /\ \A c \in k.snapshot : SnapshotOK(d, k, c)

RInv == SInv /\ DOMAIN reader = Readers /\ \A r \in Readers : ReaderOK(db, reader[r])

LEMMA NoReadOK == ASSUME NEW d PROVE ReaderOK(d, NoRead)
BY DEF ReaderOK, NoRead, Tables

\* The rows of a settled campaign are just what a reader expects.
LEMMA SettledRows ==
  ASSUME NEW d, DbOK(d), NEW id \in CampaignIds, NEW e \in d.campaigns[id], Settled(e)
  PROVE  d.rows[id] = ExpectedEvidenceRows(e)
<1>1. PICK raised \in SUBSET Pending(e) : d.rows[id] = EvidenceRows(e, raised)
  BY DEF DbOK, StoredOK
<1>2. Healthy(e)
  BY DEF DbOK, StoredOK
<1>3. raised = {}
  BY <1>1, <1>2, SettledDecided
<1>4. QED
  BY <1>1, <1>3 DEF ExpectedEvidenceRows

LEMMA SameTables ==
  ASSUME NEW c, NEW e, SameEvidence(c, e), NEW i \in DOMAIN Tables
  PROVE  ExpectedEvidenceRows(c)[Tables[i]] = ExpectedEvidenceRows(e)[Tables[i]]
<1>1. Tables[i] \in {"points", "instruments", "rounds", "batches", "findings"}
  BY DEF Tables
<1> DEFINE x == ExpectedEvidenceRows(c)
           y == ExpectedEvidenceRows(e)
<1>2. x.findings = y.findings
  BY DEF ExpectedEvidenceRows, EvidenceRows, SameEvidence
<1>3. /\ x.points = y.points /\ x.instruments = y.instruments /\ x.rounds = y.rounds
      /\ x.batches = y.batches
  BY DEF ExpectedEvidenceRows, EvidenceRows, SameEvidence
<1> HIDE DEF x, y
<1>4. \A table \in {"points", "instruments", "rounds", "batches", "findings"} : x[table] = y[table]
  BY <1>2, <1>3
<1>5. QED
  BY <1>1, <1>4 DEF x, y

LEMMA ReaderKept ==
  ASSUME NEW d, DbOK(d), NEW tx, TxOK(d, tx), NEW k, ReaderOK(d, k)
  PROVE  ReaderOK(tx.staged, k)
<1> DEFINE x == tx.command
           new == tx.response
           e == tx.staged
<1>1. /\ CommandOK(x) /\ new \in Outcome(d, x)
      /\ e.campaigns = [d.campaigns EXCEPT ![x.campaign] = {new}]
  BY DEF TxOK, Applied
<1>2. x.campaign \in CampaignIds /\ DOMAIN d.campaigns = CampaignIds
  BY <1>1 DEF CommandOK, DbOK
<1> HIDE DEF x, new, e
<1>3. ASSUME NEW c \in k.snapshot PROVE SnapshotOK(e, k, c)
  <2>1. SnapshotOK(d, k, c)
    BY DEF ReaderOK
  <2>2. ASSUME Settled(c)
        PROVE  \E s \in e.campaigns[c.id] :
                 Settled(s) /\ SameEvidence(c, s) /\ (c.status = "Certified" => s = c)
    <3>1. PICK o \in d.campaigns[c.id] :
            Settled(o) /\ SameEvidence(c, o) /\ (c.status = "Certified" => o = c)
      BY <2>1, <2>2 DEF SnapshotOK
    <3>2. c.id \in CampaignIds
      BY <2>1 DEF SnapshotOK
    <3>3. CASE x.campaign # c.id
      BY <1>1, <1>2, <3>1, <3>2, <3>3
    <3>4. CASE x.campaign = c.id
      <4>1. e.campaigns[c.id] = {new}
        BY <1>1, <1>2, <3>4
      <4>2. Healthy(o) /\ Accepts(o, x.actor, x.body) /\ new = Change(o, x.actor, x.body)
        <5>1. PICK p : /\ d.campaigns[x.campaign] = {p} /\ Healthy(p)
                       /\ Accepts(p, x.actor, x.body) /\ new = Change(p, x.actor, x.body)
          BY <1>1, <3>1, <3>4, OutcomeForms
        <5>2. p = o
          BY <3>1, <3>4, <5>1
        <5>3. QED
          BY <5>1, <5>2
      <4>3. Settled(new) /\ SameEvidence(o, new) /\ o.status # "Certified"
        BY <3>1, <4>2, SettledStays
      <4>4. SameEvidence(c, new) /\ c.status # "Certified"
        BY <3>1, <4>3 DEF SameEvidence
      <4>5. QED
        BY <4>1, <4>3, <4>4
    <3>5. QED
      BY <3>3, <3>4
  <2>3. QED
    BY <2>1, <2>2 DEF SnapshotOK
<1>4. QED
  BY <1>3 DEF ReaderOK, e

LEMMA ReadAggregateKeeps ==
  ASSUME RInv, NEW r \in Readers, ReadAggregate(r)
  PROVE  ReaderOK(db, reader'[r])
<1>1. PICK id \in CampaignIds : \E c \in db.campaigns[id] :
        reader' = [reader EXCEPT ![r] = [NoRead EXCEPT !.stage = 1, !.snapshot = {c}]]
  BY DEF ReadAggregate
<1>2. PICK c \in db.campaigns[id] :
        reader' = [reader EXCEPT ![r] = [NoRead EXCEPT !.stage = 1, !.snapshot = {c}]]
  BY <1>1
<1> DEFINE k == [stage |-> 1, snapshot |-> {c}, evidenceMismatch |-> FALSE,
                 credentialMismatch |-> FALSE]
<1>3. reader'[r] = k
  BY <1>2 DEF NoRead, RInv
<1>4. k.evidenceMismatch = FALSE /\ k.credentialMismatch = FALSE /\ k.stage = 1 /\ k.snapshot = {c}
  OBVIOUS
<1>5. k = [stage |-> k.stage, snapshot |-> k.snapshot, evidenceMismatch |-> k.evidenceMismatch,
           credentialMismatch |-> k.credentialMismatch]
  OBVIOUS
<1> HIDE DEF k
<1>6. c.id = id /\ Healthy(c)
  BY DEF RInv, SInv, DbOK, StoredOK
<1>7. SnapshotOK(db, k, c)
  BY <1>4, <1>6 DEF SnapshotOK, SameEvidence
<1>8. ReaderOK(db, k)
  BY <1>4, <1>5, <1>7 DEF ReaderOK, Tables
<1>9. QED
  BY <1>3, <1>8

LEMMA ReadTableKeeps ==
  ASSUME RInv, NEW r \in Readers, ReadTable(r)
  PROVE  ReaderOK(db, reader'[r])
<1> DEFINE old == reader[r]
           table == Tables[old.stage]
<1>1. /\ ReaderOK(db, old) /\ DOMAIN reader = Readers /\ old.stage \in DOMAIN Tables /\ DbOK(db)
      /\ old = [stage |-> old.stage, snapshot |-> old.snapshot,
                evidenceMismatch |-> old.evidenceMismatch,
                credentialMismatch |-> old.credentialMismatch]
  BY DEF RInv, ReadTable, SInv, ReaderOK
<1>2. PICK c \in old.snapshot :
        reader' = [reader EXCEPT
              ![r].stage = @ + 1,
              ![r].evidenceMismatch = @ \/ db.rows[c.id][table] # ExpectedEvidenceRows(c)[table]]
  BY DEF ReadTable
<1> DEFINE differs == db.rows[c.id][table] # ExpectedEvidenceRows(c)[table]
           k == [stage |-> old.stage + 1, snapshot |-> old.snapshot,
                 evidenceMismatch |-> old.evidenceMismatch \/ differs,
                 credentialMismatch |-> old.credentialMismatch]
<1>3. reader'[r] = k
  BY <1>1, <1>2
<1>4. /\ k.stage = old.stage + 1 /\ k.snapshot = old.snapshot
      /\ k.evidenceMismatch = (old.evidenceMismatch \/ differs)
      /\ k.credentialMismatch = old.credentialMismatch
      /\ k = [stage |-> k.stage, snapshot |-> k.snapshot, evidenceMismatch |-> k.evidenceMismatch,
              credentialMismatch |-> k.credentialMismatch]
  OBVIOUS
<1> HIDE DEF k
<1>5. ASSUME Settled(c) PROVE ~differs
  <2>1. SnapshotOK(db, old, c)
    BY <1>1 DEF ReaderOK
  <2>2. PICK e \in db.campaigns[c.id] : Settled(e) /\ SameEvidence(c, e)
    BY <1>5, <2>1 DEF SnapshotOK
  <2>3. db.rows[c.id] = ExpectedEvidenceRows(e)
    BY <1>1, <2>1, <2>2, SettledRows DEF SnapshotOK
  <2>4. QED
    BY <1>1, <2>2, <2>3, SameTables
<1>6. SnapshotOK(db, k, c)
  <2>1. SnapshotOK(db, old, c)
    BY <1>1 DEF ReaderOK
  <2>2. Settled(c) => k.evidenceMismatch = FALSE
    <3>1. SUFFICES ASSUME Settled(c) PROVE k.evidenceMismatch = FALSE
      OBVIOUS
    <3>2. old.evidenceMismatch = FALSE /\ differs = FALSE
      BY <1>5, <2>1, <3>1 DEF SnapshotOK
    <3> HIDE DEF differs
    <3>3. QED
      BY <1>4, <3>2
  <2>3. c.status = "Certified" => k.credentialMismatch = FALSE
    BY <1>4, <2>1 DEF SnapshotOK
  <2>4. QED
    BY <2>1, <2>2, <2>3 DEF SnapshotOK
<1>7. k.stage \in 0 .. Len(Tables) + 2
  BY <1>1, <1>4 DEF Tables
<1>8. k.snapshot = {c}
  BY <1>1, <1>2, <1>4 DEF ReaderOK
<1>9. ReaderOK(db, k)
  BY <1>4, <1>6, <1>7, <1>8 DEF ReaderOK
<1>10. QED
  BY <1>3, <1>9

LEMMA ReadCredentialKeeps ==
  ASSUME RInv, NEW r \in Readers, ReadCredential(r)
  PROVE  ReaderOK(db, reader'[r])
<1> DEFINE old == reader[r]
<1>1. /\ ReaderOK(db, old) /\ DOMAIN reader = Readers /\ old.stage = Len(Tables) + 1 /\ DbOK(db)
      /\ old = [stage |-> old.stage, snapshot |-> old.snapshot,
                evidenceMismatch |-> old.evidenceMismatch,
                credentialMismatch |-> old.credentialMismatch]
  BY DEF RInv, ReadCredential, SInv, ReaderOK
<1>2. PICK c \in old.snapshot :
        reader' = [reader EXCEPT
              ![r].stage = @ + 1,
              ![r].credentialMismatch = db.rows[c.id].credential # c.credential]
  BY DEF ReadCredential
<1> DEFINE differs == db.rows[c.id].credential # c.credential
           k == [stage |-> old.stage + 1, snapshot |-> old.snapshot,
                 evidenceMismatch |-> old.evidenceMismatch,
                 credentialMismatch |-> differs]
<1>3. reader'[r] = k
  BY <1>1, <1>2
<1>4. /\ k.stage = old.stage + 1 /\ k.snapshot = old.snapshot
      /\ k.evidenceMismatch = old.evidenceMismatch /\ k.credentialMismatch = differs
      /\ k = [stage |-> k.stage, snapshot |-> k.snapshot, evidenceMismatch |-> k.evidenceMismatch,
              credentialMismatch |-> k.credentialMismatch]
  OBVIOUS
<1> HIDE DEF k
<1>5. SnapshotOK(db, old, c)
  BY <1>1 DEF ReaderOK
<1>6. ASSUME c.status = "Certified" PROVE ~differs
  <2>1. Settled(c)
    BY <1>6 DEF Settled, IsFrozen
  <2>2. c \in db.campaigns[c.id]
    BY <1>5, <1>6, <2>1 DEF SnapshotOK
  <2>3. db.rows[c.id] = ExpectedEvidenceRows(c)
    BY <1>1, <1>5, <2>1, <2>2, SettledRows DEF SnapshotOK
  <2>4. ExpectedEvidenceRows(c).credential = c.credential
    BY DEF ExpectedEvidenceRows, EvidenceRows
  <2>5. QED
    BY <2>3, <2>4
<1>7. SnapshotOK(db, k, c)
  <2>1. c.status = "Certified" => k.credentialMismatch = FALSE
    BY <1>4, <1>6
  <2>2. QED
    BY <1>4, <1>5, <2>1 DEF SnapshotOK
<1>8. k.stage \in 0 .. Len(Tables) + 2
  BY <1>1, <1>4 DEF Tables
<1>9. k.snapshot = {c}
  BY <1>1, <1>2, <1>4 DEF ReaderOK
<1>10. ReaderOK(db, k)
  BY <1>4, <1>7, <1>8, <1>9 DEF ReaderOK
<1>11. QED
  BY <1>3, <1>10

LEMMA ReadersInitially == Init => RInv
<1> SUFFICES ASSUME Init PROVE RInv
  OBVIOUS
<1>1. reader = [r \in Readers |-> NoRead]
  BY DEF Init
<1>2. \A r \in Readers : ReaderOK(db, NoRead)
  BY NoReadOK
<1>3. QED
  BY <1>1, <1>2, StoreInitially DEF RInv

LEMMA ReadersInductively == RInv /\ [Next]_vars => RInv'
<1> SUFFICES ASSUME RInv, [Next]_vars PROVE RInv'
  OBVIOUS
<1>1. SInv'
  BY StoreInductively DEF RInv
<1>2. DOMAIN reader = Readers /\ \A r \in Readers : ReaderOK(db, reader[r])
  BY DEF RInv
<1>3. CASE UNCHANGED <<db, reader>>
  BY <1>1, <1>2, <1>3 DEF RInv
<1>4. CASE Commit
  <2>1. PICK tx \in conn : db' = tx.staged /\ reader' = reader
    BY <1>4 DEF Commit
  <2>2. DbOK(db) /\ TxOK(db, tx)
    BY DEF RInv, SInv, ConnOK
  <2>3. \A r \in Readers : ReaderOK(db', reader[r])
    BY <1>2, <2>1, <2>2, ReaderKept
  <2>4. QED
    BY <1>1, <1>2, <2>1, <2>3 DEF RInv
<1>5. CASE Crash
  <2>1. reader' = [r \in Readers |-> NoRead] /\ db' = db
    BY <1>5 DEF Crash
  <2>2. \A r \in Readers : ReaderOK(db, NoRead)
    BY NoReadOK
  <2>3. QED
    BY <1>1, <2>1, <2>2 DEF RInv
<1>6. ASSUME NEW r \in Readers, ReadAggregate(r) \/ ReadTable(r) \/ ReadCredential(r) \/ FinishRead(r)
      PROVE  RInv'
  <2>1. db' = db /\ DOMAIN reader' = DOMAIN reader
    BY <1>6 DEF ReadAggregate, ReadTable, ReadCredential, FinishRead
  <2>2. \A other \in Readers : other # r => reader'[other] = reader[other]
    BY <1>2, <1>6 DEF ReadAggregate, ReadTable, ReadCredential, FinishRead
  <2>3. ReaderOK(db, reader'[r])
    <3>1. FinishRead(r) => ReaderOK(db, reader'[r])
      <4>1. FinishRead(r) => reader'[r] = NoRead
        BY <1>2 DEF FinishRead
      <4>2. QED
        BY <4>1, NoReadOK
    <3>2. QED
      BY <1>6, <3>1, ReadAggregateKeeps, ReadTableKeeps, ReadCredentialKeeps
  <2>4. QED
    BY <1>1, <1>2, <2>1, <2>2, <2>3 DEF RInv
<1>7. QED
  BY <1>3, <1>4, <1>5, <1>6 DEF Next, vars, Send, Resend, GiveUp, Replay, Refuse, Begin,
     OrphanBegins, OrphanEnds, Rollback

LEMMA ReadersInvariance == Spec => []RInv
<1>1. QED
  BY ReadersInitially, ReadersInductively, PTL DEF Spec

\* Stored campaigns are well formed, at most one transaction is open, and whom it will
\* answer still waits for just its command (open.go: one connection).
THEOREM StoreTypes == Spec => []TypeOK
<1>1. RInv => TypeOK
  <2> SUFFICES ASSUME RInv PROVE TypeOK
    OBVIOUS
  <2>1. \A id \in CampaignIds : \A c \in db.campaigns[id] : WellTyped(c) /\ c.id = id
    BY DEF RInv, SInv, DbOK, StoredOK, Healthy, Sound
  <2>2. QED
    BY <2>1 DEF RInv, SInv, ClientOK, ConnOK, AwaitedBy, ReaderOK, TypeOK
<1>2. QED
  BY <1>1, ReadersInvariance, PTL

\* Verification never reports damage although its queries interleave with commands:
\* from a freeze on only the credential is added, whose row the manifest check of a
\* frozen campaign does not look at, and a certified campaign stays as it is (verify.go,
\* service.go: VerifyCredential).
THEOREM VerifyIsRight == Spec => []VerifyNeverAlarms
<1>1. RInv => VerifyNeverAlarms
  <2> SUFFICES ASSUME RInv, NEW r \in Readers, NEW c \in reader[r].snapshot
               PROVE  VerifyDetailed(c, reader[r].evidenceMismatch, reader[r].credentialMismatch) =
                        CASE c.status = "Frozen" -> {"credential_not_issued"}
                          [] c.status = "Certified" -> {}
                          [] OTHER -> {"not_frozen"}
    BY DEF VerifyNeverAlarms
  <2>1. Healthy(c) /\ SnapshotOK(db, reader[r], c)
    BY DEF RInv, ReaderOK, SnapshotOK
  <2>2. SealHolds(c)
    BY <2>1 DEF Healthy
  <2>3. CASE c.status = "Certified"
    <3>1. reader[r].evidenceMismatch = FALSE /\ reader[r].credentialMismatch = FALSE
      BY <2>1, <2>3 DEF SnapshotOK, Settled, IsFrozen
    <3>2. VerifyDetailed(c, FALSE, FALSE) = {}
      BY <2>2, <2>3, SealedCampaignVerifies DEF IsFrozen
    <3>3. QED
      BY <2>3, <3>1, <3>2
  <2>4. CASE c.status = "Frozen"
    <3>1. IsFrozen(c.status) /\ c.credential = {}
      BY <2>2, <2>4 DEF SealHolds, IsFrozen
    <3>2. reader[r].evidenceMismatch = FALSE
      BY <2>1, <3>1 DEF SnapshotOK, Settled
    <3>3. ManifestPassed(c, FALSE)
      BY <2>2, <3>1, SealedCampaignVerifies
    <3>4. QED
      BY <2>4, <3>1, <3>2, <3>3 DEF VerifyDetailed
  <2>5. CASE c.status # "Certified" /\ c.status # "Frozen"
    BY <2>5 DEF VerifyDetailed, IsFrozen
  <2>6. QED
    BY <2>3, <2>4, <2>5
<1>2. QED
  BY <1>1, ReadersInvariance, PTL

\* A campaign that can be frozen is never reported blocked because the preflight read
\* it while a command committed (service.go: FreezePreflight).
THEOREM EligiblePreflight == Spec => []EligiblePreflightNotSpoiled
<1>1. RInv => EligiblePreflightNotSpoiled
  <2> SUFFICES ASSUME RInv, NEW r \in Readers, NEW c \in reader[r].snapshot, CanFreeze(c)
               PROVE  FreezeBlockers(c, reader[r].evidenceMismatch) = {}
    BY DEF EligiblePreflightNotSpoiled
  <2>1. reader[r].evidenceMismatch = FALSE
    BY DEF RInv, ReaderOK, SnapshotOK, Settled
  <2>2. FreezeBlockers(c, FALSE) = {}
    BY DEF CanFreeze
  <2>3. QED
    BY <2>1, <2>2
<1>2. QED
  BY <1>1, ReadersInvariance, PTL

-------------------------------------------------------------------------------
(* The audit table grows by the event of the command that commits. *)

AInv ==
    /\ SInv
    /\ \E S : db.audit \in Seq(S)
    /\ TimelineComplete

LEMMA NewEvent ==
  ASSUME NEW S, NEW audit \in Seq(S), NEW event, NEW longer, longer = Append(audit, event)
  PROVE  /\ longer \in Seq(S \cup {event})
         /\ DOMAIN longer = (DOMAIN audit) \cup {Len(audit) + 1}
         /\ \A i \in DOMAIN audit : longer[i] = audit[i] /\ i < Len(audit) + 1
         /\ longer[Len(audit) + 1] = event
<1>1. DOMAIN audit = 1 .. Len(audit) /\ Len(audit) \in Nat
  OBVIOUS
<1>2. /\ DOMAIN longer = (DOMAIN audit) \cup {Len(audit) + 1}
      /\ \A i \in DOMAIN audit : longer[i] = audit[i] /\ i < Len(audit) + 1
      /\ longer[Len(audit) + 1] = event
  BY <1>1
<1>3. audit \in Seq(S \cup {event})
  BY <1>1
<1>4. QED
  BY <1>2, <1>3

LEMMA TimelineGrows ==
  ASSUME NEW d, DbOK(d), NEW x, CommandOK(x), NEW c \in Outcome(d, x),
         NEW S, d.audit \in Seq(S), NEW id \in CampaignIds,
         Timeline(d.audit, id, d.campaigns[id])
  PROVE  LET e == Applied(d, x, c) IN Timeline(e.audit, id, e.campaigns[id])
<1> DEFINE old == d.audit
           new == Applied(d, x, c).audit
           event == Event(d, x, c)
           last == Len(old) + 1
           stored == Applied(d, x, c).campaigns[id]
<1>1. /\ event.campaign = x.campaign /\ event.version = c.version /\ event.to = {c.status}
      /\ event.from = StatusOf(d.campaigns[x.campaign])
  BY DEF Event
<1>2. x.campaign \in CampaignIds /\ DOMAIN d.campaigns = CampaignIds
  BY DEF CommandOK, DbOK
<1>3. stored = IF id = x.campaign THEN {c} ELSE d.campaigns[id]
  BY <1>2 DEF Applied
<1>4. new = Append(old, event) /\ old \in Seq(S)
  BY DEF Applied
<1> HIDE DEF event, old, new
<1>5. /\ \A i \in DOMAIN old : new[i] = old[i] /\ i < last
      /\ new[last] = event
      /\ EventsOf(new, id) = IF x.campaign = id THEN EventsOf(old, id) \cup {last}
                             ELSE EventsOf(old, id)
  <2>1. /\ \A i \in DOMAIN old : new[i] = old[i] /\ i < Len(old) + 1
        /\ new[Len(old) + 1] = event
        /\ DOMAIN new = (DOMAIN old) \cup {Len(old) + 1}
    BY <1>4, NewEvent
  <2>2. EventsOf(new, id) = IF x.campaign = id THEN EventsOf(old, id) \cup {last}
                            ELSE EventsOf(old, id)
    BY <1>1, <2>1 DEF EventsOf
  <2>3. QED
    BY <2>1, <2>2
<1>6. EventsOf(old, id) \subseteq DOMAIN old /\ \A i \in DOMAIN old : i \in Nat
  BY DEF EventsOf
<1>7. last \in Nat
  BY <1>4
<1> HIDE DEF stored, last
<1>8. CASE x.campaign # id
  <2>1. EventsOf(new, id) = EventsOf(old, id) /\ stored = d.campaigns[id]
    BY <1>3, <1>5, <1>8
  <2>2. Timeline(old, id, d.campaigns[id])
    BY DEF old
  <2> DEFINE events == EventsOf(old, id)
  <2>3. \A i \in events : new[i] = old[i]
    BY <1>5, <1>6
  <2>4. \A i \in events :
          \/ /\ \A j \in events : i <= j
             /\ new[i].version = 1 /\ new[i].from = {}
          \/ \E j \in events :
               /\ j < i /\ \A k \in events : k <= j \/ i <= k
               /\ new[i].version = new[j].version + 1 /\ new[i].from = new[j].to
    <3> HIDE DEF events
    <3>1. QED
      BY <2>2, <2>3 DEF Timeline, events
  <2>5. /\ \A c1 \in stored : \E i \in events :
             /\ \A j \in events : j <= i
             /\ new[i].version = c1.version /\ new[i].to = {c1.status}
        /\ stored = {} => events = {}
    <3> HIDE DEF events
    <3>1. QED
      BY <2>1, <2>2, <2>3 DEF Timeline, events
  <2>6. EventsOf(new, id) = events
    BY <2>1
  <2> HIDE DEF events
  <2>7. Timeline(new, id, stored)
    BY <2>4, <2>5, <2>6 DEF Timeline
  <2>8. QED
    BY <2>7 DEF new, stored
<1>9. CASE x.campaign = id
  <2> DEFINE events == EventsOf(old, id)
  <2>1. EventsOf(new, id) = events \cup {last} /\ stored = {c}
    BY <1>3, <1>5, <1>9
  <2>2. Timeline(old, id, d.campaigns[id])
    BY DEF old
  <2>3. ASSUME NEW i \in events
        PROVE  \/ /\ \A j \in events \cup {last} : i <= j
                  /\ new[i].version = 1 /\ new[i].from = {}
               \/ \E j \in events :
                    /\ j < i /\ \A k \in events \cup {last} : k <= j \/ i <= k
                    /\ new[i].version = new[j].version + 1 /\ new[i].from = new[j].to
    BY <1>5, <1>6, <1>7, <2>2 DEF Timeline
  <2>4. \/ /\ events = {} /\ new[last].version = 1 /\ new[last].from = {}
        \/ \E j \in events :
             /\ j < last /\ \A k \in events : k <= j
             /\ new[last].version = new[j].version + 1 /\ new[last].from = new[j].to
    <3>1. CASE d.campaigns[x.campaign] = {} /\ c.version = 1
      BY <1>1, <1>5, <1>9, <2>2, <3>1 DEF Timeline, StatusOf
    <3>2. ASSUME NEW o, d.campaigns[x.campaign] = {o}, Advances(o, c)
          PROVE  \E j \in events :
                   /\ j < last /\ \A k \in events : k <= j
                   /\ new[last].version = new[j].version + 1 /\ new[last].from = new[j].to
      <4>1. PICK j \in events : /\ \A k \in events : k <= j
                                /\ old[j].version = o.version /\ old[j].to = {o.status}
        BY <1>9, <2>2, <3>2 DEF Timeline
      <4>2. j < last /\ new[j] = old[j]
        BY <1>5, <1>6
      <4>3. event.version = o.version + 1 /\ event.from = {o.status}
        BY <1>1, <3>2 DEF Advances, StatusOf
      <4>4. QED
        BY <1>5, <4>1, <4>2, <4>3
    <3>3. QED
      BY <3>1, <3>2, OutcomeForms
  <2>5. /\ \A j \in events \cup {last} : j <= last
        /\ new[last].version = c.version /\ new[last].to = {c.status}
    BY <1>1, <1>5, <1>6, <1>7
  <2> HIDE DEF events
  <2>6. \A i \in events \cup {last} :
          \/ /\ \A j \in events \cup {last} : i <= j
             /\ new[i].version = 1 /\ new[i].from = {}
          \/ \E j \in events \cup {last} :
               /\ j < i /\ \A k \in events \cup {last} : k <= j \/ i <= k
               /\ new[i].version = new[j].version + 1 /\ new[i].from = new[j].to
    <3>1. last <= last
      BY <1>7
    <3>2. QED
      BY <2>3, <2>4, <3>1
  <2>7. Timeline(new, id, stored)
    BY <2>1, <2>5, <2>6 DEF Timeline
  <2>8. QED
    BY <2>7 DEF new, stored
<1>10. QED
  BY <1>8, <1>9

LEMMA AuditInitially == Init => AInv
<1> SUFFICES ASSUME Init PROVE AInv
  OBVIOUS
<1>1. db.audit = << >> /\ db.campaigns = [id \in CampaignIds |-> {}]
  BY DEF Init
<1>2. \E S : db.audit \in Seq(S)
  <2>1. << >> \in Seq({})
    OBVIOUS
  <2>2. QED
    BY <1>1, <2>1
<1>3. \A id \in CampaignIds : EventsOf(db.audit, id) = {} /\ db.campaigns[id] = {}
  BY <1>1 DEF EventsOf
<1>4. TimelineComplete
  BY <1>3 DEF TimelineComplete, Timeline
<1>5. QED
  BY <1>2, <1>4, StoreInitially DEF AInv

LEMMA AuditInductively == AInv /\ [Next]_vars => AInv'
<1> SUFFICES ASSUME AInv, [Next]_vars PROVE AInv'
  OBVIOUS
<1>1. SInv'
  BY StoreInductively DEF AInv
<1>2. CASE UNCHANGED db
  BY <1>1, <1>2 DEF AInv, TimelineComplete
<1>3. CASE Commit
  <2>1. PICK tx \in conn : db' = tx.staged
    BY <1>3 DEF Commit
  <2>2. DbOK(db) /\ TxOK(db, tx)
    BY DEF AInv, SInv, ConnOK
  <2> DEFINE x == tx.command
             c == tx.response
  <2>3. CommandOK(x) /\ c \in Outcome(db, x) /\ db' = Applied(db, x, c)
    BY <2>1, <2>2 DEF TxOK
  <2> HIDE DEF x, c
  <2>4. PICK S : db.audit \in Seq(S)
    BY DEF AInv
  <2>5. db'.audit = Append(db.audit, Event(db, x, c))
    BY <2>3 DEF Applied
  <2>6. db'.audit \in Seq(S \cup {Event(db, x, c)})
    BY <2>4, <2>5, NewEvent
  <2>7. \A id \in CampaignIds : Timeline(db'.audit, id, db'.campaigns[id])
    BY <2>2, <2>3, <2>4, TimelineGrows DEF AInv, TimelineComplete
  <2>8. QED
    BY <1>1, <2>6, <2>7 DEF AInv, TimelineComplete
<1>4. QED
  BY <1>2, <1>3 DEF Next, vars, Send, Resend, GiveUp, Replay, Refuse, Begin, OrphanBegins,
     OrphanEnds, Rollback, Crash, ReadAggregate, ReadTable, ReadCredential, FinishRead

\* The audit table tells a campaign's whole life: an event for every version, each
\* going on from the status where the one before it ended (repository.go: Run takes
\* the old status before the change and writes the event with it).
THEOREM TimelineIsComplete == Spec => []TimelineComplete
<1>1. AInv => TimelineComplete
  BY DEF AInv
<1>2. QED
  BY <1>1, AuditInitially, AuditInductively, PTL DEF Spec
===============================================================================
