--------------------------------- MODULE Store ---------------------------------
(***************************************************************************)
(* The repository and its clients (src/internal/storage/sqlite,            *)
(* src/internal/application/service.go): write commands executed in one    *)
(* transaction each, with optimistic versions, idempotency records, audit  *)
(* events and normalised evidence rows; readers that assemble a view from  *)
(* several queries; timeouts, lost answers, delayed and repeated requests, *)
(* crashes.                                                                *)
(*                                                                         *)
(* The pool has one connection (open.go: SetMaxOpenConns(1)), so an open   *)
(* transaction excludes every other transaction and every query.  SQLite   *)
(* itself is taken to commit atomically and durably.                       *)
(***************************************************************************)
EXTENDS Evidence

CONSTANTS
    Clients, Readers,
    MaxKeys,             \* bound: idempotency keys, so also applied commands
    FreshKeys,           \* bound: new idempotency keys to choose from at a time
    MaxOrphans,          \* bound: requests under way that nobody waits for
    Plans,               \* [plannedDate, points]
    InstrumentRequests,
    RoundRequests

ASSUME StoreRequestsAssumption ==
    /\ MaxKeys \in Nat /\ FreshKeys \in Nat /\ MaxOrphans \in Nat
    /\ \A plan \in Plans : plan.plannedDate \in Int /\ plan.points \in Seq(Point)
    /\ InstrumentRequests \subseteq Seq(Instrument)
    /\ RoundRequests \subseteq Round

VARIABLES
    db,      \* what is committed: [campaigns, rows, idempotency, audit]
    conn,    \* {} or the open transaction: [client, command, staged, response]
    client,  \* per client: [state, command, response]
    orphans, \* commands still on their way to execution whose client has given up
    reader   \* per reader: [stage, snapshot, evidenceMismatch, credentialMismatch]

vars == <<db, conn, client, orphans, reader>>

-------------------------------------------------------------------------------
(* Commands: [key, campaign, actor, expected, body]; the body is the name of the        *)
(* operation with its argument.  The request hash covers the whole command.             *)

Op(command) == command.body[1]
Arg(command) == command.body[2]

\* A freeze command carries the candidate's hash; its candidate version has to be the
\* expected version.
Bodies(c, actor) ==
    ({"register"} \X InstrumentRequests)
    \cup ({"round"} \X RoundRequests)
    \cup {<<"submit", {}>>}
    \cup ({"decide"} \X ((DOMAIN c.findings) \X {"Accepted", "NeedsRemediation"}))
    \cup {<<"freeze", Hash(c)>>, <<"issue", actor>>}

Accepts(c, actor, body) ==
    CASE body[1] = "register" -> CanRegisterInstruments(c, body[2])
      [] body[1] = "round" -> CanAddRound(c, body[2], actor)
      [] body[1] = "submit" -> CanSubmitForReview(c)
      [] body[1] = "decide" -> CanDecideFinding(c, body[2][1], body[2][2], TRUE)
      [] body[1] = "freeze" -> CanFreeze(c) /\ body[2] = Hash(c)
      [] body[1] = "issue" -> CanIssue(c) /\ \A k \in Issue(c, body[2]) : CanCertify(c, k)
      [] OTHER -> FALSE

Change(c, actor, body) ==
    CASE body[1] = "register" -> RegisterInstruments(c, body[2])
      [] body[1] = "round" -> AddRound(c, body[2])
      [] body[1] = "submit" -> SubmitForReview(c)
      [] body[1] = "decide" -> DecideFinding(c, body[2][1], body[2][2], actor)
      [] body[1] = "freeze" -> Freeze(c, body[2])
      [] body[1] = "issue" -> Certify(c, CHOOSE k \in Issue(c, body[2]) : TRUE)

-------------------------------------------------------------------------------
(* Primary keys *)

\* The ids of points, instruments and rounds are primary keys of their tables, over
\* all campaigns.
PrimaryKeys(rows) ==
    [points |-> {p.id : p \in rows.points},
     instruments |-> {i.id : i \in rows.instruments},
     rounds |-> RoundIdsOf(rows.rounds)]

KeysFree(d, c) ==
    \A id \in CampaignIds \ {c.id} : \A table \in {"points", "instruments", "rounds"} :
      PrimaryKeys(d.rows[id])[table] \cap PrimaryKeys(ExpectedEvidenceRows(c))[table] = {}

-------------------------------------------------------------------------------
(* The transaction of Run *)

Recorded(d, key) == {r \in d.idempotency : r.key = key}

\* The campaign as the command wants it, if the version is the expected one and the
\* rules accept the change; nothing otherwise.
Changed(d, command) ==
    LET stored == d.campaigns[command.campaign]
    IN IF Op(command) = "create"
         THEN {NewCampaign(command.campaign, plan.plannedDate, plan.points) :
                 plan \in {x \in {Arg(command)} : stored = {} /\ CanCreate(x.points)}}
         ELSE {Change(c, command.actor, command.body) :
                 c \in {x \in stored : /\ x.version = command.expected
                                       /\ Accepts(x, command.actor, command.body)}}

\* What the integrity check and the primary keys let through.
Outcome(d, command) ==
    {c \in Changed(d, command) : ValidateIntegrity(c) /\ KeysFree(d, c)}

StatusOf(stored) == {c.status : c \in stored}

Event_StatusAfterChange(d, command, c) ==
    [campaign |-> command.campaign, type |-> Op(command),
     from |-> {c.status}, to |-> {c.status}, version |-> c.version]

Event(d, command, c) ==
    [campaign |-> command.campaign, type |-> Op(command),
     from |-> StatusOf(d.campaigns[command.campaign]), to |-> {c.status},
     version |-> c.version]

\* Everything the transaction writes: aggregate, evidence rows (replaceEvidence deletes
\* the campaign's rows and inserts them anew), audit event, idempotency record.
Applied_InsertOnly(d, command, c) ==
    LET raised == {f \in DOMAIN c.findings :
                     \A old \in d.campaigns[command.campaign] : f \notin DOMAIN old.findings}
        rows == EvidenceRows(c, raised)
        known == d.rows[command.campaign].findings
    IN [campaigns |-> [d.campaigns EXCEPT ![command.campaign] = {c}],
        rows |-> [d.rows EXCEPT ![command.campaign] = [rows EXCEPT
                    !.findings = known \cup {r \in rows.findings : r.finding \in raised}]],
        audit |-> Append(d.audit, Event(d, command, c)),
        idempotency |-> d.idempotency \cup
            {[key |-> command.key, request |-> command, response |-> c]}]

Applied(d, command, c) ==
    LET raised == {f \in DOMAIN c.findings :
                     \A old \in d.campaigns[command.campaign] : f \notin DOMAIN old.findings}
    IN [campaigns |-> [d.campaigns EXCEPT ![command.campaign] = {c}],
        rows |-> [d.rows EXCEPT ![command.campaign] = EvidenceRows(c, raised)],
        audit |-> Append(d.audit, Event(d, command, c)),
        idempotency |-> d.idempotency \cup
            {[key |-> command.key, request |-> command, response |-> c]}]

-------------------------------------------------------------------------------
(* Clients *)

Idle == [state |-> "idle", command |-> {}, response |-> {}]

NoRead == [stage |-> 0, snapshot |-> {}, evidenceMismatch |-> FALSE,
           credentialMismatch |-> FALSE]

Init ==
    /\ db = [campaigns |-> [id \in CampaignIds |-> {}],
             rows |-> [id \in CampaignIds |-> NoRows],
             audit |-> << >>, idempotency |-> {}]
    /\ conn = {}
    /\ client = [cl \in Clients |-> Idle]
    /\ orphans = {}
    /\ reader = [r \in Readers |-> NoRead]

\* Any key on record, and the next FreshKeys new ones (the keys' identities do not matter).
OfferedKeys ==
    LET new == (1 .. MaxKeys) \ {r.key : r \in db.idempotency}
    IN {k \in 1 .. MaxKeys : Cardinality({l \in new : l < k}) < FreshKeys}

\* A client has read a campaign and asks for something that makes sense for it; by the
\* time the command executes the campaign may have moved on.
Send(cl) ==
    /\ client[cl].state # "waiting"
    /\ \E id \in CampaignIds, actor \in Actors :
         LET stored == db.campaigns[id]
             wanted == IF stored = {} THEN {<<0, x>> : x \in {"create"} \X Plans}
                       ELSE UNION {{<<c.version, x>> : x \in {y \in Bodies(c, actor) : Accepts(c, actor, y)}}
                                     : c \in stored}
         IN \E w \in wanted, key \in OfferedKeys :
              client' = [client EXCEPT ![cl] =
                [state |-> "waiting", response |-> {},
                 command |-> {[key |-> key, campaign |-> id, actor |-> actor,
                               expected |-> w[1], body |-> w[2]]}]]
    /\ UNCHANGED <<db, conn, orphans, reader>>

\* The same request once more: after a timeout or a lost answer, or by duplication.
Resend(cl) ==
    /\ client[cl].state \in {"unknown", "answered", "refused"}
    /\ client' = [client EXCEPT ![cl].state = "waiting", ![cl].response = {}]
    /\ UNCHANGED <<db, conn, orphans, reader>>

\* The client stops waiting: a timeout on its side, a broken connection, an expired
\* context.  Its request may be over with that, or be executed all the same, now or
\* later; an answer that gets lost is a request executed after its client gave up.
GiveUp_TransactionAnswers(cl) ==
    /\ client[cl].state = "waiting"
    /\ client' = [client EXCEPT ![cl].state = "unknown"]
    /\ \/ UNCHANGED orphans
       \/ /\ \A tx \in conn : tx.client # {cl}
          /\ orphans' = orphans \cup client[cl].command
          /\ Cardinality(orphans') <= MaxOrphans
    /\ UNCHANGED <<db, conn, reader>>

GiveUp(cl) ==
    /\ client[cl].state = "waiting"
    /\ client' = [client EXCEPT ![cl].state = "unknown"]
    /\ conn' = {[tx EXCEPT !.client = @ \ {cl}] : tx \in conn}
    /\ \/ UNCHANGED orphans
       \/ /\ \A tx \in conn : tx.client # {cl}
          /\ orphans' = orphans \cup client[cl].command
          /\ Cardinality(orphans') <= MaxOrphans
    /\ UNCHANGED <<db, reader>>

-------------------------------------------------------------------------------
(* The server *)

Answer(cl, state, response) ==
    client' = [client EXCEPT ![cl].state = state, ![cl].response = response]

\* readIdempotent: a recorded key is looked at before anything else; the same request
\* is answered with the recorded response, whatever the version has become.
Replay(cl) ==
    /\ conn = {} /\ client[cl].state = "waiting"
    /\ \E command \in client[cl].command : \E r \in Recorded(db, command.key) :
         r.request = command /\ Answer(cl, "answered", {r.response})
    /\ UNCHANGED <<db, conn, orphans, reader>>

Refuse_VersionFirst(cl) ==
    /\ conn = {} /\ client[cl].state = "waiting"
    /\ \E command \in client[cl].command :
         \/ \E r \in Recorded(db, command.key) : r.request # command
         \/ \E c \in db.campaigns[command.campaign] : c.version # command.expected
         \/ Recorded(db, command.key) = {} /\ Outcome(db, command) = {}
    /\ Answer(cl, "refused", {})
    /\ UNCHANGED <<db, conn, orphans, reader>>

\* The key belongs to another request, or the command cannot be applied.
Refuse(cl) ==
    /\ conn = {} /\ client[cl].state = "waiting"
    /\ \E command \in client[cl].command :
         \/ \E r \in Recorded(db, command.key) : r.request # command
         \/ Recorded(db, command.key) = {} /\ Outcome(db, command) = {}
    /\ Answer(cl, "refused", {})
    /\ UNCHANGED <<db, conn, orphans, reader>>

Execute_NoLookup(who, command) ==
    /\ conn = {}
    /\ \E c \in Outcome(db, command) :
         conn' = {[client |-> who, command |-> command, staged |-> Applied(db, command, c),
                   response |-> c]}

\* Run up to its commit, for a new key; "who" is the client that waits, if any.
Execute(who, command) ==
    /\ conn = {}
    /\ Recorded(db, command.key) = {}
    /\ \E c \in Outcome(db, command) :
         conn' = {[client |-> who, command |-> command, staged |-> Applied(db, command, c),
                   response |-> c]}

Begin(cl) ==
    /\ client[cl].state = "waiting"
    /\ \E command \in client[cl].command : Execute({cl}, command)
    /\ UNCHANGED <<db, client, orphans, reader>>

\* A request that nobody waits for any more is executed, or comes to nothing: its key
\* is used, it is refused, or its context ends.
OrphanBegins ==
    \E command \in orphans :
      /\ Execute({}, command)
      /\ orphans' = orphans \ {command}
      /\ UNCHANGED <<db, client, reader>>

OrphanEnds ==
    \E command \in orphans :
      /\ orphans' = orphans \ {command}
      /\ UNCHANGED <<db, conn, client, reader>>

Commit ==
    \E tx \in conn :
      /\ db' = tx.staged
      /\ conn' = {}
      /\ client' = [cl \in Clients |->
                      IF cl \in tx.client
                        THEN [client[cl] EXCEPT !.state = "answered", !.response = {tx.response}]
                        ELSE client[cl]]
      /\ UNCHANGED <<orphans, reader>>

Rollback_Answered ==
    \E tx \in conn :
      /\ conn' = {}
      /\ client' = [cl \in Clients |->
                      IF cl \in tx.client
                        THEN [client[cl] EXCEPT !.state = "answered", !.response = {tx.response}]
                        ELSE client[cl]]
      /\ UNCHANGED <<db, orphans, reader>>

\* The context expires or a statement fails: nothing of the transaction remains, and
\* the client gets an error from which it cannot tell (500).
Rollback ==
    \E tx \in conn :
      /\ conn' = {}
      /\ client' = [cl \in Clients |->
                      IF cl \in tx.client THEN [client[cl] EXCEPT !.state = "unknown"]
                      ELSE client[cl]]
      /\ UNCHANGED <<db, orphans, reader>>

\* The process stops and starts again: what is committed remains.
Crash ==
    /\ conn' = {}
    /\ orphans' = {}
    /\ client' = [cl \in Clients |->
                    IF client[cl].state = "waiting" THEN [client[cl] EXCEPT !.state = "unknown"]
                    ELSE client[cl]]
    /\ reader' = [r \in Readers |-> NoRead]
    /\ UNCHANGED db

-------------------------------------------------------------------------------
(* Readers *)

\* Get: the aggregate first, then one query per table, then the credential.  Each query
\* takes the connection anew.
ReadAggregate(r) ==
    /\ conn = {} /\ reader[r].stage = 0
    /\ \E id \in CampaignIds : \E c \in db.campaigns[id] :
         reader' = [reader EXCEPT ![r] = [NoRead EXCEPT !.stage = 1, !.snapshot = {c}]]
    /\ UNCHANGED <<db, conn, client, orphans>>

ReadTable(r) ==
    /\ conn = {} /\ reader[r].stage \in DOMAIN Tables
    /\ \E c \in reader[r].snapshot :
         LET table == Tables[reader[r].stage]
         IN reader' = [reader EXCEPT
              ![r].stage = @ + 1,
              ![r].evidenceMismatch = @ \/ db.rows[c.id][table] # ExpectedEvidenceRows(c)[table]]
    /\ UNCHANGED <<db, conn, client, orphans>>

ReadCredential(r) ==
    /\ conn = {} /\ reader[r].stage = Len(Tables) + 1
    /\ \E c \in reader[r].snapshot :
         reader' = [reader EXCEPT ![r].stage = @ + 1,
                                  ![r].credentialMismatch = db.rows[c.id].credential # c.credential]
    /\ UNCHANGED <<db, conn, client, orphans>>

Answered(r) == reader[r].stage = Len(Tables) + 2

FinishRead(r) ==
    /\ Answered(r)
    /\ reader' = [reader EXCEPT ![r] = NoRead]
    /\ UNCHANGED <<db, conn, client, orphans>>

Next ==
    \/ \E cl \in Clients :
         Send(cl) \/ Resend(cl) \/ GiveUp(cl) \/ Replay(cl) \/ Refuse(cl) \/ Begin(cl)
    \/ OrphanBegins \/ OrphanEnds \/ Commit \/ Rollback \/ Crash
    \/ \E r \in Readers : ReadAggregate(r) \/ ReadTable(r) \/ ReadCredential(r) \/ FinishRead(r)

Spec == Init /\ [][Next]_vars

-------------------------------------------------------------------------------
(* Properties *)

\* At most one transaction is open, and who it will answer still waits for just that
\* command; stored campaigns are well formed.
TypeOK ==
    /\ \A id \in CampaignIds : \A c \in db.campaigns[id] : WellTyped(c) /\ c.id = id
    /\ \A cl \in Clients :
         client[cl].state \in {"idle", "waiting", "unknown", "answered", "refused"}
    /\ \A tx, other \in conn : tx = other
    /\ \A tx \in conn : \A cl \in tx.client :
         client[cl].state = "waiting" /\ client[cl].command = {tx.command}
    /\ \A r \in Readers : reader[r].stage \in 0 .. Len(Tables) + 2

\* A client that was answered can rely on it: the command is recorded with that answer,
\* also when the answer came from a repeated request or after a crash.
AnswersDurable ==
    \A cl \in Clients : client[cl].state = "answered" =>
      \A command \in client[cl].command, response \in client[cl].response :
        [key |-> command.key, request |-> command, response |-> response] \in db.idempotency

\* A client that was refused can rely on it as well: its command has not been applied,
\* not even by an earlier attempt whose answer was lost, and no delayed copy of it ever
\* will be.
RefusalsFinal ==
    \A cl \in Clients : client[cl].state = "refused" =>
      \A command \in client[cl].command :
        /\ \A r \in db.idempotency : r.request # command
        /\ \A tx \in conn : tx.command # command

\* The places in the audit table of a campaign's events.
EventsOf(audit, id) == {i \in DOMAIN audit : audit[i].campaign = id}

\* One event per version, each starting in the status the previous one ended in, the
\* last one in today's version and status.
Timeline(audit, id, stored) ==
    LET events == EventsOf(audit, id)
    IN /\ \A i \in events :
            \/ /\ \A j \in events : i <= j
               /\ audit[i].version = 1 /\ audit[i].from = {}
            \/ \E j \in events :
                 /\ j < i /\ \A k \in events : k <= j \/ i <= k
                 /\ audit[i].version = audit[j].version + 1 /\ audit[i].from = audit[j].to
       /\ \A c \in stored : \E i \in events :
            /\ \A j \in events : j <= i
            /\ audit[i].version = c.version /\ audit[i].to = {c.status}
       /\ stored = {} => events = {}

\* The timeline of a campaign is complete and in order: no change without an event, no
\* event without its change, whatever failed or was repeated in between.
TimelineComplete ==
    \A id \in CampaignIds : Timeline(db.audit, id, db.campaigns[id])

\* The rows of every table say what the aggregate says, but for the text of an empty
\* list of round ids; the credential row is the aggregate's credential.
RowsFollowAggregate ==
    \A id \in CampaignIds : \A c \in db.campaigns[id] :
      LET rows == db.rows[id]
          expected == ExpectedEvidenceRows(c)
          plain(x) == {<<f.finding, f.disposition>> : f \in x.findings}
      IN /\ \A table \in DOMAIN rows \ {"findings"} : rows[table] = expected[table]
         /\ plain(rows) = plain(expected)

\* Verification never reports damage to a campaign that nobody damaged, although it
\* reads aggregate, rows and credential one after the other while commands commit: a
\* credential issued in between reaches neither the rows nor the manifest check of the
\* frozen campaign it read.
VerifyNeverAlarms ==
    \A r \in Readers : Answered(r) =>
      \A c \in reader[r].snapshot :
        VerifyDetailed(c, reader[r].evidenceMismatch, reader[r].credentialMismatch) =
          CASE c.status = "Frozen" -> {"credential_not_issued"}
            [] c.status = "Certified" -> {}
            [] OTHER -> {"not_frozen"}

\* A campaign that can be frozen is never reported blocked because the preflight's
\* queries raced with a command: only the freeze can race, and it rewrites equal rows.
EligiblePreflightNotSpoiled ==
    \A r \in Readers : Answered(r) =>
      \A c \in reader[r].snapshot :
        CanFreeze(c) => FreezeBlockers(c, reader[r].evidenceMismatch) = {}

\* The blocker "persistence_evidence_mismatch" says that snapshot and rows disagree
\* (review.go:174); a read of an undamaged database should never show it.
MismatchOnlyIfDamaged ==
    \A r \in Readers : Answered(r) =>
      \A c \in reader[r].snapshot :
        "persistence_evidence_mismatch" \notin FreezeBlockers(c, reader[r].evidenceMismatch)

Promise == INSTANCE Ledger WITH entries <- db.idempotency, campaigns <- db.campaigns

\* The repository implements the ledger: every command takes effect once, atomically,
\* under its own key, advancing one campaign by one version.
LedgerPromise == Promise!Spec
================================================================================
