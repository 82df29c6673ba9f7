# Verification of cleanroom-monitor-release

TLA+ models, model-checking runs and machine-checked proofs for the service in
`src/`: a Go HTTP service that keeps clean-room monitoring campaigns (sampling
plan, calibration evidence, measurement rounds, review, remediation, freeze,
release credential) in SQLite.

## The system

| component | state it keeps | operations | what is hard | what makes it correct |
|---|---|---|---|---|
| Campaign (`domain/monitoring`) | one aggregate: plan, instruments, rounds, findings, inspection batches, status, version, manifest hash, credential, derived views | NewCampaign, RegisterInstruments, AddRoundByActor, SubmitForReview, DecideFinding, Freeze, Certify | long legal sequences of rounds, reviews and remediations; findings raised again by every review; derived views refreshed by some operations only | no defect reaches a release; nothing recorded is lost; status and findings agree; every stored campaign passes ValidateIntegrity; no review is a dead end |
| Manifest and credential (`certificate`) | none | Hash, Issue, VerifyDetailed | the version the hash is computed from is not the version stored | an untouched campaign verifies, before and after the credential |
| Service (`application`) | none; a clock | the seven commands, preflight, verify | a preflight's answer is used by a later freeze | a candidate stays valid or is refused |
| Repository, write path (`storage/sqlite/repository.go`, `save.go`) | campaigns, five evidence tables, credentials, idempotency records, audit events | Run | concurrent and repeated requests, lost answers, deadlines, rollback, crash | each command takes effect once or never; answers and refusals are final; timeline and rows agree with the aggregate |
| Repository, queries (`query.go`, `consistency.go`) | none | Get, Timeline, detectPersistenceMismatch | a view is put together from seven queries without a transaction; rows and JSON keep values differently | damage is reported if there is some, and only then |
| Schema (`open.go`, `migrations.go`, `diagnostics.go`) | schema version, tables, columns | Open, migrate, verifySchema | upgrade of old databases, interrupted anywhere | no half upgraded database; the service comes up; campaigns do not restrict each other |
| HTTP transport (`transport/httpapi`) | a request counter | handlers, timeout, recovery | the deadline ends the context, not the handler; one connection for all requests | the work on every request ends, with an answer that says what it did, whatever the clients do |
| Process (`cmd/server`) | none | start, shutdown, self check | shutdown after 5 s with commands under way; a self check that others can disturb | shutdown and self check end; the self check vouches for its own evidence only |

The transport decodes a request and calls the service.  For a command the service
checks role and meta data, reads the clock and hands the repository a `Mutation`
with a `Change` closure.  `Run` opens a transaction, looks the idempotency key up,
loads the aggregate, compares the version, calls the closure (the domain
operation), validates the result and writes aggregate, evidence rows, audit event
and idempotency record.  The pool has one connection, so transactions and queries
exclude each other.  Reads go through `Get`, one query after the other, each taking
the connection anew.

## Modules

| module | models | notes |
|---|---|---|
| `Monitoring` | `domain/monitoring` | no variables: a campaign is a record, an operation is a guard (`Can...`) and a result, so that `Campaign` and `Store` share them |
| `Certificate` | `certificate` | SHA-256 as the identity on manifests: it is taken to be collision free |
| `Campaign` | `application/service.go` for one campaign | one action per service operation; `candidate` is the answer of a preflight, which its caller confirms in the freeze |
| `Release` | what a credential promises | abstract; `Campaign` implements it (`Campaign!Promise`) |
| `Store` | `storage/sqlite` and its clients and readers | commands carry the same domain operations; `conn` is the one connection, with the open transaction and what it will write |
| `Ledger` | what the repository promises | abstract: each command applied once, in the version its client had seen; `Store` implements it (`Store!Promise`) |
| `Evidence` | the evidence tables and their comparison with an aggregate | no variables; shared by `Store`, `Damage` and `Upgrade` |
| `Damage` | `Campaign` on a database that is altered from outside | composes the commands with `Run`'s rewriting of rows, the verification and the preflight |
| `Upgrade` | `open.go`, `migrations.go`, `diagnostics.go` | one action per statement of the migration's transaction; the process stops between any two |
| `Clock` | the clock, and the times of one campaign's versions | a command is stamped when it is admitted and stored when it gets the connection |
| `Server` | a request's life in the process: `transport/httpapi`, `run.go`, the pool | what a command does is reduced to the next version and its key |
| `FindingKeys` | the joined keys of findings and their deduplication | `Campaign` with another submission: an id is a sequence, joining is concatenation |
| `SelfCheck` | `selfcheck.go` | the script as a client of `Campaign`, next to other clients |
| `Worklist` | plan summary, findings view, remediation gaps | clients that go by the views; extends `FindingKeys`, so that the checks deduplicate as there |
| `MonitoringProofs` | lemmas about the operations of `Monitoring` and `Certificate` | no variables, so that the proofs about `Campaign`, `Store`, `Damage` and `SelfCheck` share them |
| `CampaignProofs`, `StoreProofs`, `DamageProofs`, `UpgradeProofs`, `ClockProofs`, `ServerProofs`, `SelfCheckProofs` | theorems about the module each is named after, `CampaignProofs` also about `FindingKeys` and `Worklist` | for all values of the constants |
| `MC...` | small instances | the sets of requests; `Clock` is instantiated by its configuration alone |

How the models abstract:

* A nil pointer or an empty optional string is `{}`, a present one a singleton.
  Lists whose order the code fixes by sorting are sets; rounds stay a sequence.
* A finding is the record of what it states (batch, point, code, round, samples,
  missing replicates); `findings` maps it to what was decided.  The code's finding
  id is a hash of the same data.  An inspection batch is named by its source version.
* Times other than the planned date and the calibration period are in `Clock` only, the
  plan summary in `Worklist`, the texts of ids in `FindingKeys`.  Free texts, environment
  readings and the completion ratio are left out.  Values and dates are integers.
* A command's body in `Store` is the operation and its argument; its request hash is
  the command itself.
* A transaction of `Store` is two steps, `Begin` and `Commit` or `Rollback`.
  Everything between them happens with the only connection held, so that no other
  step could see a difference.  SQLite is taken to commit atomically and durably.
* A client may give up at any moment; its request may go on without it (`orphans`).
  Lost answers, deadlines, duplicated and delayed requests are all of this kind.
* An "empty list" of round ids has two texts in the database, `"[]"` and `"null"`
  (`RoundListText`): the model keeps this, because the persistence check compares texts.
* `FindingKeys`, and `Worklist` with it, writes an id as the sequence of what stands between its colons, so that
  two ids joined with a colon are their concatenation; brackets end the part with the
  missing replicates.  The sort before the deduplication is not stable, so that any one
  of several findings with one key may be kept.
* In `Server` a read is `Queries` acquisitions of the connection (two in the runs, for
  the first and for those that follow; `Get` has seven), and the timeline one that goes
  on as a read if there are no events.  Campaigns are not told apart: there is one.
* `Damage` alters what a well-formed file could hold: a row, a round or a decision less
  or other than it was, a row without its campaign.  A read is one step there.
* A database of schema 1 is what the upgrade says it is (`Upgrade`): without batches,
  keys and lists of findings.  The program that wrote it is not in the repository.
* A client of `Store` asks for what the campaign it has just read accepts; refusals
  arise because the campaign has moved on, the key is used, or a primary key is taken.

Operators with a suffix (`CanSubmitForReview_NoGapCheck`) are one mistake each; they
are listed under "mutants" in `PROJECT.json`, and show that the property named there
notices the mistake.

## Runs

`tlc -config X.cfg M`, with the pairs of `PROJECT.json`.  All runs switch the deadlock
check off: a certified campaign takes no further command, a finished instance has no
rounds or keys left, and a campaign can get stuck (see the findings), which its own
property says.

| run | instance | what it shows |
|---|---|---|
| `Review` | 12 create requests at and beyond each rule, 11 instrument requests; two plans are accepted: p1 with one replicate and an upper limit and p2 with two replicates and two limits, or a later plan of p3 with two replicates and limits that coincide; four round ids; every set of samples over four readings (two of p3), routine or remediation, linked to any round | the invariants of the campaign, what a freeze guarantees, history, `Release` |
| `Writers` | two clients, one campaign, three keys (two new ones on offer), two orphans | answers, refusals, `Ledger` |
| `Readers` | two campaigns that compete for the same ids, one client, nine keys, one reader, one point, a measurement that fails and its retest | verification, preflight, timeline, evidence rows |
| `Damaged` | one point, up to two rounds, three alterations | what a verification finds, and what a valid one vouches for |
| `Opening` | no database, and databases of schema 1, 2 and 3 with two campaigns; three stops | no half upgraded database, only the current version is served, the service comes up |
| `Clock` | three clients, three versions, times to 2, one set-back | stamps in order while the clock is steady; a refusal for the time is not final |
| `Overload` | two clients that keep sending, three commands, deadlines, two starts | answers, the end of the work on requests, connection and shutdown |
| `SelfCheck` | the script's own plan and evidence; others with three requests of instruments and rounds that are complete, partial or out of limits | when it fails, and what it certifies |
| `Worklist` | two points, the id of one continuing the other's after a colon, or one point with two replicates; values within and outside the limits; three remediations | every defect has its finding, the views agree, and following them ends in a credential |
| `StuckRemediation`, `RacingPreflight`, `SharedKey` | small | the findings below |

Why the bounds are enough.  Each rule about rounds relates at most a finding, the
round it was found in and the round that remediates it; three rounds add an unrelated
one, four add the remediation of a remediation.  Two points distinguish "the point
of the finding" from "another point", two replicates "one of them" from "all of
them".  The limits are scaled down (2 points, 2 replicates, 3 samples) so that the
requests of `Review` reach and exceed each of them.  The values
within the limits are on them.  In the first plan p1 may fail and succeed in its retest,
next to p2, which may be incomplete; that two measurements fail at once is left to the
other plan, because all combinations in one would take too long.  Round ids are interchangeable and used symmetrically, as are the campaigns of
`Readers`.  In `Store` the hazards need two attempts of one command and one other
command that moves the campaign on: two clients, three keys, two orphans.  `Readers` has
nine keys because the way to a credential with a remediation takes nine commands, and
reads may start at each.  `Damaged` has three alterations because a kind of damage can
hide another at most once in each of aggregate, rows and credential row.  `Opening` has
one stop before, one in and one after the transaction.  In `Clock` an overtaking takes
two commands and a third one makes the version they compete for.  In `Overload` two
requests are enough for one to hold what the other waits for, and since each of them
returns, the number that has been served is not bounded.  In `Worklist` every finding
raised again by a review counts again, so that three remediations let one finding be
remediated, found again and remediated again, next to another one.  Its rounds are bounded by
the sets of round and sample ids (`round \in Round`), which these three remediations do not
exhaust.

### What the properties say

Campaign.  `IntegrityHolds`: no legal sequence leads to an aggregate that
`ValidateIntegrity` refuses.  `OpenWorkIsCurrent`: pending and open findings belong
to the current batch, which is why `FreezeBlockers` may look there only.
`StatusReflectsFindings`, `DerivedViewsFresh` (readiness and progress, and that a campaign
leaves `Draft` when it is ready) and `BatchesAccountForFindings` relate stored summaries to
the data.  `SlotMeasuredOnce`
and `EffectiveMatchesLoop`: which measurements count.  `RemediatedByFullRetest`,
`MeasuredFindingsRetestable`: what remediation takes, and that it can succeed.
`ReviewHasExit`: a review can always be decided or frozen.  `PreflightStaysValid`:
after an eligible preflight only the freeze can happen.  `NoDefectEscapes`: every
planned replicate of a frozen campaign is measured within its limits or accepted by a
reviewer.  `ReleaseGate`, `ManifestVerifies`, `HistoryKept` (an action property), and
`ReleasePromise`, the refinement of `Release`.

Store.  `AnswersDurable`, `RefusalsFinal`: what a client was told stays true,
whatever attempts are still on their way.  `TimelineComplete`, `RowsFollowAggregate`:
audit log and tables agree with the aggregate.  `VerifyNeverAlarms`,
`EligiblePreflightNotSpoiled`: races of `Get` do not reach verification, nor block a
campaign that could be frozen.  A frozen campaign's credential may be issued while it is
verified; its row is then there and the aggregate's is not, which is a mismatch of credentials
that the manifest check must not, and does not, look at.  `LedgerPromise`: the refinement of `Ledger`.

Damage.  `DamageLocated`: a verification of a frozen or certified campaign reports exactly
the checks that the damage is about, whatever was repaired or sealed by commands in between.  `ValidMeansConfirmed`: a
valid report vouches for the evidence that the reviewer's preflight hashed.

Upgrade.  `SchemaWhole`, `EventuallyServes`: an interrupted upgrade leaves nothing behind
that would be refused at the next start, and only a database of the current version is
served.

Clock.  `StampsInOrder`: optimistic versions make up for a clock that is read too early,
as long as clients name only versions that they have been told of.  `TimelyAgain`: a
clock that was set back does not lose a campaign.

Server.  `AnswerTellsEffect`: an answer but 200 says truly whether the attempt made a
version; after a 200, which repeats an earlier result, the version need not be its own.
`HolderWorks`: the only connection is never held by a request that is not working with
it, and so not while its answer is written.  `WorkEnds`: for every request that was received
there is an answer in the end, or it is cut with its process; that the answer is read is up to
the client.  `ShutdownEnds`: a process that was told to stop does, also then.

Others.  `EveryDefectHasFinding`: the deduplication drops nothing but copies.
`FailsOnlyIfDisturbed`, `CertifiesOwnEvidence`: a failing self check is never the script's
own fault, and a passing one never took somebody else's evidence for its own.
`ViewsAgree`, `Certification`: the views tell one story and lead to the end.

### Fairness

* `Upgrade`: weak fairness of opening.  `Open` runs by itself once the process is started,
  and a service that stopped is started again (by its operator: an assumption); stops are
  bounded, or it might never get through.
* `Clock` (`FairSpec`): time goes on, an admitted command gets the connection or its
  deadline, and a client that was told of an internal error asks again.
* `Server`: every handler is a goroutine that is scheduled, and the timers of the
  15-second deadline and of the 5-second shutdown go off (`middleware.go:69`,
  `run.go:36`).  Nothing is assumed about the order in which waiting requests get the
  connection, so that without the deadline a request might be overtaken for ever if
  clients keep sending; nor of clients, so that a request whose body does not come need not
  end, nor one whose answer is not read (there is neither a read nor a write timeout,
  `wiring.go:30`; the deadline ends the context, not `writeJSON`).  `BodyArrives` and `Respond`
  are therefore not part of `Handle` and have no fairness.  Fairness of `Expire` is for each
  request as long as it waits for, or holds, the connection.
* `Worklist`: somebody does something that the views call for, as long as there is any.
  This is an assumption on people; what is shown is that they cannot do the wrong thing.

The other specifications state safety only, without fairness.

## Findings

1. **Remediation without a way out** (`StuckRemediation`).  A point that was never
   measured is reported missing, without a round.  Sent to remediation, this finding
   cannot be closed: a remediation round must name a round, and closes only findings
   of that round (`rounds.go:34`, `rounds.go:199`).  The campaign stays in
   `Remediation`; findings that name a round are fine (`MeasuredFindingsRetestable`).
2. **A preflight that raced** (`RacingPreflight`).  `Get` is not one transaction
   (`query.go:32`); a commit between its queries shows as
   `persistence_evidence_mismatch`.  It cannot spoil a freezable campaign's preflight
   or a verification, as `Readers` shows.
3. **Shared finding keys** (`SharedKey`).  Point `a` with sample `below_limit:x` and point
   `a:below_limit` with sample `x` have one key (`review.go:101`): one of two defects is
   dropped as a duplicate.  With ids none of whose parts is a finding's code this does not
   happen, as `Worklist` shows for an instance and `DefectsHaveFindings` for all.  Otherwise
   findings are all that is lost (`CollisionsCostFindingsOnly`).

Also seen while modelling; the models have this behaviour, but no run is about it, or
they abstract from it:

* A finding without a round has an empty list, which its row keeps as `[]` where the check
  expects `null` (`review.go:102`), until the campaign is next written.
* Ids of points, instruments and rounds are primary keys over all campaigns
  (`migrations.go:14`); the domain asks for uniqueness within one.  The command of the
  second campaign fails with an internal error.
* A preflight shows a mismatch of rows as a blocker; the freeze looks at the aggregate
  alone (`service.go:124`), goes through, and rewrites the rows.  The evidence that is
  sealed is the aggregate's, which the reviewer's preflight hashed (`ValidMeansConfirmed`).
* The upgrade fills new columns of old findings with `'[]'` (`migrations.go:57`) where the
  check expects `null`, and such a campaign breaks the integrity rules for findings
  (`integrity.go:153`), so that no command can store it again.
* A limit of `-0` comes back from its column as `0` (`consistency.go:204`), so that the
  check reports a mismatch (values are integers in the models).

## Proofs

`tlapm CampaignProofs.tla`, and the same for the other modules whose name ends in `Proofs`.

| module | theorem | says |
|---|---|---|
| `CampaignProofs` | `TypeCorrectness` | `Spec => []TypeOK` |
| | `OpenWorkCurrent` | `Spec => []OpenWorkIsCurrent` |
| | `StatusCorrect` | `Spec => []StatusReflectsFindings` |
| | `FrozenMeansDecided` | `Spec => []ReleaseGate` |
| | `HistoryIsKept` | `Spec => HistoryKept` |
| | `VerificationSucceeds` | `Spec => []ManifestVerifies` |
| | `IntegrityAlwaysHolds` | `Spec => []IntegrityHolds` |
| | `SlotsMeasuredOnce` | `Spec => []SlotMeasuredOnce` |
| | `LoopAgrees` | `Spec => []EffectiveMatchesLoop` |
| | `RemediationIsFullRetest` | `Spec => []RemediatedByFullRetest` |
| | `ReviewsEnd` | `Spec => []ReviewHasExit` |
| | `ViewsNeverStale` | `Spec => []DerivedViewsFresh` |
| | `BatchesCountRight` | `Spec => []BatchesAccountForFindings` |
| | `PreflightsStayValid` | `Spec => []PreflightStaysValid` |
| | `DefectsNeverEscape` | `Spec => []NoDefectEscapes` |
| | `FindingsStayRetestable` | `Spec => []MeasuredFindingsRetestable`, if the ids of the retest are not those of requests |
| | `CampaignKeepsPromise` | `Spec => ReleasePromise` |
| | `KeysImplementCampaign` | `KeysSpec => Spec`, if ids avoid codes |
| | `DefectsHaveFindings` | `KeysSpec => []EveryDefectHasFinding`, if ids avoid codes |
| | `ClientsSeeEveryDefect` | `WorkSpec => []EveryDefectHasFinding`, if ids avoid codes |
| | `DefectsKeepKeys` | `KeysSpec => []EveryDefectHasKey`: a defect without a finding of its own has at least one with its key |
| | `IdsStayUnique` | `KeysSpec => []FindingIdsUnique`: no two findings have the same batch and key |
| | `CollisionsCostFindingsOnly` | `KeysSpec => []` of ten properties of `Campaign`, among them `IntegrityHolds`, `ReleaseGate`, `ManifestVerifies`, `ReviewHasExit` and `BatchesAccountForFindings` |
| | `CollisionsKeepHistory` | `KeysSpec => HistoryKept` |
| | `ViewsAlwaysAgree` | `WorkSpec => []ViewsAgree` |
| `StoreProofs` | `StoreTypes` | `Spec => []TypeOK` |
| | `AnswersLast` | `Spec => []AnswersDurable` |
| | `RefusalsLast` | `Spec => []RefusalsFinal` |
| | `RowsFollow` | `Spec => []RowsFollowAggregate` |
| | `StoreKeepsLedger` | `Spec => LedgerPromise` |
| | `VerifyIsRight` | `Spec => []VerifyNeverAlarms` |
| | `EligiblePreflight` | `Spec => []EligiblePreflightNotSpoiled` |
| | `TimelineIsComplete` | `Spec => []TimelineComplete` |
| `DamageProofs` | `DamageIsLocated` | `DamageSpec => []DamageLocated` |
| | `ValidIsConfirmed` | `DamageSpec => []ValidMeansConfirmed` |
| `UpgradeProofs` | `SchemaStaysWhole` | `Spec => []SchemaWhole` |
| `SelfCheckProofs` | `SelfCheckIsItsOwn` | `SelfSpec => []CertifiesOwnEvidence` |
| | `SelfCheckPasses` | `SelfSpec => []FailsOnlyIfDisturbed` |
| `ClockProofs` | `StampsOrdered` | `Spec => []StampsInOrder` |
| `ServerProofs` | `AnswersAreTrue` | `Spec => []AnswerTellsEffect` |
| | `HoldersWork` | `Spec => []HolderWorks` |

No theorem bounds rounds, points, actors, clients, readers, campaigns, requests,
alterations or stops.  The assumptions are the named ones of the modules; each is evaluated
by TLC in the runs.

### Operations on a campaign (`MonitoringProofs`)

`Healthy(c)` is the invariant of a campaign that every operation keeps, whoever calls it.
It has six parts, each with a lemma per operation (`RegisterIntact`, `AddRoundSummed`,
...), which rest on a frame lemma that says what becomes of each field:

* `Sound`: well typed, open work is current, the status fits the findings.
* `SealHolds`: a frozen campaign's hash is the one its verification recomputes, the
  credential binds it, and there is none before `Certified`.
* `Intact`: the rules of `ValidateIntegrity`, and three facts that its rules about links
  need to survive: every sample is of the plan, every finding was found in the evidence that
  is there, and batches are numbered below the version.
* `Summed`: readiness, progress, the counts of batches and the release fields are those
  of the rest.
* `Traced`: slots are measured once, remediated findings are retested, and a review with
  something open has something pending.
* `Accounts`: the findings of the current batch are what a check of the evidence raises.

`Regular(c)` is `Healthy(c)` without `Accounts`, the only part that a dropped finding breaks.
No other part needs `Accounts`, which is why most properties survive where keys collide.

The parts need each other.  That two findings of a batch have different keys needs that
sample ids are unique in all rounds; that a batch can be added, that its number is new; that
a retest answers a finding, that no earlier sample of the point counts any longer.  The code's
loop over the rounds and the declarative `Effective` both keep the samples of the rounds from
the last reset on (`LoopIsEffective`); the induction over the rounds is a least
counterexample (`LeastElement`), since the induction theorems of the library take an operator.

### Campaign

The assumptions are `RequestsAssumption` (requests are records of the right type) and
`LimitsAssumption`.  The first four theorems need `IInv` only: the campaign is
`Sound`, at most one candidate.  A submission makes another batch current, and open work
stays current only because there is none: nothing is open (its guard) and nothing is pending
(the status is `Executing`, which `StatusFits` says excludes it).  A freeze checks pending
findings of the current batch only; that this is all of them is `WorkIsCurrent`.  The other
theorems follow from `HInv`, the campaign is `Healthy`: `NoDefectEscapes` because a frozen
campaign's current findings are what a check raises, and all are accepted;
`PreflightStaysValid` because a review with nothing pending and nothing open refuses every
operation but the freeze.  `ReleasePromise` is shown step by step: an operation in an open
campaign is work or nothing in `Release`, the freeze seals, the credential releases.
`FindingsStayRetestable` names as a hypothesis that the retest's round and sample ids are not
among those of the requests; ids that are in use would be refused.

### Keys and views

`IdsAvoidCodes` says that no id has a finding code between its colons.  It is a hypothesis
of three theorems, and not an assumption of the module, because `identifierPattern` does not
ask for it: `SharedKey` violates it and loses a finding.  Where it holds, the code in a joined
key is the first of its parts that is a code, so that point, code and samples can be read off it
(`JoinApart`, `KeyTextsApart`; a finding has at most one sample), all findings are kept (`AllKept`), and a check is a submission of
`Campaign`.  `KeysImplementCampaign` says so of every behaviour: a stored campaign that has been
`Healthy` so far makes the next step of `KeysSpec` one of `Spec`.  TLC evaluates the hypothesis
for the ids of `Worklist` (`WorkIdsAvoidCodes`).

The other theorems suppose nothing about ids; two of their properties,
`EveryDefectHasKey` and `FindingIdsUnique`, are stated next to them, in `CampaignProofs`.  Their invariant is `KInv`: the campaign is
`Regular`, its current findings are a deduplication of what the evidence raises, no two
findings have the same batch and key, and the plan is finite.  A check keeps it (`CheckRegular`,
`CheckApart`, `CheckKeyed`) whatever it drops: its batch is new, since earlier ones are
numbered below the version, so that counts and ids of earlier batches are left alone.
What is missing is `Accounts`, and with it `NoDefectEscapes`.

`ViewsAlwaysAgree` equates sums over different sets: over points, over entries of the progress,
over metrics.  `MapThenSumSet` takes the elements of its set one by one, in an order that
`CHOOSE` decides.  A sum is therefore shown to be a count (`Stack`: every element with as many
numbers as it has weight), by a least counterexample over the size of the set
(`AccumulatesStack`), and counts of the same pairs, sorted differently, agree
(`StackOfClasses`).  What is decided is what is not pending because open work is current.

### Store

The assumption is `StoreRequestsAssumption`.  `SInv`: every stored campaign is `Healthy`
and its rows are those of its aggregate; keys are recorded once, with the command and its
answer; a client that was answered finds its record, and the command of one that was refused is
`Dead` (not on record, and the key is taken or nothing would come of it); the open
transaction, if there is one, holds what its command makes of the database as it is.
What is dead stays dead (`DeadKept`): the client had seen the version it named, so that no
later version is that one; an id in use stays in use.  `LedgerPromise`: a commit is a step of
`Ledger`, every other action a stutter.

`RInv` adds what a reader between two queries may rely on.  If the campaign it has
read is settled (it can be frozen, or is), what is stored now has the same
evidence, since only a freeze and a credential are still to come; so no table that it
compares can differ.  `AInv` adds that the audit table is a sequence and tells every
campaign's life.

### Damage

`altered`, a history variable, names what was altered since it was last written or sealed.
`DInv` says what the data looks like then: a frozen aggregate that is not named is what was
hashed, rows that are not named are those of the aggregate; one that is named has lost
something (`EvidenceLost`, `RowsLost`; a credential row is gone or names another version).  The
second half is the one that could fail, by an alteration that undoes an earlier one.  It
cannot, because every alteration takes something away (a round, a value other than 0, an
instrument, a row, a decision) and none brings anything back.  The invariant of a campaign
is not used: commands load a damaged aggregate and work on it.

### Upgrade

The assumption is `FilesAssumption`: a database that is found is of one schema, as a version
of the program leaves it.  `UpgradeInv` follows the copy in the open transaction from
statement to statement (`Halfway`): which columns it has after the first `k` of them.

### Self check

`SelfInv`: the campaign's version is never below the one the script saw last, and if it is
that one, the campaign holds just what the script has put there.  `PassInv` adds, for
`FailsOnlyIfDisturbed`, that an undisturbed script is at the current version, with the status
and the number of events that its next request needs.  `ScriptFitsAssumption` says that
the script's evidence suits its plan (instruments in service for every metric, every
replicate measured, within the limits, under ids of its own): the constants of
`selfcheck.go:53-82` are such, which TLC evaluates in `SelfCheck`; without it the self check
would fail by itself.

### Clock and server

The assumption of `Clock` is `ClockAssumption` (the bounds are natural numbers).  The order of
the stamps is not inductive: a command that overtakes an earlier one could be stamped too
late.  `SteadyInv` adds that nobody expects a version that is still to come (`NoneAhead`),
and that, while the clock is steady, no stamp is later than a command that can still be
accepted (`StampsPast`): such a command was sent when the campaign had its present version
already.

The assumption of `Server` is `ServerAssumption` (there is at least one query and one start).
Neither property is inductive.  `ServerInv` adds the type of a request's record and what it
has made so far (`Told`): nothing before its work is done, and then what its status says.
A deadline that answers 500 is right because of the former, and the answer of a handler that
did its work because of the latter.  The theorems use no fairness.

### Only model-checked

* Liveness (`EventuallyServes`, `TimelyAgain`, `WorkEnds`, `ShutdownEnds`,
  `Certification`): fairness and `ENABLED` are out of the prover's reach.
* The properties of the violation runs, which the code does not have
  (`EveryDefectHasFinding` of `SharedKey` under a hypothesis on ids only).
* `NoDefectEscapes` where keys collide: it does not hold there; the frozen campaign of
  finding 3 is one without it.

## Not modelled

* `config.go`, `main.go`: the parsing of flags and environment variables; it has no state.
* `validation.go` apart from numbers and colons: rules about the length and the alphabet
  of texts, each about one string.
* `copy.go`: TLA+ values do not alias, so that what it protects against cannot be said.
* Roles as a restriction of who does what: the role is a claim in the request that nothing
  checks against the actor, so that every client can have every role.  `Server` models the
  refusal.
* Routing, decoding, the texts of errors, logging, security headers, health.
* What SQLite does inside a transaction: taken to be atomic and durable.  `quick_check` of
  `verifySchema` is about files that are not databases.
* `json.Marshal` failing, and the sizes of requests.
* A stray row of another campaign stops every write (`diagnostics.go:61`); `Damage`
  models this, but there is no promise in the code that it would break.
* That the hash of an inspection batch's id is unique (`review.go:36`): a batch is named by its
  source version, of which a campaign has one.
* Floating point: limits and values are integers, which keeps every comparison of the code
  but not the conversions of `json` and of REAL columns.

## Plan

All components are modelled but for the parts listed above, and every safety property of the
passing runs is proved, `EveryDefectHasFinding` under its hypothesis.  What is left:

* The lemmas behind liveness that are not temporal: in `Clock` that a refused command
  becomes acceptable, in `Worklist` that following the views always has a next step until
  the campaign is certified.
