------------------------------ MODULE Monitoring ------------------------------
(***************************************************************************)
(* The domain rules of a monitoring campaign                               *)
(* (src/internal/domain/monitoring): the plan, the instruments, the        *)
(* measurement rounds, the review with its findings, the freeze and the    *)
(* integrity rules every stored aggregate has to satisfy.                  *)
(*                                                                         *)
(* A campaign is a record, as it is one struct in the code, and an         *)
(* operation is a pair of operators on that record: the guard (Can...: the *)
(* code's early returns) and the result.  The module has no variables, so  *)
(* that the life cycle of one campaign (Campaign) and the repository that  *)
(* keeps several (Store) are built from the same definitions.              *)
(*                                                                         *)
(* Conventions.  A nil pointer or an empty optional string is the empty    *)
(* set, a present one a singleton.  A list whose order the code fixes by   *)
(* sorting (points, instruments, samples, findings, batches) is a set;     *)
(* rounds stay a sequence, because later rounds supersede earlier ones.    *)
(*                                                                         *)
(* An operator whose name carries a suffix, such as                        *)
(* CanSubmitForReview_NoGapCheck, is the operator that follows it with one *)
(* plausible mistake.  Nothing uses it: PROJECT.json names it to show that *)
(* a property notices the mistake.                                         *)
(***************************************************************************)
EXTENDS Integers, Sequences, FiniteSets, FiniteSetsExt

CONSTANTS
    CampaignIds, PointIds, InstrumentIds, RoundIds, SampleIds, Actors,
    Texts,                  \* labels, metrics, units, serial numbers, references
    MaxSamplingPoints,      \* 256 in the code
    MaxRequiredReplicates,  \* 100
    MaxCampaignSampleCount  \* 10000

ASSUME LimitsAssumption ==
    /\ MaxSamplingPoints \in Nat \ {0}
    /\ MaxRequiredReplicates \in Nat \ {0}
    /\ MaxCampaignSampleCount \in Nat \ {0}

-------------------------------------------------------------------------------
(* Types *)

Optional(S) == {x \in SUBSET S : \A a, b \in x : a = b}

Statuses == {"Draft", "Ready", "Executing", "ReviewPending", "Remediation",
             "Frozen", "Certified"}
Decisions == {"Pending", "Accepted", "NeedsRemediation", "Remediated"}
RoundKinds == {"Routine", "Remediation"}
FindingCodes == {"missing_replicates", "below_limit", "above_limit"}

Point == [id : PointIds, label : Texts, metric : Texts, unit : Texts,
          required : Int, lower : Optional(Int), upper : Optional(Int)]

Instrument == [id : InstrumentIds, serialNumber : Texts, certificateRef : Texts,
               calibratedAt : Int, expiresAt : Int, coveredMetrics : SUBSET Texts]

Sample == [id : SampleIds, point : PointIds, replicate : Int, value : Int, unit : Texts]

Round == [id : RoundIds, kind : RoundKinds, supersedes : Optional(RoundIds),
          recordedBy : Actors, samples : SUBSET Sample]

\* What a finding states; it never changes once raised.  The inspection batch
\* that raised it is named by its source version.
Finding == [batch : Nat, point : PointIds, code : FindingCodes,
            round : Optional(RoundIds), samples : SUBSET SampleIds, missing : SUBSET Nat]

\* What has been decided about a finding.
Disposition == [decision : Decisions, decidedBy : Optional(Actors),
                remediationRound : Optional(RoundIds)]

Undecided == [decision |-> "Pending", decidedBy |-> {}, remediationRound |-> {}]

CampaignFields == {"id", "plannedDate", "points", "status", "version", "instruments",
                   "readiness", "rounds", "progress", "findings", "batches",
                   "currentBatch", "manifestHash", "frozenVersion", "credential"}

WellTyped(c) ==
    /\ DOMAIN c = CampaignFields
    /\ c.id \in CampaignIds
    /\ c.plannedDate \in Int
    /\ c.points \subseteq Point
    /\ c.status \in Statuses
    /\ c.version \in Nat \ {0}
    /\ c.instruments \subseteq Instrument
    /\ c.rounds \in Seq(Round)
    /\ DOMAIN c.findings \subseteq Finding
    /\ c.findings \in [DOMAIN c.findings -> Disposition]
    /\ c.currentBatch \in Optional(Nat)
    /\ c.frozenVersion \in Nat

IsFrozen(status) == status \in {"Frozen", "Certified"}

-------------------------------------------------------------------------------
(* The plan: NewCampaign *)

ValidPoint(p) ==
    /\ p.required \in 1 .. MaxRequiredReplicates
    /\ p.lower \cup p.upper # {}
    /\ \A l \in p.lower, u \in p.upper : l <= u

\* Two points of one plan differ in id and label and agree on a metric's unit.
Compatible(p, q) ==
    /\ p.id # q.id
    /\ p.label # q.label
    /\ p.metric = q.metric => p.unit = q.unit

PlannedSamples(points) == MapThenSumSet(LAMBDA p : p.required, points)

CanCreate(plan) ==
    /\ Len(plan) \in 1 .. MaxSamplingPoints
    /\ \A i \in DOMAIN plan : ValidPoint(plan[i])
    /\ \A i, j \in DOMAIN plan : i # j => Compatible(plan[i], plan[j])
    /\ PlannedSamples({plan[i] : i \in DOMAIN plan}) <= MaxCampaignSampleCount

-------------------------------------------------------------------------------
(* Derived views *)

InService(instrument, date) ==
    ~(instrument.expiresAt < date \/ instrument.calibratedAt > date)

Readiness(points, instruments, date) ==
    LET required == {p.metric : p \in points}
        covered == {m \in required : \E i \in instruments :
                        InService(i, date) /\ m \in i.coveredMetrics}
    IN [required |-> required, covered |-> covered, missing |-> required \ covered,
        ready |-> required # {} /\ required = covered]

Covers(round, point) == \E s \in round.samples : s.point = point

Effective_AnyRoundResets(rounds, point) ==
    LET standing == {i \in DOMAIN rounds :
                       \A j \in DOMAIN rounds : j > i => ~Covers(rounds[j], point)}
    IN UNION {{[sample |-> s, round |-> i] : s \in {t \in rounds[i].samples : t.point = point}}
                : i \in standing}

\* The samples of a point that count: a remediation round that retests the point
\* discards everything measured there before.  (EffectiveByLoop is the code's
\* loop; the two are compared on every reachable campaign.)
Effective(rounds, point) ==
    LET standing == {i \in DOMAIN rounds :
                       \A j \in DOMAIN rounds :
                           j > i => ~(rounds[j].kind = "Remediation" /\ Covers(rounds[j], point))}
    IN UNION {{[sample |-> s, round |-> i] : s \in {t \in rounds[i].samples : t.point = point}}
                : i \in standing}

EffectiveByLoop(rounds, point) ==
    LET add(i, kept) ==
            kept \cup {[sample |-> s, round |-> i] :
                          s \in {t \in rounds[i].samples : t.point = point}}
        reset(i, kept) ==
            IF rounds[i].kind = "Remediation" /\ Covers(rounds[i], point) THEN {} ELSE kept
        result[i \in 0 .. Len(rounds)] ==
            IF i = 0 THEN {} ELSE add(i, reset(i, result[i - 1]))
    IN result[Len(rounds)]

\* byReplicate: the last effective sample of each replicate.
ByReplicate(rounds, point) ==
    LET effective == Effective(rounds, point)
    IN {e \in effective : \A d \in effective :
            d.sample.replicate = e.sample.replicate => d.round <= e.round}

Collected(rounds, p) ==
    {r \in 1 .. p.required : \E e \in Effective(rounds, p.id) : e.sample.replicate = r}

MissingReplicates(rounds, p) == (1 .. p.required) \ Collected(rounds, p)

SamplingProgress(points, rounds) ==
    LET of(p) == [collected |-> Cardinality(Collected(rounds, p)),
                  missing |-> MissingReplicates(rounds, p)]
    IN [points |-> {[point |-> p.id, progress |-> of(p)] : p \in points},
        complete |-> /\ points # {}
                     /\ \A p \in points : of(p).missing = {}]

RefreshDerivedViews(c) ==
    [c EXCEPT !.readiness = Readiness(c.points, c.instruments, c.plannedDate),
              !.progress = SamplingProgress(c.points, c.rounds)]

NewCampaign_NoVersion(id, date, plan) ==
    LET points == {plan[i] : i \in DOMAIN plan}
    IN [id |-> id, plannedDate |-> date, points |-> points, status |-> "Draft",
        version |-> 0, instruments |-> {}, readiness |-> Readiness(points, {}, date),
        rounds |-> << >>, progress |-> SamplingProgress(points, << >>),
        findings |-> [f \in {} |-> Undecided], batches |-> {}, currentBatch |-> {},
        manifestHash |-> {}, frozenVersion |-> 0, credential |-> {}]

NewCampaign(id, date, plan) ==
    LET points == {plan[i] : i \in DOMAIN plan}
    IN [id |-> id, plannedDate |-> date, points |-> points, status |-> "Draft",
        version |-> 1, instruments |-> {}, readiness |-> Readiness(points, {}, date),
        rounds |-> << >>, progress |-> SamplingProgress(points, << >>),
        findings |-> [f \in {} |-> Undecided], batches |-> {}, currentBatch |-> {},
        manifestHash |-> {}, frozenVersion |-> 0, credential |-> {}]

Touch(c) == [c EXCEPT !.version = @ + 1]

-------------------------------------------------------------------------------
(* Instruments: RegisterInstruments.  A request is a sequence of instruments, all of *)
(* which are registered or none.                                                     *)

NaturalKey(i) == <<i.serialNumber, i.calibratedAt, i.coveredMetrics>>

Distinguishable(i, j) ==
    /\ i.id # j.id
    /\ i.certificateRef # j.certificateRef
    /\ NaturalKey(i) # NaturalKey(j)

ValidCalibration(i) ==
    /\ i.expiresAt > i.calibratedAt
    /\ i.coveredMetrics # {}

CanRegisterInstruments_StoredOnly(c, items) ==
    /\ c.status = "Draft"
    /\ items # << >>
    /\ \A k \in DOMAIN items :
         /\ ValidCalibration(items[k])
         /\ InService(items[k], c.plannedDate)
         /\ \A i \in c.instruments : Distinguishable(items[k], i)

CanRegisterInstruments(c, items) ==
    /\ c.status = "Draft"
    /\ items # << >>
    /\ \A k \in DOMAIN items :
         /\ ValidCalibration(items[k])
         /\ InService(items[k], c.plannedDate)
         /\ \A i \in c.instruments : Distinguishable(items[k], i)
         /\ \A l \in DOMAIN items : k # l => Distinguishable(items[k], items[l])

RegisterInstruments_StaleReadiness(c, items) ==
    RefreshDerivedViews(Touch(
         [c EXCEPT !.instruments = c.instruments \cup {items[k] : k \in DOMAIN items},
                   !.status = IF c.readiness.ready THEN "Ready" ELSE @]))

RegisterInstruments(c, items) ==
    LET all == c.instruments \cup {items[k] : k \in DOMAIN items}
        ready == Readiness(c.points, all, c.plannedDate).ready
    IN RefreshDerivedViews(Touch(
         [c EXCEPT !.instruments = all,
                   !.status = IF ready THEN "Ready" ELSE @]))

-------------------------------------------------------------------------------
(* Measurement rounds: AddRoundByActor *)

RoundIdsOf(rounds) == {rounds[i].id : i \in DOMAIN rounds}
SamplesOf(rounds) == UNION {rounds[i].samples : i \in DOMAIN rounds}

DecisionOf(c, f) == c.findings[f].decision
Open(c) == {f \in DOMAIN c.findings : DecisionOf(c, f) = "NeedsRemediation"}
Pending(c) == {f \in DOMAIN c.findings : DecisionOf(c, f) = "Pending"}
CurrentFindings(c) == {f \in DOMAIN c.findings : f.batch \in c.currentBatch}

SameSlot(s, t) == s.point = t.point /\ s.replicate = t.replicate

InPlan(points, s) ==
    \E p \in points : /\ s.point = p.id
                      /\ s.replicate \in 1 .. p.required
                      /\ s.unit = p.unit

SamplesAdmissible_OwnRoundOnly(c, round) ==
    \A s \in round.samples :
      /\ InPlan(c.points, s)
      /\ \A t \in round.samples : s # t => s.id # t.id /\ ~SameSlot(s, t)
      /\ \A t \in SamplesOf(c.rounds) : s.id # t.id

SamplesAdmissible_AllKinds(c, round) ==
    \A s \in round.samples :
      /\ InPlan(c.points, s)
      /\ \A t \in round.samples : s # t => s.id # t.id /\ ~SameSlot(s, t)
      /\ \A t \in SamplesOf(c.rounds) : s.id # t.id /\ ~SameSlot(s, t)

\* What validates the samples of a round against each other, the plan and the
\* earlier rounds.  Only a routine round may not repeat a slot already measured.
SamplesAdmissible(c, round) ==
    \A s \in round.samples :
      /\ InPlan(c.points, s)
      /\ \A t \in round.samples : s # t => s.id # t.id /\ ~SameSlot(s, t)
      /\ \A t \in SamplesOf(c.rounds) :
           /\ s.id # t.id
           /\ round.kind = "Routine" => ~SameSlot(s, t)

RemediationCoverage_AnyReplicate(c, round) ==
    \A s \in round.samples :
      /\ \E i \in DOMAIN c.rounds :
           c.rounds[i].id \in round.supersedes /\ Covers(c.rounds[i], s.point)
      /\ \E f \in Open(c) : f.round = round.supersedes /\ f.point = s.point

\* validateRemediationCoverage: only points that the superseded round measured and
\* that have an open finding against that round, and all replicates of each.
RemediationCoverage(c, round) ==
    /\ \A s \in round.samples :
         /\ \E i \in DOMAIN c.rounds :
              c.rounds[i].id \in round.supersedes /\ Covers(c.rounds[i], s.point)
         /\ \E f \in Open(c) : f.round = round.supersedes /\ f.point = s.point
    /\ \A p \in c.points : Covers(round, p.id) =>
         \A r \in 1 .. p.required :
           \E s \in round.samples : s.point = p.id /\ s.replicate = r

RemediationMode(c) == c.status = "Remediation" \/ Open(c) # {}

CanAddRound_DuringReview(c, round, actor) ==
    /\ c.status \in {"Ready", "Executing", "Remediation", "ReviewPending"}
    /\ round.samples # {}
    /\ round.recordedBy = actor
    /\ round.id \notin RoundIdsOf(c.rounds)
    /\ ~RemediationMode(c) /\ round.kind = "Routine"
    /\ SamplesAdmissible(c, round)

CanAddRound_ReusedId(c, round, actor) ==
    /\ c.status \in {"Ready", "Executing"}
    /\ round.samples # {}
    /\ round.recordedBy = actor
    /\ round.kind = "Routine"
    /\ SamplesAdmissible(c, round)

CanAddRound(c, round, actor) ==
    /\ c.status \in {"Ready", "Executing", "Remediation"}
    /\ round.samples # {}
    /\ round.recordedBy = actor
    /\ round.id \notin RoundIdsOf(c.rounds)
    /\ IF RemediationMode(c)
         THEN /\ round.kind = "Remediation"
              /\ round.supersedes # {}
              /\ round.supersedes \subseteq RoundIdsOf(c.rounds)
         ELSE round.kind = "Routine"
    /\ SamplesAdmissible(c, round)
    /\ round.kind = "Remediation" => RemediationCoverage(c, round)

\* closeCoveredRemediation: the findings that the round remediates.
ClosedBy(c, round) ==
    {f \in Open(c) : /\ round.kind = "Remediation"
                     /\ f.round = round.supersedes
                     /\ Covers(round, f.point)}

CloseCoveredRemediation(c, round) ==
    [c EXCEPT !.findings =
        [f \in DOMAIN c.findings |->
            IF f \in ClosedBy(c, round)
              THEN [c.findings[f] EXCEPT !.decision = "Remediated",
                                         !.remediationRound = {round.id}]
              ELSE c.findings[f]]]

AddRound_NoRefresh(c, round) ==
    LET closed == CloseCoveredRemediation([c EXCEPT !.rounds = Append(@, round)], round)
        status == IF Open(closed) # {} THEN "Remediation" ELSE "Executing"
    IN Touch([closed EXCEPT !.status = status])

AddRound(c, round) ==
    LET closed == CloseCoveredRemediation([c EXCEPT !.rounds = Append(@, round)], round)
        status == IF Open(closed) # {} THEN "Remediation" ELSE "Executing"
    IN RefreshDerivedViews(Touch([closed EXCEPT !.status = status]))

-------------------------------------------------------------------------------
(* Review: SubmitForReview and DecideFinding *)

\* latestPointRound: the round of the last effective sample, "" if there is none.
LatestPointRound(rounds, point) ==
    {rounds[e.round].id : e \in {x \in Effective(rounds, point) :
                                   \A y \in Effective(rounds, point) : y.round <= x.round}}

MissingFindings_SampledPoints(rounds, p, batch) ==
    IF MissingReplicates(rounds, p) = {} \/ Effective(rounds, p.id) = {} THEN {}
    ELSE {[batch |-> batch, point |-> p.id, code |-> "missing_replicates",
           round |-> LatestPointRound(rounds, p.id), samples |-> {},
           missing |-> MissingReplicates(rounds, p)]}

MissingFindings(rounds, p, batch) ==
    IF MissingReplicates(rounds, p) = {} THEN {}
    ELSE {[batch |-> batch, point |-> p.id, code |-> "missing_replicates",
           round |-> LatestPointRound(rounds, p.id), samples |-> {},
           missing |-> MissingReplicates(rounds, p)]}

Violations(p, value) ==
    {code \in {"below_limit", "above_limit"} :
        \/ code = "below_limit" /\ \E l \in p.lower : value < l
        \/ code = "above_limit" /\ \E u \in p.upper : value > u}

LimitFindings(rounds, p, batch) ==
    UNION {{[batch |-> batch, point |-> p.id, code |-> code, round |-> {rounds[e.round].id},
             samples |-> {e.sample.id}, missing |-> {}]
              : code \in Violations(p, e.sample.value)}
           : e \in {x \in ByReplicate(rounds, p.id) : x.sample.replicate \in 1 .. p.required}}

\* What a check of the effective evidence against the plan finds.
Raised(points, rounds, batch) ==
    UNION {MissingFindings(rounds, p, batch) \cup LimitFindings(rounds, p, batch) : p \in points}

EffectiveRounds(points, rounds) ==
    UNION {{rounds[e.round].id : e \in Effective(rounds, p.id)} : p \in points}

InspectionBatch(points, rounds, version) ==
    [id |-> version,
     rounds |-> EffectiveRounds(points, rounds),
     stats |-> {[point |-> p.id, collected |-> Cardinality(Collected(rounds, p)),
                 required |-> p.required] : p \in points},
     findingCount |-> Cardinality(Raised(points, rounds, version))]

CanSubmitForReview_NoGapCheck(c) == c.status \in {"Executing", "Remediation"}

CanSubmitForReview(c) ==
    /\ Open(c) = {}                 \* RemediationGaps
    /\ c.status = "Executing"

SubmitForReview_TotalCount(c) ==
    LET raised == Raised(c.points, c.rounds, c.version)
        counted == [InspectionBatch(c.points, c.rounds, c.version)
                      EXCEPT !.findingCount = Cardinality(DOMAIN c.findings \cup raised)]
    IN RefreshDerivedViews(Touch(
         [c EXCEPT !.batches = @ \cup {counted},
                   !.currentBatch = {c.version},
                   !.findings = [f \in DOMAIN @ \cup raised |->
                                   IF f \in DOMAIN c.findings THEN c.findings[f] ELSE Undecided],
                   !.status = "ReviewPending"]))

SubmitForReview(c) ==
    LET raised == Raised(c.points, c.rounds, c.version)
    IN RefreshDerivedViews(Touch(
         [c EXCEPT !.batches = @ \cup {InspectionBatch(c.points, c.rounds, c.version)},
                   !.currentBatch = {c.version},
                   !.findings = [f \in DOMAIN @ \cup raised |->
                                   IF f \in DOMAIN c.findings THEN c.findings[f] ELSE Undecided],
                   !.status = "ReviewPending"]))

CanDecideFinding_Again(c, f, decision, noted) ==
    /\ c.status = "ReviewPending"
    /\ decision \in {"Accepted", "NeedsRemediation"}
    /\ f \in DOMAIN c.findings
    /\ f.batch \in c.currentBatch
    /\ decision = "NeedsRemediation" => noted

CanDecideFinding(c, f, decision, noted) ==
    /\ c.status = "ReviewPending"
    /\ decision \in {"Accepted", "NeedsRemediation"}
    /\ f \in DOMAIN c.findings
    /\ f.batch \in c.currentBatch
    /\ DecisionOf(c, f) = "Pending"
    /\ decision = "NeedsRemediation" => noted

DecideFinding_AtOnce(c, f, decision, actor) ==
    LET judged == [c EXCEPT !.findings[f] = [@ EXCEPT !.decision = decision,
                                                      !.decidedBy = {actor}]]
    IN Touch([judged EXCEPT !.status =
                IF decision = "NeedsRemediation" THEN "Remediation" ELSE @])

DecideFinding_LastCounts(c, f, decision, actor) ==
    LET judged == [c EXCEPT !.findings[f] = [@ EXCEPT !.decision = decision,
                                                      !.decidedBy = {actor}]]
        last == CurrentFindings(judged) \cap Pending(judged) = {}
    IN Touch([judged EXCEPT !.status =
                IF last /\ decision = "NeedsRemediation" THEN "Remediation" ELSE @])

DecideFinding(c, f, decision, actor) ==
    LET judged == [c EXCEPT !.findings[f] = [@ EXCEPT !.decision = decision,
                                                      !.decidedBy = {actor}]]
        current == CurrentFindings(judged)
        status == IF /\ current \cap Pending(judged) = {}
                     /\ current \cap Open(judged) # {}
                  THEN "Remediation" ELSE c.status
    IN Touch([judged EXCEPT !.status = status])

-------------------------------------------------------------------------------
(* Integrity: what every aggregate must satisfy to be stored; parts of it, to be frozen. *)
(* Nothing is checked on loading.                                                        *)

PointsIntact(c) ==
    /\ \A p \in c.points : ValidPoint(p)
    /\ \A p, q \in c.points : p # q => Compatible(p, q)
    /\ Cardinality(c.points) <= MaxSamplingPoints
    /\ PlannedSamples(c.points) <= MaxCampaignSampleCount

InstrumentsIntact(c) ==
    /\ \A i \in c.instruments : ValidCalibration(i)
    /\ \A i, j \in c.instruments : i # j => Distinguishable(i, j)

RoundsIntact(c) ==
    \A i \in DOMAIN c.rounds :
      LET round == c.rounds[i]
          earlier == {j \in DOMAIN c.rounds : j < i}
      IN /\ round.kind = "Remediation" =>
              /\ round.supersedes # {}
              /\ round.supersedes \subseteq {c.rounds[j].id : j \in earlier}
         /\ \A j \in earlier : c.rounds[j].id # round.id
         /\ \A s \in round.samples :
              /\ \E p \in c.points : p.id = s.point
              /\ s.replicate >= 1
              /\ \A t \in round.samples : s # t => s.id # t.id
              /\ \A j \in earlier : \A t \in c.rounds[j].samples : s.id # t.id

FindingKey(f) == <<f.point, f.code, f.samples, f.missing>>

FindingsIntact(c) ==
    \A f \in DOMAIN c.findings :
      LET d == c.findings[f]
      IN /\ \E b \in c.batches : b.id = f.batch
         /\ \A g \in DOMAIN c.findings :
              f # g => <<f.batch, FindingKey(f)>> # <<g.batch, FindingKey(g)>>
         /\ \E p \in c.points : p.id = f.point
         /\ f.round \subseteq RoundIdsOf(c.rounds)
         /\ d.decision = "Pending" <=> d.decidedBy = {}
         /\ d.decision = "Remediated" =>
              /\ d.remediationRound # {}
              /\ d.remediationRound \subseteq RoundIdsOf(c.rounds)

BatchesIntact(c) ==
    /\ \A a, b \in c.batches : a # b => a.id # b.id
    /\ \A b \in c.batches : b.id >= 1 /\ b.rounds \subseteq RoundIdsOf(c.rounds)
    /\ c.currentBatch \subseteq {b.id : b \in c.batches}

ReleaseIntact(c) ==
    /\ IF IsFrozen(c.status)
         THEN c.manifestHash # {} /\ c.frozenVersion \in 1 .. c.version
         ELSE c.manifestHash = {} /\ c.frozenVersion = 0
    /\ c.status = "Certified" <=> c.credential # {}
    /\ \A k \in c.credential : /\ k.campaign = c.id
                               /\ k.frozenVersion = c.frozenVersion
                               /\ {k.manifestHash} = c.manifestHash

ValidateIntegrity(c) ==
    /\ c.version >= 1
    /\ c.points # {}
    /\ PointsIntact(c)
    /\ InstrumentsIntact(c)
    /\ RoundsIntact(c)
    /\ FindingsIntact(c)
    /\ BatchesIntact(c)
    /\ ReleaseIntact(c)

-------------------------------------------------------------------------------
(* Freeze and Certify.  "mismatch" is PersistenceEvidenceMismatch, which only the    *)
(* repository's Get sets; inside a transaction it is FALSE.                          *)

FreezeBlockers_NoPending(c, mismatch) ==
    {code \in {"invalid_freeze_status", "unclosed_remediation"} :
        \/ code = "invalid_freeze_status" /\ c.status # "ReviewPending"
        \/ code = "unclosed_remediation" /\ Open(c) # {}}

FreezeBlockers(c, mismatch) ==
    LET blocked ==
          [persistence_evidence_mismatch |-> mismatch,
           invalid_freeze_status |-> c.status # "ReviewPending",
           pending_finding |-> CurrentFindings(c) \cap Pending(c) # {},
           unclosed_remediation |-> Open(c) # {},
           calibration_coverage_incomplete |->
               ~Readiness(c.points, c.instruments, c.plannedDate).ready,
           sampling_plan_reference_invalid |-> ~PointsIntact(c),
           calibration_evidence_invalid |-> ~InstrumentsIntact(c),
           evidence_reference_invalid |-> ~RoundsIntact(c),
           finding_reference_invalid |-> ~FindingsIntact(c),
           check_batch_reference_invalid |-> ~BatchesIntact(c)]
    IN {code \in DOMAIN blocked : blocked[code]}

CanFreeze(c) == FreezeBlockers(c, FALSE) = {}

Freeze_EarlyVersion(c, hash) ==
    Touch([c EXCEPT !.manifestHash = {hash}, !.status = "Frozen", !.frozenVersion = c.version])

Freeze(c, hash) ==
    LET frozen == Touch([c EXCEPT !.manifestHash = {hash}, !.status = "Frozen"])
    IN [frozen EXCEPT !.frozenVersion = frozen.version]

CanCertify(c, credential) ==
    /\ c.status = "Frozen"
    /\ credential.campaign = c.id
    /\ credential.frozenVersion = c.frozenVersion
    /\ {credential.manifestHash} = c.manifestHash
    /\ c.credential = {}

Certify(c, credential) ==
    Touch([c EXCEPT !.credential = {credential}, !.status = "Certified"])
===============================================================================
