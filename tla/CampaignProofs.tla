---------------------------- MODULE CampaignProofs ----------------------------
(***************************************************************************)
(* Theorems about Campaign, and at the end about FindingKeys and Worklist, *)
(* for every plan, every set of requests and every limit, under the        *)
(* assumptions of these modules only.                                      *)
(*                                                                         *)
(* The invariant that is inductive is IInv: the campaign is Sound (well    *)
(* typed, its open work in the current batch, its status fitting its       *)
(* findings) and at most one candidate is held.  A freeze looks for        *)
(* pending findings in the current batch only, so that "everything was     *)
(* decided" cannot be shown from the freeze's guard alone: it needs        *)
(* WorkIsCurrent, which a submission keeps because its own guard and       *)
(* StatusFits leave no work open when the current batch changes.           *)
(*                                                                         *)
(* The other properties rest on HInv: the campaign is Healthy.  That is    *)
(* Sound together with what its seal, its evidence, its stored summaries   *)
(* and its findings owe each other (MonitoringProofs); each of them needs  *)
(* some of the others to survive an operation.                             *)
(*                                                                         *)
(* The lemmas about the operations are those of MonitoringProofs; added    *)
(* here are, per operation, a Keeps lemma (it loses nothing), and the      *)
(* steps of Release that the operations are.                               *)
(*                                                                         *)
(* FindingKeys and Worklist: where ids avoid finding codes, joined keys    *)
(* tell findings apart and everything above applies.  Whatever the ids,    *)
(* KInv holds: the campaign is Regular (Healthy but for the findings that  *)
(* a check drops) and its findings are one per key.  The sums of the views *)
(* are compared as counts of pairs.                                        *)
(***************************************************************************)
EXTENDS Worklist, MonitoringProofs

IInv == Sound(campaign) /\ \A k, l \in candidate : k = l

-------------------------------------------------------------------------------
(* The theorems. *)

LEMMA Initially == Init => IInv
<1> SUFFICES ASSUME Init PROVE IInv
  OBVIOUS
<1>1. PICK plan \in Plans :
        campaign = NewCampaign(plan.id, plan.plannedDate, plan.points)
  BY DEF Init
<1>2. plan.id \in CampaignIds /\ plan.plannedDate \in Int /\ plan.points \in Seq(Point)
  BY RequestsAssumption
<1>3. Sound(campaign)
  BY <1>1, <1>2, NewCampaignSound
<1>4. QED
  BY <1>3 DEF IInv, Init

LEMMA Inductively == IInv /\ [Next]_vars => IInv'
<1> SUFFICES ASSUME Sound(campaign), \A k, l \in candidate : k = l, [Next]_vars
             PROVE  Sound(campaign') /\ \A k, l \in candidate' : k = l
  BY DEF IInv
<1>1. CASE RegisterInstrumentsAction
  <2>1. PICK items \in InstrumentRequests :
          /\ CanRegisterInstruments(campaign, items)
          /\ campaign' = RegisterInstruments(campaign, items)
          /\ candidate' = candidate
    BY <1>1 DEF RegisterInstrumentsAction
  <2>2. QED
    BY <2>1, RegisterSound, RequestsAssumption
<1>2. CASE AddRoundAction
  <2>1. PICK round \in RoundRequests, actor \in Actors :
          /\ CanAddRound(campaign, round, actor)
          /\ campaign' = AddRound(campaign, round)
          /\ candidate' = candidate
    BY <1>2 DEF AddRoundAction
  <2>2. QED
    BY <2>1, AddRoundSound, RequestsAssumption
<1>3. CASE SubmitForReviewAction
  BY <1>3, SubmitSound DEF SubmitForReviewAction
<1>4. CASE DecideFindingAction
  <2>1. PICK f \in DOMAIN campaign.findings, decision \in Decisions, noted \in BOOLEAN,
             actor \in Actors :
          /\ CanDecideFinding(campaign, f, decision, noted)
          /\ campaign' = DecideFinding(campaign, f, decision, actor)
          /\ candidate' = candidate
    BY <1>4 DEF DecideFindingAction
  <2>2. QED
    BY <2>1, DecideSound
<1>5. CASE FreezePreflightAction
  BY <1>5 DEF FreezePreflightAction
<1>6. CASE FreezeAction
  BY <1>6, FreezeSound DEF FreezeAction
<1>7. CASE IssueAction
  BY <1>7, CertifySound DEF IssueAction, CanCertify
<1>8. CASE UNCHANGED vars
  BY <1>8 DEF vars
<1>9. QED
  BY <1>1, <1>2, <1>3, <1>4, <1>5, <1>6, <1>7, <1>8 DEF Next

LEMMA Invariance == Spec => []IInv
BY Initially, Inductively, PTL DEF Spec

\* Type correctness: whatever plans, instruments and rounds are requested, the stored
\* campaign stays a well formed record (NewCampaign and all operations of the service).
THEOREM TypeCorrectness == Spec => []TypeOK
<1>1. IInv => TypeOK
  BY DEF IInv, Sound, TypeOK
<1>2. QED
  BY <1>1, Invariance, PTL

\* Pending decisions and open remediations belong to the current inspection batch, so
\* that FreezeBlockers, which looks for pending findings only there, misses none.
THEOREM OpenWorkCurrent == Spec => []OpenWorkIsCurrent
<1>1. IInv => OpenWorkIsCurrent
  BY DEF IInv, Sound, WorkIsCurrent, OpenWorkIsCurrent
<1>2. QED
  BY <1>1, Invariance, PTL

\* The status never lies about the findings (SubmitForReview, DecideFinding and
\* AddRoundByActor keep the two in step).
THEOREM StatusCorrect == Spec => []StatusReflectsFindings
<1>1. IInv => StatusReflectsFindings
  BY DEF IInv, Sound, StatusFits, StatusReflectsFindings
<1>2. QED
  BY <1>1, Invariance, PTL

\* No campaign is frozen or certified with a finding, of whatever batch, that was not
\* accepted or remediated (CanFreeze, Freeze, Certify).
THEOREM FrozenMeansDecided == Spec => []ReleaseGate
<1>1. IInv => ReleaseGate
  <2> SUFFICES ASSUME Sound(campaign), IsFrozen(campaign.status),
                      NEW f \in DOMAIN campaign.findings
               PROVE  DecisionOf(campaign, f) \in {"Accepted", "Remediated"}
    BY DEF IInv, ReleaseGate
  <2>1. DecisionOf(campaign, f) \in Decisions
    BY DEF Sound, WellTyped, Disposition, DecisionOf
  <2>2. Pending(campaign) = {} /\ Open(campaign) = {}
    BY DEF Sound, StatusFits, IsFrozen
  <2>3. QED
    BY <2>1, <2>2 DEF Pending, Open, Decisions
<1>2. QED
  BY <1>1, Invariance, PTL

-------------------------------------------------------------------------------
(* Nothing recorded is lost: one lemma per operation, then the action property. *)

Keeps(c, d) ==
    /\ d.version = c.version + 1
    /\ d.points = c.points
    /\ c.instruments \subseteq d.instruments
    /\ c.batches \subseteq d.batches
    /\ \A i \in DOMAIN c.rounds : i \in DOMAIN d.rounds /\ d.rounds[i] = c.rounds[i]
    /\ \A f \in DOMAIN c.findings :
         f \in DOMAIN d.findings /\ MayBecome(DecisionOf(c, f), DecisionOf(d, f))

LEMMA RegisterKeeps ==
  ASSUME NEW c, Sound(c), NEW items
  PROVE  Keeps(c, RegisterInstruments(c, items))
<1> DEFINE d == RegisterInstruments(c, items)
<1>1. DOMAIN c = CampaignFields
  BY DEF Sound, WellTyped
<1>2. /\ d.version = c.version + 1 /\ d.points = c.points /\ c.instruments \subseteq d.instruments
      /\ d.batches = c.batches /\ d.rounds = c.rounds /\ d.findings = c.findings
  BY <1>1, RegisterFrame DEF CampaignFields
<1> HIDE DEF d
<1>3. Keeps(c, d)
  BY <1>2 DEF Keeps, MayBecome, DecisionOf
<1>4. QED
  BY <1>3 DEF d

LEMMA AddRoundKeeps ==
  ASSUME NEW c, Sound(c), NEW round \in Round
  PROVE  Keeps(c, AddRound(c, round))
<1> DEFINE d == AddRound(c, round)
<1>1. DOMAIN c = CampaignFields
  BY DEF Sound, WellTyped
<1>2. /\ d.version = c.version + 1 /\ d.points = c.points /\ d.instruments = c.instruments
      /\ d.batches = c.batches /\ d.rounds = Append(c.rounds, round)
      /\ d.findings = Closed(c, round).findings
  BY <1>1, AddRoundFrame DEF CampaignFields
<1>3. Closed(c, round).findings = [f \in DOMAIN c.findings |->
                                     IF f \in ClosedBy(c, round)
                                       THEN Remedied(c.findings[f], round.id)
                                       ELSE c.findings[f]]
  BY <1>1, ClosedFrame
<1> HIDE DEF d
<1>4. ASSUME NEW f \in DOMAIN c.findings
      PROVE  f \in DOMAIN d.findings /\ MayBecome(DecisionOf(c, f), DecisionOf(d, f))
  <2>1. CASE f \in ClosedBy(c, round)
    <3>1. DecisionOf(c, f) = "NeedsRemediation"
      BY <2>1 DEF ClosedBy, Open
    <3>2. c.findings[f] \in Disposition /\ round.id \in RoundIds
      BY DEF Sound, WellTyped, Round
    <3>3. DecisionOf(d, f) = "Remediated"
      BY <1>2, <1>3, <2>1, <3>2, DispositionTyped DEF DecisionOf
    <3>4. QED
      BY <1>2, <1>3, <3>1, <3>3 DEF MayBecome
  <2>2. CASE f \notin ClosedBy(c, round)
    BY <1>2, <1>3, <2>2 DEF MayBecome, DecisionOf
  <2>3. QED
    BY <2>1, <2>2
<1>5. ASSUME NEW i \in DOMAIN c.rounds PROVE i \in DOMAIN d.rounds /\ d.rounds[i] = c.rounds[i]
  <2>1. c.rounds \in Seq(Round)
    BY DEF Sound, WellTyped
  <2>2. QED
    BY <1>2, <2>1
<1>6. Keeps(c, d)
  BY <1>2, <1>4, <1>5 DEF Keeps
<1>7. QED
  BY <1>6 DEF d

LEMMA SubmitKeeps ==
  ASSUME NEW c, Sound(c)
  PROVE  Keeps(c, SubmitForReview(c))
<1> DEFINE d == SubmitForReview(c)
           raised == Raised(c.points, c.rounds, c.version)
<1>1. DOMAIN c = CampaignFields
  BY DEF Sound, WellTyped
<1>2. /\ d.version = c.version + 1 /\ d.points = c.points /\ d.instruments = c.instruments
      /\ c.batches \subseteq d.batches /\ d.rounds = c.rounds
      /\ d.findings = [f \in (DOMAIN c.findings) \cup raised |->
                         IF f \in DOMAIN c.findings THEN c.findings[f] ELSE Undecided]
  <2>1. /\ d.version = c.version + 1
        /\ d.findings = [f \in (DOMAIN c.findings) \cup raised |->
                           IF f \in DOMAIN c.findings THEN c.findings[f] ELSE Undecided]
        /\ d.batches = c.batches \cup {InspectionBatch(c.points, c.rounds, c.version)}
        /\ \A g \in CampaignFields \ {"status", "version", "readiness", "progress",
                                          "currentBatch", "findings", "batches"} : d[g] = c[g]
    BY <1>1, SubmitFrame
  <2> HIDE DEF d, raised
  <2>2. QED
    BY <2>1 DEF CampaignFields
<1> HIDE DEF d, raised
<1>3. Keeps(c, d)
  BY <1>2 DEF Keeps, MayBecome, DecisionOf
<1>4. QED
  BY <1>3 DEF d

LEMMA DecideKeeps ==
  ASSUME NEW c, Sound(c), NEW f, NEW decision, NEW noted, NEW actor \in Actors,
         CanDecideFinding(c, f, decision, noted)
  PROVE  Keeps(c, DecideFinding(c, f, decision, actor))
<1> DEFINE d == DecideFinding(c, f, decision, actor)
           judged == Judged(c, f, decision, actor)
<1>1. DOMAIN c = CampaignFields
  BY DEF Sound, WellTyped
<1>2. /\ d.version = c.version + 1
      /\ d.findings = judged.findings
      /\ judged.findings = [g \in DOMAIN c.findings |->
           IF g = f THEN Decided(c.findings[g], decision, actor) ELSE c.findings[g]]
      /\ \A g \in CampaignFields \ {"status", "version", "findings"} : d[g] = c[g]
  BY <1>1, DecideFrame
<1> HIDE DEF d, judged
<1>3. /\ d.points = c.points /\ d.instruments = c.instruments
      /\ d.batches = c.batches /\ d.rounds = c.rounds
  BY <1>2 DEF CampaignFields
<1>4. /\ f \in DOMAIN c.findings /\ DecisionOf(c, f) = "Pending"
      /\ decision \in {"Accepted", "NeedsRemediation"}
  BY DEF CanDecideFinding
<1>5. DecisionOf(d, f) = decision
  BY <1>2, <1>4, DispositionTyped DEF DecisionOf, Sound, WellTyped, Decisions
<1>6. \A g \in DOMAIN c.findings : MayBecome(DecisionOf(c, g), DecisionOf(d, g))
  BY <1>2, <1>4, <1>5 DEF MayBecome, DecisionOf
<1>7. Keeps(c, d)
  BY <1>2, <1>3, <1>6 DEF Keeps
<1>8. QED
  BY <1>7 DEF d

LEMMA FreezeKeeps ==
  ASSUME NEW c, Sound(c), NEW hash
  PROVE  Keeps(c, Freeze(c, hash))
<1> DEFINE d == Freeze(c, hash)
<1>1. DOMAIN c = CampaignFields
  BY DEF Sound, WellTyped
<1>2. /\ d.version = c.version + 1 /\ d.points = c.points /\ d.instruments = c.instruments
      /\ d.batches = c.batches /\ d.rounds = c.rounds /\ d.findings = c.findings
  BY <1>1, FreezeFrame DEF CampaignFields
<1> HIDE DEF d
<1>3. Keeps(c, d)
  BY <1>2 DEF Keeps, MayBecome, DecisionOf
<1>4. QED
  BY <1>3 DEF d

LEMMA CertifyKeeps ==
  ASSUME NEW c, Sound(c), NEW credential
  PROVE  Keeps(c, Certify(c, credential))
<1> DEFINE d == Certify(c, credential)
<1>1. DOMAIN c = CampaignFields
  BY DEF Sound, WellTyped
<1>2. /\ d.version = c.version + 1 /\ d.points = c.points /\ d.instruments = c.instruments
      /\ d.batches = c.batches /\ d.rounds = c.rounds /\ d.findings = c.findings
  BY <1>1, CertifyFrame DEF CampaignFields
<1> HIDE DEF d
<1>3. Keeps(c, d)
  BY <1>2 DEF Keeps, MayBecome, DecisionOf
<1>4. QED
  BY <1>3 DEF d

LEMMA StepKeeps ==
  ASSUME Sound(campaign), [Next]_vars
  PROVE  campaign' = campaign \/ Keeps(campaign, campaign')
<1>1. CASE RegisterInstrumentsAction
  BY <1>1, RegisterKeeps DEF RegisterInstrumentsAction
<1>2. CASE AddRoundAction
  BY <1>2, AddRoundKeeps, RequestsAssumption DEF AddRoundAction
<1>3. CASE SubmitForReviewAction
  BY <1>3, SubmitKeeps DEF SubmitForReviewAction
<1>4. CASE DecideFindingAction
  <2>1. PICK f \in DOMAIN campaign.findings, decision \in Decisions, noted \in BOOLEAN,
             actor \in Actors :
          /\ CanDecideFinding(campaign, f, decision, noted)
          /\ campaign' = DecideFinding(campaign, f, decision, actor)
    BY <1>4 DEF DecideFindingAction
  <2>2. QED
    BY <2>1, DecideKeeps
<1>5. CASE FreezePreflightAction
  BY <1>5 DEF FreezePreflightAction
<1>6. CASE FreezeAction
  BY <1>6, FreezeKeeps DEF FreezeAction
<1>7. CASE IssueAction
  BY <1>7, CertifyKeeps DEF IssueAction
<1>8. CASE UNCHANGED vars
  BY <1>8 DEF vars
<1>9. QED
  BY <1>1, <1>2, <1>3, <1>4, <1>5, <1>6, <1>7, <1>8 DEF Next

\* Nothing recorded is lost or rewritten: plan, instruments, rounds, batches and
\* findings stay, a decision moves only forward, every change is one version.
THEOREM HistoryIsKept == Spec => HistoryKept
<1> DEFINE Kept ==
      /\ campaign' # campaign => campaign'.version = campaign.version + 1
      /\ campaign'.points = campaign.points
      /\ campaign.instruments \subseteq campaign'.instruments
      /\ campaign.batches \subseteq campaign'.batches
      /\ \A i \in DOMAIN campaign.rounds :
           i \in DOMAIN campaign'.rounds /\ campaign'.rounds[i] = campaign.rounds[i]
      /\ \A f \in DOMAIN campaign.findings :
           /\ f \in DOMAIN campaign'.findings
           /\ MayBecome(DecisionOf(campaign, f), DecisionOf(campaign', f))
<1>1. IInv /\ [Next]_vars => [Kept]_vars
  BY StepKeeps DEF IInv, Keeps, MayBecome, DecisionOf
<1>2. QED
  BY <1>1, Invariance, PTL DEF Spec, HistoryKept

-------------------------------------------------------------------------------
(* The seal of a frozen campaign is the hash its verification recomputes. *)

LEMMA StepSeal ==
  ASSUME Sound(campaign), SealHolds(campaign), [Next]_vars
  PROVE  SealHolds(campaign')
<1>1. CASE RegisterInstrumentsAction
  BY <1>1, RegisterSeal DEF RegisterInstrumentsAction
<1>2. CASE AddRoundAction
  BY <1>2, AddRoundSeal DEF AddRoundAction
<1>3. CASE SubmitForReviewAction
  BY <1>3, SubmitSeal DEF SubmitForReviewAction
<1>4. CASE DecideFindingAction
  BY <1>4, DecideSeal DEF DecideFindingAction
<1>5. CASE FreezePreflightAction
  BY <1>5 DEF FreezePreflightAction
<1>6. CASE FreezeAction
  BY <1>6, FreezeSeal DEF FreezeAction, ConfirmsCandidate
<1>7. CASE IssueAction
  BY <1>7, CertifySeal DEF IssueAction
<1>8. CASE UNCHANGED vars
  BY <1>8 DEF vars
<1>9. QED
  BY <1>1, <1>2, <1>3, <1>4, <1>5, <1>6, <1>7, <1>8 DEF Next

\* The manifest recomputed at the version before the freeze is the sealed one, for every
\* frozen and every certified campaign, and a certified campaign verifies as valid.
THEOREM VerificationSucceeds == Spec => []ManifestVerifies
<1>1. Init => SealHolds(campaign)
  BY NewCampaignSeal DEF Init
<1>2. IInv /\ SealHolds(campaign) /\ [Next]_vars => SealHolds(campaign)'
  BY StepSeal DEF IInv
<1>3. SealHolds(campaign) => ManifestVerifies
  BY SealedCampaignVerifies DEF ManifestVerifies
<1>4. QED
  BY <1>1, <1>2, <1>3, Invariance, PTL DEF Spec

-------------------------------------------------------------------------------
(* The campaign stays healthy. *)

HInv == Healthy(campaign)

LEMMA HealthyAtFirst == Init => HInv
<1> SUFFICES ASSUME Init PROVE HInv
  OBVIOUS
<1>1. PICK plan \in Plans :
        CanCreate(plan.points) /\ campaign = NewCampaign(plan.id, plan.plannedDate, plan.points)
  BY DEF Init
<1>2. plan.id \in CampaignIds /\ plan.plannedDate \in Int /\ plan.points \in Seq(Point)
  BY RequestsAssumption
<1>3. QED
  BY <1>1, <1>2, NewCampaignHealthy DEF HInv

LEMMA HealthyNext == HInv /\ [Next]_vars => HInv'
<1> SUFFICES ASSUME Healthy(campaign), [Next]_vars PROVE Healthy(campaign')
  BY DEF HInv
<1>1. CASE RegisterInstrumentsAction
  BY <1>1, RegisterHealthy, RequestsAssumption DEF RegisterInstrumentsAction
<1>2. CASE AddRoundAction
  BY <1>2, AddRoundHealthy, RequestsAssumption DEF AddRoundAction
<1>3. CASE SubmitForReviewAction
  BY <1>3, SubmitHealthy DEF SubmitForReviewAction
<1>4. CASE DecideFindingAction
  BY <1>4, DecideHealthy DEF DecideFindingAction
<1>5. CASE FreezePreflightAction
  BY <1>5 DEF FreezePreflightAction
<1>6. CASE FreezeAction
  BY <1>6, FreezeHealthy DEF FreezeAction, ConfirmsCandidate
<1>7. CASE IssueAction
  BY <1>7, CertifyHealthy DEF IssueAction
<1>8. CASE UNCHANGED vars
  BY <1>8 DEF vars
<1>9. QED
  BY <1>1, <1>2, <1>3, <1>4, <1>5, <1>6, <1>7, <1>8 DEF Next

LEMMA AlwaysHealthy == Spec => []HInv
BY HealthyAtFirst, HealthyNext, PTL DEF Spec

-------------------------------------------------------------------------------
(* What follows from it at once. *)

\* No sequence of accepted requests makes a campaign that the check before a save
\* (ValidateIntegrity) would refuse: a legal command never fails for integrity.
THEOREM IntegrityAlwaysHolds == Spec => []IntegrityHolds
<1>1. HInv => IntegrityHolds
  BY RegularValid DEF HInv, Healthy, Regular, IntegrityHolds
<1>2. QED
  BY <1>1, AlwaysHealthy, PTL

\* Whatever routine and remediation rounds were recorded, in whatever order, no
\* replicate of a point has two measurements that count (AddRoundByActor).
THEOREM SlotsMeasuredOnce == Spec => []SlotMeasuredOnce
<1>1. HInv => SlotMeasuredOnce
  BY DEF HInv, Healthy, Traced, SlotsOnce, SlotMeasuredOnce
<1>2. QED
  BY <1>1, AlwaysHealthy, PTL

\* The loop of effectiveSamplesForPoint keeps exactly the samples that the
\* declarative definition says, on every campaign with any number of rounds.
THEOREM LoopAgrees == Spec => []EffectiveMatchesLoop
<1>1. HInv => EffectiveMatchesLoop
  BY LoopIsEffective DEF HInv, Healthy, Sound, WellTyped, EffectiveMatchesLoop
<1>2. QED
  BY <1>1, AlwaysHealthy, PTL

\* Every remediated finding was closed by a round that superseded its round and
\* measured all replicates of its point, and the samples it objected to have not
\* counted since (validateRemediationCoverage, closeCoveredRemediation).
THEOREM RemediationIsFullRetest == Spec => []RemediatedByFullRetest
<1>1. HInv => RemediatedByFullRetest
  BY DEF HInv, Healthy, Traced, Retested, RetestedBy, RemediatedByFullRetest
<1>2. QED
  BY <1>1, AlwaysHealthy, PTL

\* A review cannot get stuck: with no decision left to take in it, none of the freeze
\* blockers applies.  (That the decision can be taken is DecideFinding's guard.)
THEOREM ReviewsEnd == Spec => []ReviewHasExit
<1>1. HInv => ReviewHasExit
  BY DecidedReviewFreezes DEF HInv, Healthy, Regular, ReviewHasExit
<1>2. QED
  BY <1>1, AlwaysHealthy, PTL

\* The derived views that decisions, freezes and certificates leave alone are those of
\* the evidence all the same, and Draft ends exactly when the instruments suffice.
THEOREM ViewsNeverStale == Spec => []DerivedViewsFresh
<1>1. HInv => DerivedViewsFresh
  BY DEF HInv, Healthy, Summed, ViewsFresh, LeftDraft, DerivedViewsFresh
<1>2. QED
  BY <1>1, AlwaysHealthy, PTL

\* The finding count of every batch, also of an old one, is the number of findings
\* recorded under it (SubmitForReview).
THEOREM BatchesCountRight == Spec => []BatchesAccountForFindings
<1>1. HInv => BatchesAccountForFindings
  BY DEF HInv, Healthy, Summed, CountsFit, FindingsOf, BatchesAccountForFindings
<1>2. QED
  BY <1>1, AlwaysHealthy, PTL

-------------------------------------------------------------------------------
(* Nothing but the freeze can follow an eligible preflight. *)

LEMMA PreflightStep ==
  ASSUME Healthy(campaign), \A k, l \in candidate : k = l, PreflightStaysValid, [Next]_vars
  PROVE  PreflightStaysValid'
<1> SUFFICES ASSUME NEW k \in candidate'
             PROVE  IF IsFrozen(campaign'.status) THEN campaign'.manifestHash = {k.hash}
                    ELSE CanFreeze(campaign') /\ ConfirmsCandidate(campaign', k)
  BY DEF PreflightStaysValid
<1>1. DOMAIN campaign = CampaignFields
  BY DEF Healthy, Sound, WellTyped
<1>2. ASSUME k \in candidate
      PROVE  IF IsFrozen(campaign.status) THEN campaign.manifestHash = {k.hash}
             ELSE CanFreeze(campaign) /\ ConfirmsCandidate(campaign, k)
  BY <1>2 DEF PreflightStaysValid
<1>3. CanFreeze(campaign) => /\ campaign.status = "ReviewPending"
                             /\ CurrentFindings(campaign) \cap Pending(campaign) = {}
  BY FreezeGuard
<1>4. CASE RegisterInstrumentsAction
  BY <1>2, <1>3, <1>4 DEF RegisterInstrumentsAction, CanRegisterInstruments, IsFrozen
<1>5. CASE AddRoundAction
  BY <1>2, <1>3, <1>5 DEF AddRoundAction, CanAddRound, IsFrozen
<1>6. CASE SubmitForReviewAction
  BY <1>2, <1>3, <1>6 DEF SubmitForReviewAction, CanSubmitForReview, IsFrozen
<1>7. CASE DecideFindingAction
  <2>1. PICK f \in DOMAIN campaign.findings, decision \in Decisions, noted \in BOOLEAN :
          CanDecideFinding(campaign, f, decision, noted)
    BY <1>7 DEF DecideFindingAction
  <2>2. /\ campaign.status = "ReviewPending"
        /\ f \in CurrentFindings(campaign) \cap Pending(campaign)
    BY <2>1 DEF CanDecideFinding, CurrentFindings, Pending
  <2>3. k \in candidate
    BY <1>7 DEF DecideFindingAction
  <2>4. QED
    BY <1>2, <1>3, <2>2, <2>3 DEF IsFrozen
<1>8. CASE FreezePreflightAction
  <2>1. /\ CanFreeze(campaign) /\ campaign' = campaign
        /\ k = [version |-> campaign.version, hash |-> Hash(campaign)]
    BY <1>8 DEF FreezePreflightAction, CanFreeze
  <2>2. QED
    BY <1>3, <2>1 DEF IsFrozen, ConfirmsCandidate
<1>9. CASE FreezeAction
  <2>1. PICK l \in candidate : campaign' = Freeze(campaign, l.hash) /\ candidate' = candidate
    BY <1>9 DEF FreezeAction
  <2>2. k = l
    BY <2>1
  <2>3. campaign'.status = "Frozen" /\ campaign'.manifestHash = {l.hash}
    BY <1>1, <2>1, FreezeFrame
  <2>4. QED
    BY <2>2, <2>3 DEF IsFrozen
<1>10. CASE IssueAction
  <2>1. PICK credential : /\ campaign.status = "Frozen"
                          /\ campaign' = Certify(campaign, credential)
                          /\ candidate' = candidate
    BY <1>10 DEF IssueAction, CanIssue
  <2>2. campaign'.status = "Certified" /\ campaign'.manifestHash = campaign.manifestHash
    BY <1>1, <2>1, CertifyFrame DEF CampaignFields
  <2>3. QED
    BY <1>2, <2>1, <2>2 DEF IsFrozen
<1>11. CASE UNCHANGED vars
  BY <1>2, <1>11 DEF vars
<1>12. QED
  BY <1>4, <1>5, <1>6, <1>7, <1>8, <1>9, <1>10, <1>11 DEF Next

\* The candidate of an eligible preflight stays acceptable until it is used, and what
\* the freeze then stores is its hash: everything else is refused in between.
THEOREM PreflightsStayValid == Spec => []PreflightStaysValid
<1>1. Init => PreflightStaysValid
  BY DEF Init, PreflightStaysValid
<1>2. HInv /\ IInv /\ PreflightStaysValid /\ [Next]_vars => PreflightStaysValid'
  BY PreflightStep DEF HInv, IInv
<1>3. QED
  BY <1>1, <1>2, AlwaysHealthy, Invariance, PTL DEF Spec

-------------------------------------------------------------------------------
(* No defect escapes. *)

\* Once nothing waits any more, each replicate that was not measured, or not within its
\* limits, has an accepted finding: the check that the submission made raised one for it
\* and the evidence has not changed since.
LEMMA NothingUnresolved ==
  ASSUME NEW c, Healthy(c), c.status \in {"ReviewPending", "Frozen", "Certified"},
         Pending(c) = {}, Open(c) = {}
  PROVE  UnresolvedSlots(c) = {}
<1>1. c.points \in SUBSET Point /\ c.rounds \in Seq(Round)
  BY DEF Healthy, Sound, WellTyped
<1>2. PICK b : CurrentFindings(c) = Raised(c.points, c.rounds, b)
  BY DEF Healthy, Accounts
<1>3. ASSUME NEW f \in Raised(c.points, c.rounds, b) PROVE f \in AcceptedNow(c)
  <2>1. f \in CurrentFindings(c) /\ f \in DOMAIN c.findings
    BY <1>2 DEF CurrentFindings
  <2>2. DecisionOf(c, f) \in Decisions
    BY <2>1 DEF Healthy, Sound, WellTyped, Disposition, DecisionOf
  <2>3. DecisionOf(c, f) # "Remediated"
    BY <2>1 DEF Healthy, Accounts
  <2>4. QED
    BY <2>1, <2>2, <2>3 DEF Pending, Open, Decisions, AcceptedNow
<1>4. ASSUME NEW p \in c.points, NEW r \in 1 .. p.required,
             {e \in EffectiveByLoop(c.rounds, p.id) : e.sample.replicate = r} = {}
      PROVE  \E f \in AcceptedNow(c) : f.point = p.id /\ r \in f.missing
  <2>1. r \in MissingReplicates(c.rounds, p)
    BY <1>1, <1>4, LoopIsEffective DEF MissingReplicates, Collected
  <2>2. MissingFinding(c.rounds, p, b) \in Raised(c.points, c.rounds, b)
    BY <2>1 DEF Raised, MissingFindings, MissingFinding
  <2>3. QED
    BY <1>3, <2>1, <2>2 DEF MissingFinding
<1>5. ASSUME NEW p \in c.points, NEW r \in 1 .. p.required,
             NEW e \in EffectiveByLoop(c.rounds, p.id), e.sample.replicate = r,
             ~WithinLimits(p, e.sample.value)
      PROVE  \E f \in AcceptedNow(c) : f.point = p.id /\ e.sample.id \in f.samples
  <2>1. e \in Effective(c.rounds, p.id) /\ e.round \in Nat
    BY <1>1, LoopIsEffective, EffectiveShape
  <2>2. \A d \in Effective(c.rounds, p.id) :
          d.sample.replicate = e.sample.replicate => d = e
    BY <1>1, <2>1, EffectiveShape DEF Healthy, Traced, SlotsOnce, SameSlot
  <2>3. e \in ByReplicate(c.rounds, p.id)
    BY <2>1, <2>2 DEF ByReplicate
  <2>4. PICK code \in {"below_limit", "above_limit"} : code \in Violations(p, e.sample.value)
    <3>1. e.sample.value \in Int
      BY <1>1, <2>1, EffectiveTyped DEF Sample
    <3>2. p.lower \subseteq Int /\ p.upper \subseteq Int
      BY <1>1 DEF Point, Optional
    <3>3. CASE \E l \in p.lower : ~(e.sample.value >= l)
      <4>1. \E l \in p.lower : e.sample.value < l
        BY <3>1, <3>2, <3>3
      <4>2. "below_limit" \in Violations(p, e.sample.value)
        BY <4>1 DEF Violations
      <4>3. QED
        BY <4>2
    <3>4. CASE \E u \in p.upper : ~(e.sample.value <= u)
      <4>1. \E u \in p.upper : e.sample.value > u
        BY <3>1, <3>2, <3>4
      <4>2. "above_limit" \in Violations(p, e.sample.value)
        BY <4>1 DEF Violations
      <4>3. QED
        BY <4>2
    <3>5. QED
      BY <1>5, <3>3, <3>4 DEF WithinLimits
  <2>5. LimitFinding(c.rounds, p, b, e, code) \in Raised(c.points, c.rounds, b)
    <3> DEFINE Of(x) == {LimitFinding(c.rounds, p, b, x, y) : y \in Violations(p, x.sample.value)}
               checked == {x \in ByReplicate(c.rounds, p.id) : x.sample.replicate \in 1 .. p.required}
    <3>1. LimitFindings(c.rounds, p, b) = UNION {Of(x) : x \in checked}
      BY DEF LimitFindings, LimitFinding
    <3>2. e \in checked
      BY <1>5, <2>3
    <3>3. LimitFinding(c.rounds, p, b, e, code) \in Of(e)
      BY <2>4
    <3> HIDE DEF Of, checked
    <3>4. LimitFinding(c.rounds, p, b, e, code) \in LimitFindings(c.rounds, p, b)
      BY <3>1, <3>2, <3>3
    <3>5. QED
      BY <3>4 DEF Raised
  <2>6. QED
    BY <1>3, <2>5 DEF LimitFinding
<1>6. QED
  BY <1>4, <1>5 DEF UnresolvedSlots

\* Every planned replicate of a frozen campaign is measured within its limits or covered
\* by an accepted finding of the current batch (SubmitForReview, DecideFinding, Freeze).
THEOREM DefectsNeverEscape == Spec => []NoDefectEscapes
<1>1. HInv => NoDefectEscapes
  <2> SUFFICES ASSUME Healthy(campaign), IsFrozen(campaign.status)
               PROVE  UnresolvedSlots(campaign) = {}
    BY DEF HInv, NoDefectEscapes
  <2>1. campaign.status \in {"Frozen", "Certified"}
    BY DEF IsFrozen
  <2>2. Pending(campaign) = {} /\ Open(campaign) = {}
    BY <2>1 DEF Healthy, Sound, StatusFits
  <2>3. QED
    BY <2>1, <2>2, NothingUnresolved
<1>2. QED
  BY <1>1, AlwaysHealthy, PTL

-------------------------------------------------------------------------------
(* Remediation can be carried out. *)

\* A retest of the point of an open finding, with ids that nobody has used, is accepted
\* and closes the finding, if the finding names the round it was found in.
LEMMA RetestIsAccepted ==
  ASSUME "retest" \notin RoundIds, \A x, k : <<"retest", x, k>> \notin SampleIds,
         NEW c, Healthy(c), c.status = "Remediation",
         NEW f \in Open(c), f.round # {}
  PROVE  RetestAccepted(c, f)
<1> SUFFICES ASSUME NEW p \in c.points, NEW actor \in Actors, p.id = f.point
             PROVE  /\ CanAddRound(c, Retest(c, p, f.round, actor), actor)
                    /\ f \in ClosedBy(c, Retest(c, p, f.round, actor))
  BY DEF RetestAccepted
<1> DEFINE round == Retest(c, p, f.round, actor)
           sample(k) == [id |-> <<"retest", p.id, k>>, point |-> p.id, replicate |-> k,
                         value |-> 0, unit |-> p.unit]
<1>1. /\ round.id = "retest" /\ round.kind = "Remediation" /\ round.supersedes = f.round
      /\ round.recordedBy = actor /\ round.samples = {sample(k) : k \in 1 .. p.required}
  BY DEF Retest
<1>2. \A k : /\ sample(k).id = <<"retest", p.id, k>> /\ sample(k).point = p.id
             /\ sample(k).replicate = k /\ sample(k).unit = p.unit
  OBVIOUS
<1> HIDE DEF round, sample
<1>3. c.rounds \in Seq(Round) /\ p \in Point /\ f \in DOMAIN c.findings
  BY DEF Healthy, Sound, WellTyped, Open
<1>4. 1 \in 1 .. p.required
  BY <1>3 DEF Healthy, Intact, PointsIntact, ValidPoint, Point
<1>5. Covers(round, p.id)
  BY <1>1, <1>2, <1>4 DEF Covers
<1>6. PICK i \in DOMAIN c.rounds : f.round = {c.rounds[i].id} /\ Covers(c.rounds[i], f.point)
  BY <1>3 DEF Healthy, Intact, FindingsFound, FoundIn
<1>7. f \in ClosedBy(c, round)
  BY <1>1, <1>5 DEF ClosedBy
<1>8. SamplesAdmissible(c, round)
  <2> SUFFICES ASSUME NEW k \in 1 .. p.required
               PROVE  /\ InPlan(c.points, sample(k))
                      /\ \A l \in 1 .. p.required : sample(k) # sample(l) =>
                           sample(k).id # sample(l).id /\ ~SameSlot(sample(k), sample(l))
                      /\ \A t \in SamplesOf(c.rounds) : sample(k).id # t.id
    BY <1>1 DEF SamplesAdmissible
  <2>1. InPlan(c.points, sample(k))
    BY <1>2 DEF InPlan
  <2>2. ASSUME NEW l \in 1 .. p.required, sample(k) # sample(l)
        PROVE  sample(k).id # sample(l).id /\ ~SameSlot(sample(k), sample(l))
    BY <1>2, <2>2 DEF SameSlot
  <2>3. ASSUME NEW t \in SamplesOf(c.rounds) PROVE sample(k).id # t.id
    <3>1. PICK j \in DOMAIN c.rounds : t \in c.rounds[j].samples
      BY DEF SamplesOf
    <3>2. c.rounds[j] \in Round
      BY <1>3
    <3>3. t.id \in SampleIds
      BY <3>1, <3>2 DEF Round, Sample
    <3>4. <<"retest", p.id, k>> \notin SampleIds
      OBVIOUS
    <3>5. sample(k).id = <<"retest", p.id, k>>
      BY <1>2
    <3>6. QED
      BY <3>3, <3>4, <3>5
  <2>4. QED
    BY <2>1, <2>2, <2>3
<1>9. RemediationCoverage(c, round)
  <2>1. ASSUME NEW s \in round.samples
        PROVE  /\ \E j \in DOMAIN c.rounds :
                    c.rounds[j].id \in round.supersedes /\ Covers(c.rounds[j], s.point)
               /\ \E g \in Open(c) : g.round = round.supersedes /\ g.point = s.point
    BY <1>1, <1>2, <1>6
  <2>2. ASSUME NEW q \in c.points, Covers(round, q.id), NEW r \in 1 .. q.required
        PROVE  \E s \in round.samples : s.point = q.id /\ s.replicate = r
    <3>1. q.id = p.id
      BY <1>1, <1>2, <2>2 DEF Covers
    <3>2. q = p
      BY <3>1 DEF Healthy, Intact, PointsIntact, Compatible
    <3>3. QED
      BY <1>1, <1>2, <3>2
  <2>3. QED
    BY <2>1, <2>2 DEF RemediationCoverage
<1>10. round.id \notin RoundIdsOf(c.rounds)
  <2>1. ASSUME NEW j \in DOMAIN c.rounds PROVE c.rounds[j].id \in RoundIds
    <3>1. c.rounds[j] \in Round
      BY <1>3
    <3>2. QED
      BY <3>1 DEF Round
  <2>2. QED
    BY <1>1, <2>1 DEF RoundIdsOf
<1>11. CanAddRound(c, round, actor)
  BY <1>1, <1>5, <1>6, <1>8, <1>9, <1>10 DEF CanAddRound, RemediationMode, RoundIdsOf, Covers
<1>12. QED
  BY <1>7, <1>11 DEF round

\* While a campaign is in remediation, every open finding that names a round can be
\* closed by one complete retest (validateRemediationCoverage never refuses it).  The
\* ids of the retest are to be new: that no stored round or sample has them is assumed.
THEOREM FindingsStayRetestable ==
  ASSUME "retest" \notin RoundIds, \A x, k : <<"retest", x, k>> \notin SampleIds
  PROVE  Spec => []MeasuredFindingsRetestable
<1>1. HInv => MeasuredFindingsRetestable
  BY RetestIsAccepted DEF HInv, MeasuredFindingsRetestable
<1>2. QED
  BY <1>1, AlwaysHealthy, PTL

-------------------------------------------------------------------------------
(* A campaign implements the abstract release. *)

Phase(c) == CASE c.status = "Frozen" -> "sealed"
              [] c.status = "Certified" -> "released"
              [] OTHER -> "open"
Sealed(c) == {DossierOf(m) : m \in c.manifestHash}
Credited(c) == {DossierOf(k.manifestHash) : k \in c.credential}

\* Until the freeze there is neither a seal nor a credential.
LEMMA OpenUnsealed ==
  ASSUME NEW c, Healthy(c), ~IsFrozen(c.status)
  PROVE  Phase(c) = "open" /\ Sealed(c) = {} /\ Credited(c) = {}
<1>1. c.status # "Frozen" /\ c.status # "Certified"
  BY DEF IsFrozen
<1>2. c.manifestHash = {} /\ c.credential = {}
  BY <1>1 DEF Healthy, Summed, ReleaseFits, SealHolds, IsFrozen
<1>3. QED
  BY <1>1, <1>2 DEF Phase, Sealed, Credited

\* After it the seal is the dossier, and nothing is unresolved.
LEMMA FrozenSealed ==
  ASSUME NEW c, Healthy(c), IsFrozen(c.status)
  PROVE  /\ Sealed(c) = {DossierOf(c)} /\ Unresolved(c) = {}
         /\ Phase(c) = IF c.status = "Frozen" THEN "sealed" ELSE "released"
         /\ Credited(c) = IF c.status = "Frozen" THEN {} ELSE {DossierOf(c)}
<1>1. c.status \in {"Frozen", "Certified"}
  BY DEF IsFrozen
<1>2. Pending(c) = {} /\ Open(c) = {}
  BY <1>1 DEF Healthy, Sound, StatusFits
<1>3. Unresolved(c) = {}
  BY <1>1, <1>2, NothingUnresolved DEF Unresolved
<1>4. DOMAIN c = CampaignFields /\ c.manifestHash = {RecalculatedHash(c)}
  BY DEF Healthy, Sound, WellTyped, SealHolds
<1>5. DossierOf(RecalculatedHash(c)) = DossierOf(c)
  BY <1>4, RecalculatedManifest DEF DossierOf
<1>6. Sealed(c) = {DossierOf(c)}
  BY <1>4, <1>5 DEF Sealed
<1>7. CASE c.status = "Frozen"
  BY <1>3, <1>6, <1>7 DEF Phase, Credited, Healthy, SealHolds
<1>8. CASE c.status = "Certified"
  <2>1. PICK k : c.credential = {k} /\ GoodCredential(c, k)
    BY <1>8 DEF Healthy, SealHolds
  <2>2. k.manifestHash = RecalculatedHash(c)
    BY <1>4, <2>1 DEF GoodCredential
  <2>3. Credited(c) = {DossierOf(c)}
    BY <1>5, <2>1, <2>2 DEF Credited
  <2>4. QED
    BY <1>3, <1>6, <1>8, <2>3 DEF Phase
<1>9. QED
  BY <1>1, <1>7, <1>8

\* What the freeze and the issue leave alone.
LEMMA DossierStays ==
  ASSUME NEW c, Healthy(c)
  PROVE  /\ \A hash : DossierOf(Freeze(c, hash)) = DossierOf(c)
         /\ \A k : DossierOf(Certify(c, k)) = DossierOf(c)
<1>1. DOMAIN c = CampaignFields
  BY DEF Healthy, Sound, WellTyped
<1>2. ASSUME NEW hash PROVE DossierOf(Freeze(c, hash)) = DossierOf(c)
  <2> DEFINE d == Freeze(c, hash)
  <2>1. /\ d.points = c.points /\ d.instruments = c.instruments
        /\ d.rounds = c.rounds /\ d.findings = c.findings
    BY <1>1, FreezeFrame DEF CampaignFields
  <2> HIDE DEF d
  <2>2. DossierOf(d) = DossierOf(c)
    BY <2>1 DEF DossierOf
  <2>3. QED
    BY <2>2 DEF d
<1>3. ASSUME NEW k PROVE DossierOf(Certify(c, k)) = DossierOf(c)
  <2> DEFINE d == Certify(c, k)
  <2>1. /\ d.points = c.points /\ d.instruments = c.instruments
        /\ d.rounds = c.rounds /\ d.findings = c.findings
    BY <1>1, CertifyFrame DEF CampaignFields
  <2> HIDE DEF d
  <2>2. DossierOf(d) = DossierOf(c)
    BY <2>1 DEF DossierOf
  <2>3. QED
    BY <2>2 DEF d
<1>4. QED
  BY <1>2, <1>3

\* The three kinds of steps, said of two campaigns.
WorkStep(c, d) ==
    /\ Phase(c) = "open" /\ Phase(d) = "open"
    /\ Sealed(d) = Sealed(c) /\ Credited(d) = Credited(c)

SealStep(c, d) ==
    /\ Phase(c) = "open" /\ Phase(d) = "sealed"
    /\ Unresolved(c) = {} /\ Sealed(d) = {DossierOf(c)}
    /\ DossierOf(d) = DossierOf(c) /\ Unresolved(d) = Unresolved(c)
    /\ Credited(d) = Credited(c)

CertifyStep(c, d) ==
    /\ Phase(c) = "sealed" /\ Phase(d) = "released"
    /\ Credited(d) = {DossierOf(c)}
    /\ DossierOf(d) = DossierOf(c) /\ Unresolved(d) = Unresolved(c)
    /\ Sealed(d) = Sealed(c)

LEMMA WorkSteps ==
  ASSUME NEW c, Healthy(c), ~IsFrozen(c.status), NEW d, Healthy(d), ~IsFrozen(d.status)
  PROVE  WorkStep(c, d)
BY OpenUnsealed DEF WorkStep

LEMMA DecideStatus ==
  ASSUME NEW c, DOMAIN c = CampaignFields, c.status = "ReviewPending",
         NEW f, NEW decision, NEW actor
  PROVE  DecideFinding(c, f, decision, actor).status \in {"Remediation", "ReviewPending"}
<1> DEFINE d == DecideFinding(c, f, decision, actor)
           judged == Judged(c, f, decision, actor)
<1>1. /\ d.status = IF /\ CurrentFindings(judged) \cap Pending(judged) = {}
                       /\ CurrentFindings(judged) \cap Open(judged) # {}
                    THEN "Remediation" ELSE c.status
      /\ d.findings = judged.findings
      /\ judged.findings = [g \in DOMAIN c.findings |->
           IF g = f THEN Decided(c.findings[g], decision, actor) ELSE c.findings[g]]
      /\ \A g \in CampaignFields \ {"status", "version", "findings"} : d[g] = c[g]
  BY DecideFrame
<1> HIDE DEF d, judged
<1>2. d.status \in {"Remediation", "ReviewPending"}
  BY <1>1
<1>3. QED
  BY <1>2 DEF d

LEMMA StepsOfRelease ==
  ASSUME Healthy(campaign), Healthy(campaign'), [Next]_vars
  PROVE  \/ campaign' = campaign
         \/ WorkStep(campaign, campaign')
         \/ SealStep(campaign, campaign')
         \/ CertifyStep(campaign, campaign')
<1>1. DOMAIN campaign = CampaignFields
  BY DEF Healthy, Sound, WellTyped
<1>2. CASE RegisterInstrumentsAction
  <2>1. PICK items : /\ campaign.status = "Draft"
                     /\ campaign' = RegisterInstruments(campaign, items)
    BY <1>2 DEF RegisterInstrumentsAction, CanRegisterInstruments
  <2>2. campaign'.status \in {"Ready", "Draft"}
    BY <1>1, <2>1, RegisterFrame
  <2>3. QED
    BY <2>1, <2>2, WorkSteps DEF IsFrozen
<1>3. CASE AddRoundAction
  <2>1. PICK round : /\ campaign.status \in {"Ready", "Executing", "Remediation"}
                     /\ campaign' = AddRound(campaign, round)
    BY <1>3 DEF AddRoundAction, CanAddRound
  <2>2. campaign'.status \in {"Remediation", "Executing"}
    BY <1>1, <2>1, AddRoundFrame
  <2>3. QED
    BY <2>1, <2>2, WorkSteps DEF IsFrozen
<1>4. CASE SubmitForReviewAction
  <2>1. campaign.status = "Executing" /\ campaign' = SubmitForReview(campaign)
    BY <1>4 DEF SubmitForReviewAction, CanSubmitForReview
  <2>2. campaign'.status = "ReviewPending"
    BY <1>1, <2>1, SubmitFrame
  <2>3. QED
    BY <2>1, <2>2, WorkSteps DEF IsFrozen
<1>5. CASE DecideFindingAction
  <2>1. PICK f, decision, actor : /\ campaign.status = "ReviewPending"
                                  /\ campaign' = DecideFinding(campaign, f, decision, actor)
    BY <1>5 DEF DecideFindingAction, CanDecideFinding
  <2>2. campaign'.status \in {"Remediation", "ReviewPending"}
    BY <1>1, <2>1, DecideStatus
  <2>3. QED
    BY <2>1, <2>2, WorkSteps DEF IsFrozen
<1>6. CASE FreezePreflightAction
  BY <1>6 DEF FreezePreflightAction
<1>7. CASE FreezeAction
  <2>1. PICK hash : CanFreeze(campaign) /\ campaign' = Freeze(campaign, hash)
    BY <1>7 DEF FreezeAction
  <2>2. campaign.status = "ReviewPending" /\ campaign'.status = "Frozen"
    BY <1>1, <2>1, FreezeGuard, FreezeFrame
  <2>3. Pending(campaign) = {} /\ Open(campaign) = {}
    BY <2>1, FreezeGuard DEF Healthy, Sound, WorkIsCurrent
  <2>4. Unresolved(campaign) = {}
    BY <2>2, <2>3, NothingUnresolved DEF Unresolved
  <2>5. Phase(campaign) = "open" /\ Sealed(campaign) = {} /\ Credited(campaign) = {}
    BY <2>2, OpenUnsealed DEF IsFrozen
  <2>6. /\ Sealed(campaign') = {DossierOf(campaign')} /\ Unresolved(campaign') = {}
        /\ Phase(campaign') = "sealed" /\ Credited(campaign') = {}
    BY <2>2, FrozenSealed DEF IsFrozen
  <2>7. DossierOf(campaign') = DossierOf(campaign)
    BY <2>1, DossierStays
  <2>8. QED
    BY <2>4, <2>5, <2>6, <2>7 DEF SealStep
<1>8. CASE IssueAction
  <2>1. PICK k : campaign.status = "Frozen" /\ campaign' = Certify(campaign, k)
    BY <1>8 DEF IssueAction, CanCertify
  <2>2. campaign'.status = "Certified"
    BY <1>1, <2>1, CertifyFrame
  <2>3. /\ Sealed(campaign) = {DossierOf(campaign)} /\ Unresolved(campaign) = {}
        /\ Phase(campaign) = "sealed" /\ Credited(campaign) = {}
    BY <2>1, FrozenSealed DEF IsFrozen
  <2>4. /\ Sealed(campaign') = {DossierOf(campaign')} /\ Unresolved(campaign') = {}
        /\ Phase(campaign') = "released" /\ Credited(campaign') = {DossierOf(campaign')}
    BY <2>2, FrozenSealed DEF IsFrozen
  <2>5. DossierOf(campaign') = DossierOf(campaign)
    BY <2>1, DossierStays
  <2>6. QED
    BY <2>3, <2>4, <2>5 DEF CertifyStep
<1>9. CASE UNCHANGED vars
  BY <1>9 DEF vars
<1>10. QED
  BY <1>2, <1>3, <1>4, <1>5, <1>6, <1>7, <1>8, <1>9 DEF Next

\* The life of a campaign implements the abstract release: it is sealed with nothing
\* unresolved, what was sealed never changes, and the credential certifies it.
THEOREM CampaignKeepsPromise == Spec => ReleasePromise
<1>1. Init => Promise!Init
  <2> SUFFICES ASSUME Init PROVE Promise!Init
    OBVIOUS
  <2>0. \A id, date, plan : NewCampaign(id, date, plan).status = "Draft"
    BY DEF NewCampaign
  <2>1. Healthy(campaign) /\ campaign.status = "Draft"
    BY <2>0, HealthyAtFirst DEF Init, HInv
  <2>2. Phase(campaign) = "open" /\ Sealed(campaign) = {} /\ Credited(campaign) = {}
    BY <2>1, OpenUnsealed DEF IsFrozen
  <2>3. QED
    BY <2>2 DEF Promise!Init, Phase, Sealed, Credited
<1>2. HInv /\ HInv' /\ [Next]_vars => [Promise!Next]_(Promise!vars)
  <2> SUFFICES ASSUME Healthy(campaign), Healthy(campaign'), [Next]_vars
               PROVE  [Promise!Next]_(Promise!vars)
    BY DEF HInv
  <2>1. CASE campaign' = campaign
    BY <2>1 DEF Promise!vars
  <2>2. CASE WorkStep(campaign, campaign')
    BY <2>2 DEF WorkStep, Promise!Next, Promise!Work, Phase, Sealed, Credited
  <2>3. CASE SealStep(campaign, campaign')
    BY <2>3 DEF SealStep, Promise!Next, Promise!Seal, Phase, Sealed, Credited
  <2>4. CASE CertifyStep(campaign, campaign')
    BY <2>4 DEF CertifyStep, Promise!Next, Promise!Certify, Phase, Sealed, Credited
  <2>5. QED
    BY <2>1, <2>2, <2>3, <2>4, StepsOfRelease
<1>3. QED
  BY <1>1, <1>2, AlwaysHealthy, PTL DEF Spec, ReleasePromise, Promise!Spec

-------------------------------------------------------------------------------
(* The keys of findings, with ids that no finding code is part of. *)

Around(a, x, s) == (a \o <<x>>) \o s


\* The fold over the sample ids of a finding, of which there is at most one.
LEMMA JoinedSamples ==
  ASSUME NEW f
  PROVE  /\ f.samples = {} => Joined(f) = Around(f.point, f.code, << >>)
         /\ \A id : f.samples = {id} => Joined(f) = Around(f.point, f.code, id \o << >>)
<1> DEFINE pick(S) == CHOOSE x \in S : TRUE
           Iter(S, g) == g = [T \in SUBSET S |->
                               IF T = {} THEN << >> ELSE pick(T) \o g[T \ {pick(T)}]]
<1>1. Joined(f) = Around(f.point, f.code, (CHOOSE g : Iter(f.samples, g))[f.samples])
  BY DEF Joined, Around, FoldSet, MapThenFoldSet
<1>2. CASE f.samples = {}
  <2> DEFINE K == [T \in SUBSET {} |-> << >>]
  <2>1. Iter({}, K)
    OBVIOUS
  <2>2. ASSUME NEW g, Iter({}, g) PROVE g[{}] = << >>
    BY <2>2
  <2> HIDE DEF Iter, K
  <2>3. Iter({}, CHOOSE g : Iter({}, g))
    BY <2>1
  <2>4. QED
    BY <1>1, <1>2, <2>2, <2>3
<1>3. ASSUME NEW id, f.samples = {id}
      PROVE  Joined(f) = Around(f.point, f.code, id \o << >>)
  <2> DEFINE K == [T \in SUBSET {id} |-> IF T = {} THEN << >> ELSE id \o << >>]
  <2>1. \A T \in SUBSET {id} : T # {} => pick(T) = id /\ T \ {pick(T)} = {}
    OBVIOUS
  <2>2. Iter({id}, K)
    <3> HIDE DEF pick
    <3>1. K[{}] = << >>
      OBVIOUS
    <3>2. QED
      BY <2>1, <3>1
  <2>3. ASSUME NEW g, Iter({id}, g) PROVE g[{id}] = id \o << >>
    <3> HIDE DEF pick
    <3>1. g[{}] = << >>
      BY <2>3
    <3>2. g[{id}] = pick({id}) \o g[{id} \ {pick({id})}]
      BY <2>3
    <3>3. QED
      BY <2>1, <3>1, <3>2
  <2> HIDE DEF Iter, K
  <2>4. Iter({id}, CHOOSE g : Iter({id}, g))
    BY <2>2
  <2>5. QED
    BY <1>1, <1>3, <2>3, <2>4
<1>4. QED
  BY <1>2, <1>3

LEMMA SameSequence ==
  ASSUME NEW S, NEW s \in Seq(S), NEW t \in Seq(S), Len(s) = Len(t),
         \A i \in 1 .. Len(s) : s[i] = t[i]
  PROVE  s = t
<1>1. s = [i \in 1 .. Len(s) |-> s[i]] /\ t = [i \in 1 .. Len(t) |-> t[i]]
  OBVIOUS
<1>2. QED
  BY <1>1

\* What a code delimits can be told apart: it is the first part that no id has.
LEMMA JoinApart ==
  ASSUME NEW Parts, NEW a \in Seq(Parts), NEW b \in Seq(Parts),
         NEW s \in Seq(Parts), NEW t \in Seq(Parts), NEW x, NEW y,
         x \notin Parts, y \notin Parts,
         Around(a, x, s) = Around(b, y, t)
  PROVE  a = b /\ x = y /\ s = t
<1> DEFINE All == Parts \cup {x, y}
           left == (a \o <<x>>) \o s
           right == (b \o <<y>>) \o t
<1>1. /\ a \in Seq(All) /\ b \in Seq(All) /\ s \in Seq(All) /\ t \in Seq(All)
      /\ <<x>> \in Seq(All) /\ <<y>> \in Seq(All)
  OBVIOUS
<1>2. /\ Len(left) = Len(a) + 1 + Len(s) /\ left[Len(a) + 1] = x
      /\ \A i \in 1 .. Len(a) : left[i] = a[i]
      /\ \A i \in 1 .. Len(s) : left[Len(a) + 1 + i] = s[i]
  BY <1>1
<1>3. /\ Len(right) = Len(b) + 1 + Len(t) /\ right[Len(b) + 1] = y
      /\ \A i \in 1 .. Len(b) : right[i] = b[i]
      /\ \A i \in 1 .. Len(t) : right[Len(b) + 1 + i] = t[i]
  BY <1>1
<1>4. left = right
  BY DEF Around
<1> HIDE DEF left, right
<1>5. Len(a) \in Nat /\ Len(b) \in Nat /\ Len(s) \in Nat /\ Len(t) \in Nat
  OBVIOUS
<1>6. \A i \in 1 .. Len(a) : a[i] # y
  OBVIOUS
<1>7. \A i \in 1 .. Len(b) : b[i] # x
  OBVIOUS
<1>8. Len(a) = Len(b)
  <2>1. ASSUME Len(b) < Len(a) PROVE FALSE
    <3>1. Len(b) + 1 \in 1 .. Len(a)
      BY <1>5, <2>1
    <3>2. left[Len(b) + 1] = a[Len(b) + 1]
      BY <1>2, <3>1
    <3>3. QED
      BY <1>3, <1>4, <1>6, <3>1, <3>2
  <2>2. ASSUME Len(a) < Len(b) PROVE FALSE
    <3>1. Len(a) + 1 \in 1 .. Len(b)
      BY <1>5, <2>2
    <3>2. right[Len(a) + 1] = b[Len(a) + 1]
      BY <1>3, <3>1
    <3>3. QED
      BY <1>2, <1>4, <1>7, <3>1, <3>2
  <2>3. QED
    BY <1>5, <2>1, <2>2
<1>9. a = b
  <2>1. \A i \in 1 .. Len(a) : a[i] = b[i]
    BY <1>2, <1>3, <1>4, <1>8
  <2>2. QED
    BY <1>8, <2>1, SameSequence
<1>10. s = t
  <2>1. Len(s) = Len(t)
    BY <1>2, <1>3, <1>4, <1>5, <1>8
  <2>2. \A i \in 1 .. Len(s) : s[i] = t[i]
    BY <1>2, <1>3, <1>4, <1>8, <2>1
  <2>3. QED
    BY <2>1, <2>2, SameSequence
<1>11. QED
  BY <1>2, <1>3, <1>4, <1>8, <1>9, <1>10

LEMMA IdsOfParts ==
  ASSUME IdsAvoidCodes
  PROVE  \E Parts : /\ PointIds \subseteq Seq(Parts) /\ SampleIds \subseteq Seq(Parts)
                    /\ \A code \in FindingCodes : code \notin Parts
<1> DEFINE PartsOf(id) == {id[i] : i \in DOMAIN id} \ FindingCodes
           All == UNION {PartsOf(id) : id \in PointIds \cup SampleIds}
<1>1. \A code \in FindingCodes : code \notin All
  OBVIOUS
<1>2. \A id \in PointIds \cup SampleIds : id \in Seq(PartsOf(id)) /\ PartsOf(id) \subseteq All
  BY DEF IdsAvoidCodes
<1> HIDE DEF PartsOf, All
<1>3. \A id \in PointIds \cup SampleIds : id \in Seq(All)
  BY <1>2
<1>4. QED
  BY <1>1, <1>3

\* With such ids, findings of one check with the same text of their keys are the same.
LEMMA KeyTextsApart ==
  ASSUME IdsAvoidCodes,
         NEW points \in SUBSET Point, NEW rounds \in Seq(Round), NEW batch \in Nat,
         \A p, q \in points : p.id = q.id => p = q, SamplesNamed(rounds),
         NEW f \in Raised(points, rounds, batch), NEW g \in Raised(points, rounds, batch),
         KeyText(f) = KeyText(g)
  PROVE  f = g
<1>1. PICK Parts : /\ PointIds \subseteq Seq(Parts) /\ SampleIds \subseteq Seq(Parts)
                   /\ \A code \in FindingCodes : code \notin Parts
  BY IdsOfParts
<1>2. ASSUME NEW h \in Raised(points, rounds, batch)
      PROVE  \E ids \in Seq(Parts) :
               /\ Joined(h) = Around(h.point, h.code, ids)
               /\ \/ h.code = "missing_replicates" /\ h.samples = {}
                  \/ h.code # "missing_replicates" /\ h.samples = {ids}
  <2>1. PICK p \in points :
          \/ h = MissingFinding(rounds, p, batch)
          \/ \E e \in ByReplicate(rounds, p.id), code \in {"below_limit", "above_limit"} :
               h = LimitFinding(rounds, p, batch, e, code)
    BY RaisedForms
  <2>2. CASE h = MissingFinding(rounds, p, batch)
    <3>1. h.code = "missing_replicates" /\ h.samples = {}
      BY <2>2 DEF MissingFinding
    <3>2. << >> \in Seq(Parts)
      OBVIOUS
    <3>3. QED
      BY <3>1, <3>2, JoinedSamples
  <2>3. ASSUME NEW e \in ByReplicate(rounds, p.id), NEW code \in {"below_limit", "above_limit"},
               h = LimitFinding(rounds, p, batch, e, code)
        PROVE  \E ids \in Seq(Parts) :
                 /\ Joined(h) = Around(h.point, h.code, ids)
                 /\ h.code # "missing_replicates" /\ h.samples = {ids}
    <3>1. h.code = code /\ h.samples = {e.sample.id}
      BY <2>3 DEF LimitFinding
    <3>2. e \in Effective(rounds, p.id)
      BY DEF ByReplicate
    <3>3. e.sample.id \in Seq(Parts)
      BY <1>1, <3>2, EffectiveTyped DEF Sample
    <3>4. e.sample.id \o << >> = e.sample.id
      BY <3>3
    <3>5. QED
      BY <3>1, <3>3, <3>4, JoinedSamples
  <2>4. QED
    BY <2>1, <2>2, <2>3
<1>3. f.point \in Seq(Parts) /\ f.code \notin Parts /\ g.point \in Seq(Parts) /\ g.code \notin Parts
  <2>1. f \in Finding /\ g \in Finding
    BY RaisedTyped
  <2>2. \A h \in Finding : h.point \in PointIds /\ h.code \in FindingCodes
    BY DEF Finding
  <2>3. QED
    BY <1>1, <2>1, <2>2
<1>4. Joined(f) = Joined(g) /\ f.missing = g.missing
  BY DEF KeyText
<1>5. PICK s \in Seq(Parts) :
        /\ Joined(f) = Around(f.point, f.code, s)
        /\ \/ f.code = "missing_replicates" /\ f.samples = {}
           \/ f.code # "missing_replicates" /\ f.samples = {s}
  BY <1>2
<1>6. PICK t \in Seq(Parts) :
        /\ Joined(g) = Around(g.point, g.code, t)
        /\ \/ g.code = "missing_replicates" /\ g.samples = {}
           \/ g.code # "missing_replicates" /\ g.samples = {t}
  BY <1>2
<1>7. f.point = g.point /\ f.code = g.code /\ s = t
  <2>1. Around(f.point, f.code, s) = Around(g.point, g.code, t)
    BY <1>4, <1>5, <1>6
  <2>2. QED
    BY <1>3, <2>1, JoinApart
<1>8. FindingKey(f) = FindingKey(g)
  BY <1>4, <1>5, <1>6, <1>7 DEF FindingKey
<1>9. QED
  BY <1>8, RaisedApart

\* Then deduplication keeps everything that was raised.
LEMMA AllKept ==
  ASSUME IdsAvoidCodes, NEW c, Sound(c), Intact(c)
  PROVE  LET raised == Raised(c.points, c.rounds, c.version)
         IN Deduplicated(raised) = {raised}
<1> DEFINE raised == Raised(c.points, c.rounds, c.version)
<1>1. c.points \in SUBSET Point /\ c.rounds \in Seq(Round) /\ c.version \in Nat
  BY DEF Sound, WellTyped
<1>2. SamplesNamed(c.rounds)
  BY <1>1, IntactNames DEF Intact
<1>3. \A p, q \in c.points : p.id = q.id => p = q
  BY DEF Intact, PointsIntact, Compatible
<1>4. \A f, g \in raised : KeyText(f) = KeyText(g) => f = g
  BY <1>1, <1>2, <1>3, KeyTextsApart
<1> HIDE DEF raised
<1>5. raised \in Deduplicated(raised)
  BY <1>4 DEF Deduplicated
<1>6. ASSUME NEW kept \in Deduplicated(raised) PROVE kept = raised
  <2>1. kept \subseteq raised /\ {KeyText(f) : f \in kept} = {KeyText(f) : f \in raised}
    BY DEF Deduplicated
  <2>2. ASSUME NEW f \in raised PROVE f \in kept
    <3>1. PICK g \in kept : KeyText(g) = KeyText(f)
      BY <2>1
    <3>2. QED
      BY <1>4, <2>1, <3>1
  <2>3. QED
    BY <2>1, <2>2
<1>7. QED
  BY <1>5, <1>6 DEF raised

\* What Check makes of each field.
LEMMA CheckFrame ==
  ASSUME NEW c, DOMAIN c = CampaignFields, NEW kept
  PROVE  LET d == Check(c, kept)
             all == SubmitForReview(c)
         IN /\ DOMAIN d = CampaignFields
            /\ d.findings = [f \in (DOMAIN c.findings) \cup kept |-> all.findings[f]]
            /\ d.batches = {IF b.id = c.version
                              THEN [b EXCEPT !.findingCount = Cardinality(kept)] ELSE b
                              : b \in all.batches}
            /\ \A g \in CampaignFields \ {"findings", "batches"} : d[g] = all[g]
<1>1. DOMAIN SubmitForReview(c) = CampaignFields
  BY SubmitFrame
<1>2. QED
  BY <1>1 DEF Check, CampaignFields

\* A check that keeps everything is the submission of Campaign.
LEMMA CheckIsSubmit ==
  ASSUME NEW c, Sound(c), Intact(c)
  PROVE  Check(c, Raised(c.points, c.rounds, c.version)) = SubmitForReview(c)
<1> DEFINE raised == Raised(c.points, c.rounds, c.version)
           batch == InspectionBatch(c.points, c.rounds, c.version)
           all == SubmitForReview(c)
           d == Check(c, raised)
<1>1. DOMAIN c = CampaignFields /\ c.version \in Nat
  BY DEF Sound, WellTyped
<1>2. /\ DOMAIN all = CampaignFields
      /\ all.findings = [f \in (DOMAIN c.findings) \cup raised |->
                           IF f \in DOMAIN c.findings THEN c.findings[f] ELSE Undecided]
      /\ all.batches = c.batches \cup {batch}
  BY <1>1, SubmitFrame
<1>3. /\ DOMAIN d = CampaignFields
      /\ d.findings = [f \in (DOMAIN c.findings) \cup raised |-> all.findings[f]]
      /\ d.batches = {IF b.id = c.version
                        THEN [b EXCEPT !.findingCount = Cardinality(raised)] ELSE b
                        : b \in all.batches}
      /\ \A g \in CampaignFields \ {"findings", "batches"} : d[g] = all[g]
  BY <1>1, CheckFrame
<1>4. batch = [batch EXCEPT !.findingCount = Cardinality(raised)]
  BY DEF InspectionBatch
<1> HIDE DEF all, d, raised, batch
<1>5. \A b \in c.batches : b.id # c.version
  BY <1>1 DEF Intact, NumbersPast
<1>6. \A b \in all.batches :
        b = IF b.id = c.version THEN [b EXCEPT !.findingCount = Cardinality(raised)] ELSE b
  BY <1>2, <1>4, <1>5
<1>7. d.batches = all.batches
  BY <1>3, <1>6
<1>8. d.findings = all.findings
  BY <1>2, <1>3
<1>9. \A g \in CampaignFields : d[g] = all[g]
  BY <1>3, <1>7, <1>8
<1>10. d = [g \in CampaignFields |-> d[g]] /\ all = [g \in CampaignFields |-> all[g]]
  BY <1>2, <1>3 DEF all, d, Check, SubmitForReview, RefreshDerivedViews
<1>11. QED
  BY <1>9, <1>10 DEF d, all, raised

\* A check in a campaign that has been healthy so far is a submission of Campaign.
LEMMA CheckSubmits ==
  ASSUME IdsAvoidCodes, HInv, CheckAction
  PROVE  SubmitForReviewAction
<1> DEFINE raised == Raised(campaign.points, campaign.rounds, campaign.version)
<1>1. Sound(campaign) /\ Intact(campaign)
  BY DEF HInv, Healthy
<1>2. PICK kept \in Deduplicated(raised) : campaign' = Check(campaign, kept)
  BY DEF CheckAction
<1>3. kept = raised
  BY <1>1, <1>2, AllKept
<1>4. campaign' = SubmitForReview(campaign)
  BY <1>1, <1>2, <1>3, CheckIsSubmit
<1>5. QED
  BY <1>4 DEF CheckAction, SubmitForReviewAction

LEMMA KeysStep ==
  ASSUME IdsAvoidCodes, HInv, [KeysNext]_vars
  PROVE  [Next]_vars
BY CheckSubmits DEF KeysNext, Next

\* Where no id has a finding code between its colons, a campaign with findings
\* deduplicated by their keys (newFinding, DeduplicateFindings) behaves as Campaign says,
\* so that what is proved of Campaign holds of it.
THEOREM KeysImplementCampaign ==
  ASSUME IdsAvoidCodes
  PROVE  KeysSpec => Spec
<1>1. HInv /\ [KeysNext]_vars => [Next]_vars
  BY KeysStep
<1>2. QED
  BY <1>1, HealthyAtFirst, HealthyNext, PTL DEF KeysSpec, Spec

LEMMA HealthyHasFindings == HInv => EveryDefectHasFinding
<1> SUFFICES ASSUME Healthy(campaign), campaign.status \in {"ReviewPending", "Frozen", "Certified"},
                    NEW b \in campaign.currentBatch
             PROVE  Raised(campaign.points, campaign.rounds, b) \subseteq DOMAIN campaign.findings
  BY DEF HInv, EveryDefectHasFinding
<1>1. PICK a \in campaign.currentBatch :
        /\ campaign.currentBatch = {a}
        /\ CurrentFindings(campaign) = Raised(campaign.points, campaign.rounds, a)
  BY DEF Healthy, Accounts
<1>2. QED
  BY <1>1 DEF CurrentFindings

\* Every defect of the evidence under review has a finding that a reviewer decides on,
\* as long as no id has a finding code between its colons: then the keys of findings tell
\* them apart and deduplication drops none.
THEOREM DefectsHaveFindings ==
  ASSUME IdsAvoidCodes
  PROVE  KeysSpec => []EveryDefectHasFinding
BY KeysImplementCampaign, AlwaysHealthy, HealthyHasFindings, PTL

-------------------------------------------------------------------------------
(* The clients of Worklist. *)

\* What the steps of the clients do to the campaign.
Registers ==
    \E items \in Seq(Instrument) :
      CanRegisterInstruments(campaign, items) /\ campaign' = RegisterInstruments(campaign, items)

Adds ==
    \E round \in Round, actor \in Actors :
      CanAddRound(campaign, round, actor) /\ campaign' = AddRound(campaign, round)

Decides ==
    \E f, decision : \E actor \in Actors :
      /\ CanDecideFinding(campaign, f, decision, TRUE)
      /\ campaign' = DecideFinding(campaign, f, decision, actor)

Freezes == CanFreeze(campaign) /\ campaign' = Freeze(campaign, Hash(campaign))

Certifies ==
    \E issuedBy \in Actors : \E k \in Issue(campaign, issuedBy) :
      CanCertify(campaign, k) /\ campaign' = Certify(campaign, k)

Stays == campaign' = campaign

LEMMA ClientSteps ==
  [WorkNext]_vars =>
    Registers \/ Adds \/ CheckAction \/ Decides \/ Freezes \/ Certifies \/ Stays
<1> SUFFICES ASSUME [WorkNext]_vars
             PROVE  Registers \/ Adds \/ CheckAction \/ Decides \/ Freezes \/ Certifies \/ Stays
  OBVIOUS
<1>1. CASE RegisterInstrumentsAction
  BY <1>1, RequestsAssumption DEF RegisterInstrumentsAction, Registers
<1>2. ASSUME NEW slots, NEW kind, NEW supersedes, Record(slots, kind, supersedes)
      PROVE  Adds
  BY <1>2 DEF Record, Adds
<1>3. CASE Measure
  BY <1>2, <1>3 DEF Measure
<1>4. CASE Submit
  BY <1>4 DEF Submit
<1>5. CASE Decide
  BY <1>5 DEF Decide, Decides
<1>6. CASE Remeasure
  BY <1>2, <1>6 DEF Remeasure
<1>7. CASE FreezePreflightAction
  BY <1>7 DEF FreezePreflightAction, Stays
<1>8. CASE FreezeAction
  BY <1>8 DEF FreezeAction, ConfirmsCandidate, Freezes
<1>9. CASE IssueAction
  BY <1>9 DEF IssueAction, Certifies
<1>10. CASE UNCHANGED vars
  BY <1>10 DEF vars, Stays
<1>11. QED
  BY <1>1, <1>3, <1>4, <1>5, <1>6, <1>7, <1>8, <1>9, <1>10 DEF WorkNext

LEMMA WorkHealthy ==
  ASSUME IdsAvoidCodes, HInv, [WorkNext]_vars
  PROVE  HInv'
<1>1. Healthy(campaign)
  BY DEF HInv
<1>2. CASE CheckAction
  <2>1. SubmitForReviewAction
    BY <1>2, CheckSubmits
  <2>2. QED
    BY <1>1, <2>1, SubmitHealthy DEF SubmitForReviewAction, HInv
<1>3. CASE Registers
  BY <1>1, <1>3, RegisterHealthy DEF Registers, HInv
<1>4. CASE Adds
  BY <1>1, <1>4, AddRoundHealthy DEF Adds, HInv
<1>5. CASE Decides
  BY <1>1, <1>5, DecideHealthy DEF Decides, HInv
<1>6. CASE Freezes
  BY <1>1, <1>6, FreezeHealthy DEF Freezes, HInv
<1>7. CASE Certifies
  BY <1>1, <1>7, CertifyHealthy DEF Certifies, HInv
<1>8. CASE Stays
  BY <1>1, <1>8 DEF Stays, HInv
<1>9. QED
  BY <1>2, <1>3, <1>4, <1>5, <1>6, <1>7, <1>8, ClientSteps

\* The same for clients that go by the views, whatever they measure and retest.
THEOREM ClientsSeeEveryDefect ==
  ASSUME IdsAvoidCodes
  PROVE  WorkSpec => []EveryDefectHasFinding
<1>1. HInv /\ [WorkNext]_vars => HInv'
  BY WorkHealthy
<1>2. QED
  BY <1>1, HealthyAtFirst, HealthyHasFindings, PTL DEF WorkSpec

-------------------------------------------------------------------------------
(* Sums over finite sets, as counts.  MapThenSumSet takes the elements of its set one by *)
(* one in an order of its own; the number of elements of a stack, in which each element  *)
(* stands as often as it weighs, does not depend on an order.                            *)

Column(x, n) == {x} \X (1 .. n)
Stack(f, S) == UNION {Column(x, f[x]) : x \in S}

LEMMA ColumnSize ==
  ASSUME NEW x, NEW n \in Nat
  PROVE  IsFiniteSet(Column(x, n)) /\ Cardinality(Column(x, n)) = n
<1> DEFINE one == {x}
           numbers == 1 .. n
<1>1. IsFiniteSet(one) /\ Cardinality(one) = 1
  BY FS_Singleton
<1>2. IsFiniteSet(numbers) /\ Cardinality(numbers) = n
  BY FS_Interval
<1> HIDE DEF one, numbers
<1>3. /\ IsFiniteSet(one \X numbers)
      /\ Cardinality(one \X numbers) = Cardinality(one) * Cardinality(numbers)
  BY <1>1, <1>2, FS_Product, Zenon
<1>4. 1 * n = n
  OBVIOUS
<1>5. Cardinality(one \X numbers) = n
  BY <1>1, <1>2, <1>3, <1>4, Zenon
<1>6. QED
  BY <1>3, <1>5, Zenon DEF one, numbers, Column

LEMMA StackOfOne ==
  ASSUME NEW f, NEW x, f[x] \in Nat
  PROVE  IsFiniteSet(Stack(f, {x})) /\ Cardinality(Stack(f, {x})) = f[x]
<1>1. Stack(f, {x}) = Column(x, f[x])
  BY DEF Stack
<1>2. QED
  BY <1>1, ColumnSize

LEMMA StackFinite ==
  ASSUME NEW S, IsFiniteSet(S), NEW f, \A x \in S : f[x] \in Nat
  PROVE  IsFiniteSet(Stack(f, S))
<1> DEFINE column == [x \in S |-> Column(x, f[x])]
           columns == {column[x] : x \in S}
<1>1. column \in Surjection(S, columns)
  BY DEF Surjection
<1>2. IsFiniteSet(columns)
  BY <1>1, FS_Surjection
<1>3. \A x \in S : IsFiniteSet(column[x])
  BY ColumnSize
<1>4. IsFiniteSet(UNION columns)
  BY <1>2, <1>3, FS_UNION
<1>5. QED
  BY <1>4 DEF Stack

LEMMA StackUnion ==
  ASSUME NEW S, NEW T, IsFiniteSet(S), IsFiniteSet(T), S \cap T = {},
         NEW f, \A x \in S \cup T : f[x] \in Nat
  PROVE  Cardinality(Stack(f, S \cup T)) = Cardinality(Stack(f, S)) + Cardinality(Stack(f, T))
<1> DEFINE A == Stack(f, S)
           B == Stack(f, T)
<1>1. Stack(f, S \cup T) = A \cup B
  BY DEF Stack
<1>2. A \cap B = {}
  BY DEF Stack, Column
<1>3. IsFiniteSet(A) /\ IsFiniteSet(B)
  BY StackFinite
<1> HIDE DEF A, B
<1>4. Cardinality(A) \in Nat /\ Cardinality(B) \in Nat
  BY <1>3, FS_CardinalityType
<1>5. Cardinality(A \cap B) = 0
  BY <1>2, FS_EmptySet
<1>6. Cardinality(A \cup B) = Cardinality(A) + Cardinality(B) - Cardinality(A \cap B)
  BY <1>3, FS_Union
<1>7. Cardinality(A \cup B) = Cardinality(A) + Cardinality(B)
  BY <1>4, <1>5, <1>6
<1>8. QED
  BY <1>1, <1>7 DEF A, B

LEMMA StackWithout ==
  ASSUME NEW S, IsFiniteSet(S), NEW f, \A x \in S : f[x] \in Nat, NEW x \in S
  PROVE  Cardinality(Stack(f, S)) = f[x] + Cardinality(Stack(f, S \ {x}))
<1>1. IsFiniteSet({x}) /\ IsFiniteSet(S \ {x}) /\ {x} \cap (S \ {x}) = {}
  BY FS_Singleton, FS_RemoveElement
<1>2. S = {x} \cup (S \ {x})
  OBVIOUS
<1>3. Cardinality(Stack(f, {x} \cup (S \ {x}))) =
        Cardinality(Stack(f, {x})) + Cardinality(Stack(f, S \ {x}))
  BY <1>1, StackUnion
<1>4. QED
  BY <1>2, <1>3, StackOfOne

LEMMA EmptyStack ==
  ASSUME NEW f PROVE Cardinality(Stack(f, {})) = 0
BY FS_EmptySet DEF Stack

\* The recursive function of MapThenSumSet.
Pick(T) == CHOOSE x \in T : TRUE

Accumulates(f, S, g) ==
    g = [T \in SUBSET S |-> IF T = {} THEN 0 ELSE f[Pick(T)] + g[T \ {Pick(T)}]]

LEMMA StackAdds ==
  ASSUME NEW S, IsFiniteSet(S), NEW f, \A x \in S : f[x] \in Nat
  PROVE  Accumulates(f, S, [T \in SUBSET S |-> Cardinality(Stack(f, T))])
<1> DEFINE K == [T \in SUBSET S |-> Cardinality(Stack(f, T))]
<1> SUFFICES ASSUME NEW T \in SUBSET S
             PROVE  K[T] = IF T = {} THEN 0 ELSE f[Pick(T)] + K[T \ {Pick(T)}]
  BY DEF Accumulates
<1>1. CASE T = {}
  BY <1>1, EmptyStack
<1>2. CASE T # {}
  <2>1. Pick(T) \in T /\ T \ {Pick(T)} \in SUBSET S
    BY <1>2 DEF Pick
  <2>2. IsFiniteSet(T)
    BY FS_Subset
  <2>3. Cardinality(Stack(f, T)) = f[Pick(T)] + Cardinality(Stack(f, T \ {Pick(T)}))
    BY <2>1, <2>2, StackWithout
  <2>4. QED
    BY <1>2, <2>1, <2>3
<1>3. QED
  BY <1>1, <1>2

\* Nothing else accumulates: consider a least set on which two solutions would differ.
LEMMA AccumulatesStack ==
  ASSUME NEW S, IsFiniteSet(S), NEW f, \A x \in S : f[x] \in Nat,
         NEW g, Accumulates(f, S, g)
  PROVE  g[S] = Cardinality(Stack(f, S))
<1> DEFINE K(T) == Cardinality(Stack(f, T))
           Sizes == {Cardinality(T) : T \in {U \in SUBSET S : g[U] # K(U)}}
<1>1. \A T \in SUBSET S : IsFiniteSet(T) /\ Cardinality(T) \in Nat
  BY FS_Subset, FS_CardinalityType
<1>2. SUFFICES ASSUME Sizes # {} PROVE FALSE
  <2>1. S \in SUBSET S
    OBVIOUS
  <2>2. g[S] # K(S) => Cardinality(S) \in Sizes
    BY <2>1
  <2>3. QED
    BY <2>2
<1>3. PICK n \in Sizes : \A m \in Sizes : n <= m
  <2>1. Sizes \subseteq Nat
    BY <1>1
  <2> HIDE DEF Sizes
  <2>2. QED
    BY <1>2, <2>1, LeastElement
<1>4. PICK T \in SUBSET S : Cardinality(T) = n /\ g[T] # K(T)
  OBVIOUS
<1>5. g[T] = IF T = {} THEN 0 ELSE f[Pick(T)] + g[T \ {Pick(T)}]
  BY DEF Accumulates
<1>6. CASE T = {}
  BY <1>4, <1>5, <1>6, EmptyStack
<1>7. CASE T # {}
  <2> DEFINE R == T \ {Pick(T)}
  <2>1. Pick(T) \in T
    BY <1>7 DEF Pick
  <2>2. R \in SUBSET S /\ Cardinality(R) = Cardinality(T) - 1 /\ Cardinality(R) \in Nat
    BY <1>1, <2>1, FS_RemoveElement
  <2>3. K(T) = f[Pick(T)] + K(R)
    BY <1>1, <2>1, StackWithout
  <2> HIDE DEF K, R
  <2>4. g[T] = f[Pick(T)] + g[R]
    BY <1>5, <1>7 DEF R
  <2>5. g[R] # K(R)
    BY <1>4, <2>3, <2>4
  <2>6. Cardinality(R) \in Sizes
    BY <2>2, <2>5
  <2>7. QED
    BY <1>1, <1>3, <1>4, <2>2, <2>6
<1>8. QED
  BY <1>6, <1>7

ClassOf(class, S, t) == {x \in S : class[x] = t}

\* What weighs as much as the classes of a set weighs as much as the set.
LEMMA StackOfClasses ==
  ASSUME NEW S, IsFiniteSet(S), NEW f, \A x \in S : f[x] \in Nat,
         NEW C, IsFiniteSet(C), NEW class, \A x \in S : class[x] \in C,
         NEW g, \A t \in C : g[t] = Cardinality(Stack(f, ClassOf(class, S, t)))
  PROVE  Cardinality(Stack(f, S)) = Cardinality(Stack(g, C))
<1> DEFINE Of(D) == {x \in S : class[x] \in D}
           Bad == {D \in SUBSET C : Cardinality(Stack(f, Of(D))) # Cardinality(Stack(g, D))}
           Sizes == {Cardinality(D) : D \in Bad}
<1>1. \A D \in SUBSET C : IsFiniteSet(D) /\ Cardinality(D) \in Nat
  BY FS_Subset, FS_CardinalityType
<1>2. \A D : IsFiniteSet(Of(D))
  BY FS_Subset
<1>3. SUFFICES ASSUME Sizes # {} PROVE FALSE
  <2>1. Of(C) = S /\ C \in SUBSET C
    OBVIOUS
  <2>2. Cardinality(Stack(f, S)) # Cardinality(Stack(g, C)) => C \in Bad
    BY <2>1
  <2>3. C \in Bad => Cardinality(C) \in Sizes
    OBVIOUS
  <2> HIDE DEF Bad, Sizes
  <2>4. QED
    BY <2>2, <2>3
<1>4. PICK n \in Sizes : \A m \in Sizes : n <= m
  <2>1. Sizes \subseteq Nat
    BY <1>1
  <2> HIDE DEF Sizes
  <2>2. QED
    BY <1>3, <2>1, LeastElement
<1>5. PICK D \in Bad : Cardinality(D) = n
  OBVIOUS
<1>6. D \in SUBSET C /\ Cardinality(Stack(f, Of(D))) # Cardinality(Stack(g, D))
  OBVIOUS
<1>7. CASE D = {}
  <2>1. Of(D) = {}
    BY <1>7
  <2>2. QED
    BY <1>6, <1>7, <2>1, EmptyStack
<1>8. CASE D # {}
  <2>1. PICK t \in D : TRUE
    BY <1>8
  <2> DEFINE R == D \ {t}
             own == ClassOf(class, S, t)
  <2>2. R \in SUBSET C /\ Cardinality(R) = Cardinality(D) - 1 /\ Cardinality(R) \in Nat
    BY <1>1, <1>6, FS_RemoveElement
  <2>3. Of(D) = own \cup Of(R) /\ own \cap Of(R) = {}
    BY DEF ClassOf
  <2>4. IsFiniteSet(own) /\ IsFiniteSet(Of(R)) /\ \A x \in own \cup Of(R) : f[x] \in Nat
    BY <1>2, FS_Subset DEF ClassOf
  <2>5. g[t] = Cardinality(Stack(f, own))
    BY <1>6
  <2>6. \A u \in D : g[u] \in Nat
    <3>1. ASSUME NEW u \in D
          PROVE  Cardinality(Stack(f, ClassOf(class, S, u))) \in Nat
      <4>1. IsFiniteSet(ClassOf(class, S, u)) /\ \A x \in ClassOf(class, S, u) : f[x] \in Nat
        BY FS_Subset DEF ClassOf
      <4>2. QED
        BY <4>1, StackFinite, FS_CardinalityType
    <3>2. QED
      BY <1>6, <3>1
  <2>7. Cardinality(Stack(g, D)) = g[t] + Cardinality(Stack(g, R))
    BY <1>1, <1>6, <2>6, StackWithout
  <2> HIDE DEF Of, R, own, Bad, Sizes
  <2>8. Cardinality(Stack(f, Of(D))) = g[t] + Cardinality(Stack(f, Of(R)))
    BY <2>3, <2>4, <2>5, StackUnion
  <2>9. Cardinality(Stack(f, Of(R))) # Cardinality(Stack(g, R))
    BY <1>6, <2>7, <2>8
  <2>10. Cardinality(R) \in Sizes
    BY <2>2, <2>9 DEF Bad, Sizes
  <2>11. QED
    BY <1>1, <1>4, <1>5, <1>6, <2>2, <2>10
<1>9. QED
  BY <1>7, <1>8

\* The sums of the views, each the size of a stack.
LEMMA SumOfRequired ==
  ASSUME NEW S, IsFiniteSet(S), \A p \in S : p.required \in Nat
  PROVE  MapThenSumSet(LAMBDA p : p.required, S) =
           Cardinality(Stack([p \in S |-> p.required], S))
<1> DEFINE f == [p \in S |-> p.required]
           Sums(g) == g = [T \in SUBSET S |->
                            IF T = {} THEN 0 ELSE Pick(T).required + g[T \ {Pick(T)}]]
<1>1. MapThenSumSet(LAMBDA p : p.required, S) = (CHOOSE g : Sums(g))[S]
  BY DEF MapThenSumSet, MapThenFoldSet, Pick
<1>2. ASSUME NEW g PROVE Sums(g) <=> Accumulates(f, S, g)
  <2>1. \A T \in SUBSET S : T # {} => Pick(T).required = f[Pick(T)]
    BY DEF Pick
  <2>2. QED
    BY <2>1 DEF Accumulates
<1>3. \A x \in S : f[x] \in Nat
  OBVIOUS
<1> HIDE DEF Sums, f
<1>4. \E g : Sums(g)
  BY <1>2, <1>3, StackAdds
<1>5. QED
  BY <1>1, <1>2, <1>3, <1>4, AccumulatesStack DEF f
LEMMA SumOfProgress ==
  ASSUME NEW S, IsFiniteSet(S), \A e \in S : (e.progress.collected + Cardinality(e.progress.missing)) \in Nat
  PROVE  MapThenSumSet(LAMBDA e : e.progress.collected + Cardinality(e.progress.missing), S) =
           Cardinality(Stack([e \in S |-> e.progress.collected + Cardinality(e.progress.missing)], S))
<1> DEFINE f == [e \in S |-> e.progress.collected + Cardinality(e.progress.missing)]
           Sums(g) == g = [T \in SUBSET S |->
                            IF T = {} THEN 0 ELSE (Pick(T).progress.collected + Cardinality(Pick(T).progress.missing)) + g[T \ {Pick(T)}]]
<1>1. MapThenSumSet(LAMBDA e : e.progress.collected + Cardinality(e.progress.missing), S) = (CHOOSE g : Sums(g))[S]
  BY DEF MapThenSumSet, MapThenFoldSet, Pick
<1>2. ASSUME NEW g PROVE Sums(g) <=> Accumulates(f, S, g)
  <2>1. \A T \in SUBSET S : T # {} => (Pick(T).progress.collected + Cardinality(Pick(T).progress.missing)) = f[Pick(T)]
    BY DEF Pick
  <2>2. QED
    BY <2>1 DEF Accumulates
<1>3. \A x \in S : f[x] \in Nat
  OBVIOUS
<1> HIDE DEF Sums, f
<1>4. \E g : Sums(g)
  BY <1>2, <1>3, StackAdds
<1>5. QED
  BY <1>1, <1>2, <1>3, <1>4, AccumulatesStack DEF f

LEMMA SumOfPlanned ==
  ASSUME NEW S, IsFiniteSet(S), \A m \in S : m.plannedSamples \in Nat
  PROVE  MapThenSumSet(LAMBDA m : m.plannedSamples, S) =
           Cardinality(Stack([m \in S |-> m.plannedSamples], S))
<1> DEFINE f == [m \in S |-> m.plannedSamples]
           Sums(g) == g = [T \in SUBSET S |->
                            IF T = {} THEN 0 ELSE Pick(T).plannedSamples + g[T \ {Pick(T)}]]
<1>1. MapThenSumSet(LAMBDA m : m.plannedSamples, S) = (CHOOSE g : Sums(g))[S]
  BY DEF MapThenSumSet, MapThenFoldSet, Pick
<1>2. ASSUME NEW g PROVE Sums(g) <=> Accumulates(f, S, g)
  <2>1. \A T \in SUBSET S : T # {} => Pick(T).plannedSamples = f[Pick(T)]
    BY DEF Pick
  <2>2. QED
    BY <2>1 DEF Accumulates
<1>3. \A x \in S : f[x] \in Nat
  OBVIOUS
<1> HIDE DEF Sums, f
<1>4. \E g : Sums(g)
  BY <1>2, <1>3, StackAdds
<1>5. QED
  BY <1>1, <1>2, <1>3, <1>4, AccumulatesStack DEF f

LEMMA SumOfPoints ==
  ASSUME NEW S, IsFiniteSet(S), \A m \in S : m.pointCount \in Nat
  PROVE  MapThenSumSet(LAMBDA m : m.pointCount, S) =
           Cardinality(Stack([m \in S |-> m.pointCount], S))
<1> DEFINE f == [m \in S |-> m.pointCount]
           Sums(g) == g = [T \in SUBSET S |->
                            IF T = {} THEN 0 ELSE Pick(T).pointCount + g[T \ {Pick(T)}]]
<1>1. MapThenSumSet(LAMBDA m : m.pointCount, S) = (CHOOSE g : Sums(g))[S]
  BY DEF MapThenSumSet, MapThenFoldSet, Pick
<1>2. ASSUME NEW g PROVE Sums(g) <=> Accumulates(f, S, g)
  <2>1. \A T \in SUBSET S : T # {} => Pick(T).pointCount = f[Pick(T)]
    BY DEF Pick
  <2>2. QED
    BY <2>1 DEF Accumulates
<1>3. \A x \in S : f[x] \in Nat
  OBVIOUS
<1> HIDE DEF Sums, f
<1>4. \E g : Sums(g)
  BY <1>2, <1>3, StackAdds
<1>5. QED
  BY <1>1, <1>2, <1>3, <1>4, AccumulatesStack DEF f
LEMMA StackOfOnes ==
  ASSUME NEW S, IsFiniteSet(S)
  PROVE  Cardinality(Stack([x \in S |-> 1], S)) = Cardinality(S)
<1> DEFINE f == [x \in S |-> 1]
           g == [T \in SUBSET S |-> Cardinality(T)]
<1>1. ASSUME NEW T \in SUBSET S
      PROVE  g[T] = IF T = {} THEN 0 ELSE f[Pick(T)] + g[T \ {Pick(T)}]
  <2>1. IsFiniteSet(T) /\ Cardinality(T) \in Nat
    BY FS_Subset, FS_CardinalityType
  <2>2. CASE T = {}
    BY <2>2, FS_EmptySet
  <2>3. CASE T # {}
    <3>1. Pick(T) \in T
      BY <2>3 DEF Pick
    <3>2. Cardinality(T \ {Pick(T)}) = Cardinality(T) - 1
      BY <2>1, <3>1, FS_RemoveElement
    <3>3. QED
      BY <2>1, <2>3, <3>1, <3>2
  <2>4. QED
    BY <2>2, <2>3
<1>2. Accumulates(f, S, g)
  BY <1>1 DEF Accumulates
<1>3. \A x \in S : f[x] \in Nat
  OBVIOUS
<1>4. g[S] = Cardinality(S)
  OBVIOUS
<1> HIDE DEF f, g
<1>5. g[S] = Cardinality(Stack(f, S))
  BY <1>2, <1>3, AccumulatesStack
<1>6. QED
  BY <1>4, <1>5 DEF f

LEMMA StackSame ==
  ASSUME NEW S, NEW f, NEW g, \A x \in S : f[x] = g[x]
  PROVE  Stack(f, S) = Stack(g, S)
BY DEF Stack

-------------------------------------------------------------------------------
(* The views of Worklist agree. *)

\* Every point's entry of the progress accounts for the replicates that it requires.
LEMMA ProgressAddsUp ==
  ASSUME NEW points, IsFiniteSet(points), NEW rounds,
         \A p \in points : p.required \in Nat,
         \A p, q \in points : p.id = q.id => p = q
  PROVE  MapThenSumSet(LAMBDA p : p.required, points) =
           MapThenSumSet(LAMBDA e : e.progress.collected + Cardinality(e.progress.missing),
                         SamplingProgress(points, rounds).points)
<1> DEFINE entry == [p \in points |->
                       [point |-> p.id,
                        progress |-> [collected |-> Cardinality(Collected(rounds, p)),
                                      missing |-> MissingReplicates(rounds, p)]]]
           entries == {entry[p] : p \in points}
           f == [p \in points |-> p.required]
           g == [e \in entries |-> e.progress.collected + Cardinality(e.progress.missing)]
<1>1. SamplingProgress(points, rounds).points = entries
  BY DEF SamplingProgress
<1>2. entry \in Surjection(points, entries)
  BY DEF Surjection
<1>3. IsFiniteSet(entries)
  BY <1>2, FS_Surjection
<1>4. ASSUME NEW p \in points PROVE g[entry[p]] = p.required
  <2> DEFINE done == Collected(rounds, p)
             left == MissingReplicates(rounds, p)
  <2> HIDE DEF entry, entries, f, g
  <2>1. p.required \in Nat
    OBVIOUS
  <2>2. PICK slots : slots = 1 .. p.required
    OBVIOUS
  <2>3. IsFiniteSet(slots) /\ Cardinality(slots) = p.required
    BY <2>1, <2>2, FS_Interval
  <2>4. left = slots \ done /\ done \subseteq slots
    BY <2>2 DEF MissingReplicates, Collected
  <2> HIDE DEF done, left
  <2>5. slots \cap done = done
    BY <2>4
  <2>6. Cardinality(left) = p.required - Cardinality(done)
    <3>1. Cardinality(slots \ done) = Cardinality(slots) - Cardinality(slots \cap done)
      BY <2>3, FS_Difference
    <3>2. QED
      BY <2>3, <2>4, <2>5, <3>1
  <2>7. Cardinality(done) \in Nat
    BY <2>3, <2>4, FS_Subset, FS_CardinalityType
  <2>8. Cardinality(done) + Cardinality(left) = p.required
    BY <2>1, <2>6, <2>7
  <2>9. /\ entry[p] \in entries
        /\ entry[p].progress = [collected |-> Cardinality(done), missing |-> left]
    BY DEF entry, entries, done, left
  <2>10. QED
    BY <2>8, <2>9 DEF g
<1>5. ASSUME NEW e \in entries
      PROVE  g[e] = Cardinality(Stack(f, ClassOf(entry, points, e)))
  <2>1. PICK p \in points : e = entry[p]
    OBVIOUS
  <2>2. \A q \in points : entry[q] = e <=> q = p
    BY <2>1
  <2>3. ClassOf(entry, points, e) = {p}
    BY <2>2 DEF ClassOf
  <2> HIDE DEF entry, entries, g
  <2>4. f[p] \in Nat /\ f[p] = g[e]
    BY <1>4, <2>1
  <2> HIDE DEF f
  <2>5. QED
    BY <2>3, <2>4, StackOfOne
<1>6. \A e \in entries : (e.progress.collected + Cardinality(e.progress.missing)) \in Nat
  <2>1. ASSUME NEW e \in entries PROVE (e.progress.collected + Cardinality(e.progress.missing)) \in Nat
    <3>1. PICK p \in points : e = entry[p]
      OBVIOUS
    <3>2. g[e] = e.progress.collected + Cardinality(e.progress.missing)
      OBVIOUS
    <3> HIDE DEF g, entry, entries
    <3>3. QED
      BY <1>4, <3>1, <3>2
  <2> HIDE DEF entries
  <2>2. QED
    BY <2>1
<1>7. /\ \A p \in points : f[p] \in Nat
      /\ \A p \in points : entry[p] \in entries
  OBVIOUS
<1> HIDE DEF entry, entries
<1>8. MapThenSumSet(LAMBDA e : e.progress.collected + Cardinality(e.progress.missing), entries) =
        Cardinality(Stack(g, entries))
  BY <1>3, <1>6, SumOfProgress
<1>9. MapThenSumSet(LAMBDA p : p.required, points) = Cardinality(Stack(f, points))
  BY SumOfRequired
<1> HIDE DEF f, g
<1>10. Cardinality(Stack(f, points)) = Cardinality(Stack(g, entries))
  BY <1>3, <1>5, <1>7, StackOfClasses
<1>11. QED
  BY <1>1, <1>8, <1>9, <1>10
\* The metrics of the summary partition the plan.
LEMMA MetricsAddUp ==
  ASSUME NEW points, IsFiniteSet(points),
         \A p \in points : p.required \in Nat,
         \A p, q \in points : p.metric = q.metric => p.unit = q.unit
  PROVE  LET summary == PlanSummary(points)
         IN /\ summary.plannedSampleCount =
                 MapThenSumSet(LAMBDA m : m.plannedSamples, summary.metrics)
            /\ summary.pointCount = MapThenSumSet(LAMBDA m : m.pointCount, summary.metrics)
<1> DEFINE of(metric) == {q \in points : q.metric = metric}
           row == [p \in points |->
                     [metric |-> p.metric, unit |-> p.unit,
                      pointCount |-> Cardinality(of(p.metric)),
                      plannedSamples |-> MapThenSumSet(LAMBDA q : q.required, of(p.metric))]]
           rows == {row[p] : p \in points}
           f == [p \in points |-> p.required]
           one == [p \in points |-> 1]
           planned == [m \in rows |-> m.plannedSamples]
           count == [m \in rows |-> m.pointCount]
<1>1. /\ PlanSummary(points).plannedSampleCount = MapThenSumSet(LAMBDA p : p.required, points)
      /\ PlanSummary(points).pointCount = Cardinality(points)
      /\ PlanSummary(points).metrics = rows
  BY DEF PlanSummary
<1>2. row \in Surjection(points, rows)
  BY DEF Surjection
<1>3. IsFiniteSet(rows)
  BY <1>2, FS_Surjection
<1>4. ASSUME NEW p \in points
      PROVE  /\ IsFiniteSet(of(p.metric)) /\ of(p.metric) \subseteq points
             /\ ClassOf(row, points, row[p]) = of(p.metric)
             /\ row[p].plannedSamples = MapThenSumSet(LAMBDA q : q.required, of(p.metric))
             /\ row[p].pointCount = Cardinality(of(p.metric))
  <2>1. IsFiniteSet(of(p.metric)) /\ of(p.metric) \subseteq points
    BY FS_Subset
  <2>2. ASSUME NEW q \in points PROVE row[q] = row[p] <=> q.metric = p.metric
    <3>1. row[q].metric = q.metric /\ row[p].metric = p.metric
      OBVIOUS
    <3>2. q.metric = p.metric => q.unit = p.unit /\ of(q.metric) = of(p.metric)
      OBVIOUS
    <3>3. ASSUME q.metric = p.metric PROVE row[q] = row[p]
      BY <3>2, <3>3
    <3>4. QED
      BY <3>1, <3>3
  <2>3. ClassOf(row, points, row[p]) = of(p.metric)
    BY <2>2 DEF ClassOf
  <2>4. QED
    BY <2>1, <2>3
<1> HIDE DEF row, rows
<1>5. ASSUME NEW p \in points
      PROVE  /\ row[p].plannedSamples = Cardinality(Stack(f, ClassOf(row, points, row[p])))
             /\ row[p].pointCount = Cardinality(Stack(one, ClassOf(row, points, row[p])))
             /\ row[p].plannedSamples \in Nat /\ row[p].pointCount \in Nat
  <2> DEFINE own == of(p.metric)
             mine == [q \in own |-> q.required]
             each == [q \in own |-> 1]
  <2>1. /\ IsFiniteSet(own) /\ own \subseteq points
        /\ ClassOf(row, points, row[p]) = own
        /\ row[p].plannedSamples = MapThenSumSet(LAMBDA q : q.required, own)
        /\ row[p].pointCount = Cardinality(own)
    BY <1>4
  <2>2. /\ \A q \in own : q.required \in Nat /\ f[q] \in Nat /\ one[q] \in Nat
        /\ \A q \in own : mine[q] = f[q] /\ each[q] = one[q]
    BY <2>1
  <2> HIDE DEF own
  <2>3. row[p].plannedSamples = Cardinality(Stack(mine, own))
    BY <2>1, <2>2, SumOfRequired
  <2>4. row[p].pointCount = Cardinality(Stack(each, own))
    BY <2>1, StackOfOnes
  <2> HIDE DEF mine, each, f, one
  <2>5. Stack(mine, own) = Stack(f, own) /\ Stack(each, own) = Stack(one, own)
    BY <2>2, StackSame
  <2>6. /\ Cardinality(Stack(f, own)) \in Nat
        /\ Cardinality(Stack(one, own)) \in Nat
    BY <2>1, <2>2, StackFinite, FS_CardinalityType
  <2>7. QED
    BY <2>1, <2>3, <2>4, <2>5, <2>6
<1>6. ASSUME NEW m \in rows
      PROVE  /\ planned[m] = Cardinality(Stack(f, ClassOf(row, points, m)))
             /\ count[m] = Cardinality(Stack(one, ClassOf(row, points, m)))
             /\ m.plannedSamples \in Nat /\ m.pointCount \in Nat
  <2>1. PICK p \in points : m = row[p]
    BY DEF rows
  <2>2. planned[m] = m.plannedSamples /\ count[m] = m.pointCount
    OBVIOUS
  <2> HIDE DEF planned, count, f, one
  <2>3. QED
    BY <1>5, <2>1, <2>2
<1>7. /\ \A p \in points : f[p] \in Nat /\ one[p] \in Nat
      /\ \A p \in points : row[p] \in rows
  BY DEF rows
<1>8. /\ MapThenSumSet(LAMBDA m : m.plannedSamples, rows) = Cardinality(Stack(planned, rows))
      /\ MapThenSumSet(LAMBDA m : m.pointCount, rows) = Cardinality(Stack(count, rows))
  BY <1>3, <1>6, SumOfPlanned, SumOfPoints
<1>9. /\ MapThenSumSet(LAMBDA p : p.required, points) = Cardinality(Stack(f, points))
      /\ Cardinality(points) = Cardinality(Stack(one, points))
  BY SumOfRequired, StackOfOnes
<1> HIDE DEF f, one, planned, count
<1>10. Cardinality(Stack(f, points)) = Cardinality(Stack(planned, rows))
  BY <1>3, <1>6, <1>7, StackOfClasses
<1>11. Cardinality(Stack(one, points)) = Cardinality(Stack(count, rows))
  BY <1>3, <1>6, <1>7, StackOfClasses
<1>12. QED
  BY <1>1, <1>8, <1>9, <1>10, <1>11
-------------------------------------------------------------------------------
(* What holds whatever the ids: a check that drops findings keeps a campaign regular. *)

\* The batch of a check that keeps these findings.
KeptBatch(c, kept) ==
    [InspectionBatch(c.points, c.rounds, c.version) EXCEPT !.findingCount = Cardinality(kept)]

\* A check's result, field by field, in terms of the campaign before it.
LEMMA CheckFields ==
  ASSUME NEW c, Sound(c), Intact(c), NEW kept
  PROVE  LET d == Check(c, kept)
             batch == KeptBatch(c, kept)
         IN /\ DOMAIN d = CampaignFields
            /\ d.findings = [f \in (DOMAIN c.findings) \cup kept |->
                               SubmitForReview(c).findings[f]]
            /\ d.batches = c.batches \cup {batch}
            /\ batch.id = c.version /\ batch.findingCount = Cardinality(kept)
            /\ batch.rounds = EffectiveRounds(c.points, c.rounds)
            /\ d.id = c.id /\ d.plannedDate = c.plannedDate /\ d.points = c.points
            /\ d.instruments = c.instruments /\ d.rounds = c.rounds
            /\ d.manifestHash = c.manifestHash /\ d.frozenVersion = c.frozenVersion
            /\ d.credential = c.credential
            /\ d.status = "ReviewPending" /\ d.version = c.version + 1
            /\ d.currentBatch = {c.version}
            /\ \A g \in CampaignFields \ {"findings", "batches"} : d[g] = SubmitForReview(c)[g]
<1> DEFINE d == Check(c, kept)
           all == SubmitForReview(c)
           plain == InspectionBatch(c.points, c.rounds, c.version)
           batch == KeptBatch(c, kept)
<1>1. DOMAIN c = CampaignFields /\ c.version \in Nat
  BY DEF Sound, WellTyped
<1>2. /\ all.batches = c.batches \cup {plain}
      /\ all.status = "ReviewPending" /\ all.version = c.version + 1
      /\ all.currentBatch = {c.version}
      /\ \A g \in CampaignFields \ {"status", "version", "readiness", "progress",
                                    "currentBatch", "findings", "batches"} : all[g] = c[g]
  BY <1>1, SubmitFrame
<1>3. /\ DOMAIN d = CampaignFields
      /\ d.findings = [f \in (DOMAIN c.findings) \cup kept |-> all.findings[f]]
      /\ d.batches = {IF b.id = c.version
                        THEN [b EXCEPT !.findingCount = Cardinality(kept)] ELSE b
                        : b \in all.batches}
      /\ \A g \in CampaignFields \ {"findings", "batches"} : d[g] = all[g]
  BY <1>1, CheckFrame
<1>4. /\ plain.id = c.version /\ batch.id = c.version
      /\ batch.findingCount = Cardinality(kept)
      /\ batch.rounds = EffectiveRounds(c.points, c.rounds)
  BY DEF InspectionBatch, KeptBatch
<1>5. \A b \in c.batches : b.id # c.version
  BY <1>1 DEF Intact, NumbersPast
<1>6. batch = [plain EXCEPT !.findingCount = Cardinality(kept)]
  BY DEF KeptBatch
<1> HIDE DEF d, all, plain, batch
<1>7. d.batches = c.batches \cup {batch}
  BY <1>2, <1>3, <1>4, <1>5, <1>6
<1>8. /\ d.id = c.id /\ d.plannedDate = c.plannedDate /\ d.points = c.points
      /\ d.instruments = c.instruments /\ d.rounds = c.rounds
      /\ d.manifestHash = c.manifestHash /\ d.frozenVersion = c.frozenVersion
      /\ d.credential = c.credential
      /\ d.status = "ReviewPending" /\ d.version = c.version + 1
      /\ d.currentBatch = {c.version}
  BY <1>2, <1>3 DEF CampaignFields
<1>9. QED
  BY <1>3, <1>4, <1>7, <1>8 DEF d, all, batch, plain

\* The findings that a check leaves: the old ones as they were, the kept ones undecided.
LEMMA CheckFindings ==
  ASSUME NEW c, Sound(c), Intact(c), CanSubmitForReview(c),
         NEW kept \in SUBSET Raised(c.points, c.rounds, c.version)
  PROVE  LET d == Check(c, kept)
             all == SubmitForReview(c)
         IN /\ DOMAIN d.findings = (DOMAIN c.findings) \cup kept
            /\ DOMAIN d.findings \subseteq DOMAIN all.findings
            /\ \A f \in DOMAIN d.findings : d.findings[f] = all.findings[f]
            /\ \A f \in kept : f.batch = c.version
            /\ \A f \in DOMAIN c.findings : f.batch \in Nat /\ f.batch < c.version
            /\ \A f \in DOMAIN d.findings : DecisionOf(d, f) # "NeedsRemediation"
            /\ \A f \in DOMAIN d.findings : DecisionOf(d, f) = "Remediated" =>
                 f \in DOMAIN c.findings /\ d.findings[f] = c.findings[f]
<1> DEFINE d == Check(c, kept)
           all == SubmitForReview(c)
           raised == Raised(c.points, c.rounds, c.version)
<1>1. /\ DOMAIN c = CampaignFields /\ c.version \in Nat
      /\ c.points \in SUBSET Point /\ c.rounds \in Seq(Round)
  BY DEF Sound, WellTyped
<1>2. all.findings = [f \in (DOMAIN c.findings) \cup raised |->
                        IF f \in DOMAIN c.findings THEN c.findings[f] ELSE Undecided]
  BY <1>1, SubmitFrame
<1>3. d.findings = [f \in (DOMAIN c.findings) \cup kept |-> all.findings[f]]
  BY <1>1, CheckFrame
<1>4. \A f \in kept : f.batch = c.version
  BY <1>1, RaisedTyped
<1>5. \A f \in DOMAIN c.findings : f.batch \in Nat /\ f.batch < c.version
  BY FindingsIntactParts DEF Intact, NumbersPast
<1> HIDE DEF d, all, raised
<1>6. /\ DOMAIN d.findings = (DOMAIN c.findings) \cup kept
      /\ DOMAIN d.findings \subseteq DOMAIN all.findings
      /\ \A f \in DOMAIN d.findings : d.findings[f] = all.findings[f]
  BY <1>2, <1>3 DEF raised
<1>7. Undecided.decision = "Pending"
  BY DEF Undecided
<1>8. \A f \in DOMAIN c.findings : c.findings[f].decision # "NeedsRemediation"
  BY DEF CanSubmitForReview, Open, DecisionOf
<1>9. ASSUME NEW f \in DOMAIN d.findings
      PROVE  \/ f \in DOMAIN c.findings /\ d.findings[f] = c.findings[f]
             \/ d.findings[f] = Undecided
  BY <1>2, <1>6
<1>10. ASSUME NEW f \in DOMAIN d.findings
       PROVE  /\ DecisionOf(d, f) # "NeedsRemediation"
              /\ DecisionOf(d, f) = "Remediated" =>
                   f \in DOMAIN c.findings /\ d.findings[f] = c.findings[f]
  BY <1>7, <1>8, <1>9 DEF DecisionOf
<1>11. QED
  BY <1>4, <1>5, <1>6, <1>10 DEF d, all

\* A check keeps a campaign regular, whatever it drops.
LEMMA CheckRegular ==
  ASSUME NEW c, Regular(c), CanSubmitForReview(c),
         NEW kept \in SUBSET Raised(c.points, c.rounds, c.version)
  PROVE  Regular(Check(c, kept))
<1> DEFINE d == Check(c, kept)
           all == SubmitForReview(c)
           batch == KeptBatch(c, kept)
<1>1. /\ Sound(c) /\ SealHolds(c) /\ Intact(c) /\ Summed(c) /\ Traced(c)
      /\ DOMAIN c = CampaignFields /\ c.status = "Executing" /\ c.version \in Nat
  BY DEF Regular, Sound, WellTyped, CanSubmitForReview
<1>2. Sound(all) /\ Intact(all) /\ Summed(all)
  BY SubmitRegular DEF Regular
<1>3. /\ DOMAIN d = CampaignFields
      /\ d.findings = [f \in (DOMAIN c.findings) \cup kept |-> all.findings[f]]
      /\ d.batches = c.batches \cup {batch}
      /\ batch.id = c.version /\ batch.findingCount = Cardinality(kept)
      /\ batch.rounds = EffectiveRounds(c.points, c.rounds)
      /\ d.points = c.points /\ d.instruments = c.instruments /\ d.rounds = c.rounds
      /\ d.credential = c.credential
      /\ d.status = "ReviewPending" /\ d.version = c.version + 1
      /\ d.currentBatch = {c.version}
      /\ \A g \in CampaignFields \ {"findings", "batches"} : d[g] = all[g]
  BY <1>1, CheckFields
<1>4. /\ DOMAIN d.findings = (DOMAIN c.findings) \cup kept
      /\ DOMAIN d.findings \subseteq DOMAIN all.findings
      /\ \A f \in DOMAIN d.findings : d.findings[f] = all.findings[f]
      /\ \A f \in kept : f.batch = c.version
      /\ \A f \in DOMAIN c.findings : f.batch \in Nat /\ f.batch < c.version
      /\ \A f \in DOMAIN d.findings : DecisionOf(d, f) # "NeedsRemediation"
      /\ \A f \in DOMAIN d.findings : DecisionOf(d, f) = "Remediated" =>
           f \in DOMAIN c.findings /\ d.findings[f] = c.findings[f]
  BY <1>1, CheckFindings
<1>5. /\ all.id = d.id /\ all.plannedDate = d.plannedDate /\ all.points = d.points
      /\ all.status = d.status /\ all.version = d.version /\ all.instruments = d.instruments
      /\ all.rounds = d.rounds /\ all.currentBatch = d.currentBatch
      /\ all.frozenVersion = d.frozenVersion /\ all.manifestHash = d.manifestHash
      /\ all.readiness = d.readiness /\ all.progress = d.progress
  BY <1>3 DEF CampaignFields
<1>6. all.batches = c.batches \cup {InspectionBatch(c.points, c.rounds, c.version)}
  BY <1>1, SubmitFrame
<1> HIDE DEF d, all, batch
<1>7. Sound(d)
  <2>1. WellTyped(d)
    <3>1. DOMAIN all.findings \subseteq Finding /\ all.findings \in [DOMAIN all.findings -> Disposition]
      BY <1>2 DEF Sound, WellTyped
    <3>2. DOMAIN d.findings \subseteq Finding
      BY <1>4, <3>1
    <3>3. \A f \in (DOMAIN c.findings) \cup kept : all.findings[f] \in Disposition
      BY <1>4, <3>1
    <3>4. d.findings \in [(DOMAIN c.findings) \cup kept -> Disposition]
      BY <1>3, <3>3
    <3>5. d.findings \in [DOMAIN d.findings -> Disposition]
      BY <1>4, <3>4
    <3>6. QED
      BY <1>2, <1>3, <1>5, <3>2, <3>5 DEF Sound, WellTyped
  <2>2. Pending(all) \cup Open(all) \subseteq CurrentFindings(all)
    BY <1>2 DEF Sound, WorkIsCurrent
  <2>3. Pending(d) \subseteq Pending(all) /\ Open(d) \subseteq Open(all)
    BY <1>4 DEF Pending, Open, DecisionOf
  <2>4. WorkIsCurrent(d)
    BY <1>4, <1>5, <2>2, <2>3 DEF WorkIsCurrent, CurrentFindings, Pending, Open
  <2>5. StatusFits(d)
    BY <1>3 DEF StatusFits
  <2>6. QED
    BY <2>1, <2>4, <2>5 DEF Sound
<1>8. SealHolds(d)
  BY <1>1, <1>3, OpenSeal DEF IsFrozen
<1>9. Intact(d)
  <2>1. /\ d.points # {} /\ PointsIntact(d) /\ InstrumentsIntact(d)
        /\ RoundsIntact(d) /\ SamplesPlanned(d)
    BY <1>1, <1>3 DEF Intact, PointsIntact, InstrumentsIntact, RoundsIntact, SamplesPlanned
  <2>2. BatchesIntact(d) /\ NumbersPast(d)
    <3>1. /\ \A a, b \in c.batches : a # b => a.id # b.id
          /\ \A b \in c.batches : b.id >= 1 /\ b.rounds \subseteq RoundIdsOf(c.rounds)
          /\ \A b \in c.batches : b.id \in Nat /\ b.id < c.version
      BY <1>1 DEF Intact, BatchesIntact, NumbersPast
    <3>2. c.version >= 1
      BY <1>1 DEF Sound, WellTyped
    <3>3. batch.rounds \subseteq RoundIdsOf(c.rounds)
      <4>1. \A p \in c.points : \A e \in Effective(c.rounds, p.id) : e.round \in DOMAIN c.rounds
        BY <1>1, EffectiveShape DEF Sound, WellTyped
      <4>2. QED
        BY <1>3, <4>1 DEF EffectiveRounds, RoundIdsOf
    <3>4. \A a, b \in d.batches : a # b => a.id # b.id
      BY <1>1, <1>3, <3>1
    <3>5. \A b \in d.batches : b.id >= 1 /\ b.rounds \subseteq RoundIdsOf(d.rounds)
      BY <1>3, <3>1, <3>2, <3>3
    <3>6. \A b \in d.batches : b.id \in Nat /\ b.id < d.version
      BY <1>1, <1>3, <3>1
    <3>7. QED
      BY <1>3, <3>4, <3>5, <3>6 DEF BatchesIntact, NumbersPast
  <2>3. FindingsFound(d)
    BY <1>2, <1>4, <1>5 DEF Intact, FindingsFound
  <2>4. FindingsIntact(d)
    <3>1. /\ \A f \in DOMAIN all.findings :
               /\ \E p \in all.points : p.id = f.point
               /\ f.round \subseteq RoundIdsOf(all.rounds)
               /\ DispositionIntact(all.findings[f], RoundIdsOf(all.rounds))
          /\ \A f, g \in DOMAIN all.findings :
               f # g => <<f.batch, FindingKey(f)>> # <<g.batch, FindingKey(g)>>
      BY <1>2, FindingsIntactParts DEF Intact
    <3>2. \A f \in DOMAIN c.findings : \E b \in c.batches : b.id = f.batch
      BY <1>1, FindingsIntactParts DEF Intact
    <3>3. \A f \in DOMAIN d.findings : \E b \in d.batches : b.id = f.batch
      BY <1>3, <1>4, <3>2
    <3>4. \A f \in DOMAIN d.findings :
               /\ \E b \in d.batches : b.id = f.batch
               /\ \E p \in d.points : p.id = f.point
               /\ f.round \subseteq RoundIdsOf(d.rounds)
               /\ DispositionIntact(d.findings[f], RoundIdsOf(d.rounds))
      BY <1>4, <1>5, <3>1, <3>3
    <3>5. \A f, g \in DOMAIN d.findings :
               f # g => <<f.batch, FindingKey(f)>> # <<g.batch, FindingKey(g)>>
      BY <1>4, <3>1
    <3>6. QED
      BY <3>4, <3>5, FindingsIntactParts
  <2>5. QED
    BY <2>1, <2>2, <2>3, <2>4 DEF Intact
<1>10. Summed(d)
  <2>1. ViewsFresh(d) /\ LeftDraft(d) /\ ReleaseFits(d)
    BY <1>2, <1>5 DEF Summed, ViewsFresh, LeftDraft, ReleaseFits
  <2>2. ASSUME NEW b \in d.batches PROVE b.findingCount = Cardinality(FindingsOf(d, b.id))
    <3>1. CASE b = batch
      <4>1. FindingsOf(d, b.id) = kept
        BY <1>1, <1>3, <1>4, <3>1 DEF FindingsOf
      <4>2. QED
        BY <1>3, <3>1, <4>1
    <3>2. CASE b \in c.batches
      <4>1. b.id \in Nat /\ b.id < c.version
        BY <1>1, <3>2 DEF Intact, NumbersPast
      <4>2. FindingsOf(d, b.id) = FindingsOf(c, b.id)
        BY <1>1, <1>4, <4>1 DEF FindingsOf
      <4>3. QED
        BY <1>1, <3>2, <4>2 DEF Summed, CountsFit
    <3>3. QED
      BY <1>3, <3>1, <3>2
  <2>3. QED
    BY <2>1, <2>2 DEF Summed, CountsFit
<1>11. Traced(d)
  <2>1. SlotsOnce(d) /\ Retested(d)
    BY <1>1, <1>3, <1>4, EvidenceStays DEF Traced
  <2>2. Open(d) = {}
    BY <1>4 DEF Open
  <2>3. QED
    BY <2>1, <2>2 DEF Traced, WorkLeft
<1>12. QED
  BY <1>7, <1>8, <1>9, <1>10, <1>11 DEF Regular, d

\* A check loses nothing either, whatever it drops of what it raised.
LEMMA CheckKeeps ==
  ASSUME NEW c, Sound(c), Intact(c), CanSubmitForReview(c),
         NEW kept \in SUBSET Raised(c.points, c.rounds, c.version)
  PROVE  Keeps(c, Check(c, kept))
<1> DEFINE d == Check(c, kept)
           all == SubmitForReview(c)
           batch == KeptBatch(c, kept)
<1>1. DOMAIN c = CampaignFields /\ Sound(c) /\ Intact(c)
  BY DEF Sound, WellTyped
<1>2. /\ DOMAIN d = CampaignFields
      /\ d.findings = [f \in (DOMAIN c.findings) \cup kept |-> all.findings[f]]
      /\ d.batches = c.batches \cup {batch}
      /\ batch.id = c.version /\ batch.findingCount = Cardinality(kept)
      /\ batch.rounds = EffectiveRounds(c.points, c.rounds)
      /\ d.points = c.points /\ d.instruments = c.instruments /\ d.rounds = c.rounds
      /\ d.credential = c.credential
      /\ d.status = "ReviewPending" /\ d.version = c.version + 1
      /\ d.currentBatch = {c.version}
      /\ \A g \in CampaignFields \ {"findings", "batches"} : d[g] = all[g]
  BY <1>1, CheckFields
<1>3. /\ DOMAIN d.findings = (DOMAIN c.findings) \cup kept
      /\ \A f \in DOMAIN d.findings : d.findings[f] = all.findings[f]
  BY CheckFindings
<1>4. all.findings = [f \in (DOMAIN c.findings) \cup Raised(c.points, c.rounds, c.version) |->
                        IF f \in DOMAIN c.findings THEN c.findings[f] ELSE Undecided]
  BY <1>1, SubmitFrame
<1> HIDE DEF d, all, batch
<1>5. \A f \in DOMAIN c.findings : f \in DOMAIN d.findings /\ d.findings[f] = c.findings[f]
  BY <1>3, <1>4
<1>6. Keeps(c, d)
  BY <1>2, <1>5 DEF Keeps, MayBecome, DecisionOf
<1>7. QED
  BY <1>6 DEF d

\* The findings of a campaign have different ids.
FindingsApart(c) ==
    \A f, g \in DOMAIN c.findings : f.batch = g.batch /\ KeyText(f) = KeyText(g) => f = g

LEMMA CheckApart ==
  ASSUME NEW c, Sound(c), Intact(c), CanSubmitForReview(c), FindingsApart(c),
         NEW kept \in Deduplicated(Raised(c.points, c.rounds, c.version))
  PROVE  FindingsApart(Check(c, kept))
<1> DEFINE d == Check(c, kept)
<1>1. /\ kept \subseteq Raised(c.points, c.rounds, c.version)
      /\ \A f, g \in kept : KeyText(f) = KeyText(g) => f = g
  BY DEF Deduplicated
<1>2. /\ DOMAIN d.findings = (DOMAIN c.findings) \cup kept
      /\ \A f \in kept : f.batch = c.version
      /\ \A f \in DOMAIN c.findings : f.batch \in Nat /\ f.batch < c.version
  BY <1>1, CheckFindings
<1>3. c.version \in Nat
  BY DEF Sound, WellTyped
<1> HIDE DEF d
<1>4. ASSUME NEW f \in DOMAIN d.findings, NEW g \in DOMAIN d.findings,
             f.batch = g.batch, KeyText(f) = KeyText(g)
      PROVE  f = g
  <2>1. (f \in kept /\ g \in kept) \/ (f \in DOMAIN c.findings /\ g \in DOMAIN c.findings)
    BY <1>2, <1>3, <1>4
  <2>2. QED
    BY <1>1, <1>4, <2>1 DEF FindingsApart
<1>5. QED
  BY <1>4 DEF FindingsApart, d

-------------------------------------------------------------------------------
(* The steps of FindingKeys and of the clients, whatever the ids: a check may drop a      *)
(* finding whose key another one has, so that Accounts is lost, and nothing else is.      *)

\* A defect without a finding of its own has at least one with its key, and what has a
\* finding is a defect: a check drops nothing for any other reason, and what an earlier
\* batch found is found again.
EveryDefectHasKey ==
    campaign.status \in {"ReviewPending", "Frozen", "Certified"} =>
      \A batch \in campaign.currentBatch :
        CurrentFindings(campaign) \in
          Deduplicated(Raised(campaign.points, campaign.rounds, batch))

\* The id of a finding hashes its batch and its key (newFinding), so that these tell the
\* findings of a campaign apart even where keys collide.  The check before a save
\* (integrity.go:151) and the primary key of findings refuse anything else.
FindingIdsUnique ==
    \A f, g \in DOMAIN campaign.findings :
      f.batch = g.batch /\ KeyText(f) = KeyText(g) => f = g

\* What a check keeps is what is under review until the release.
InReview(c) == c.status \in {"ReviewPending", "Frozen", "Certified"}

Keyed(c) ==
    InReview(c) =>
      \A b \in c.currentBatch : CurrentFindings(c) \in Deduplicated(Raised(c.points, c.rounds, b))

KInv ==
    /\ Regular(campaign)
    /\ EveryDefectHasKey
    /\ FindingIdsUnique
    /\ IsFiniteSet(campaign.points)

LEMMA KInvAtFirst == Init => KInv
<1> SUFFICES ASSUME Init PROVE KInv
  OBVIOUS
<1>1. Regular(campaign) /\ Sound(campaign)
  BY HealthyAtFirst DEF HInv, Healthy, Regular
<1>2. PICK plan \in Plans : campaign = NewCampaign(plan.id, plan.plannedDate, plan.points)
  BY DEF Init
<1> DEFINE points == plan.points
<1>3. /\ campaign.points = {points[i] : i \in DOMAIN points}
      /\ campaign.findings = [f \in {} |-> Undecided]
  BY <1>2 DEF NewCampaign
<1>4. points \in Seq(Point)
  BY RequestsAssumption
<1> HIDE DEF points
<1>5. IsFiniteSet(campaign.points)
  <2>1. PICK n \in Nat : DOMAIN points = 1 .. n
    BY <1>4
  <2>2. IsFiniteSet(DOMAIN points)
    BY <2>1, FS_Interval
  <2> DEFINE at == [i \in DOMAIN points |-> points[i]]
  <2>3. at \in Surjection(DOMAIN points, campaign.points)
    BY <1>3 DEF Surjection
  <2>4. QED
    BY <2>2, <2>3, FS_Surjection
<1>6. FindingIdsUnique
  BY <1>3 DEF FindingIdsUnique
<1>7. campaign.status = "Draft"
  BY <1>2 DEF NewCampaign
<1>8. QED
  BY <1>1, <1>5, <1>6, <1>7 DEF KInv, EveryDefectHasKey

LEMMA KeysSteps ==
  [KeysNext]_vars =>
    Registers \/ Adds \/ CheckAction \/ Decides \/ Freezes \/ Certifies \/ Stays
<1> SUFFICES ASSUME [KeysNext]_vars
             PROVE  Registers \/ Adds \/ CheckAction \/ Decides \/ Freezes \/ Certifies \/ Stays
  OBVIOUS
<1>1. CASE RegisterInstrumentsAction
  BY <1>1, RequestsAssumption DEF RegisterInstrumentsAction, Registers
<1>2. CASE AddRoundAction
  BY <1>2, RequestsAssumption DEF AddRoundAction, Adds
<1>3. CASE DecideFindingAction
  <2>1. PICK f \in DOMAIN campaign.findings, decision \in Decisions, noted \in BOOLEAN,
             actor \in Actors :
          /\ CanDecideFinding(campaign, f, decision, noted)
          /\ campaign' = DecideFinding(campaign, f, decision, actor)
    BY <1>3 DEF DecideFindingAction
  <2>2. CanDecideFinding(campaign, f, decision, TRUE)
    BY <2>1 DEF CanDecideFinding
  <2>3. QED
    BY <2>1, <2>2 DEF Decides
<1>4. CASE FreezePreflightAction
  BY <1>4 DEF FreezePreflightAction, Stays
<1>5. CASE FreezeAction
  BY <1>5 DEF FreezeAction, ConfirmsCandidate, Freezes
<1>6. CASE IssueAction
  BY <1>6 DEF IssueAction, Certifies
<1>7. CASE UNCHANGED vars
  BY <1>7 DEF vars, Stays
<1>8. QED
  BY <1>1, <1>2, <1>3, <1>4, <1>5, <1>6, <1>7 DEF KeysNext

\* What the proofs need of every step.
LEMMA StepRegular ==
  ASSUME Regular(campaign),
         Registers \/ Adds \/ CheckAction \/ Decides \/ Freezes \/ Certifies \/ Stays
  PROVE  Regular(campaign')
<1>1. CASE Registers
  BY <1>1, RegisterRegular DEF Registers
<1>2. CASE Adds
  BY <1>2, AddRoundRegular DEF Adds
<1>3. CASE CheckAction
  <2>1. PICK kept \in Deduplicated(Raised(campaign.points, campaign.rounds, campaign.version)) :
          CanSubmitForReview(campaign) /\ campaign' = Check(campaign, kept)
    BY <1>3 DEF CheckAction
  <2>2. kept \in SUBSET Raised(campaign.points, campaign.rounds, campaign.version)
    BY <2>1 DEF Deduplicated
  <2>3. QED
    BY <2>1, <2>2, CheckRegular
<1>4. CASE Decides
  BY <1>4, DecideRegular DEF Decides
<1>5. CASE Freezes
  BY <1>5, FreezeRegular DEF Freezes
<1>6. CASE Certifies
  BY <1>6, CertifyRegular DEF Certifies
<1>7. CASE Stays
  BY <1>7 DEF Stays
<1>8. QED
  BY <1>1, <1>2, <1>3, <1>4, <1>5, <1>6, <1>7

LEMMA StepHistory ==
  ASSUME Regular(campaign),
         Registers \/ Adds \/ CheckAction \/ Decides \/ Freezes \/ Certifies \/ Stays
  PROVE  campaign' = campaign \/ Keeps(campaign, campaign')
<1>1. Sound(campaign) /\ Intact(campaign)
  BY DEF Regular
<1>2. CASE Registers
  BY <1>1, <1>2, RegisterKeeps DEF Registers
<1>3. CASE Adds
  BY <1>1, <1>3, AddRoundKeeps DEF Adds
<1>4. CASE CheckAction
  <2>1. PICK kept \in Deduplicated(Raised(campaign.points, campaign.rounds, campaign.version)) :
          CanSubmitForReview(campaign) /\ campaign' = Check(campaign, kept)
    BY <1>4 DEF CheckAction
  <2>2. kept \in SUBSET Raised(campaign.points, campaign.rounds, campaign.version)
    BY <2>1 DEF Deduplicated
  <2>3. QED
    BY <1>1, <2>1, <2>2, CheckKeeps
<1>5. CASE Decides
  BY <1>1, <1>5, DecideKeeps DEF Decides
<1>6. CASE Freezes
  BY <1>1, <1>6, FreezeKeeps DEF Freezes
<1>7. CASE Certifies
  BY <1>1, <1>7, CertifyKeeps DEF Certifies
<1>8. CASE Stays
  BY <1>8 DEF Stays
<1>9. QED
  BY <1>2, <1>3, <1>4, <1>5, <1>6, <1>7, <1>8

LEMMA SameFindings ==
  ASSUME NEW c, DOMAIN c = CampaignFields
  PROVE  /\ \A round : DOMAIN AddRound(c, round).findings = DOMAIN c.findings
         /\ \A f, decision, actor :
              LET d == DecideFinding(c, f, decision, actor)
              IN /\ DOMAIN d.findings = DOMAIN c.findings
                 /\ d.points = c.points /\ d.rounds = c.rounds /\ d.currentBatch = c.currentBatch
<1>1. ASSUME NEW round PROVE DOMAIN AddRound(c, round).findings = DOMAIN c.findings
  <2>1. AddRound(c, round).findings = Closed(c, round).findings
    BY AddRoundFrame
  <2> DEFINE closed == Closed(c, round)
  <2>2. closed.findings = [f \in DOMAIN c.findings |->
                             IF f \in ClosedBy(c, round)
                               THEN Remedied(c.findings[f], round.id)
                               ELSE c.findings[f]]
    BY ClosedFrame
  <2> HIDE DEF closed
  <2>3. DOMAIN closed.findings = DOMAIN c.findings
    BY <2>2
  <2>4. QED
    BY <2>1, <2>3 DEF closed
<1>2. ASSUME NEW f, NEW decision, NEW actor
      PROVE  LET d == DecideFinding(c, f, decision, actor)
             IN /\ DOMAIN d.findings = DOMAIN c.findings
                /\ d.points = c.points /\ d.rounds = c.rounds /\ d.currentBatch = c.currentBatch
  <2> DEFINE d == DecideFinding(c, f, decision, actor)
             judged == Judged(c, f, decision, actor)
  <2>1. /\ d.findings = judged.findings
        /\ judged.findings = [g \in DOMAIN c.findings |->
             IF g = f THEN Decided(c.findings[g], decision, actor) ELSE c.findings[g]]
        /\ \A g \in CampaignFields \ {"status", "version", "findings"} : d[g] = c[g]
    BY DecideFrame
  <2> HIDE DEF d, judged
  <2>2. /\ DOMAIN d.findings = DOMAIN c.findings
        /\ d.points = c.points /\ d.rounds = c.rounds /\ d.currentBatch = c.currentBatch
    BY <2>1 DEF CampaignFields
  <2>3. QED
    BY <2>2 DEF d
<1>3. QED
  BY <1>1, <1>2

LEMMA StepApart ==
  ASSUME Sound(campaign), Intact(campaign), FindingsApart(campaign),
         Registers \/ Adds \/ CheckAction \/ Decides \/ Freezes \/ Certifies \/ Stays
  PROVE  FindingsApart(campaign')
<1>1. DOMAIN campaign = CampaignFields
  BY DEF Sound, WellTyped
<1>2. ASSUME DOMAIN campaign'.findings = DOMAIN campaign.findings
      PROVE  FindingsApart(campaign')
  BY <1>2 DEF FindingsApart
<1>3. CASE Registers
  <2>1. PICK items : campaign' = RegisterInstruments(campaign, items)
    BY <1>3 DEF Registers
  <2>2. campaign'.findings = campaign.findings
    BY <1>1, <2>1, RegisterFrame DEF CampaignFields
  <2>3. QED
    BY <1>2, <2>2
<1>4. CASE Adds
  <2>1. PICK round : campaign' = AddRound(campaign, round)
    BY <1>4 DEF Adds
  <2>2. QED
    BY <1>1, <1>2, <2>1, SameFindings
<1>5. CASE CheckAction
  <2>1. PICK kept \in Deduplicated(Raised(campaign.points, campaign.rounds, campaign.version)) :
          CanSubmitForReview(campaign) /\ campaign' = Check(campaign, kept)
    BY <1>5 DEF CheckAction
  <2>2. QED
    BY <2>1, CheckApart
<1>6. CASE Decides
  <2>1. PICK f, decision, actor : campaign' = DecideFinding(campaign, f, decision, actor)
    BY <1>6 DEF Decides
  <2>2. QED
    BY <1>1, <1>2, <2>1, SameFindings
<1>7. CASE Freezes
  <2>1. campaign'.findings = campaign.findings
    BY <1>1, <1>7, FreezeFrame DEF Freezes, CampaignFields
  <2>2. QED
    BY <1>2, <2>1
<1>8. CASE Certifies
  <2>1. PICK k : campaign' = Certify(campaign, k)
    BY <1>8 DEF Certifies
  <2>2. campaign'.findings = campaign.findings
    BY <1>1, <2>1, CertifyFrame DEF CampaignFields
  <2>3. QED
    BY <1>2, <2>2
<1>9. CASE Stays
  BY <1>2, <1>9 DEF Stays
<1>10. QED
  BY <1>3, <1>4, <1>5, <1>6, <1>7, <1>8, <1>9

LEMMA StaysKeyed ==
  ASSUME NEW c, NEW d, Keyed(c), InReview(d) => InReview(c),
         d.points = c.points, d.rounds = c.rounds, d.currentBatch = c.currentBatch,
         DOMAIN d.findings = DOMAIN c.findings
  PROVE  Keyed(d)
<1>1. CurrentFindings(d) = CurrentFindings(c)
  BY DEF CurrentFindings
<1>2. QED
  BY <1>1 DEF Keyed

LEMMA CheckKeyed ==
  ASSUME NEW c, Sound(c), Intact(c), CanSubmitForReview(c),
         NEW kept \in SUBSET Raised(c.points, c.rounds, c.version),
         kept \in Deduplicated(Raised(c.points, c.rounds, c.version))
  PROVE  Keyed(Check(c, kept))
<1> DEFINE d == Check(c, kept)
           all == SubmitForReview(c)
           batch == KeptBatch(c, kept)
<1>1. Sound(c) /\ Intact(c) /\ DOMAIN c = CampaignFields
  BY DEF Sound, WellTyped
<1>2. /\ DOMAIN d.findings = (DOMAIN c.findings) \cup kept
      /\ \A f \in kept : f.batch = c.version
      /\ \A f \in DOMAIN c.findings : f.batch \in Nat /\ f.batch < c.version
  BY CheckFindings
<1>3. /\ DOMAIN d = CampaignFields
      /\ d.findings = [f \in (DOMAIN c.findings) \cup kept |-> all.findings[f]]
      /\ d.batches = c.batches \cup {batch}
      /\ batch.id = c.version /\ batch.findingCount = Cardinality(kept)
      /\ batch.rounds = EffectiveRounds(c.points, c.rounds)
      /\ d.points = c.points /\ d.instruments = c.instruments /\ d.rounds = c.rounds
      /\ d.credential = c.credential
      /\ d.status = "ReviewPending" /\ d.version = c.version + 1
      /\ d.currentBatch = {c.version}
      /\ \A g \in CampaignFields \ {"findings", "batches"} : d[g] = all[g]
  BY <1>1, CheckFields
<1> HIDE DEF d, all, batch
<1>4. CurrentFindings(d) = kept
  BY <1>2, <1>3 DEF CurrentFindings
<1>5. Keyed(d)
  BY <1>3, <1>4 DEF Keyed
<1>6. QED
  BY <1>5 DEF d

LEMMA StepKeyed ==
  ASSUME Sound(campaign), Intact(campaign), Keyed(campaign),
         Registers \/ Adds \/ CheckAction \/ Decides \/ Freezes \/ Certifies \/ Stays
  PROVE  Keyed(campaign')
<1>1. DOMAIN campaign = CampaignFields
  BY DEF Sound, WellTyped
<1>2. CASE Registers
  <2>1. PICK items : /\ campaign' = RegisterInstruments(campaign, items)
                     /\ campaign.status = "Draft"
    BY <1>2 DEF Registers, CanRegisterInstruments
  <2>2. campaign'.status \in {"Ready", "Draft"}
    BY <1>1, <2>1, RegisterFrame
  <2>3. QED
    BY <2>2 DEF Keyed, InReview
<1>3. CASE Adds
  <2>1. PICK round : campaign' = AddRound(campaign, round)
    BY <1>3 DEF Adds
  <2>2. campaign'.status \in {"Remediation", "Executing"}
    BY <1>1, <2>1, AddRoundFrame
  <2>3. QED
    BY <2>2 DEF Keyed, InReview
<1>4. CASE CheckAction
  <2>1. PICK kept \in Deduplicated(Raised(campaign.points, campaign.rounds, campaign.version)) :
          CanSubmitForReview(campaign) /\ campaign' = Check(campaign, kept)
    BY <1>4 DEF CheckAction
  <2>2. kept \in SUBSET Raised(campaign.points, campaign.rounds, campaign.version)
    BY <2>1 DEF Deduplicated
  <2>3. QED
    BY <2>1, <2>2, CheckKeyed
<1>5. CASE Decides
  <2>1. PICK f, decision, actor : /\ campaign' = DecideFinding(campaign, f, decision, actor)
                                  /\ campaign.status = "ReviewPending"
    BY <1>5 DEF Decides, CanDecideFinding
  <2>2. /\ DOMAIN campaign'.findings = DOMAIN campaign.findings
        /\ campaign'.points = campaign.points /\ campaign'.rounds = campaign.rounds
        /\ campaign'.currentBatch = campaign.currentBatch
    BY <1>1, <2>1, SameFindings
  <2>3. QED
    BY <2>1, <2>2, StaysKeyed DEF InReview
<1>6. CASE Freezes
  <2>1. campaign' = Freeze(campaign, Hash(campaign)) /\ campaign.status = "ReviewPending"
    BY <1>6, FreezeGuard DEF Freezes
  <2>2. /\ campaign'.points = campaign.points /\ campaign'.rounds = campaign.rounds
        /\ campaign'.currentBatch = campaign.currentBatch
        /\ campaign'.findings = campaign.findings
    BY <1>1, <2>1, FreezeFrame DEF CampaignFields
  <2>3. QED
    BY <2>1, <2>2, StaysKeyed DEF InReview
<1>7. CASE Certifies
  <2>1. PICK k : campaign' = Certify(campaign, k) /\ campaign.status = "Frozen"
    BY <1>7 DEF Certifies, CanCertify
  <2>2. /\ campaign'.points = campaign.points /\ campaign'.rounds = campaign.rounds
        /\ campaign'.currentBatch = campaign.currentBatch
        /\ campaign'.findings = campaign.findings
    BY <1>1, <2>1, CertifyFrame DEF CampaignFields
  <2>3. QED
    BY <2>1, <2>2, StaysKeyed DEF InReview
<1>8. CASE Stays
  BY <1>8 DEF Stays
<1>9. QED
  BY <1>2, <1>3, <1>4, <1>5, <1>6, <1>7, <1>8

LEMMA KInvNext ==
  ASSUME KInv,
         Registers \/ Adds \/ CheckAction \/ Decides \/ Freezes \/ Certifies \/ Stays
  PROVE  KInv'
<1>1. Regular(campaign) /\ Sound(campaign) /\ Intact(campaign) /\ FindingsApart(campaign)
  BY DEF KInv, Regular, FindingIdsUnique, FindingsApart
<1>2. Keyed(campaign)
  BY DEF KInv, EveryDefectHasKey, Keyed, InReview
<1>3. Regular(campaign')
  BY <1>1, StepRegular
<1>4. FindingsApart(campaign')
  BY <1>1, StepApart
<1>5. Keyed(campaign')
  BY <1>1, <1>2, StepKeyed
<1>6. campaign'.points = campaign.points
  BY <1>1, StepHistory DEF Keeps
<1>7. EveryDefectHasKey'
  BY <1>5 DEF EveryDefectHasKey, Keyed, InReview
<1>8. FindingIdsUnique'
  BY <1>4 DEF FindingIdsUnique, FindingsApart
<1>9. IsFiniteSet(campaign'.points)
  BY <1>6 DEF KInv
<1>10. QED
  BY <1>3, <1>7, <1>8, <1>9 DEF KInv

LEMMA KeysInvariant == KeysSpec => []KInv
<1>1. KInv /\ [KeysNext]_vars => KInv'
  BY KeysSteps, KInvNext
<1>2. QED
  BY <1>1, KInvAtFirst, PTL DEF KeysSpec

LEMMA WorkInvariant == WorkSpec => []KInv
<1>1. KInv /\ [WorkNext]_vars => KInv'
  BY ClientSteps, KInvNext
<1>2. QED
  BY <1>1, KInvAtFirst, PTL DEF WorkSpec

\* Whatever ids the requests use, no two findings of a campaign get the same id, so that
\* neither the check before a save nor the key of the table refuses a review.
THEOREM IdsStayUnique == KeysSpec => []FindingIdsUnique
<1>1. KInv => FindingIdsUnique
  BY DEF KInv
<1>2. QED
  BY <1>1, KeysInvariant, PTL

\* And every defect has a finding, or one with the same key: a check drops nothing else,
\* and findings of earlier batches stand for none (DeduplicateFindings, SubmitForReview).
THEOREM DefectsKeepKeys == KeysSpec => []EveryDefectHasKey
<1>1. KInv => EveryDefectHasKey
  BY DEF KInv
<1>2. QED
  BY <1>1, KeysInvariant, PTL

\* What a regular campaign has, healthy or not.
LEMMA RegularHas ==
  ASSUME Regular(campaign)
  PROVE  /\ IntegrityHolds /\ OpenWorkIsCurrent /\ StatusReflectsFindings
         /\ ReleaseGate /\ ManifestVerifies
         /\ SlotMeasuredOnce /\ RemediatedByFullRetest /\ ReviewHasExit
         /\ DerivedViewsFresh /\ BatchesAccountForFindings
<1>1. IntegrityHolds
  BY RegularValid DEF IntegrityHolds
<1>2. OpenWorkIsCurrent /\ StatusReflectsFindings
  BY DEF Regular, Sound, WorkIsCurrent, StatusFits, OpenWorkIsCurrent, StatusReflectsFindings
<1>3. ReleaseGate
  <2> SUFFICES ASSUME IsFrozen(campaign.status), NEW f \in DOMAIN campaign.findings
               PROVE  DecisionOf(campaign, f) \in {"Accepted", "Remediated"}
    BY DEF ReleaseGate
  <2>1. DecisionOf(campaign, f) \in Decisions
    BY DEF Regular, Sound, WellTyped, Disposition, DecisionOf
  <2>2. Pending(campaign) = {} /\ Open(campaign) = {}
    BY DEF Regular, Sound, StatusFits, IsFrozen
  <2>3. QED
    BY <2>1, <2>2 DEF Pending, Open, Decisions
<1>4. ManifestVerifies
  BY SealedCampaignVerifies DEF Regular, ManifestVerifies
<1>5. SlotMeasuredOnce
  BY DEF Regular, Traced, SlotsOnce, SlotMeasuredOnce
<1>6. RemediatedByFullRetest
  BY DEF Regular, Traced, Retested, RetestedBy, RemediatedByFullRetest
<1>7. ReviewHasExit
  BY DecidedReviewFreezes DEF ReviewHasExit
<1>8. DerivedViewsFresh
  BY DEF Regular, Summed, ViewsFresh, LeftDraft, DerivedViewsFresh
<1>9. BatchesAccountForFindings
  BY DEF Regular, Summed, CountsFit, FindingsOf, BatchesAccountForFindings
<1>10. QED
  BY <1>1, <1>2, <1>3, <1>4, <1>5, <1>6, <1>7, <1>8, <1>9

\* Keys that collide cost findings and nothing else: the campaign stays storable, its
\* reviews can be ended, its manifest verifies, its counts, views and retests are right.
THEOREM CollisionsCostFindingsOnly ==
  KeysSpec => [](/\ IntegrityHolds /\ OpenWorkIsCurrent /\ StatusReflectsFindings
                 /\ ReleaseGate /\ ManifestVerifies
                 /\ SlotMeasuredOnce /\ RemediatedByFullRetest /\ ReviewHasExit
                 /\ DerivedViewsFresh /\ BatchesAccountForFindings)
<1> DEFINE Rest ==
      /\ IntegrityHolds /\ OpenWorkIsCurrent /\ StatusReflectsFindings
      /\ ReleaseGate /\ ManifestVerifies
      /\ SlotMeasuredOnce /\ RemediatedByFullRetest /\ ReviewHasExit
      /\ DerivedViewsFresh /\ BatchesAccountForFindings
<1>1. KInv => Rest
  BY RegularHas DEF KInv
<1>2. QED
  BY <1>1, KeysInvariant, PTL

\* Nor do they cost any of the history: a check adds to it, whatever it drops.
THEOREM CollisionsKeepHistory == KeysSpec => HistoryKept
<1> DEFINE Kept ==
      /\ campaign' # campaign => campaign'.version = campaign.version + 1
      /\ campaign'.points = campaign.points
      /\ campaign.instruments \subseteq campaign'.instruments
      /\ campaign.batches \subseteq campaign'.batches
      /\ \A i \in DOMAIN campaign.rounds :
           i \in DOMAIN campaign'.rounds /\ campaign'.rounds[i] = campaign.rounds[i]
      /\ \A f \in DOMAIN campaign.findings :
           /\ f \in DOMAIN campaign'.findings
           /\ MayBecome(DecisionOf(campaign, f), DecisionOf(campaign', f))
<1>1. KInv /\ [KeysNext]_vars => [Kept]_vars
  BY KeysSteps, StepHistory DEF KInv, Keeps, MayBecome, DecisionOf
<1>2. QED
  BY <1>1, KeysInvariant, PTL DEF KeysSpec, HistoryKept

LEMMA RegularViewsAgree == KInv => ViewsAgree
<1> SUFFICES ASSUME KInv PROVE ViewsAgree
  OBVIOUS
<1> DEFINE points == campaign.points
           summary == PlanSummary(points)
           pending == CurrentAndHistoricalFindings(campaign).pending
<1>1. /\ Sound(campaign) /\ PointsIntact(campaign) /\ ViewsFresh(campaign)
      /\ IsFiniteSet(points)
  BY DEF KInv, Regular, Intact, Summed
<1>2. /\ \A p \in points : p.required \in Nat
      /\ \A p, q \in points : p.id = q.id => p = q
      /\ \A p, q \in points : p.metric = q.metric => p.unit = q.unit
  <2>1. \A p \in points : p.required \in 1 .. MaxRequiredReplicates
    BY <1>1 DEF PointsIntact, ValidPoint
  <2>2. \A p \in points : p.required \in Nat
    BY <2>1, LimitsAssumption
  <2>3. \A p, q \in points : p # q => p.id # q.id /\ (p.metric = q.metric => p.unit = q.unit)
    BY <1>1 DEF PointsIntact, Compatible
  <2>4. QED
    BY <2>2, <2>3
<1>3. campaign.progress.points = SamplingProgress(points, campaign.rounds).points
  BY <1>1 DEF ViewsFresh
<1>4. summary.plannedSampleCount = MapThenSumSet(LAMBDA p : p.required, points)
  BY DEF PlanSummary
<1>5. MapThenSumSet(LAMBDA p : p.required, points) =
        MapThenSumSet(LAMBDA e : e.progress.collected + Cardinality(e.progress.missing),
                      SamplingProgress(points, campaign.rounds).points)
  BY <1>1, <1>2, ProgressAddsUp
<1>6. /\ summary.plannedSampleCount = MapThenSumSet(LAMBDA m : m.plannedSamples, summary.metrics)
      /\ summary.pointCount = MapThenSumSet(LAMBDA m : m.pointCount, summary.metrics)
  BY <1>1, <1>2, MetricsAddUp
<1>7. EvidenceCounts(campaign).decisions = Cardinality(DOMAIN campaign.findings \ pending)
  <2>1. pending = CurrentFindings(campaign) \cap Pending(campaign)
    BY DEF CurrentAndHistoricalFindings
  <2>2. Pending(campaign) \subseteq CurrentFindings(campaign)
    BY <1>1 DEF Sound, WorkIsCurrent
  <2> HIDE DEF pending
  <2>3. DOMAIN campaign.findings \ pending = DOMAIN campaign.findings \ Pending(campaign)
    BY <2>1, <2>2
  <2>4. QED
    BY <2>3 DEF EvidenceCounts
<1>8. QED
  BY <1>3, <1>4, <1>5, <1>6, <1>7 DEF ViewsAgree

\* The plan summary, the sampling progress, the findings view and the evidence counts
\* tell one story about every campaign, whatever is planned, measured and decided and
\* whatever the ids (buildPlanSummary, samplingProgress, EvidenceCounts).
THEOREM ViewsAlwaysAgree == WorkSpec => []ViewsAgree
BY WorkInvariant, RegularViewsAgree, PTL
===============================================================================
