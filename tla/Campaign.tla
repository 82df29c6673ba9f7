------------------------------- MODULE Campaign -------------------------------
(***************************************************************************)
(* The life cycle of one campaign, as the service drives it: every         *)
(* operation of src/internal/application/service.go that changes a         *)
(* campaign is an action, in the order in which the repository serialises  *)
(* them.  Requests come from the sets of the CONSTANTS; the actions accept *)
(* those the code accepts, a refused request changes nothing.              *)
(***************************************************************************)
EXTENDS Certificate

CONSTANTS
    Plans,               \* create requests: [id, plannedDate, points]
    InstrumentRequests,  \* sequences of instruments
    RoundRequests        \* measurement rounds

ASSUME RequestsAssumption ==
    /\ \A plan \in Plans : /\ plan.id \in CampaignIds
                           /\ plan.plannedDate \in Int
                           /\ plan.points \in Seq(Point)
    /\ InstrumentRequests \subseteq Seq(Instrument)
    /\ RoundRequests \subseteq Round

VARIABLES
    campaign,   \* the stored aggregate
    candidate   \* {} or the freeze candidate of the last eligible preflight

vars == <<campaign, candidate>>

Init ==
    /\ \E plan \in Plans :
         /\ CanCreate(plan.points)
         /\ campaign = NewCampaign(plan.id, plan.plannedDate, plan.points)
    /\ candidate = {}

RegisterInstrumentsAction ==
    \E items \in InstrumentRequests :
      /\ CanRegisterInstruments(campaign, items)
      /\ campaign' = RegisterInstruments(campaign, items)
      /\ UNCHANGED candidate

AddRoundAction ==
    \E round \in RoundRequests, actor \in Actors :
      /\ CanAddRound(campaign, round, actor)
      /\ campaign' = AddRound(campaign, round)
      /\ UNCHANGED candidate

SubmitForReviewAction ==
    /\ CanSubmitForReview(campaign)
    /\ campaign' = SubmitForReview(campaign)
    /\ UNCHANGED candidate

DecideFindingAction ==
    \E f \in DOMAIN campaign.findings, decision \in Decisions, noted \in BOOLEAN, actor \in Actors :
      /\ CanDecideFinding(campaign, f, decision, noted)
      /\ campaign' = DecideFinding(campaign, f, decision, actor)
      /\ UNCHANGED candidate

\* FreezePreflight reads the campaign and, if nothing blocks the freeze, hands out
\* the version and the manifest hash that the freeze has to confirm.
FreezePreflightAction ==
    /\ FreezeBlockers(campaign, FALSE) = {}
    /\ candidate' = {[version |-> campaign.version, hash |-> Hash(campaign)]}
    /\ UNCHANGED campaign

\* A freeze names the version it expects (the candidate's) and the candidate's hash.
ConfirmsCandidate(c, k) ==
    /\ k.version = c.version
    /\ k.hash = Hash(c)

FreezeAction_OwnHash ==
    \E k \in candidate :
      /\ CanFreeze(campaign)
      /\ k.version = campaign.version
      /\ campaign' = Freeze(campaign, Hash(campaign))
      /\ UNCHANGED candidate

FreezeAction ==
    \E k \in candidate :
      /\ CanFreeze(campaign)
      /\ ConfirmsCandidate(campaign, k)
      /\ campaign' = Freeze(campaign, k.hash)
      /\ UNCHANGED candidate

IssueAction ==
    \E issuedBy \in Actors : \E credential \in Issue(campaign, issuedBy) :
      /\ CanIssue(campaign)
      /\ CanCertify(campaign, credential)
      /\ campaign' = Certify(campaign, credential)
      /\ UNCHANGED candidate

Next ==
    \/ RegisterInstrumentsAction
    \/ AddRoundAction
    \/ SubmitForReviewAction
    \/ DecideFindingAction
    \/ FreezePreflightAction
    \/ FreezeAction
    \/ IssueAction

Spec == Init /\ [][Next]_vars

-------------------------------------------------------------------------------
(* Properties *)

\* The campaign is a well formed record and at most one candidate is held.
TypeOK ==
    /\ WellTyped(campaign)
    /\ \A k, l \in candidate : k = l

\* The integrity rules that the repository applies before every save never refuse what
\* the operations produced: no legal sequence of requests leads to a campaign that can
\* no longer be stored.
IntegrityHolds == ValidateIntegrity(campaign)

\* Work that is still to be done (a pending decision, an open remediation) always
\* belongs to the current inspection batch.  FreezeBlockers looks for pending
\* findings in the current batch only and is right because of this.
OpenWorkIsCurrent ==
    Pending(campaign) \cup Open(campaign) \subseteq CurrentFindings(campaign)

\* What the status says about the findings: nothing is pending outside a review,
\* remediation means that something is open, and a campaign that is executing,
\* frozen or certified has neither.
StatusReflectsFindings ==
    /\ campaign.status \in {"Draft", "Ready"} => DOMAIN campaign.findings = {}
    /\ campaign.status # "ReviewPending" => Pending(campaign) = {}
    /\ campaign.status = "Remediation" => Open(campaign) # {}
    /\ campaign.status \in {"Executing", "Frozen", "Certified"} => Open(campaign) = {}

\* A replicate of a point never has two measurements that both count, whatever
\* routine and remediation rounds were recorded in whatever order; the check and
\* the progress view would otherwise depend on which of them they see.
SlotMeasuredOnce ==
    \A p \in campaign.points :
      \A d, e \in Effective(campaign.rounds, p.id) :
        SameSlot(d.sample, e.sample) => d = e

\* The samples that count, said declaratively, are those the code's loop over the
\* rounds keeps.
EffectiveMatchesLoop ==
    \A p \in campaign.points :
      Effective(campaign.rounds, p.id) = EffectiveByLoop(campaign.rounds, p.id)

WithinLimits(p, value) ==
    /\ \A l \in p.lower : value >= l
    /\ \A u \in p.upper : value <= u

AcceptedNow(c) == {f \in CurrentFindings(c) : DecisionOf(c, f) = "Accepted"}

\* The replicates of the plan that nobody has answered for: not measured, or
\* measured outside the limits, and no accepted finding of the current batch says so.
UnresolvedSlots(c) ==
    LET measured(p, r) == {e \in EffectiveByLoop(c.rounds, p.id) : e.sample.replicate = r}
        missing(p, r) ==
            /\ measured(p, r) = {}
            /\ \A f \in AcceptedNow(c) : ~(f.point = p.id /\ r \in f.missing)
        outside(p, r) ==
            \E e \in measured(p, r) :
              /\ ~WithinLimits(p, e.sample.value)
              /\ \A f \in AcceptedNow(c) : ~(f.point = p.id /\ e.sample.id \in f.samples)
    IN UNION {{<<p.id, r>> : r \in {q \in 1 .. p.required : missing(p, q) \/ outside(p, q)}}
                : p \in c.points}

\* No defect escapes into a release: once frozen, every planned replicate is either
\* measured within its limits or covered by a finding of the current batch that a
\* reviewer accepted.
NoDefectEscapes == IsFrozen(campaign.status) => UnresolvedSlots(campaign) = {}

\* Every finding of every batch of a frozen campaign was accepted or remediated.
ReleaseGate ==
    IsFrozen(campaign.status) =>
      \A f \in DOMAIN campaign.findings : DecisionOf(campaign, f) \in {"Accepted", "Remediated"}

\* Verification recomputes the manifest at the version before the freeze; for an
\* untouched campaign it agrees with the stored hash, before and after the
\* credential was issued (which advances the version once more).
ManifestVerifies ==
    IsFrozen(campaign.status) =>
      /\ ManifestPassed(campaign, FALSE)
      /\ VerifyDetailed(campaign, FALSE, FALSE) =
           IF campaign.status = "Certified" THEN {} ELSE {"credential_not_issued"}

\* A finding is remediated only by a round recorded after its batch's evidence that
\* measured every replicate of the point again, and the samples it objected to no
\* longer count.
RemediatedByFullRetest ==
    \A f \in DOMAIN campaign.findings : DecisionOf(campaign, f) = "Remediated" =>
      \E i \in DOMAIN campaign.rounds :
        LET round == campaign.rounds[i]
        IN /\ {round.id} = campaign.findings[f].remediationRound
           /\ round.supersedes = f.round
           /\ \A p \in campaign.points : p.id = f.point =>
                /\ {s.replicate : s \in {t \in round.samples : t.point = p.id}} = 1 .. p.required
                /\ \A e \in Effective(campaign.rounds, p.id) :
                     e.sample.id \notin f.samples /\ e.round >= i

\* A review always has an exit: a finding is still to be decided, or the freeze is
\* possible.  There is no operation that withdraws a review.
ReviewHasExit ==
    campaign.status = "ReviewPending" =>
      \/ Pending(campaign) \cap CurrentFindings(campaign) # {}
      \/ CanFreeze(campaign)

\* A complete new measurement of one point, linked to a round.
Retest(c, p, round, actor) ==
    [id |-> "retest", kind |-> "Remediation", supersedes |-> round, recordedBy |-> actor,
     samples |-> {[id |-> <<"retest", p.id, k>>, point |-> p.id, replicate |-> k,
                   value |-> 0, unit |-> p.unit] : k \in 1 .. p.required}]

RetestAccepted(c, f) ==
    \A p \in c.points, actor \in Actors : p.id = f.point =>
      LET round == Retest(c, p, f.round, actor)
      IN CanAddRound(c, round, actor) /\ f \in ClosedBy(c, round)

\* While a campaign is in remediation, a complete retest closes any open finding
\* that names the round it was found in.
MeasuredFindingsRetestable ==
    campaign.status = "Remediation" =>
      \A f \in Open(campaign) : f.round # {} => RetestAccepted(campaign, f)

\* What the documentation says of all of them (README.md:15): a remediation round
\* with all replicates closes an open finding, so remediation leads back to execution.
EveryOpenFindingRetestable ==
    campaign.status = "Remediation" =>
      \A f \in Open(campaign) : RetestAccepted(campaign, f)

\* The stored readiness and progress are those of the stored evidence, although
\* deciding, freezing and certifying do not refresh them, and the campaign left Draft
\* exactly when its instruments cover every planned metric.
DerivedViewsFresh ==
    LET readiness == Readiness(campaign.points, campaign.instruments, campaign.plannedDate)
    IN /\ campaign.readiness = readiness
       /\ campaign.progress = SamplingProgress(campaign.points, campaign.rounds)
       /\ (campaign.status = "Draft") <=> ~readiness.ready

\* A batch counts the findings that are recorded under it.
BatchesAccountForFindings ==
    \A b \in campaign.batches :
      b.findingCount = Cardinality({f \in DOMAIN campaign.findings : f.batch = b.id})

\* Once a preflight was eligible nothing but the freeze can happen to the campaign:
\* its candidate stays acceptable until it is used, and is what was frozen.
PreflightStaysValid ==
    \A k \in candidate :
      IF IsFrozen(campaign.status) THEN campaign.manifestHash = {k.hash}
      ELSE CanFreeze(campaign) /\ ConfirmsCandidate(campaign, k)

MayBecome(before, after) ==
    \/ before = after
    \/ before = "Pending" /\ after \in {"Accepted", "NeedsRemediation"}
    \/ before = "NeedsRemediation" /\ after = "Remediated"

\* Nothing recorded is ever lost or rewritten: the plan stays, instruments, rounds,
\* batches and findings only grow, a decision is taken once and only an open
\* remediation moves on, and every change advances the version by one.
HistoryKept ==
    [][ /\ campaign' # campaign => campaign'.version = campaign.version + 1
        /\ campaign'.points = campaign.points
        /\ campaign.instruments \subseteq campaign'.instruments
        /\ campaign.batches \subseteq campaign'.batches
        /\ \A i \in DOMAIN campaign.rounds :
             i \in DOMAIN campaign'.rounds /\ campaign'.rounds[i] = campaign.rounds[i]
        /\ \A f \in DOMAIN campaign.findings :
             /\ f \in DOMAIN campaign'.findings
             /\ MayBecome(DecisionOf(campaign, f), DecisionOf(campaign', f))
      ]_vars

-------------------------------------------------------------------------------
(* What a campaign promises *)

DossierOf(m) == <<m.points, m.instruments, m.rounds, m.findings>>

\* A finding that still waits is unresolved under the replicate number 0.
Unresolved(c) ==
    UnresolvedSlots(c) \cup {<<f.point, 0>> : f \in Pending(c) \cup Open(c)}

Promise == INSTANCE Release WITH
    phase <- CASE campaign.status = "Frozen" -> "sealed"
               [] campaign.status = "Certified" -> "released"
               [] OTHER -> "open",
    dossier <- DossierOf(campaign),
    unresolved <- Unresolved(campaign),
    seal <- {DossierOf(m) : m \in campaign.manifestHash},
    credential <- {DossierOf(k.manifestHash) : k \in campaign.credential}

\* The campaign implements the abstract release: it is sealed only with nothing
\* unresolved, the sealed evidence and decisions never change, and the credential
\* certifies what was sealed.
ReleasePromise == Promise!Spec
===============================================================================
