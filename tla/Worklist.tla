-------------------------------- MODULE Worklist -------------------------------
(***************************************************************************)
(* The views from which clients learn what is to be done (buildPlanSummary,*)
(* samplingProgress, the findings view of read_handlers.go:21-29), and     *)
(* clients that go by them: an engineer who measures what the progress     *)
(* says is missing, a reviewer who decides what the findings view says is  *)
(* pending, an engineer who retests what it says remediation requires, and *)
(* a release by preflight, freeze and credential.  Every command's answer  *)
(* carries the campaign, so that clients see the current one.  Ids are     *)
(* those of FindingKeys, and a check deduplicates as it does there.        *)
(***************************************************************************)
EXTENDS FindingKeys, TLC

CONSTANTS
    Values,            \* what a measurement may give
    MaxRemediations    \* bound: findings that the reviewer sends to remediation

ASSUME WorklistAssumption ==
    /\ Values \subseteq Int
    /\ MaxRemediations \in Nat

-------------------------------------------------------------------------------
(* The views *)

PlanSummary_LastPoint(points) ==
    LET last(metric) == CHOOSE p \in points : p.metric = metric
    IN [pointCount |-> Cardinality(points),
        plannedSampleCount |-> MapThenSumSet(LAMBDA p : p.required, points),
        metrics |-> {[metric |-> p.metric, unit |-> p.unit, pointCount |-> 1,
                      plannedSamples |-> last(p.metric).required] : p \in points}]

PlanSummary(points) ==
    LET of(metric) == {p \in points : p.metric = metric}
    IN [pointCount |-> Cardinality(points),
        plannedSampleCount |-> MapThenSumSet(LAMBDA p : p.required, points),
        metrics |-> {[metric |-> p.metric, unit |-> p.unit,
                      pointCount |-> Cardinality(of(p.metric)),
                      plannedSamples |-> MapThenSumSet(LAMBDA q : q.required, of(p.metric))]
                       : p \in points}]

CurrentAndHistoricalFindings(c) ==
    LET pending == CurrentFindings(c) \cap Pending(c)
    IN [batch |-> {b \in c.batches : b.id \in c.currentBatch},
        pending |-> pending,
        history |-> DOMAIN c.findings \ pending]

RemediationGaps_OneLess(c) ==
    UNION {{[finding |-> f, point |-> p, missing |-> 1 .. (p.required - 1)] : f \in Open(c)}
             : p \in {q \in c.points : \E f \in Open(c) : f.point = q.id}}

\* What an open finding asks for: every replicate of its point.
RemediationGaps(c) ==
    UNION {{[finding |-> f, point |-> p, missing |-> 1 .. p.required] :
              f \in {x \in Open(c) : x.point = p.id}} : p \in c.points}

EvidenceCounts(c) ==
    [planPoints |-> Cardinality(c.points), instruments |-> Cardinality(c.instruments),
     rounds |-> Len(c.rounds), decisions |-> Cardinality(DOMAIN c.findings \ Pending(c))]

-------------------------------------------------------------------------------
(* The clients *)

\* A round of new measurements of the given slots, pairs of a point and a replicate.
Sampled(c, slots, kind, supersedes, actor) ==
    LET number == Len(c.rounds) + 1
        sample(slot, value) ==
            [id |-> slot[1].id \o <<ToString(number), ToString(slot[2])>>, point |-> slot[1].id,
             replicate |-> slot[2], value |-> value, unit |-> slot[1].unit]
    IN {[id |-> number, kind |-> kind, supersedes |-> supersedes, recordedBy |-> actor,
         samples |-> {sample(slot, values[slot]) : slot \in slots}]
          : values \in [slots -> Values]}

Record(slots, kind, supersedes) ==
    \E actor \in Actors : \E round \in Sampled(campaign, slots, kind, supersedes, actor) :
      /\ round \in Round             \* RoundIds and SampleIds bound the rounds
      /\ CanAddRound(campaign, round, actor)
      /\ campaign' = AddRound(campaign, round)
      /\ UNCHANGED candidate

MissingSlots(c) ==
    UNION {{<<p, r>> : r \in UNION {e.progress.missing : e \in {x \in c.progress.points : x.point = p.id}}}
             : p \in c.points}

Measure ==
    /\ ~campaign.progress.complete
    /\ \E slots \in SUBSET MissingSlots(campaign) : Record(slots, "Routine", {})

\* A review while a point was never measured is possible but may have no way back:
\* StuckRemediation.
Submit ==
    /\ \A e \in campaign.progress.points : e.progress.collected > 0
    /\ CheckAction

Sent(c) == {f \in DOMAIN c.findings : DecisionOf(c, f) \in {"NeedsRemediation", "Remediated"}}

Decide ==
    \E f \in CurrentAndHistoricalFindings(campaign).pending, actor \in Actors,
       decision \in {"Accepted", "NeedsRemediation"} :
      /\ decision = "NeedsRemediation" => Cardinality(Sent(campaign)) < MaxRemediations
      /\ CanDecideFinding(campaign, f, decision, TRUE)
      /\ campaign' = DecideFinding(campaign, f, decision, actor)
      /\ UNCHANGED candidate

Remeasure ==
    \E gap \in RemediationGaps(campaign) :
      Record({<<gap.point, r>> : r \in gap.missing}, "Remediation", gap.finding.round)

WorkNext ==
    \/ RegisterInstrumentsAction
    \/ Measure
    \/ Submit
    \/ Decide
    \/ Remeasure
    \/ FreezePreflightAction
    \/ FreezeAction
    \/ IssueAction

\* Somebody does something that the views call for, as long as there is any.
WorkSpec == Init /\ [][WorkNext]_vars /\ WF_vars(WorkNext)

-------------------------------------------------------------------------------
(* Properties *)

\* Who does what the views ask for gets there: whatever is measured and decided, with
\* any number of remediations, the campaign is certified in the end.
Certification == <>(campaign.status = "Certified")

\* The views are computed apart from each other but tell one story: what is planned in
\* all, and per metric, is what is collected or still missing; what is decided is what is
\* no longer pending.
ViewsAgree ==
    LET summary == PlanSummary(campaign.points)
        pending == CurrentAndHistoricalFindings(campaign).pending
    IN /\ summary.plannedSampleCount =
            MapThenSumSet(LAMBDA e : e.progress.collected + Cardinality(e.progress.missing),
                          campaign.progress.points)
       /\ summary.plannedSampleCount = MapThenSumSet(LAMBDA m : m.plannedSamples, summary.metrics)
       /\ summary.pointCount = MapThenSumSet(LAMBDA m : m.pointCount, summary.metrics)
       /\ EvidenceCounts(campaign).decisions = Cardinality(DOMAIN campaign.findings \ pending)
================================================================================
