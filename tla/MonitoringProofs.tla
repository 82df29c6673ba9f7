--------------------------- MODULE MonitoringProofs ---------------------------
(***************************************************************************)
(* What the operations on a campaign keep, for every campaign, whoever     *)
(* calls them: lemmas without variables, about the definitions that the    *)
(* life cycle (Campaign) and the repository (Store) share.                 *)
(*                                                                         *)
(* Each operation has a frame lemma (what becomes of each field) and one   *)
(* lemma per part of Healthy, the invariant of a campaign:                 *)
(*   Sound    it is well typed, its open work current, its status true;    *)
(*   Seal     verification goes on recomputing the stored manifest hash;   *)
(*   Intact   the rules of ValidateIntegrity hold;                         *)
(*   Summed   stored views, counts and release fields fit the rest;        *)
(*   Traced   slots are measured once, remedies are full retests, a review *)
(*            has something left to do;                                    *)
(*   Accounts the current findings are what the evidence raises (with the  *)
(*            lemmas of Traced).                                           *)
(* A campaign is Regular if it is Healthy but for Accounts.                *)
(* At the end: how an operation advances a campaign from version to        *)
(* version.                                                                *)
(***************************************************************************)
EXTENDS Certificate, FiniteSetTheorems, TLAPS

LEMMA RegisterFrame ==
  ASSUME NEW c, DOMAIN c = CampaignFields, NEW items
  PROVE  LET d == RegisterInstruments(c, items)
         IN /\ DOMAIN d = CampaignFields
            /\ d.status \in {"Ready", c.status}
            /\ d.version = c.version + 1
            /\ d.instruments = c.instruments \cup {items[k] : k \in DOMAIN items}
            /\ \A g \in CampaignFields \ {"status", "version", "readiness", "progress",
                                          "instruments"} : d[g] = c[g]
BY DEF RegisterInstruments, RefreshDerivedViews, Touch, CampaignFields

-------------------------------------------------------------------------------
(* What a decision and a remediation do to a disposition. *)

Decided(d, decision, actor) == [d EXCEPT !.decision = decision, !.decidedBy = {actor}]
Remedied(d, id) == [d EXCEPT !.decision = "Remediated", !.remediationRound = {id}]

LEMMA DispositionTyped ==
  ASSUME NEW d \in Disposition
  PROVE  /\ \A id \in RoundIds :
              Remedied(d, id) \in Disposition /\ Remedied(d, id).decision = "Remediated"
         /\ \A decision \in Decisions, actor \in Actors :
              /\ Decided(d, decision, actor) \in Disposition
              /\ Decided(d, decision, actor).decision = decision
<1>1. /\ \A id \in RoundIds : {id} \in Optional(RoundIds)
      /\ \A actor \in Actors : {actor} \in Optional(Actors)
  BY DEF Optional
<1>2. QED
  BY <1>1 DEF Disposition, Decisions, Decided, Remedied

Extended(c, round) == [c EXCEPT !.rounds = Append(@, round)]
Closed(c, round) == CloseCoveredRemediation(Extended(c, round), round)

LEMMA ClosedFrame ==
  ASSUME NEW c, DOMAIN c = CampaignFields, NEW round
  PROVE  /\ DOMAIN Closed(c, round) = CampaignFields
         /\ Closed(c, round).rounds = Append(c.rounds, round)
         /\ \A g \in CampaignFields \ {"rounds", "findings"} : Closed(c, round)[g] = c[g]
         /\ Closed(c, round).findings =
              [f \in DOMAIN c.findings |->
                 IF f \in ClosedBy(c, round)
                   THEN Remedied(c.findings[f], round.id)
                   ELSE c.findings[f]]
<1>1. /\ DOMAIN Extended(c, round) = CampaignFields
      /\ Extended(c, round).rounds = Append(c.rounds, round)
      /\ \A g \in CampaignFields \ {"rounds"} : Extended(c, round)[g] = c[g]
  BY DEF Extended, CampaignFields
<1>2. Extended(c, round).findings = c.findings
  BY <1>1 DEF CampaignFields
<1>3. ClosedBy(Extended(c, round), round) = ClosedBy(c, round)
  BY <1>2 DEF ClosedBy, Open, DecisionOf
<1>4. QED
  BY <1>1, <1>2, <1>3 DEF Closed, CloseCoveredRemediation, Remedied, CampaignFields

LEMMA StatusFrame ==
  ASSUME NEW c, DOMAIN c = CampaignFields, NEW status
  PROVE  LET d == RefreshDerivedViews(Touch([c EXCEPT !.status = status]))
         IN /\ DOMAIN d = CampaignFields
            /\ d.status = status
            /\ d.version = c.version + 1
            /\ \A g \in CampaignFields \ {"status", "version", "readiness", "progress"} :
                 d[g] = c[g]
BY DEF RefreshDerivedViews, Touch, CampaignFields

LEMMA AddRoundFrame ==
  ASSUME NEW c, DOMAIN c = CampaignFields, NEW round
  PROVE  LET d == AddRound(c, round)
         IN /\ DOMAIN d = CampaignFields
            /\ d.status = IF Open(Closed(c, round)) # {} THEN "Remediation" ELSE "Executing"
            /\ d.version = c.version + 1
            /\ d.rounds = Append(c.rounds, round)
            /\ d.findings = Closed(c, round).findings
            /\ \A g \in CampaignFields \ {"status", "version", "readiness", "progress",
                                          "rounds", "findings"} : d[g] = c[g]
<1> DEFINE closed == Closed(c, round)
           status == IF Open(closed) # {} THEN "Remediation" ELSE "Executing"
<1>1. AddRound(c, round) = RefreshDerivedViews(Touch([closed EXCEPT !.status = status]))
  BY DEF AddRound, Closed, Extended
<1>2. DOMAIN closed = CampaignFields
  BY ClosedFrame
<1>3. LET d == AddRound(c, round)
      IN /\ DOMAIN d = CampaignFields
         /\ d.status = status
         /\ d.version = closed.version + 1
         /\ \A g \in CampaignFields \ {"status", "version", "readiness", "progress"} :
              d[g] = closed[g]
  <2> HIDE DEF closed, status
  <2> QED BY <1>1, <1>2, StatusFrame
<1>4. /\ closed.rounds = Append(c.rounds, round)
      /\ \A g \in CampaignFields \ {"rounds", "findings"} : closed[g] = c[g]
  BY ClosedFrame
<1> HIDE DEF closed, status
<1>5. /\ closed.version = c.version
      /\ AddRound(c, round).findings = closed.findings
      /\ AddRound(c, round).rounds = closed.rounds
  BY <1>3, <1>4 DEF CampaignFields
<1>6. \A g \in CampaignFields \ {"status", "version", "readiness", "progress", "rounds", "findings"} :
        AddRound(c, round)[g] = c[g]
  BY <1>3, <1>4
<1>7. QED
  BY <1>3, <1>4, <1>5, <1>6 DEF closed, status

LEMMA SubmitFrame ==
  ASSUME NEW c, DOMAIN c = CampaignFields
  PROVE  LET d == SubmitForReview(c)
             raised == Raised(c.points, c.rounds, c.version)
         IN /\ DOMAIN d = CampaignFields
            /\ d.status = "ReviewPending"
            /\ d.version = c.version + 1
            /\ d.currentBatch = {c.version}
            /\ d.findings = [f \in (DOMAIN c.findings) \cup raised |->
                               IF f \in DOMAIN c.findings THEN c.findings[f] ELSE Undecided]
            /\ d.batches = c.batches \cup {InspectionBatch(c.points, c.rounds, c.version)}
            /\ d.credential = c.credential
            /\ \A g \in CampaignFields \ {"status", "version", "readiness", "progress",
                                          "currentBatch", "findings", "batches"} : d[g] = c[g]
BY DEF SubmitForReview, RefreshDerivedViews, Touch, CampaignFields

Judged(c, f, decision, actor) ==
    [c EXCEPT !.findings[f] = [@ EXCEPT !.decision = decision, !.decidedBy = {actor}]]

LEMMA DecideFrame ==
  ASSUME NEW c, DOMAIN c = CampaignFields, NEW f, NEW decision, NEW actor
  PROVE  LET d == DecideFinding(c, f, decision, actor)
             judged == Judged(c, f, decision, actor)
         IN /\ DOMAIN d = CampaignFields
            /\ d.status = IF /\ CurrentFindings(judged) \cap Pending(judged) = {}
                             /\ CurrentFindings(judged) \cap Open(judged) # {}
                          THEN "Remediation" ELSE c.status
            /\ d.version = c.version + 1
            /\ d.credential = c.credential
            /\ d.findings = judged.findings
            /\ judged.findings = [g \in DOMAIN c.findings |->
                 IF g = f THEN Decided(c.findings[g], decision, actor) ELSE c.findings[g]]
            /\ judged.currentBatch = c.currentBatch
            /\ \A g \in CampaignFields \ {"status", "version", "findings"} : d[g] = c[g]
BY DEF DecideFinding, Judged, Decided, Touch, CampaignFields

LEMMA FreezeFrame ==
  ASSUME NEW c, DOMAIN c = CampaignFields, NEW hash
  PROVE  LET d == Freeze(c, hash)
         IN /\ DOMAIN d = CampaignFields
            /\ d.status = "Frozen"
            /\ d.version = c.version + 1
            /\ d.frozenVersion = c.version + 1
            /\ d.manifestHash = {hash}
            /\ \A g \in CampaignFields \ {"status", "version", "frozenVersion", "manifestHash"} :
                 d[g] = c[g]
BY DEF Freeze, Touch, CampaignFields

LEMMA CertifyFrame ==
  ASSUME NEW c, DOMAIN c = CampaignFields, NEW credential
  PROVE  LET d == Certify(c, credential)
         IN /\ DOMAIN d = CampaignFields
            /\ d.status = "Certified"
            /\ d.version = c.version + 1
            /\ d.credential = {credential}
            /\ \A g \in CampaignFields \ {"status", "version", "credential"} : d[g] = c[g]
BY DEF Certify, Touch, CampaignFields

-------------------------------------------------------------------------------
(* What the review finds is well formed. *)

LEMMA EffectiveTyped ==
  ASSUME NEW rounds \in Seq(Round), NEW point, NEW e \in Effective(rounds, point)
  PROVE  /\ e.round \in 1 .. Len(rounds)
         /\ e.sample \in rounds[e.round].samples
         /\ e.sample \in Sample
         /\ rounds[e.round].id \in RoundIds
<1>1. PICK i \in DOMAIN rounds : \E s \in rounds[i].samples : e = [sample |-> s, round |-> i]
  BY DEF Effective
<1>2. rounds[i] \in Round
  OBVIOUS
<1>3. QED
  BY <1>1, <1>2 DEF Round

LEMMA LatestTyped ==
  ASSUME NEW rounds \in Seq(Round), NEW point
  PROVE  LatestPointRound(rounds, point) \in Optional(RoundIds)
<1> DEFINE last == {x \in Effective(rounds, point) :
                      \A y \in Effective(rounds, point) : y.round <= x.round}
<1>1. ASSUME NEW x \in last, NEW y \in last PROVE x.round = y.round
  BY EffectiveTyped
<1>2. ASSUME NEW x \in last PROVE rounds[x.round].id \in RoundIds
  BY EffectiveTyped
<1>3. LatestPointRound(rounds, point) = {rounds[e.round].id : e \in last}
  BY DEF LatestPointRound
<1> HIDE DEF last
<1>4. QED
  BY <1>1, <1>2, <1>3 DEF Optional

LEMMA RaisedTyped ==
  ASSUME NEW points \in SUBSET Point, NEW rounds \in Seq(Round), NEW batch \in Nat
  PROVE  /\ Raised(points, rounds, batch) \subseteq Finding
         /\ \A f \in Raised(points, rounds, batch) : f.batch = batch
<1> SUFFICES ASSUME NEW p \in points,
                    NEW f \in MissingFindings(rounds, p, batch) \cup LimitFindings(rounds, p, batch)
             PROVE  f \in Finding /\ f.batch = batch
  BY DEF Raised
<1>1. p.id \in PointIds /\ p.required \in Int
  BY DEF Point
<1>2. CASE f \in MissingFindings(rounds, p, batch)
  <2>1. f = [batch |-> batch, point |-> p.id, code |-> "missing_replicates",
             round |-> LatestPointRound(rounds, p.id), samples |-> {},
             missing |-> MissingReplicates(rounds, p)]
    BY <1>2 DEF MissingFindings
  <2>2. MissingReplicates(rounds, p) \in SUBSET Nat
    BY <1>1 DEF MissingReplicates
  <2>3. QED
    BY <1>1, <2>1, <2>2, LatestTyped DEF Finding, FindingCodes
<1>3. CASE f \in LimitFindings(rounds, p, batch)
  <2>1. PICK e \in Effective(rounds, p.id), code \in {"below_limit", "above_limit"} :
          f = [batch |-> batch, point |-> p.id, code |-> code, round |-> {rounds[e.round].id},
               samples |-> {e.sample.id}, missing |-> {}]
    BY <1>3 DEF LimitFindings, ByReplicate, Violations
  <2>2. rounds[e.round].id \in RoundIds /\ e.sample.id \in SampleIds
    BY EffectiveTyped DEF Sample
  <2>3. {rounds[e.round].id} \in Optional(RoundIds)
    BY <2>2 DEF Optional
  <2>4. QED
    BY <1>1, <2>1, <2>2, <2>3 DEF Finding, FindingCodes
<1>4. QED
  BY <1>2, <1>3

-------------------------------------------------------------------------------
(* The inductive invariant. *)

WorkIsCurrent(c) == Pending(c) \cup Open(c) \subseteq CurrentFindings(c)

StatusFits(c) ==
    /\ c.status \in {"Draft", "Ready"} => DOMAIN c.findings = {}
    /\ c.status # "ReviewPending" => Pending(c) = {}
    /\ c.status = "Remediation" => Open(c) # {}
    /\ c.status \in {"Executing", "Frozen", "Certified"} => Open(c) = {}

Sound(c) == WellTyped(c) /\ WorkIsCurrent(c) /\ StatusFits(c)

LEMMA NewCampaignSound ==
  ASSUME NEW id \in CampaignIds, NEW date \in Int, NEW plan \in Seq(Point)
  PROVE  Sound(NewCampaign(id, date, plan))
<1> DEFINE c == NewCampaign(id, date, plan)
<1>1. /\ DOMAIN c = CampaignFields
      /\ c.id = id /\ c.plannedDate = date /\ c.points = {plan[i] : i \in DOMAIN plan}
      /\ c.status = "Draft" /\ c.version = 1 /\ c.instruments = {} /\ c.rounds = << >>
      /\ c.findings = [f \in {} |-> Undecided] /\ c.currentBatch = {} /\ c.frozenVersion = 0
  BY DEF NewCampaign, CampaignFields
<1> HIDE DEF c
<1>2. c.points \subseteq Point
  BY <1>1
<1>3. DOMAIN c.findings = {}
  BY <1>1
<1>4. c.currentBatch \in Optional(Nat)
  BY <1>1 DEF Optional
<1>5. c.findings \in [DOMAIN c.findings -> Disposition]
  BY <1>1
<1>6. WellTyped(c)
  BY <1>1, <1>2, <1>3, <1>4, <1>5 DEF WellTyped, Statuses
<1>7. WorkIsCurrent(c) /\ StatusFits(c)
  BY <1>1, <1>3 DEF WorkIsCurrent, StatusFits, Pending, Open
<1>8. QED
  BY <1>6, <1>7 DEF Sound, c

LEMMA RegisterSound ==
  ASSUME NEW c, Sound(c), NEW items \in Seq(Instrument), CanRegisterInstruments(c, items)
  PROVE  Sound(RegisterInstruments(c, items))
<1> DEFINE d == RegisterInstruments(c, items)
<1>1. DOMAIN c = CampaignFields
  BY DEF Sound, WellTyped
<1>2. /\ DOMAIN d = CampaignFields
      /\ d.status \in {"Ready", "Draft"}
      /\ d.version = c.version + 1
      /\ d.instruments = c.instruments \cup {items[k] : k \in DOMAIN items}
      /\ d.id = c.id /\ d.plannedDate = c.plannedDate /\ d.points = c.points
      /\ d.rounds = c.rounds /\ d.findings = c.findings
      /\ d.currentBatch = c.currentBatch /\ d.frozenVersion = c.frozenVersion
  BY <1>1, RegisterFrame DEF CampaignFields, CanRegisterInstruments
<1> HIDE DEF d
<1>3. WellTyped(d)
  BY <1>2 DEF Sound, WellTyped, Statuses
<1>4. DOMAIN d.findings = {}
  BY <1>2 DEF Sound, StatusFits, CanRegisterInstruments
<1>5. WorkIsCurrent(d) /\ StatusFits(d)
  BY <1>2, <1>4 DEF WorkIsCurrent, StatusFits, Pending, Open
<1>6. QED
  BY <1>3, <1>5 DEF Sound, d

LEMMA AddRoundSound ==
  ASSUME NEW c, Sound(c), NEW round \in Round, NEW actor, CanAddRound(c, round, actor)
  PROVE  Sound(AddRound(c, round))
<1> DEFINE d == AddRound(c, round)
           closed == Closed(c, round)
<1>1. DOMAIN c = CampaignFields
  BY DEF Sound, WellTyped
<1>2. /\ DOMAIN d = CampaignFields
      /\ d.status = IF Open(closed) # {} THEN "Remediation" ELSE "Executing"
      /\ d.version = c.version + 1
      /\ d.rounds = Append(c.rounds, round)
      /\ d.findings = closed.findings
      /\ d.id = c.id /\ d.plannedDate = c.plannedDate /\ d.points = c.points
      /\ d.instruments = c.instruments
      /\ d.currentBatch = c.currentBatch /\ d.frozenVersion = c.frozenVersion
  BY <1>1, AddRoundFrame DEF CampaignFields
<1>3. closed.findings = [f \in DOMAIN c.findings |->
                           IF f \in ClosedBy(c, round)
                             THEN Remedied(c.findings[f], round.id)
                             ELSE c.findings[f]]
  BY <1>1, ClosedFrame
<1> HIDE DEF d, closed
<1>4. WellTyped(d)
  <2>1. c.findings \in [DOMAIN c.findings -> Disposition] /\ DOMAIN c.findings \subseteq Finding
    BY DEF Sound, WellTyped
  <2>2. round.id \in RoundIds
    BY DEF Round
  <2>3. closed.findings \in [DOMAIN c.findings -> Disposition]
    BY <1>3, <2>1, <2>2, DispositionTyped
  <2>4. d.rounds \in Seq(Round)
    BY <1>2 DEF Sound, WellTyped
  <2>5. QED
    BY <1>2, <2>1, <2>3, <2>4 DEF Sound, WellTyped, Statuses
<1>5. \A f \in DOMAIN c.findings :
        DecisionOf(closed, f) \in {DecisionOf(c, f), "Remediated"}
  BY <1>3, DispositionTyped DEF DecisionOf, Sound, WellTyped, Round
<1>6. /\ DOMAIN closed.findings = DOMAIN c.findings
      /\ Open(closed) \subseteq Open(c) /\ Pending(closed) \subseteq Pending(c)
  BY <1>3, <1>5 DEF Open, Pending
<1>7. /\ Open(d) = Open(closed) /\ Pending(d) = Pending(closed)
      /\ CurrentFindings(d) = CurrentFindings(c)
  BY <1>2, <1>6 DEF Open, Pending, CurrentFindings, DecisionOf
<1>8. Pending(c) = {}
  BY DEF CanAddRound, Sound, StatusFits
<1>9. WorkIsCurrent(d) /\ StatusFits(d)
  BY <1>2, <1>6, <1>7, <1>8 DEF WorkIsCurrent, StatusFits, Sound
<1>10. QED
  BY <1>4, <1>9 DEF Sound, d

LEMMA SubmitSound ==
  ASSUME NEW c, Sound(c), CanSubmitForReview(c)
  PROVE  Sound(SubmitForReview(c))
<1> DEFINE d == SubmitForReview(c)
           raised == Raised(c.points, c.rounds, c.version)
<1>1. DOMAIN c = CampaignFields
  BY DEF Sound, WellTyped
<1>2. /\ DOMAIN d = CampaignFields
      /\ d.status = "ReviewPending"
      /\ d.version = c.version + 1
      /\ d.currentBatch = {c.version}
      /\ d.findings = [f \in (DOMAIN c.findings) \cup raised |->
                         IF f \in DOMAIN c.findings THEN c.findings[f] ELSE Undecided]
      /\ d.id = c.id /\ d.plannedDate = c.plannedDate /\ d.points = c.points
      /\ d.instruments = c.instruments /\ d.rounds = c.rounds
      /\ d.frozenVersion = c.frozenVersion
  <2>1. /\ DOMAIN d = CampaignFields
        /\ d.status = "ReviewPending"
        /\ d.version = c.version + 1
        /\ d.currentBatch = {c.version}
        /\ d.findings = [f \in (DOMAIN c.findings) \cup raised |->
                           IF f \in DOMAIN c.findings THEN c.findings[f] ELSE Undecided]
        /\ \A g \in CampaignFields \ {"status", "version", "readiness", "progress",
                                          "currentBatch", "findings", "batches"} : d[g] = c[g]
    BY <1>1, SubmitFrame
  <2> HIDE DEF d, raised
  <2>2. QED
    BY <2>1 DEF CampaignFields
<1>3. raised \subseteq Finding /\ \A f \in raised : f.batch = c.version
  BY RaisedTyped DEF Sound, WellTyped
<1> HIDE DEF d, raised
<1>4. WellTyped(d)
  <2>1. c.findings \in [DOMAIN c.findings -> Disposition] /\ DOMAIN c.findings \subseteq Finding
    BY DEF Sound, WellTyped
  <2>2. Undecided \in Disposition
    BY DEF Undecided, Disposition, Decisions, Optional
  <2>3. d.findings \in [DOMAIN d.findings -> Disposition] /\ DOMAIN d.findings \subseteq Finding
    BY <1>2, <1>3, <2>1, <2>2
  <2>4. d.currentBatch \in Optional(Nat)
    BY <1>2 DEF Optional, Sound, WellTyped
  <2>5. QED
    BY <1>2, <2>3, <2>4 DEF Sound, WellTyped, Statuses
<1>5. Pending(c) = {} /\ Open(c) = {}
  BY DEF CanSubmitForReview, Sound, StatusFits
<1>6. Pending(d) \cup Open(d) \subseteq raised
  BY <1>2, <1>5 DEF Pending, Open, DecisionOf, Undecided
<1>7. WorkIsCurrent(d)
  BY <1>2, <1>3, <1>6 DEF WorkIsCurrent, CurrentFindings, Pending, Open
<1>8. StatusFits(d)
  BY <1>2, <1>6 DEF StatusFits
<1>9. QED
  BY <1>4, <1>7, <1>8 DEF Sound, d

LEMMA DecideSound ==
  ASSUME NEW c, Sound(c), NEW f, NEW decision, NEW noted, NEW actor \in Actors,
         CanDecideFinding(c, f, decision, noted)
  PROVE  Sound(DecideFinding(c, f, decision, actor))
<1> DEFINE d == DecideFinding(c, f, decision, actor)
           judged == Judged(c, f, decision, actor)
<1>1. DOMAIN c = CampaignFields
  BY DEF Sound, WellTyped
<1>2. /\ DOMAIN d = CampaignFields
      /\ d.status = IF /\ CurrentFindings(judged) \cap Pending(judged) = {}
                       /\ CurrentFindings(judged) \cap Open(judged) # {}
                    THEN "Remediation" ELSE c.status
      /\ d.version = c.version + 1
      /\ d.findings = judged.findings
      /\ judged.findings = [g \in DOMAIN c.findings |->
           IF g = f THEN Decided(c.findings[g], decision, actor) ELSE c.findings[g]]
      /\ judged.currentBatch = c.currentBatch
      /\ \A g \in CampaignFields \ {"status", "version", "findings"} : d[g] = c[g]
  BY <1>1, DecideFrame
<1> HIDE DEF d, judged
<1>2a. /\ d.id = c.id /\ d.plannedDate = c.plannedDate /\ d.points = c.points
       /\ d.instruments = c.instruments /\ d.rounds = c.rounds
       /\ d.currentBatch = c.currentBatch /\ d.frozenVersion = c.frozenVersion
  BY <1>2 DEF CampaignFields
<1>3. /\ f \in DOMAIN c.findings /\ f.batch \in c.currentBatch
      /\ decision \in {"Accepted", "NeedsRemediation"} /\ c.status = "ReviewPending"
  BY DEF CanDecideFinding
<1>4. WellTyped(d)
  <2>1. c.findings \in [DOMAIN c.findings -> Disposition] /\ DOMAIN c.findings \subseteq Finding
    BY DEF Sound, WellTyped
  <2>2. Decided(c.findings[f], decision, actor) \in Disposition
    BY <1>3, <2>1, DispositionTyped DEF Decisions
  <2>3. d.findings \in [DOMAIN d.findings -> Disposition] /\ DOMAIN d.findings \subseteq Finding
    BY <1>2, <2>1, <2>2
  <2>4. QED
    BY <1>2, <1>2a, <1>3, <2>3 DEF Sound, WellTyped, Statuses
<1>5. /\ DOMAIN d.findings = DOMAIN c.findings
      /\ \A g \in DOMAIN c.findings : g # f => DecisionOf(d, g) = DecisionOf(c, g)
  BY <1>2 DEF DecisionOf
<1>6. /\ Pending(d) = Pending(judged) /\ Open(d) = Open(judged)
      /\ CurrentFindings(d) = CurrentFindings(judged)
  BY <1>2, <1>2a DEF Pending, Open, DecisionOf, CurrentFindings
<1>7. WorkIsCurrent(d)
  BY <1>2a, <1>3, <1>5 DEF WorkIsCurrent, CurrentFindings, Pending, Open, Sound
<1>8. StatusFits(d)
  BY <1>2, <1>3, <1>6, <1>7 DEF StatusFits, WorkIsCurrent
<1>9. QED
  BY <1>4, <1>7, <1>8 DEF Sound, d

LEMMA FreezeGuard ==
  ASSUME NEW c, CanFreeze(c)
  PROVE  c.status = "ReviewPending" /\ CurrentFindings(c) \cap Pending(c) = {} /\ Open(c) = {}
<1> DEFINE blocked ==
      [persistence_evidence_mismatch |-> FALSE,
       invalid_freeze_status |-> c.status # "ReviewPending",
       pending_finding |-> CurrentFindings(c) \cap Pending(c) # {},
       unclosed_remediation |-> Open(c) # {},
       calibration_coverage_incomplete |->
           ~Readiness(c.points, c.instruments, c.plannedDate).ready,
       sampling_plan_reference_invalid |-> ~PointsIntact(c),
       calibration_evidence_invalid |-> ~InstrumentsIntact(c),
       evidence_reference_invalid |-> ~RoundsIntact(c),
       finding_reference_invalid |-> ~FindingsIntact(c),
       check_batch_reference_invalid |-> ~BatchesIntact(c)]
<1>1. {code \in DOMAIN blocked : blocked[code]} = {}
  BY DEF CanFreeze, FreezeBlockers
<1>2. /\ "invalid_freeze_status" \in DOMAIN blocked
      /\ "pending_finding" \in DOMAIN blocked
      /\ "unclosed_remediation" \in DOMAIN blocked
  OBVIOUS
<1>3. /\ blocked["invalid_freeze_status"] = (c.status # "ReviewPending")
      /\ blocked["pending_finding"] = (CurrentFindings(c) \cap Pending(c) # {})
      /\ blocked["unclosed_remediation"] = (Open(c) # {})
  OBVIOUS
<1> HIDE DEF blocked
<1>4. /\ ~blocked["invalid_freeze_status"]
      /\ ~blocked["pending_finding"]
      /\ ~blocked["unclosed_remediation"]
  BY <1>1, <1>2
<1>5. QED
  BY <1>3, <1>4

LEMMA FreezeSound ==
  ASSUME NEW c, Sound(c), NEW hash, CanFreeze(c)
  PROVE  Sound(Freeze(c, hash))
<1> DEFINE d == Freeze(c, hash)
<1>1. DOMAIN c = CampaignFields
  BY DEF Sound, WellTyped
<1>2. /\ DOMAIN d = CampaignFields
      /\ d.status = "Frozen"
      /\ d.version = c.version + 1 /\ d.frozenVersion = c.version + 1
      /\ d.id = c.id /\ d.plannedDate = c.plannedDate /\ d.points = c.points
      /\ d.instruments = c.instruments /\ d.rounds = c.rounds /\ d.findings = c.findings
      /\ d.currentBatch = c.currentBatch
  BY <1>1, FreezeFrame DEF CampaignFields
<1> HIDE DEF d
<1>3. WellTyped(d)
  BY <1>2 DEF Sound, WellTyped, Statuses
<1>4. Pending(c) = {} /\ Open(c) = {}
  BY FreezeGuard DEF Sound, WorkIsCurrent
<1>5. WorkIsCurrent(d) /\ StatusFits(d)
  BY <1>2, <1>4 DEF WorkIsCurrent, StatusFits, Pending, Open, DecisionOf
<1>6. QED
  BY <1>3, <1>5 DEF Sound, d

LEMMA CertifySound ==
  ASSUME NEW c, Sound(c), NEW credential, c.status = "Frozen"
  PROVE  Sound(Certify(c, credential))
<1> DEFINE d == Certify(c, credential)
<1>1. DOMAIN c = CampaignFields
  BY DEF Sound, WellTyped
<1>2. /\ DOMAIN d = CampaignFields
      /\ d.status = "Certified"
      /\ d.version = c.version + 1
      /\ d.id = c.id /\ d.plannedDate = c.plannedDate /\ d.points = c.points
      /\ d.instruments = c.instruments /\ d.rounds = c.rounds /\ d.findings = c.findings
      /\ d.currentBatch = c.currentBatch /\ d.frozenVersion = c.frozenVersion
  BY <1>1, CertifyFrame DEF CampaignFields
<1> HIDE DEF d
<1>3. WellTyped(d)
  BY <1>2 DEF Sound, WellTyped, Statuses
<1>4. WorkIsCurrent(d) /\ StatusFits(d)
  BY <1>2 DEF Sound, WorkIsCurrent, StatusFits, Pending, Open, DecisionOf, CurrentFindings
<1>5. QED
  BY <1>3, <1>4 DEF Sound, d

-------------------------------------------------------------------------------
(* The seal of a frozen campaign is the hash its verification recomputes. *)

GoodCredential(c, k) ==
    /\ k.campaign = c.id
    /\ k.frozenVersion = c.frozenVersion
    /\ {k.manifestHash} = c.manifestHash
    /\ k.digest = Digest(k)

SealHolds(c) ==
    /\ IsFrozen(c.status) => c.manifestHash = {RecalculatedHash(c)}
    /\ c.status # "Certified" => c.credential = {}
    /\ c.status = "Certified" => \E k : c.credential = {k} /\ GoodCredential(c, k)

LEMMA RecalculatedManifest ==
  ASSUME NEW c, DOMAIN c = CampaignFields
  PROVE  RecalculatedHash(c) =
           [campaign |-> c.id, plannedDate |-> c.plannedDate, revision |-> c.frozenVersion - 1,
            points |-> c.points, instruments |-> c.instruments, rounds |-> c.rounds,
            findings |-> c.findings]
BY DEF RecalculatedHash, Hash, Manifest, CampaignFields

LEMMA NewCampaignSeal ==
  ASSUME NEW id, NEW date, NEW plan
  PROVE  SealHolds(NewCampaign(id, date, plan))
BY DEF SealHolds, NewCampaign, IsFrozen

LEMMA OpenSeal ==
  ASSUME NEW c, SealHolds(c), ~IsFrozen(c.status),
         NEW d, ~IsFrozen(d.status), d.credential = c.credential
  PROVE  SealHolds(d)
BY DEF SealHolds, IsFrozen

LEMMA RegisterSeal ==
  ASSUME NEW c, Sound(c), SealHolds(c), NEW items, CanRegisterInstruments(c, items)
  PROVE  SealHolds(RegisterInstruments(c, items))
<1> DEFINE d == RegisterInstruments(c, items)
<1>1. c.status = "Draft"
  BY DEF CanRegisterInstruments
<1>2. d.status \in {"Ready", "Draft"} /\ d.credential = c.credential
  BY <1>1, RegisterFrame DEF CampaignFields, Sound, WellTyped
<1> HIDE DEF d
<1>3. SealHolds(d)
  BY <1>1, <1>2, OpenSeal DEF IsFrozen
<1>4. QED
  BY <1>3 DEF d

LEMMA AddRoundSeal ==
  ASSUME NEW c, Sound(c), SealHolds(c), NEW round, NEW actor, CanAddRound(c, round, actor)
  PROVE  SealHolds(AddRound(c, round))
<1> DEFINE d == AddRound(c, round)
<1>1. c.status \in {"Ready", "Executing", "Remediation"}
  BY DEF CanAddRound
<1>2. d.status \in {"Remediation", "Executing"} /\ d.credential = c.credential
  BY AddRoundFrame DEF CampaignFields, Sound, WellTyped
<1> HIDE DEF d
<1>3. SealHolds(d)
  BY <1>1, <1>2, OpenSeal DEF IsFrozen
<1>4. QED
  BY <1>3 DEF d

LEMMA SubmitSeal ==
  ASSUME NEW c, Sound(c), SealHolds(c), CanSubmitForReview(c)
  PROVE  SealHolds(SubmitForReview(c))
<1> DEFINE d == SubmitForReview(c)
<1>1. c.status = "Executing" /\ DOMAIN c = CampaignFields
  BY DEF CanSubmitForReview, Sound, WellTyped
<1>2. d.status = "ReviewPending" /\ d.credential = c.credential
  BY <1>1, SubmitFrame
<1> HIDE DEF d
<1>3. SealHolds(d)
  BY <1>1, <1>2, OpenSeal DEF IsFrozen
<1>4. QED
  BY <1>3 DEF d

LEMMA DecideSeal ==
  ASSUME NEW c, Sound(c), SealHolds(c), NEW f, NEW decision, NEW noted, NEW actor,
         CanDecideFinding(c, f, decision, noted)
  PROVE  SealHolds(DecideFinding(c, f, decision, actor))
<1> DEFINE d == DecideFinding(c, f, decision, actor)
           judged == Judged(c, f, decision, actor)
<1>0. DOMAIN c = CampaignFields
  BY DEF Sound, WellTyped
<1>1. c.status = "ReviewPending"
  BY DEF CanDecideFinding
<1>2. /\ DOMAIN d = CampaignFields
      /\ d.status = IF /\ CurrentFindings(judged) \cap Pending(judged) = {}
                       /\ CurrentFindings(judged) \cap Open(judged) # {}
                    THEN "Remediation" ELSE c.status
      /\ d.version = c.version + 1
      /\ d.credential = c.credential
      /\ d.findings = judged.findings
      /\ judged.findings = [g \in DOMAIN c.findings |->
           IF g = f THEN Decided(c.findings[g], decision, actor) ELSE c.findings[g]]
      /\ judged.currentBatch = c.currentBatch
      /\ \A g \in CampaignFields \ {"status", "version", "findings"} : d[g] = c[g]
  BY <1>0, DecideFrame
<1> HIDE DEF d, judged
<1>3. d.status \in {"Remediation", "ReviewPending"} /\ d.credential = c.credential
  BY <1>1, <1>2
<1>4. SealHolds(d)
  BY <1>1, <1>3, OpenSeal DEF IsFrozen
<1>5. QED
  BY <1>4 DEF d

LEMMA FreezeSeal ==
  ASSUME NEW c, Sound(c), SealHolds(c), CanFreeze(c)
  PROVE  SealHolds(Freeze(c, Hash(c)))
<1> DEFINE d == Freeze(c, Hash(c))
<1>1. DOMAIN c = CampaignFields /\ c.version \in Nat
  BY DEF Sound, WellTyped
<1>2. /\ DOMAIN d = CampaignFields
      /\ d.status = "Frozen" /\ d.frozenVersion = c.version + 1 /\ d.manifestHash = {Hash(c)}
      /\ d.id = c.id /\ d.plannedDate = c.plannedDate /\ d.points = c.points
      /\ d.instruments = c.instruments /\ d.rounds = c.rounds /\ d.findings = c.findings
      /\ d.credential = c.credential
  BY <1>1, FreezeFrame DEF CampaignFields
<1> HIDE DEF d
<1>3. d.frozenVersion - 1 = c.version
  BY <1>1, <1>2
<1>4. RecalculatedHash(d) = Hash(c)
  BY <1>2, <1>3, RecalculatedManifest DEF Hash, Manifest
<1>5. c.credential = {}
  BY FreezeGuard DEF SealHolds
<1>6. SealHolds(d)
  BY <1>2, <1>4, <1>5 DEF SealHolds
<1>7. QED
  BY <1>6 DEF d

LEMMA CertifySeal ==
  ASSUME NEW c, Sound(c), SealHolds(c), NEW issuedBy, NEW k \in Issue(c, issuedBy),
         CanCertify(c, k)
  PROVE  SealHolds(Certify(c, k))
<1> DEFINE d == Certify(c, k)
<1>1. DOMAIN c = CampaignFields
  BY DEF Sound, WellTyped
<1>2. /\ DOMAIN d = CampaignFields
      /\ d.status = "Certified" /\ d.credential = {k}
      /\ d.id = c.id /\ d.plannedDate = c.plannedDate /\ d.points = c.points
      /\ d.instruments = c.instruments /\ d.rounds = c.rounds /\ d.findings = c.findings
      /\ d.manifestHash = c.manifestHash /\ d.frozenVersion = c.frozenVersion
  BY <1>1, CertifyFrame DEF CampaignFields
<1> HIDE DEF d
<1>3. c.manifestHash = {RecalculatedHash(c)}
  BY DEF SealHolds, CanCertify, IsFrozen
<1>4. RecalculatedHash(d) = RecalculatedHash(c)
  BY <1>1, <1>2, RecalculatedManifest
<1>5. GoodCredential(d, k)
  <2>1. PICK h \in c.manifestHash :
          k = [campaign |-> c.id, frozenVersion |-> c.frozenVersion, manifestHash |-> h,
               issuedBy |-> issuedBy, digest |-> <<c.id, c.frozenVersion, h, issuedBy>>]
    BY DEF Issue
  <2>2. k.digest = Digest(k)
    BY <2>1 DEF Digest
  <2>3. QED
    BY <1>2, <2>2 DEF GoodCredential, CanCertify
<1>6. SealHolds(d)
  BY <1>2, <1>3, <1>4, <1>5 DEF SealHolds
<1>7. QED
  BY <1>6 DEF d

LEMMA SealedCampaignVerifies ==
  ASSUME NEW c, SealHolds(c), IsFrozen(c.status)
  PROVE  /\ ManifestPassed(c, FALSE)
         /\ VerifyDetailed(c, FALSE, FALSE) =
              IF c.status = "Certified" THEN {} ELSE {"credential_not_issued"}
<1>1. ManifestPassed(c, FALSE)
  BY DEF SealHolds, ManifestPassed
<1>2. CASE c.status # "Certified"
  BY <1>1, <1>2 DEF SealHolds, VerifyDetailed
<1>3. CASE c.status = "Certified"
  <2>1. PICK k : c.credential = {k} /\ GoodCredential(c, k)
    BY <1>3 DEF SealHolds
  <2> DEFINE failed(x) ==
        [campaign_binding_mismatch |-> x.campaign # c.id,
         frozen_version_mismatch |-> x.frozenVersion # c.frozenVersion,
         manifest_hash_binding_mismatch |-> {x.manifestHash} # c.manifestHash,
         manifest_hash_mismatch |-> ~ManifestPassed(c, FALSE),
         credential_digest_mismatch |-> Digest(x) # x.digest \/ FALSE]
             codes(x) == {code \in DOMAIN failed(x) : failed(x)[code]}
  <2>2. VerifyDetailed(c, FALSE, FALSE) = UNION {codes(x) : x \in c.credential}
    BY <2>1 DEF VerifyDetailed
  <2>3. codes(k) = {}
    <3>1. \A code \in DOMAIN failed(k) :
            code \in {"campaign_binding_mismatch", "frozen_version_mismatch",
                      "manifest_hash_binding_mismatch", "manifest_hash_mismatch",
                      "credential_digest_mismatch"}
      OBVIOUS
    <3>2. /\ failed(k)["campaign_binding_mismatch"] = (k.campaign # c.id)
          /\ failed(k)["frozen_version_mismatch"] = (k.frozenVersion # c.frozenVersion)
          /\ failed(k)["manifest_hash_binding_mismatch"] = ({k.manifestHash} # c.manifestHash)
          /\ failed(k)["manifest_hash_mismatch"] = ~ManifestPassed(c, FALSE)
          /\ failed(k)["credential_digest_mismatch"] = (Digest(k) # k.digest)
      OBVIOUS
    <3> HIDE DEF failed
    <3>3. /\ ~failed(k)["campaign_binding_mismatch"]
          /\ ~failed(k)["frozen_version_mismatch"]
          /\ ~failed(k)["manifest_hash_binding_mismatch"]
          /\ ~failed(k)["manifest_hash_mismatch"]
          /\ ~failed(k)["credential_digest_mismatch"]
      BY <1>1, <2>1, <3>2 DEF GoodCredential
    <3>4. QED
      BY <3>1, <3>3
  <2> HIDE DEF codes
  <2>4. QED
    BY <1>1, <1>3, <2>1, <2>2, <2>3
<1>4. QED
  BY <1>2, <1>3

-------------------------------------------------------------------------------
(* The measurements that count. *)

\* Every set of natural numbers that is not empty has a least element: the principle by
\* which the lemmas about the code's loop are proved.
LEMMA LeastElement ==
  ASSUME NEW S \in SUBSET Nat, S # {}
  PROVE  \E i \in S : \A j \in S : i <= j
<1> DEFINE less == OpToRel(<, Nat)
<1>1. IsWellFoundedOn(less, Nat)
  BY NatLessThanWellFounded
<1>2. \A i, j \in Nat : i < j => <<i, j>> \in less
  BY DEF OpToRel
<1> HIDE DEF less
<1>3. PICK i \in S : \A j \in S : ~(<<j, i>> \in less)
  BY <1>1, WFMin
<1>4. \A j \in S : ~(j < i)
  BY <1>2, <1>3
<1>5. QED
  BY <1>4

MeasuredIn(rounds, point, i) ==
    {[sample |-> s, round |-> i] : s \in {t \in rounds[i].samples : t.point = point}}

Resets(rounds, point, j) == rounds[j].kind = "Remediation" /\ Covers(rounds[j], point)

\* What the first n rounds leave, said as Effective says it.
KeptAfter(rounds, point, n) ==
    UNION {MeasuredIn(rounds, point, i) :
             i \in {k \in 1 .. n : \A j \in 1 .. n : j > k => ~Resets(rounds, point, j)}}

LEMMA KeptStep ==
  ASSUME NEW rounds, NEW point, NEW n \in Nat
  PROVE  /\ KeptAfter(rounds, point, 0) = {}
         /\ KeptAfter(rounds, point, n + 1) =
              (IF Resets(rounds, point, n + 1) THEN {} ELSE KeptAfter(rounds, point, n))
                \cup MeasuredIn(rounds, point, n + 1)
<1> DEFINE Standing(m) == {k \in 1 .. m : \A j \in 1 .. m : j > k => ~Resets(rounds, point, j)}
           R(j) == Resets(rounds, point, j)
           M(i) == MeasuredIn(rounds, point, i)
<1>1. Standing(0) = {}
  OBVIOUS
<1>2. CASE R(n + 1)
  <2>1. Standing(n + 1) = {n + 1}
    BY <1>2
  <2>2. QED
    BY <1>1, <1>2, <2>1 DEF KeptAfter
<1>3. CASE ~R(n + 1)
  <2>1. Standing(n + 1) = Standing(n) \cup {n + 1}
    <3> HIDE DEF R
    <3>1. 1 .. n + 1 = (1 .. n) \cup {n + 1}
      OBVIOUS
    <3>2. \A k \in 1 .. n : n + 1 > k
      OBVIOUS
    <3>3. QED
      BY <1>3, <3>1, <3>2 DEF R
  <2>2. UNION {M(i) : i \in Standing(n + 1)} = (UNION {M(i) : i \in Standing(n)}) \cup M(n + 1)
    <3> HIDE DEF M, Standing
    <3> QED BY <2>1
  <2>3. QED
    BY <1>1, <1>3, <2>2 DEF KeptAfter
<1>4. QED
  BY <1>2, <1>3

LEMMA LoopKeeps ==
  ASSUME NEW rounds, NEW point, Len(rounds) \in Nat
  PROVE  EffectiveByLoop(rounds, point) = KeptAfter(rounds, point, Len(rounds))
<1> DEFINE n == Len(rounds)
           step(i, kept) == (IF Resets(rounds, point, i) THEN {} ELSE kept)
                              \cup MeasuredIn(rounds, point, i)
           Loop(f) == f = [i \in 0 .. n |-> IF i = 0 THEN {} ELSE step(i, f[i - 1])]
           K == [i \in 0 .. n |-> KeptAfter(rounds, point, i)]
<1>1. EffectiveByLoop(rounds, point) = (CHOOSE f : Loop(f))[n]
  BY DEF EffectiveByLoop, Resets, MeasuredIn
<1>2. Loop(K)
  <2> SUFFICES ASSUME NEW i \in 0 .. n
               PROVE  KeptAfter(rounds, point, i) = IF i = 0 THEN {} ELSE step(i, K[i - 1])
    OBVIOUS
  <2>1. CASE i = 0
    BY <2>1, KeptStep
  <2>2. CASE i # 0
    <3>1. i - 1 \in Nat /\ i - 1 \in 0 .. n /\ (i - 1) + 1 = i
      BY <2>2
    <3>2. K[i - 1] = KeptAfter(rounds, point, i - 1)
      BY <3>1
    <3> HIDE DEF K
    <3>3. KeptAfter(rounds, point, i) = step(i, KeptAfter(rounds, point, i - 1))
      BY <3>1, KeptStep
    <3>4. QED
      BY <2>2, <3>2, <3>3
  <2>3. QED
    BY <2>1, <2>2
\* Two solutions of the loop's equation cannot differ: consider the least round after
\* which they do.
<1>3. ASSUME NEW f, Loop(f) PROVE f[n] = K[n]
  <2> DEFINE Differ == {i \in Nat : i <= n /\ f[i] # K[i]}
  <2> SUFFICES ASSUME Differ # {} PROVE FALSE
    BY DEF Differ
  <2>1. PICK i \in Differ : \A j \in Differ : i <= j
    <3>1. Differ \subseteq Nat
      BY DEF Differ
    <3> HIDE DEF Differ
    <3>2. QED
      BY <3>1, LeastElement
  <2>2. i \in Nat /\ i <= n /\ f[i] # K[i]
    BY DEF Differ
  <2> HIDE DEF K
  <2>3. f[i] = IF i = 0 THEN {} ELSE step(i, f[i - 1])
    <3> HIDE DEF step, Differ
    <3>1. i \in 0 .. n
      BY <2>2
    <3>2. f = [k \in 0 .. n |-> IF k = 0 THEN {} ELSE step(k, f[k - 1])]
      BY <1>3
    <3>3. QED
      BY <3>1, <3>2, Zenon
  <2>4. K[i] = IF i = 0 THEN {} ELSE step(i, K[i - 1])
    BY <1>2, <2>2
  <2>5. i # 0 /\ f[i - 1] # K[i - 1]
    BY <2>2, <2>3, <2>4
  <2>6. i - 1 \in Differ
    BY <2>2, <2>5
  <2>7. QED
    BY <2>1, <2>2, <2>6
<1>4. QED
  <2> HIDE DEF Loop
  <2>1. Loop(CHOOSE f : Loop(f))
    BY <1>2
  <2>2. K[n] = KeptAfter(rounds, point, n)
    OBVIOUS
  <2> HIDE DEF K
  <2>3. QED
    BY <1>1, <1>3, <2>1, <2>2

LEMMA EffectiveIsKept ==
  ASSUME NEW rounds \in Seq(Round), NEW point
  PROVE  Effective(rounds, point) = KeptAfter(rounds, point, Len(rounds))
<1>1. DOMAIN rounds = 1 .. Len(rounds)
  OBVIOUS
<1>2. QED
  BY <1>1 DEF Effective, KeptAfter, MeasuredIn, Resets

\* The declarative form of the samples that count is what the code's loop computes.
LEMMA LoopIsEffective ==
  ASSUME NEW rounds \in Seq(Round), NEW point
  PROVE  EffectiveByLoop(rounds, point) = Effective(rounds, point)
BY LoopKeeps, EffectiveIsKept

\* One more round: it adds its samples of the point, after discarding the earlier ones
\* if it is a remediation round that covers the point.
LEMMA EffectiveAppend ==
  ASSUME NEW rounds \in Seq(Round), NEW round \in Round, NEW point
  PROVE  LET n == Len(rounds) + 1
             discards == round.kind = "Remediation" /\ Covers(round, point)
         IN Effective(Append(rounds, round), point) =
              (IF discards THEN {} ELSE Effective(rounds, point))
                \cup {[sample |-> s, round |-> n] : s \in {t \in round.samples : t.point = point}}
<1> DEFINE more == Append(rounds, round)
           n == Len(rounds)
<1>1. /\ more \in Seq(Round) /\ Len(more) = n + 1 /\ n \in Nat
      /\ more[n + 1] = round /\ \A i \in 1 .. n : more[i] = rounds[i]
  OBVIOUS
<1> HIDE DEF more
<1>2. KeptAfter(more, point, n) = KeptAfter(rounds, point, n)
  BY <1>1 DEF KeptAfter, MeasuredIn, Resets
<1>3. Effective(more, point) = KeptAfter(more, point, n + 1)
  BY <1>1, EffectiveIsKept
<1>4. Effective(more, point) =
        (IF Resets(more, point, n + 1) THEN {} ELSE KeptAfter(more, point, n))
          \cup MeasuredIn(more, point, n + 1)
  BY <1>1, <1>3, KeptStep
<1>5. QED
  BY <1>1, <1>2, <1>4, EffectiveIsKept DEF MeasuredIn, Resets, more

LEMMA EffectiveShape ==
  ASSUME NEW rounds \in Seq(Round), NEW point, NEW e \in Effective(rounds, point)
  PROVE  /\ e = [sample |-> e.sample, round |-> e.round]
         /\ e.round \in 1 .. Len(rounds)
         /\ e.sample \in rounds[e.round].samples
         /\ e.sample.point = point
         /\ rounds[e.round].kind = "Remediation" \/ rounds[e.round].kind = "Routine"
<1>1. PICK i \in DOMAIN rounds :
        \E s \in {t \in rounds[i].samples : t.point = point} : e = [sample |-> s, round |-> i]
  BY DEF Effective
<1>2. rounds[i] \in Round
  OBVIOUS
<1>3. QED
  BY <1>1, <1>2 DEF Round, RoundKinds

SlotsOnce(c) ==
    \A p \in c.points : \A d, e \in Effective(c.rounds, p.id) :
      SameSlot(d.sample, e.sample) => d = e

\* A routine round repeats no slot, and a remediation round replaces what was there: no
\* slot has two measurements that count.
LEMMA AddRoundSlots ==
  ASSUME NEW c, Sound(c), SlotsOnce(c), NEW round \in Round, NEW actor,
         CanAddRound(c, round, actor)
  PROVE  SlotsOnce(AddRound(c, round))
<1> DEFINE more == Append(c.rounds, round)
           n == Len(c.rounds) + 1
           Fresh(point) == {[sample |-> s, round |-> n] : s \in {t \in round.samples : t.point = point}}
<1>1. c.rounds \in Seq(Round) /\ AddRound(c, round).points = c.points /\ AddRound(c, round).rounds = more
  BY AddRoundFrame DEF Sound, WellTyped, CampaignFields
<1>2. SUFFICES ASSUME NEW p \in c.points, NEW d \in Effective(more, p.id),
                      NEW e \in Effective(more, p.id), SameSlot(d.sample, e.sample)
               PROVE  d = e
  BY <1>1 DEF SlotsOnce
<1>3. Effective(more, p.id) =
        (IF round.kind = "Remediation" /\ Covers(round, p.id) THEN {}
         ELSE Effective(c.rounds, p.id)) \cup Fresh(p.id)
  BY <1>1, EffectiveAppend
<1>4. \A s, t \in round.samples : s # t => ~SameSlot(s, t)
  BY DEF CanAddRound, SamplesAdmissible
<1>5. ASSUME NEW x \in Fresh(p.id), NEW y \in Fresh(p.id), SameSlot(x.sample, y.sample)
      PROVE  x = y
  BY <1>4, <1>5
<1>6. ASSUME NEW x \in Fresh(p.id), NEW y \in Effective(c.rounds, p.id),
             ~(round.kind = "Remediation" /\ Covers(round, p.id))
      PROVE  ~SameSlot(x.sample, y.sample)
  <2>1. x.sample \in round.samples /\ x.sample.point = p.id
    OBVIOUS
  <2>2. round.kind = "Routine"
    BY <1>6, <2>1 DEF Covers, Round, RoundKinds
  <2>3. y.sample \in SamplesOf(c.rounds)
    BY <1>1, EffectiveShape DEF SamplesOf
  <2>4. QED
    BY <2>1, <2>2, <2>3 DEF CanAddRound, SamplesAdmissible
<1>7. \A x, y \in Effective(more, p.id) : SameSlot(x.sample, y.sample) => SameSlot(y.sample, x.sample)
  BY DEF SameSlot
<1> HIDE DEF more, Fresh
<1>8. CASE round.kind = "Remediation" /\ Covers(round, p.id)
  BY <1>2, <1>3, <1>5, <1>8
<1>9. CASE ~(round.kind = "Remediation" /\ Covers(round, p.id))
  BY <1>2, <1>3, <1>5, <1>6, <1>7, <1>9 DEF SlotsOnce
<1>10. QED
  BY <1>8, <1>9

-------------------------------------------------------------------------------
(* What a review raises. *)

MissingFinding(rounds, p, batch) ==
    [batch |-> batch, point |-> p.id, code |-> "missing_replicates",
     round |-> LatestPointRound(rounds, p.id), samples |-> {},
     missing |-> MissingReplicates(rounds, p)]

LimitFinding(rounds, p, batch, e, code) ==
    [batch |-> batch, point |-> p.id, code |-> code, round |-> {rounds[e.round].id},
     samples |-> {e.sample.id}, missing |-> {}]

LEMMA RaisedForms ==
  ASSUME NEW points, NEW rounds, NEW batch, NEW f \in Raised(points, rounds, batch)
  PROVE  \E p \in points :
           \/ /\ MissingReplicates(rounds, p) # {}
              /\ f = MissingFinding(rounds, p, batch)
           \/ \E e \in ByReplicate(rounds, p.id), code \in {"below_limit", "above_limit"} :
                f = LimitFinding(rounds, p, batch, e, code)
<1>1. PICK p \in points :
        f \in MissingFindings(rounds, p, batch) \cup LimitFindings(rounds, p, batch)
  BY DEF Raised
<1>2. CASE f \in MissingFindings(rounds, p, batch)
  BY <1>2 DEF MissingFindings, MissingFinding
<1>3. CASE f \in LimitFindings(rounds, p, batch)
  <2>1. PICK e \in {x \in ByReplicate(rounds, p.id) : x.sample.replicate \in 1 .. p.required} :
          \E code \in Violations(p, e.sample.value) : f = LimitFinding(rounds, p, batch, e, code)
    BY <1>3 DEF LimitFindings, LimitFinding
  <2>2. QED
    BY <2>1 DEF Violations
<1>4. QED
  BY <1>1, <1>2, <1>3

\* Sample ids name measurements, over all rounds.
SamplesNamed(rounds) ==
    \A i, j \in DOMAIN rounds : \A s \in rounds[i].samples, t \in rounds[j].samples :
      s.id = t.id => i = j /\ s = t

LEMMA IntactNames ==
  ASSUME NEW c, c.rounds \in Seq(Round), RoundsIntact(c)
  PROVE  SamplesNamed(c.rounds)
<1> SUFFICES ASSUME NEW i \in DOMAIN c.rounds, NEW j \in DOMAIN c.rounds,
                    NEW s \in c.rounds[i].samples, NEW t \in c.rounds[j].samples, s.id = t.id
             PROVE  i = j /\ s = t
  BY DEF SamplesNamed
<1>1. i \in Nat /\ j \in Nat
  OBVIOUS
<1>2. ~(i < j) /\ ~(j < i)
  BY <1>1 DEF RoundsIntact
<1>3. i = j
  BY <1>1, <1>2
<1>4. QED
  BY <1>3 DEF RoundsIntact

\* Within a review, what a finding is about (FindingKey) tells it from every other.
LEMMA RaisedApart ==
  ASSUME NEW points, NEW rounds \in Seq(Round), NEW batch,
         \A p, q \in points : p.id = q.id => p = q, SamplesNamed(rounds),
         NEW f \in Raised(points, rounds, batch), NEW g \in Raised(points, rounds, batch),
         FindingKey(f) = FindingKey(g)
  PROVE  f = g
<1>1. PICK p \in points :
        \/ f = MissingFinding(rounds, p, batch)
        \/ \E e \in ByReplicate(rounds, p.id), code \in {"below_limit", "above_limit"} :
             f = LimitFinding(rounds, p, batch, e, code)
  BY RaisedForms
<1>2. PICK q \in points :
        \/ g = MissingFinding(rounds, q, batch)
        \/ \E e \in ByReplicate(rounds, q.id), code \in {"below_limit", "above_limit"} :
             g = LimitFinding(rounds, q, batch, e, code)
  BY RaisedForms
<1>3. f.point = g.point /\ f.code = g.code /\ f.samples = g.samples
  BY DEF FindingKey
<1>4. p = q
  BY <1>1, <1>2, <1>3 DEF MissingFinding, LimitFinding
<1>5. CASE f = MissingFinding(rounds, p, batch)
  <2>1. g = MissingFinding(rounds, q, batch)
    BY <1>2, <1>3, <1>5 DEF MissingFinding, LimitFinding
  <2>2. QED
    BY <1>4, <1>5, <2>1
<1>6. ASSUME NEW e \in ByReplicate(rounds, p.id), NEW code \in {"below_limit", "above_limit"},
             f = LimitFinding(rounds, p, batch, e, code)
      PROVE  f = g
  <2>0. g # MissingFinding(rounds, q, batch)
    <3>1. g.code = code
      BY <1>3, <1>6 DEF LimitFinding
    <3>2. MissingFinding(rounds, q, batch).code = "missing_replicates"
      BY DEF MissingFinding
    <3>3. QED
      BY <3>1, <3>2
  <2>1. PICK d \in ByReplicate(rounds, q.id), other \in {"below_limit", "above_limit"} :
          g = LimitFinding(rounds, q, batch, d, other)
    BY <1>2, <2>0
  <2>2. code = other /\ e.sample.id = d.sample.id
    BY <1>3, <1>6, <2>1 DEF LimitFinding
  <2>3. e \in Effective(rounds, p.id) /\ d \in Effective(rounds, q.id)
    BY DEF ByReplicate
  <2>4. /\ e.round \in DOMAIN rounds /\ e.sample \in rounds[e.round].samples
        /\ d.round \in DOMAIN rounds /\ d.sample \in rounds[d.round].samples
    BY <2>3, EffectiveShape
  <2>5. e.round = d.round
    BY <2>2, <2>4 DEF SamplesNamed
  <2>6. QED
    BY <1>4, <1>6, <2>1, <2>2, <2>5 DEF LimitFinding
<1>7. QED
  BY <1>1, <1>5, <1>6

\* A finding with a round names one that measured its point, and samples that were taken.
FoundIn(rounds, f) ==
    /\ f.samples \subseteq {s.id : s \in SamplesOf(rounds)}
    /\ f.round # {} => \E i \in DOMAIN rounds :
                         f.round = {rounds[i].id} /\ Covers(rounds[i], f.point)

LEMMA RaisedFound ==
  ASSUME NEW points, NEW rounds \in Seq(Round), NEW batch, NEW f \in Raised(points, rounds, batch)
  PROVE  FoundIn(rounds, f) /\ \E p \in points : p.id = f.point
<1>1. PICK p \in points :
        \/ f = MissingFinding(rounds, p, batch)
        \/ \E e \in ByReplicate(rounds, p.id), code \in {"below_limit", "above_limit"} :
             f = LimitFinding(rounds, p, batch, e, code)
  BY RaisedForms
<1>2. ASSUME NEW e \in Effective(rounds, p.id)
      PROVE  /\ e.round \in DOMAIN rounds /\ Covers(rounds[e.round], p.id)
             /\ e.sample \in SamplesOf(rounds)
  BY EffectiveShape DEF Covers, SamplesOf
<1>3. CASE f = MissingFinding(rounds, p, batch)
  <2>1. f.point = p.id /\ f.samples = {} /\ f.round = LatestPointRound(rounds, p.id)
    BY <1>3 DEF MissingFinding
  <2>2. CASE f.round # {}
    <3>1. PICK e \in Effective(rounds, p.id) : rounds[e.round].id \in f.round
      BY <2>1, <2>2 DEF LatestPointRound
    <3>2. \A a, b \in f.round : a = b
      BY <2>1, LatestTyped DEF Optional
    <3>3. f.round = {rounds[e.round].id}
      BY <3>1, <3>2
    <3>4. QED
      BY <1>2, <2>1, <3>3 DEF FoundIn
  <2>3. QED
    BY <2>1, <2>2 DEF FoundIn
<1>4. ASSUME NEW e \in ByReplicate(rounds, p.id), NEW code \in {"below_limit", "above_limit"},
             f = LimitFinding(rounds, p, batch, e, code)
      PROVE  FoundIn(rounds, f) /\ p.id = f.point
  <2>1. f.point = p.id /\ f.samples = {e.sample.id} /\ f.round = {rounds[e.round].id}
    BY <1>4 DEF LimitFinding
  <2>2. e \in Effective(rounds, p.id)
    BY DEF ByReplicate
  <2>3. QED
    BY <1>2, <2>1, <2>2 DEF FoundIn
<1>5. QED
  BY <1>1, <1>3, <1>4 DEF MissingFinding

-------------------------------------------------------------------------------
(* The integrity rules. *)

\* Every sample is one the plan asks for, also in its replicate number and unit.
SamplesPlanned(c) ==
    \A i \in DOMAIN c.rounds : \A s \in c.rounds[i].samples : InPlan(c.points, s)

\* Batches are numbered by versions that are over.
NumbersPast(c) == \A b \in c.batches : b.id \in Nat /\ b.id < c.version

\* What was found can still be looked up.
FindingsFound(c) == \A f \in DOMAIN c.findings : FoundIn(c.rounds, f)

Intact(c) ==
    /\ c.points # {} /\ PointsIntact(c)
    /\ InstrumentsIntact(c)
    /\ RoundsIntact(c) /\ SamplesPlanned(c)
    /\ FindingsIntact(c) /\ FindingsFound(c)
    /\ BatchesIntact(c) /\ NumbersPast(c)

LEMMA NewCampaignIntact ==
  ASSUME NEW id, NEW date, NEW plan \in Seq(Point), CanCreate(plan)
  PROVE  Intact(NewCampaign(id, date, plan))
<1> DEFINE c == NewCampaign(id, date, plan)
           points == {plan[i] : i \in DOMAIN plan}
<1>1. /\ c.points = points /\ c.instruments = {} /\ c.rounds = << >> /\ c.batches = {}
      /\ c.findings = [f \in {} |-> Undecided] /\ c.currentBatch = {}
  BY DEF NewCampaign
<1>2. points # {}
  BY DEF CanCreate
<1>3. PointsIntact(c)
  <2>1. Cardinality(points) <= Len(plan)
    <3>1. Len(plan) \in Nat /\ DOMAIN plan = 1 .. Len(plan)
      OBVIOUS
    <3>2. plan \in Surjection(1 .. Len(plan), points)
      BY <3>1 DEF Surjection
    <3>3. QED
      BY <3>1, <3>2, FS_SurjCardinalityBound DEF ExistsSurjection
  <2>2. Cardinality(points) <= MaxSamplingPoints
    <3>1. \A i \in DOMAIN plan : i \in 1 .. Len(plan)
      OBVIOUS
    <3>2. IsFiniteSet(points) /\ Cardinality(points) \in Nat
      <4>1. plan \in Surjection(1 .. Len(plan), points)
        BY DEF Surjection
      <4>2. QED
        BY <4>1, FS_Surjection, FS_Interval, FS_CardinalityType
    <3>3. QED
      BY <2>1, <3>2, LimitsAssumption DEF CanCreate
  <2>3. QED
    BY <1>1, <2>2 DEF PointsIntact, CanCreate
<1> HIDE DEF c, points
<1>4. DOMAIN c.findings = {} /\ DOMAIN c.rounds = {}
  BY <1>1
<1>5. /\ InstrumentsIntact(c) /\ RoundsIntact(c) /\ SamplesPlanned(c) /\ FindingsIntact(c)
      /\ FindingsFound(c) /\ BatchesIntact(c) /\ NumbersPast(c)
  BY <1>1, <1>4 DEF InstrumentsIntact, RoundsIntact, SamplesPlanned, FindingsIntact,
                    FindingsFound, BatchesIntact, NumbersPast
<1>6. QED
  BY <1>1, <1>2, <1>3, <1>5 DEF Intact, c

\* An operation that leaves plan, rounds, findings and batches alone.
LEMMA UntouchedIntact ==
  ASSUME NEW c, Intact(c), c.version \in Nat,
         NEW d, d.points = c.points, InstrumentsIntact(d), d.rounds = c.rounds,
         d.findings = c.findings, d.batches = c.batches, d.currentBatch = c.currentBatch,
         d.version = c.version + 1
  PROVE  Intact(d)
<1>1. PointsIntact(d)
  BY DEF Intact, PointsIntact
<1>2. RoundsIntact(d) /\ SamplesPlanned(d)
  BY DEF Intact, RoundsIntact, SamplesPlanned
<1>3. FindingsIntact(d) /\ FindingsFound(d)
  BY DEF Intact, FindingsIntact, FindingsFound
<1>4. BatchesIntact(d) /\ NumbersPast(d)
  BY DEF Intact, BatchesIntact, NumbersPast
<1>5. QED
  BY <1>1, <1>2, <1>3, <1>4 DEF Intact

LEMMA RegisterIntact ==
  ASSUME NEW c, Sound(c), Intact(c), NEW items, CanRegisterInstruments(c, items)
  PROVE  Intact(RegisterInstruments(c, items))
<1> DEFINE d == RegisterInstruments(c, items)
<1>1. DOMAIN c = CampaignFields /\ c.version \in Nat
  BY DEF Sound, WellTyped
<1>2. /\ d.instruments = c.instruments \cup {items[k] : k \in DOMAIN items}
      /\ d.points = c.points /\ d.rounds = c.rounds /\ d.findings = c.findings
      /\ d.batches = c.batches /\ d.currentBatch = c.currentBatch /\ d.version = c.version + 1
  BY <1>1, RegisterFrame DEF CampaignFields
<1> HIDE DEF d
<1>3. InstrumentsIntact(d)
  <2>1. \A i \in d.instruments : ValidCalibration(i)
    BY <1>2 DEF CanRegisterInstruments, Intact, InstrumentsIntact
  <2>2. \A i, j : Distinguishable(i, j) => Distinguishable(j, i)
    BY DEF Distinguishable
  <2>3. ASSUME NEW i \in d.instruments, NEW j \in d.instruments, i # j
        PROVE  Distinguishable(i, j)
    BY <1>2, <2>2, <2>3 DEF CanRegisterInstruments, Intact, InstrumentsIntact
  <2>4. QED
    BY <2>1, <2>3 DEF InstrumentsIntact
<1>4. QED
  BY <1>1, <1>2, <1>3, UntouchedIntact DEF d

LEMMA FreezeIntact ==
  ASSUME NEW c, Sound(c), Intact(c), NEW hash
  PROVE  Intact(Freeze(c, hash))
<1> DEFINE d == Freeze(c, hash)
<1>1. DOMAIN c = CampaignFields /\ c.version \in Nat
  BY DEF Sound, WellTyped
<1>2. /\ d.instruments = c.instruments
      /\ d.points = c.points /\ d.rounds = c.rounds /\ d.findings = c.findings
      /\ d.batches = c.batches /\ d.currentBatch = c.currentBatch /\ d.version = c.version + 1
  BY <1>1, FreezeFrame DEF CampaignFields
<1> HIDE DEF d
<1>3. InstrumentsIntact(d)
  BY <1>2 DEF Intact, InstrumentsIntact
<1>4. QED
  BY <1>1, <1>2, <1>3, UntouchedIntact DEF d

LEMMA CertifyIntact ==
  ASSUME NEW c, Sound(c), Intact(c), NEW credential
  PROVE  Intact(Certify(c, credential))
<1> DEFINE d == Certify(c, credential)
<1>1. DOMAIN c = CampaignFields /\ c.version \in Nat
  BY DEF Sound, WellTyped
<1>2. /\ d.instruments = c.instruments
      /\ d.points = c.points /\ d.rounds = c.rounds /\ d.findings = c.findings
      /\ d.batches = c.batches /\ d.currentBatch = c.currentBatch /\ d.version = c.version + 1
  BY <1>1, CertifyFrame DEF CampaignFields
<1> HIDE DEF d
<1>3. InstrumentsIntact(d)
  BY <1>2 DEF Intact, InstrumentsIntact
<1>4. QED
  BY <1>1, <1>2, <1>3, UntouchedIntact DEF d

\* What a disposition has to satisfy to be stored, given the ids of the rounds.
DispositionIntact(d, ids) ==
    /\ d.decision = "Pending" <=> d.decidedBy = {}
    /\ d.decision = "Remediated" =>
         d.remediationRound # {} /\ d.remediationRound \subseteq ids

LEMMA DispositionKept ==
  ASSUME NEW d \in Disposition, NEW ids, DispositionIntact(d, ids)
  PROVE  /\ \A more : ids \subseteq more => DispositionIntact(d, more)
         /\ \A id \in ids : d.decision = "NeedsRemediation" =>
              DispositionIntact(Remedied(d, id), ids)
         /\ \A actor : \A decision \in {"Accepted", "NeedsRemediation"} :
              DispositionIntact(Decided(d, decision, actor), ids)
<1>1. \A more : ids \subseteq more => DispositionIntact(d, more)
  BY DEF DispositionIntact
<1>2. ASSUME NEW id \in ids, d.decision = "NeedsRemediation"
      PROVE  DispositionIntact(Remedied(d, id), ids)
  <2>1. /\ Remedied(d, id).decision = "Remediated" /\ Remedied(d, id).remediationRound = {id}
        /\ Remedied(d, id).decidedBy = d.decidedBy
    BY DEF Remedied, Disposition
  <2>2. d.decidedBy # {}
    BY <1>2 DEF DispositionIntact
  <2>3. QED
    BY <2>1, <2>2 DEF DispositionIntact
<1>3. ASSUME NEW decision \in {"Accepted", "NeedsRemediation"}, NEW actor
      PROVE  DispositionIntact(Decided(d, decision, actor), ids)
  <2>1. /\ Decided(d, decision, actor).decision = decision
        /\ Decided(d, decision, actor).decidedBy = {actor}
    BY DEF Decided, Disposition
  <2>2. QED
    BY <2>1 DEF DispositionIntact
<1>4. QED
  BY <1>1, <1>2, <1>3

\* FindingsIntact, finding by finding: what it refers to, that it is told apart from the
\* others, and what was decided.
LEMMA FindingsIntactParts ==
  ASSUME NEW c
  PROVE  FindingsIntact(c) <=>
           /\ \A f \in DOMAIN c.findings :
                /\ \E b \in c.batches : b.id = f.batch
                /\ \E p \in c.points : p.id = f.point
                /\ f.round \subseteq RoundIdsOf(c.rounds)
                /\ DispositionIntact(c.findings[f], RoundIdsOf(c.rounds))
           /\ \A f, g \in DOMAIN c.findings :
                f # g => <<f.batch, FindingKey(f)>> # <<g.batch, FindingKey(g)>>
BY DEF FindingsIntact, DispositionIntact

LEMMA DecideIntact ==
  ASSUME NEW c, Sound(c), Intact(c), NEW f, NEW decision, NEW noted, NEW actor \in Actors,
         CanDecideFinding(c, f, decision, noted)
  PROVE  Intact(DecideFinding(c, f, decision, actor))
<1> DEFINE d == DecideFinding(c, f, decision, actor)
<1>1. DOMAIN c = CampaignFields /\ c.version \in Nat
  BY DEF Sound, WellTyped
<1>2. /\ d.findings = [g \in DOMAIN c.findings |->
           IF g = f THEN Decided(c.findings[g], decision, actor) ELSE c.findings[g]]
      /\ d.points = c.points /\ d.instruments = c.instruments /\ d.rounds = c.rounds
      /\ d.batches = c.batches /\ d.currentBatch = c.currentBatch /\ d.version = c.version + 1
  BY <1>1, DecideFrame DEF CampaignFields
<1> HIDE DEF d
<1>3. PointsIntact(d) /\ InstrumentsIntact(d)
  BY <1>2 DEF Intact, PointsIntact, InstrumentsIntact
<1>4. RoundsIntact(d) /\ SamplesPlanned(d)
  BY <1>2 DEF Intact, RoundsIntact, SamplesPlanned
<1>5. BatchesIntact(d) /\ NumbersPast(d)
  BY <1>1, <1>2 DEF Intact, BatchesIntact, NumbersPast
<1>6. FindingsFound(d)
  BY <1>2 DEF Intact, FindingsFound
<1>7. FindingsIntact(d)
  <2>1. \A g \in DOMAIN c.findings :
          /\ c.findings[g] \in Disposition
          /\ DispositionIntact(c.findings[g], RoundIdsOf(c.rounds))
    BY FindingsIntactParts DEF Intact, Sound, WellTyped
  <2>2. decision \in {"Accepted", "NeedsRemediation"}
    BY DEF CanDecideFinding
  <2>3. \A g \in DOMAIN c.findings : DispositionIntact(d.findings[g], RoundIdsOf(c.rounds))
    BY <1>2, <2>1, <2>2, DispositionKept
  <2>4. DOMAIN d.findings = DOMAIN c.findings
    BY <1>2
  <2>5. QED
    BY <1>2, <2>3, <2>4, FindingsIntactParts DEF Intact
<1>8. QED
  BY <1>2, <1>3, <1>4, <1>5, <1>6, <1>7 DEF Intact, d

LEMMA SubmitIntact ==
  ASSUME NEW c, Sound(c), Intact(c)
  PROVE  Intact(SubmitForReview(c))
<1> DEFINE d == SubmitForReview(c)
           raised == Raised(c.points, c.rounds, c.version)
           batch == InspectionBatch(c.points, c.rounds, c.version)
<1>1. /\ DOMAIN c = CampaignFields /\ c.version \in Nat /\ c.version >= 1
      /\ c.rounds \in Seq(Round) /\ c.points \subseteq Point
  BY DEF Sound, WellTyped
<1>2. /\ d.findings = [f \in (DOMAIN c.findings) \cup raised |->
                         IF f \in DOMAIN c.findings THEN c.findings[f] ELSE Undecided]
      /\ d.batches = c.batches \cup {batch}
      /\ d.currentBatch = {c.version} /\ d.version = c.version + 1
      /\ d.points = c.points /\ d.instruments = c.instruments /\ d.rounds = c.rounds
  <2>1. /\ d.findings = [f \in (DOMAIN c.findings) \cup raised |->
                           IF f \in DOMAIN c.findings THEN c.findings[f] ELSE Undecided]
        /\ d.batches = c.batches \cup {batch}
        /\ d.currentBatch = {c.version} /\ d.version = c.version + 1
        /\ \A g \in CampaignFields \ {"status", "version", "readiness", "progress",
                                          "currentBatch", "findings", "batches"} : d[g] = c[g]
    BY <1>1, SubmitFrame
  <2> HIDE DEF d, raised, batch
  <2>2. QED
    BY <2>1 DEF CampaignFields
<1>3. batch.id = c.version /\ batch.rounds = EffectiveRounds(c.points, c.rounds)
  BY DEF InspectionBatch
<1>4. \A f \in raised : f.batch = c.version /\ FoundIn(c.rounds, f) /\ \E p \in c.points : p.id = f.point
  BY <1>1, RaisedTyped, RaisedFound
<1>5. \A f, g \in raised : FindingKey(f) = FindingKey(g) => f = g
  <2>1. SamplesNamed(c.rounds)
    BY <1>1, IntactNames DEF Intact
  <2>2. \A p, q \in c.points : p.id = q.id => p = q
    BY DEF Intact, PointsIntact, Compatible
  <2>3. QED
    BY <1>1, <2>1, <2>2, RaisedApart
<1> HIDE DEF d, raised, batch
<1>6. PointsIntact(d) /\ InstrumentsIntact(d) /\ RoundsIntact(d) /\ SamplesPlanned(d)
  BY <1>2 DEF Intact, PointsIntact, InstrumentsIntact, RoundsIntact, SamplesPlanned
<1>7. BatchesIntact(d) /\ NumbersPast(d)
  <2>1. batch.rounds \subseteq RoundIdsOf(c.rounds)
    <3>1. \A p \in c.points : \A e \in Effective(c.rounds, p.id) : e.round \in DOMAIN c.rounds
      BY <1>1, EffectiveShape
    <3>2. QED
      BY <1>3, <3>1 DEF EffectiveRounds, RoundIdsOf
  <2>2. \A b \in c.batches : b.id # batch.id
    BY <1>1, <1>3 DEF Intact, NumbersPast
  <2>3. QED
    BY <1>1, <1>2, <1>3, <2>1, <2>2 DEF Intact, BatchesIntact, NumbersPast
<1>8. FindingsFound(d)
  BY <1>2, <1>4 DEF Intact, FindingsFound
<1>9. FindingsIntact(d)
  <2>1. /\ \A f \in DOMAIN c.findings :
             /\ \E b \in c.batches : b.id = f.batch
             /\ \E p \in c.points : p.id = f.point
             /\ f.round \subseteq RoundIdsOf(c.rounds)
             /\ DispositionIntact(c.findings[f], RoundIdsOf(c.rounds))
        /\ \A f, g \in DOMAIN c.findings :
             f # g => <<f.batch, FindingKey(f)>> # <<g.batch, FindingKey(g)>>
    BY FindingsIntactParts DEF Intact
  <2>2. \A f \in DOMAIN c.findings : f.batch \in Nat /\ f.batch < c.version
    BY <2>1 DEF Intact, NumbersPast
  <2>3. DispositionIntact(Undecided, RoundIdsOf(c.rounds))
    BY DEF DispositionIntact, Undecided
  <2>4. ASSUME NEW f \in DOMAIN d.findings
        PROVE  /\ \E b \in d.batches : b.id = f.batch
               /\ \E p \in d.points : p.id = f.point
               /\ f.round \subseteq RoundIdsOf(d.rounds)
               /\ DispositionIntact(d.findings[f], RoundIdsOf(d.rounds))
    <3>1. CASE f \in DOMAIN c.findings
      BY <1>2, <2>1, <3>1
    <3>2. CASE f \notin DOMAIN c.findings
      <4>1. f \in raised /\ d.findings[f] = Undecided
        BY <1>2, <3>2
      <4>2. f.round \subseteq RoundIdsOf(c.rounds)
        BY <1>4, <4>1 DEF FoundIn, RoundIdsOf
      <4>3. QED
        BY <1>2, <1>3, <1>4, <2>3, <4>1, <4>2
    <3>3. QED
      BY <3>1, <3>2
  <2>5. ASSUME NEW f \in DOMAIN d.findings, NEW g \in DOMAIN d.findings,
               f.batch = g.batch, FindingKey(f) = FindingKey(g)
        PROVE  f = g
    <3>1. CASE f \in DOMAIN c.findings /\ g \in DOMAIN c.findings
      BY <2>1, <2>5, <3>1
    <3>2. CASE f \in raised /\ g \in raised
      BY <1>5, <2>5, <3>2
    <3>3. QED
      BY <1>2, <1>4, <2>2, <2>5, <3>1, <3>2, <1>1
  <2>6. QED
    BY <2>4, <2>5, FindingsIntactParts
<1>10. QED
  BY <1>2, <1>6, <1>7, <1>8, <1>9 DEF Intact, d

\* RoundsIntact, round by round.
RoundIntact(points, rounds, i) ==
    LET round == rounds[i]
    IN /\ round.kind = "Remediation" =>
            /\ round.supersedes # {}
            /\ \A id \in round.supersedes : \E j \in DOMAIN rounds : j < i /\ rounds[j].id = id
       /\ \A j \in DOMAIN rounds : j < i => rounds[j].id # round.id
       /\ \A s \in round.samples :
            /\ \E p \in points : p.id = s.point
            /\ s.replicate >= 1
            /\ \A t \in round.samples : s # t => s.id # t.id
            /\ \A j \in DOMAIN rounds : j < i => \A t \in rounds[j].samples : s.id # t.id

LEMMA RoundsIntactParts ==
  ASSUME NEW c
  PROVE  RoundsIntact(c) <=> \A i \in DOMAIN c.rounds : RoundIntact(c.points, c.rounds, i)
BY DEF RoundsIntact, RoundIntact

LEMMA AppendedRound ==
  ASSUME NEW c, Sound(c), Intact(c), NEW round \in Round, NEW actor,
         CanAddRound(c, round, actor), NEW i \in 1 .. Len(c.rounds) + 1
  PROVE  /\ RoundIntact(c.points, Append(c.rounds, round), i)
         /\ \A s \in Append(c.rounds, round)[i].samples : InPlan(c.points, s)
<1> DEFINE more == Append(c.rounds, round)
           n == Len(c.rounds)
<1>1. /\ n \in Nat /\ DOMAIN more = 1 .. n + 1 /\ DOMAIN c.rounds = 1 .. n
      /\ more[n + 1] = round /\ \A j \in 1 .. n : more[j] = c.rounds[j]
  BY DEF Sound, WellTyped
<1>2. \A j \in 1 .. n : RoundIntact(c.points, c.rounds, j)
  BY <1>1, RoundsIntactParts DEF Intact
<1> HIDE DEF more
<1>3. CASE i # n + 1
  <2>1. i \in 1 .. n /\ more[i] = c.rounds[i]
    BY <1>1, <1>3
  <2>2. \A j \in DOMAIN more : j < i <=> j \in 1 .. n /\ j < i
    BY <1>1, <2>1
  <2>3. RoundIntact(c.points, more, i)
    BY <1>1, <1>2, <2>1, <2>2 DEF RoundIntact
  <2>4. \A s \in more[i].samples : InPlan(c.points, s)
    BY <1>1, <2>1 DEF Intact, SamplesPlanned
  <2>5. QED
    BY <2>3, <2>4 DEF more
<1>4. CASE i = n + 1
  <2>1. \A j \in DOMAIN more : j < i <=> j \in 1 .. n
    BY <1>1, <1>4
  <2>2. more[i] = round
    BY <1>1, <1>4
  <2>3. round.kind = "Remediation" =>
          round.supersedes # {} /\ round.supersedes \subseteq RoundIdsOf(c.rounds)
    BY DEF CanAddRound
  <2>4. round.id \notin RoundIdsOf(c.rounds)
    BY DEF CanAddRound
  <2>5. \A s \in round.samples :
          /\ InPlan(c.points, s)
          /\ \A t \in round.samples : s # t => s.id # t.id
          /\ \A t \in SamplesOf(c.rounds) : s.id # t.id
    BY DEF CanAddRound, SamplesAdmissible
  <2>6. \A s \in round.samples : (\E p \in c.points : p.id = s.point) /\ s.replicate >= 1
    BY <2>5 DEF InPlan
  <2>7. \A s \in round.samples : \A j \in 1 .. n : \A t \in c.rounds[j].samples : s.id # t.id
    BY <1>1, <2>5 DEF SamplesOf
  <2>8. RoundIntact(c.points, more, i)
    <3>1. \A id \in RoundIdsOf(c.rounds) : \E j \in DOMAIN more : j < i /\ more[j].id = id
      BY <1>1, <2>1 DEF RoundIdsOf
    <3>2. \A j \in DOMAIN more : j < i => more[j].id # round.id
      BY <1>1, <2>1, <2>4 DEF RoundIdsOf
    <3>3. \A s \in round.samples : \A j \in DOMAIN more : j < i =>
            \A t \in more[j].samples : s.id # t.id
      BY <1>1, <2>1, <2>7
    <3>4. QED
      BY <2>2, <2>3, <2>5, <2>6, <3>1, <3>2, <3>3 DEF RoundIntact
  <2>9. QED
    BY <2>2, <2>5, <2>8 DEF more
<1>5. QED
  BY <1>3, <1>4

LEMMA AppendGrows ==
  ASSUME NEW rounds \in Seq(Round), NEW round \in Round
  PROVE  /\ RoundIdsOf(Append(rounds, round)) = RoundIdsOf(rounds) \cup {round.id}
         /\ SamplesOf(Append(rounds, round)) = SamplesOf(rounds) \cup round.samples
         /\ \A f : FoundIn(rounds, f) => FoundIn(Append(rounds, round), f)
<1> DEFINE more == Append(rounds, round)
           n == Len(rounds)
<1>1. /\ n \in Nat /\ DOMAIN more = (1 .. n) \cup {n + 1} /\ DOMAIN rounds = 1 .. n
      /\ more[n + 1] = round /\ \A j \in 1 .. n : more[j] = rounds[j]
  OBVIOUS
<1> HIDE DEF more, n
<1>2. RoundIdsOf(more) = RoundIdsOf(rounds) \cup {round.id}
  BY <1>1 DEF RoundIdsOf
<1>3. SamplesOf(more) = SamplesOf(rounds) \cup round.samples
  BY <1>1 DEF SamplesOf
<1>4. ASSUME NEW f, FoundIn(rounds, f) PROVE FoundIn(more, f)
  BY <1>1, <1>3, <1>4 DEF FoundIn
<1>5. QED
  BY <1>2, <1>3, <1>4 DEF more

LEMMA AddRoundIntact ==
  ASSUME NEW c, Sound(c), Intact(c), NEW round \in Round, NEW actor,
         CanAddRound(c, round, actor)
  PROVE  Intact(AddRound(c, round))
<1> DEFINE d == AddRound(c, round)
<1>1. DOMAIN c = CampaignFields /\ c.version \in Nat /\ c.rounds \in Seq(Round)
  BY DEF Sound, WellTyped
<1>2. /\ d.findings = [f \in DOMAIN c.findings |->
           IF f \in ClosedBy(c, round) THEN Remedied(c.findings[f], round.id) ELSE c.findings[f]]
      /\ d.rounds = Append(c.rounds, round)
      /\ d.points = c.points /\ d.instruments = c.instruments
      /\ d.batches = c.batches /\ d.currentBatch = c.currentBatch /\ d.version = c.version + 1
  <2>1. /\ d.findings = Closed(c, round).findings /\ d.rounds = Append(c.rounds, round)
        /\ d.points = c.points /\ d.instruments = c.instruments
        /\ d.batches = c.batches /\ d.currentBatch = c.currentBatch /\ d.version = c.version + 1
    BY <1>1, AddRoundFrame DEF CampaignFields
  <2>2. QED
    BY <1>1, <2>1, ClosedFrame
<1> HIDE DEF d
<1>3. PointsIntact(d) /\ InstrumentsIntact(d)
  BY <1>2 DEF Intact, PointsIntact, InstrumentsIntact
<1>4. RoundsIntact(d) /\ SamplesPlanned(d)
  <2>1. DOMAIN d.rounds = 1 .. Len(c.rounds) + 1
    BY <1>1, <1>2
  <2>2. ASSUME NEW i \in DOMAIN d.rounds
        PROVE  /\ RoundIntact(d.points, d.rounds, i)
               /\ \A s \in d.rounds[i].samples : InPlan(d.points, s)
    BY <1>2, <2>1, AppendedRound
  <2>3. QED
    BY <2>2, RoundsIntactParts DEF SamplesPlanned
<1>5. RoundIdsOf(c.rounds) \subseteq RoundIdsOf(d.rounds) /\ round.id \in RoundIdsOf(d.rounds)
  BY <1>1, <1>2, AppendGrows
<1>6. BatchesIntact(d) /\ NumbersPast(d)
  BY <1>1, <1>2, <1>5 DEF Intact, BatchesIntact, NumbersPast
<1>7. FindingsFound(d)
  BY <1>1, <1>2, AppendGrows DEF Intact, FindingsFound
<1>8. FindingsIntact(d)
  <2>1. \A f \in DOMAIN c.findings :
          /\ c.findings[f] \in Disposition
          /\ DispositionIntact(c.findings[f], RoundIdsOf(d.rounds))
    BY <1>5, FindingsIntactParts, DispositionKept DEF Intact, Sound, WellTyped
  <2>2. \A f \in ClosedBy(c, round) : c.findings[f].decision = "NeedsRemediation"
    BY DEF ClosedBy, Open, DecisionOf
  <2>3. \A f \in DOMAIN c.findings : DispositionIntact(d.findings[f], RoundIdsOf(d.rounds))
    BY <1>2, <1>5, <2>1, <2>2, DispositionKept
  <2>4. DOMAIN d.findings = DOMAIN c.findings
    BY <1>2
  <2>5. QED
    BY <1>2, <1>5, <2>3, <2>4, FindingsIntactParts DEF Intact
<1>9. QED
  BY <1>2, <1>3, <1>4, <1>6, <1>7, <1>8 DEF Intact, d

-------------------------------------------------------------------------------
(* The stored summaries: derived views, counts, the release fields. *)

ViewsFresh(c) ==
    /\ c.readiness = Readiness(c.points, c.instruments, c.plannedDate)
    /\ c.progress = SamplingProgress(c.points, c.rounds)

LeftDraft(c) ==
    (c.status = "Draft") <=> ~Readiness(c.points, c.instruments, c.plannedDate).ready

FindingsOf(c, b) == {f \in DOMAIN c.findings : f.batch = b}

CountsFit(c) == \A b \in c.batches : b.findingCount = Cardinality(FindingsOf(c, b.id))

ReleaseFits(c) ==
    IF IsFrozen(c.status)
      THEN c.manifestHash # {} /\ c.frozenVersion \in 1 .. c.version
      ELSE c.manifestHash = {} /\ c.frozenVersion = 0

Summed(c) == ViewsFresh(c) /\ LeftDraft(c) /\ CountsFit(c) /\ ReleaseFits(c)

LEMMA Refreshed ==
  ASSUME NEW c, DOMAIN c = CampaignFields
  PROVE  ViewsFresh(RefreshDerivedViews(c))
BY DEF RefreshDerivedViews, ViewsFresh, CampaignFields

LEMMA NewCampaignSummed ==
  ASSUME NEW id, NEW date, NEW plan, CanCreate(plan)
  PROVE  Summed(NewCampaign(id, date, plan))
<1> DEFINE c == NewCampaign(id, date, plan)
           points == {plan[i] : i \in DOMAIN plan}
<1>1. /\ c.points = points /\ c.instruments = {} /\ c.plannedDate = date /\ c.rounds = << >>
      /\ c.batches = {} /\ c.readiness = Readiness(points, {}, date)
      /\ c.progress = SamplingProgress(points, << >>) /\ c.status = "Draft"
      /\ c.manifestHash = {} /\ c.frozenVersion = 0
  BY DEF NewCampaign
<1>2. ~Readiness(points, {}, date).ready
  <2>1. Readiness(points, {}, date).ready = ({p.metric : p \in points} # {} /\ {p.metric : p \in points} = {})
    BY DEF Readiness
  <2>2. QED
    BY <2>1
<1> HIDE DEF c, points
<1>3. ViewsFresh(c) /\ LeftDraft(c) /\ CountsFit(c) /\ ReleaseFits(c)
  BY <1>1, <1>2 DEF ViewsFresh, LeftDraft, CountsFit, ReleaseFits, IsFrozen
<1>4. QED
  BY <1>3 DEF Summed, c

LEMMA RegisterSummed ==
  ASSUME NEW c, Sound(c), Summed(c), NEW items, CanRegisterInstruments(c, items)
  PROVE  Summed(RegisterInstruments(c, items))
<1> DEFINE d == RegisterInstruments(c, items)
           all == c.instruments \cup {items[k] : k \in DOMAIN items}
           ready == Readiness(c.points, all, c.plannedDate).ready
           status == IF ready THEN "Ready" ELSE c.status
           next == Touch([c EXCEPT !.instruments = all, !.status = status])
<1>1. DOMAIN c = CampaignFields /\ c.status = "Draft"
  BY DEF Sound, WellTyped, CanRegisterInstruments
<1>2. /\ d.points = c.points /\ d.plannedDate = c.plannedDate /\ d.instruments = all
      /\ d.batches = c.batches /\ d.findings = c.findings
      /\ d.manifestHash = c.manifestHash /\ d.frozenVersion = c.frozenVersion
  BY <1>1, RegisterFrame DEF CampaignFields
<1>3. d = RefreshDerivedViews(next) /\ DOMAIN next = CampaignFields
  BY <1>1 DEF RegisterInstruments, Touch, CampaignFields
<1>4. d.status = status
  BY <1>1, <1>3 DEF RefreshDerivedViews, Touch, CampaignFields
<1> HIDE DEF d, all, next
<1>5. ViewsFresh(d)
  BY <1>3, Refreshed
<1>6. LeftDraft(d)
  BY <1>1, <1>2, <1>4 DEF LeftDraft
<1>7. CountsFit(d) /\ ReleaseFits(d)
  BY <1>1, <1>2, <1>4 DEF Summed, CountsFit, FindingsOf, ReleaseFits, IsFrozen
<1>8. QED
  BY <1>5, <1>6, <1>7 DEF Summed, d

LEMMA AddRoundSummed ==
  ASSUME NEW c, Sound(c), Summed(c), NEW round, NEW actor, CanAddRound(c, round, actor)
  PROVE  Summed(AddRound(c, round))
<1> DEFINE d == AddRound(c, round)
           closed == Closed(c, round)
           status == IF Open(closed) # {} THEN "Remediation" ELSE "Executing"
           next == Touch([closed EXCEPT !.status = status])
<1>1. DOMAIN c = CampaignFields /\ c.status \in {"Ready", "Executing", "Remediation"}
  BY DEF Sound, WellTyped, CanAddRound
<1>2. /\ d.points = c.points /\ d.plannedDate = c.plannedDate /\ d.instruments = c.instruments
      /\ d.batches = c.batches /\ d.findings = closed.findings
      /\ d.manifestHash = c.manifestHash /\ d.frozenVersion = c.frozenVersion
      /\ d.status \in {"Remediation", "Executing"}
  BY <1>1, AddRoundFrame DEF CampaignFields
<1>3. DOMAIN closed.findings = DOMAIN c.findings /\ DOMAIN closed = CampaignFields
  <2>1. /\ DOMAIN closed = CampaignFields
        /\ closed.findings = [f \in DOMAIN c.findings |->
             IF f \in ClosedBy(c, round) THEN Remedied(c.findings[f], round.id) ELSE c.findings[f]]
    BY <1>1, ClosedFrame
  <2> HIDE DEF closed
  <2>2. QED
    BY <2>1
<1>4. d = RefreshDerivedViews(next)
  BY DEF AddRound, Closed, Extended
<1> HIDE DEF d, closed, status
<1>5. DOMAIN next = CampaignFields
  BY <1>3 DEF Touch, CampaignFields
<1> HIDE DEF next
<1>6. ViewsFresh(d)
  BY <1>4, <1>5, Refreshed
<1>7. LeftDraft(d)
  BY <1>1, <1>2 DEF Summed, LeftDraft
<1>8. CountsFit(d) /\ ReleaseFits(d)
  BY <1>1, <1>2, <1>3 DEF Summed, CountsFit, FindingsOf, ReleaseFits, IsFrozen
<1>9. QED
  BY <1>6, <1>7, <1>8 DEF Summed, d

\* The new batch counts what it raised, and the findings of the old ones stay theirs.
LEMMA SubmitSummed ==
  ASSUME NEW c, Sound(c), Intact(c), Summed(c), CanSubmitForReview(c)
  PROVE  Summed(SubmitForReview(c))
<1> DEFINE d == SubmitForReview(c)
           raised == Raised(c.points, c.rounds, c.version)
           batch == InspectionBatch(c.points, c.rounds, c.version)
           next == Touch([c EXCEPT !.batches = @ \cup {batch},
                                   !.currentBatch = {c.version},
                                   !.findings = [f \in DOMAIN @ \cup raised |->
                                     IF f \in DOMAIN c.findings THEN c.findings[f] ELSE Undecided],
                                   !.status = "ReviewPending"])
<1>1. /\ DOMAIN c = CampaignFields /\ c.status = "Executing" /\ c.version \in Nat
      /\ c.points \in SUBSET Point /\ c.rounds \in Seq(Round)
  BY DEF Sound, WellTyped, CanSubmitForReview
<1>2. /\ d.points = c.points /\ d.plannedDate = c.plannedDate /\ d.instruments = c.instruments
      /\ d.batches = c.batches \cup {batch}
      /\ d.findings = [f \in (DOMAIN c.findings) \cup raised |->
                         IF f \in DOMAIN c.findings THEN c.findings[f] ELSE Undecided]
      /\ d.manifestHash = c.manifestHash /\ d.frozenVersion = c.frozenVersion
      /\ d.status = "ReviewPending"
  <2>1. LET x == SubmitForReview(c)
        IN /\ x.batches = c.batches \cup {batch}
           /\ x.findings = [f \in (DOMAIN c.findings) \cup raised |->
                              IF f \in DOMAIN c.findings THEN c.findings[f] ELSE Undecided]
           /\ x.status = "ReviewPending"
           /\ \A g \in CampaignFields \ {"status", "version", "readiness", "progress",
                                         "currentBatch", "findings", "batches"} : x[g] = c[g]
    BY <1>1, SubmitFrame
  <2> HIDE DEF d, raised, batch
  <2>2. QED
    BY <2>1 DEF CampaignFields, d
<1>3. d = RefreshDerivedViews(next)
  BY DEF SubmitForReview
<1>4. batch.id = c.version /\ batch.findingCount = Cardinality(raised)
  BY DEF InspectionBatch
<1>5. \A f \in raised : f.batch = c.version
  BY <1>1, RaisedTyped
<1> HIDE DEF d, raised, batch
<1>6. DOMAIN next = CampaignFields
  BY <1>1 DEF Touch, CampaignFields
<1> HIDE DEF next
<1>7. ViewsFresh(d)
  BY <1>3, <1>6, Refreshed
<1>8. LeftDraft(d)
  BY <1>1, <1>2 DEF Summed, LeftDraft
<1>9. ReleaseFits(d)
  BY <1>1, <1>2 DEF Summed, ReleaseFits, IsFrozen
<1>10. DOMAIN d.findings = (DOMAIN c.findings) \cup raised
  BY <1>2
<1>11. \A f \in DOMAIN c.findings : f.batch \in Nat /\ f.batch < c.version
  BY FindingsIntactParts DEF Intact, NumbersPast
<1>12. ASSUME NEW b \in d.batches PROVE b.findingCount = Cardinality(FindingsOf(d, b.id))
  <2>1. CASE b = batch
    <3>1. FindingsOf(d, b.id) = raised
      BY <1>1, <1>4, <1>5, <1>10, <1>11, <2>1 DEF FindingsOf
    <3>2. QED
      BY <1>4, <2>1, <3>1
  <2>2. CASE b \in c.batches
    <3>1. b.id < c.version /\ b.id \in Nat
      BY <2>2 DEF Intact, NumbersPast
    <3>2. FindingsOf(d, b.id) = FindingsOf(c, b.id)
      BY <1>1, <1>5, <1>10, <3>1 DEF FindingsOf
    <3>3. QED
      BY <2>2, <3>2 DEF Summed, CountsFit
  <2>3. QED
    BY <1>2, <2>1, <2>2
<1>13. QED
  BY <1>7, <1>8, <1>9, <1>12 DEF Summed, CountsFit, d

LEMMA DecideSummed ==
  ASSUME NEW c, Sound(c), Summed(c), NEW f, NEW decision, NEW noted, NEW actor \in Actors,
         CanDecideFinding(c, f, decision, noted)
  PROVE  Summed(DecideFinding(c, f, decision, actor))
<1> DEFINE d == DecideFinding(c, f, decision, actor)
           judged == Judged(c, f, decision, actor)
<1>1. DOMAIN c = CampaignFields /\ c.status = "ReviewPending"
  BY DEF Sound, WellTyped, CanDecideFinding
<1>2. /\ d.status = IF /\ CurrentFindings(judged) \cap Pending(judged) = {}
                       /\ CurrentFindings(judged) \cap Open(judged) # {}
                    THEN "Remediation" ELSE c.status
      /\ d.findings = judged.findings
      /\ judged.findings = [g \in DOMAIN c.findings |->
           IF g = f THEN Decided(c.findings[g], decision, actor) ELSE c.findings[g]]
      /\ \A g \in CampaignFields \ {"status", "version", "findings"} : d[g] = c[g]
  BY <1>1, DecideFrame
<1> HIDE DEF d, judged
<1>2a. /\ d.status \in {"Remediation", "ReviewPending"}
       /\ DOMAIN d.findings = DOMAIN c.findings
  BY <1>1, <1>2
<1>3. /\ d.points = c.points /\ d.plannedDate = c.plannedDate /\ d.instruments = c.instruments
      /\ d.rounds = c.rounds /\ d.readiness = c.readiness /\ d.progress = c.progress
      /\ d.batches = c.batches
      /\ d.manifestHash = c.manifestHash /\ d.frozenVersion = c.frozenVersion
  BY <1>2 DEF CampaignFields
<1>4. ViewsFresh(d) /\ LeftDraft(d)
  BY <1>1, <1>2a, <1>3 DEF Summed, ViewsFresh, LeftDraft
<1>5. CountsFit(d) /\ ReleaseFits(d)
  BY <1>1, <1>2a, <1>3 DEF Summed, CountsFit, FindingsOf, ReleaseFits, IsFrozen
<1>6. QED
  BY <1>4, <1>5 DEF Summed, d

LEMMA FreezeSummed ==
  ASSUME NEW c, Sound(c), Summed(c), NEW hash, CanFreeze(c)
  PROVE  Summed(Freeze(c, hash))
<1> DEFINE d == Freeze(c, hash)
<1>1. DOMAIN c = CampaignFields /\ c.status = "ReviewPending" /\ c.version \in Nat
  BY FreezeGuard DEF Sound, WellTyped
<1>2. /\ d.status = "Frozen" /\ d.findings = c.findings
      /\ d.points = c.points /\ d.plannedDate = c.plannedDate /\ d.instruments = c.instruments
      /\ d.rounds = c.rounds /\ d.readiness = c.readiness /\ d.progress = c.progress
      /\ d.batches = c.batches
      /\ d.manifestHash = {hash} /\ d.frozenVersion = c.version + 1 /\ d.version = c.version + 1
  BY <1>1, FreezeFrame DEF CampaignFields
<1> HIDE DEF d
<1>3. ViewsFresh(d) /\ LeftDraft(d)
  BY <1>1, <1>2 DEF Summed, ViewsFresh, LeftDraft
<1>4. CountsFit(d) /\ ReleaseFits(d)
  BY <1>1, <1>2 DEF Summed, CountsFit, FindingsOf, ReleaseFits, IsFrozen
<1>5. QED
  BY <1>3, <1>4 DEF Summed, d

LEMMA CertifySummed ==
  ASSUME NEW c, Sound(c), Summed(c), NEW credential, c.status = "Frozen"
  PROVE  Summed(Certify(c, credential))
<1> DEFINE d == Certify(c, credential)
<1>1. DOMAIN c = CampaignFields /\ c.version \in Nat
  BY DEF Sound, WellTyped
<1>2. /\ d.status = "Certified" /\ d.findings = c.findings
      /\ d.points = c.points /\ d.plannedDate = c.plannedDate /\ d.instruments = c.instruments
      /\ d.rounds = c.rounds /\ d.readiness = c.readiness /\ d.progress = c.progress
      /\ d.batches = c.batches /\ d.version = c.version + 1
      /\ d.manifestHash = c.manifestHash /\ d.frozenVersion = c.frozenVersion
  BY <1>1, CertifyFrame DEF CampaignFields
<1> HIDE DEF d
<1>3. ViewsFresh(d) /\ LeftDraft(d)
  BY <1>2 DEF Summed, ViewsFresh, LeftDraft
<1>4. CountsFit(d) /\ ReleaseFits(d)
  BY <1>1, <1>2 DEF Summed, CountsFit, FindingsOf, ReleaseFits, IsFrozen
<1>5. QED
  BY <1>3, <1>4 DEF Summed, d

-------------------------------------------------------------------------------
(* What reviews and remediations have done to the evidence. *)

\* Round i remediated finding f.
RetestedBy(c, f, i) ==
    /\ {c.rounds[i].id} = c.findings[f].remediationRound
    /\ c.rounds[i].supersedes = f.round
    /\ \A p \in c.points : p.id = f.point =>
         /\ {s.replicate : s \in {t \in c.rounds[i].samples : t.point = p.id}} = 1 .. p.required
         /\ \A e \in Effective(c.rounds, p.id) : e.sample.id \notin f.samples /\ e.round >= i

Retested(c) ==
    \A f \in DOMAIN c.findings : DecisionOf(c, f) = "Remediated" =>
      \E i \in DOMAIN c.rounds : RetestedBy(c, f, i)

\* From a submission on, the current findings are exactly what the check of the evidence
\* raises, and no remediation has touched them.
Accounts(c) ==
    c.status \in {"ReviewPending", "Frozen", "Certified"} =>
      /\ \E b \in c.currentBatch : /\ c.currentBatch = {b}
                                    /\ CurrentFindings(c) = Raised(c.points, c.rounds, b)
      /\ \A f \in CurrentFindings(c) : DecisionOf(c, f) # "Remediated"

\* A review in which something was sent to remediation goes on only while something is
\* still to be decided.
WorkLeft(c) == c.status = "ReviewPending" /\ Open(c) # {} => Pending(c) # {}

Traced(c) == SlotsOnce(c) /\ Retested(c) /\ WorkLeft(c)

LEMMA NewCampaignTraced ==
  ASSUME NEW id, NEW date, NEW plan
  PROVE  Traced(NewCampaign(id, date, plan)) /\ Accounts(NewCampaign(id, date, plan))
<1> DEFINE c == NewCampaign(id, date, plan)
<1>1. c.rounds = << >> /\ c.findings = [f \in {} |-> Undecided] /\ c.status = "Draft"
  BY DEF NewCampaign
<1> HIDE DEF c
<1>2. DOMAIN c.findings = {} /\ DOMAIN c.rounds = {}
  BY <1>1
<1>3. \A point : Effective(c.rounds, point) = {}
  BY <1>2 DEF Effective
<1>4. SlotsOnce(c) /\ Retested(c) /\ Accounts(c) /\ WorkLeft(c)
  BY <1>1, <1>2, <1>3 DEF SlotsOnce, Retested, Accounts, WorkLeft
<1>5. QED
  BY <1>4 DEF Traced, c

\* An operation that leaves plan and rounds alone, and remediates nothing.
LEMMA EvidenceStays ==
  ASSUME NEW c, SlotsOnce(c), Retested(c),
         NEW d, d.points = c.points, d.rounds = c.rounds,
         \A f \in DOMAIN d.findings : DecisionOf(d, f) = "Remediated" =>
           f \in DOMAIN c.findings /\ d.findings[f] = c.findings[f]
  PROVE  SlotsOnce(d) /\ Retested(d)
<1>1. SlotsOnce(d)
  BY DEF SlotsOnce
<1>2. ASSUME NEW f \in DOMAIN d.findings, DecisionOf(d, f) = "Remediated"
      PROVE  \E i \in DOMAIN d.rounds : RetestedBy(d, f, i)
  <2>1. f \in DOMAIN c.findings /\ d.findings[f] = c.findings[f]
    BY <1>2
  <2>2. PICK i \in DOMAIN c.rounds : RetestedBy(c, f, i)
    BY <1>2, <2>1 DEF Retested, DecisionOf
  <2>3. RetestedBy(d, f, i)
    BY <2>1, <2>2 DEF RetestedBy
  <2>4. QED
    BY <2>3
<1>3. QED
  BY <1>1, <1>2 DEF Retested

LEMMA RegisterTraced ==
  ASSUME NEW c, Sound(c), Traced(c), NEW items, CanRegisterInstruments(c, items)
  PROVE  Traced(RegisterInstruments(c, items)) /\ Accounts(RegisterInstruments(c, items))
<1> DEFINE d == RegisterInstruments(c, items)
<1>1. DOMAIN c = CampaignFields /\ c.status = "Draft"
  BY DEF Sound, WellTyped, CanRegisterInstruments
<1>2. /\ d.points = c.points /\ d.rounds = c.rounds /\ d.findings = c.findings
      /\ d.status \in {"Ready", "Draft"}
  BY <1>1, RegisterFrame DEF CampaignFields
<1> HIDE DEF d
<1>3. SlotsOnce(d) /\ Retested(d)
  BY <1>2, EvidenceStays DEF Traced
<1>4. Accounts(d) /\ WorkLeft(d)
  BY <1>2 DEF Accounts, WorkLeft
<1>5. QED
  BY <1>3, <1>4 DEF Traced, d

LEMMA SubmitTraced ==
  ASSUME NEW c, Sound(c), Intact(c), Traced(c), CanSubmitForReview(c)
  PROVE  Traced(SubmitForReview(c)) /\ Accounts(SubmitForReview(c))
<1> DEFINE d == SubmitForReview(c)
           raised == Raised(c.points, c.rounds, c.version)
<1>1. /\ DOMAIN c = CampaignFields /\ c.version \in Nat
      /\ c.points \in SUBSET Point /\ c.rounds \in Seq(Round)
  BY DEF Sound, WellTyped
<1>2. LET x == SubmitForReview(c)
      IN /\ x.currentBatch = {c.version}
         /\ x.findings = [f \in (DOMAIN c.findings) \cup raised |->
                            IF f \in DOMAIN c.findings THEN c.findings[f] ELSE Undecided]
         /\ \A g \in CampaignFields \ {"status", "version", "readiness", "progress",
                                       "currentBatch", "findings", "batches"} : x[g] = c[g]
  BY <1>1, SubmitFrame
<1>3. \A f \in raised : f.batch = c.version
  BY <1>1, RaisedTyped
<1>4. \A f \in DOMAIN c.findings : f.batch \in Nat /\ f.batch < c.version
  BY FindingsIntactParts DEF Intact, NumbersPast
<1> HIDE DEF d, raised
<1>2a. /\ d.points = c.points /\ d.rounds = c.rounds
       /\ d.currentBatch = {c.version}
       /\ d.findings = [f \in (DOMAIN c.findings) \cup raised |->
                          IF f \in DOMAIN c.findings THEN c.findings[f] ELSE Undecided]
  BY <1>2 DEF CampaignFields, d
<1>5. raised = Raised(d.points, d.rounds, c.version)
  BY <1>2a DEF raised
<1>6. Undecided.decision = "Pending"
  BY DEF Undecided
<1>7. SlotsOnce(d) /\ Retested(d)
  BY <1>2a, <1>6, EvidenceStays DEF Traced, DecisionOf
<1>8. CurrentFindings(d) = raised
  BY <1>1, <1>2a, <1>3, <1>4 DEF CurrentFindings
<1>9. \A f \in raised : f \notin DOMAIN c.findings /\ DecisionOf(d, f) = "Pending"
  BY <1>1, <1>2a, <1>3, <1>4, <1>6 DEF DecisionOf
<1>10. Accounts(d)
  BY <1>1, <1>2a, <1>5, <1>8, <1>9 DEF Accounts
<1>11. Open(d) = {}
  BY <1>2a, <1>6 DEF CanSubmitForReview, Open, DecisionOf
<1>12. QED
  BY <1>7, <1>10, <1>11 DEF Traced, WorkLeft, d

LEMMA DecideTraced ==
  ASSUME NEW c, Sound(c), Traced(c), NEW f, NEW decision, NEW noted, NEW actor \in Actors,
         CanDecideFinding(c, f, decision, noted)
  PROVE  /\ Traced(DecideFinding(c, f, decision, actor))
         /\ Accounts(c) => Accounts(DecideFinding(c, f, decision, actor))
<1> DEFINE d == DecideFinding(c, f, decision, actor)
           judged == Judged(c, f, decision, actor)
<1>1. DOMAIN c = CampaignFields /\ c.status = "ReviewPending" /\ decision \in {"Accepted", "NeedsRemediation"}
  BY DEF Sound, WellTyped, CanDecideFinding
<1>2. /\ d.status = IF /\ CurrentFindings(judged) \cap Pending(judged) = {}
                       /\ CurrentFindings(judged) \cap Open(judged) # {}
                    THEN "Remediation" ELSE c.status
      /\ d.findings = judged.findings
      /\ judged.findings = [g \in DOMAIN c.findings |->
           IF g = f THEN Decided(c.findings[g], decision, actor) ELSE c.findings[g]]
      /\ judged.currentBatch = c.currentBatch
      /\ \A g \in CampaignFields \ {"status", "version", "findings"} : d[g] = c[g]
  BY <1>1, DecideFrame
<1>3. WorkIsCurrent(d)
  BY DecideSound DEF Sound
<1> HIDE DEF d, judged
<1>4. d.points = c.points /\ d.rounds = c.rounds /\ d.currentBatch = c.currentBatch
  BY <1>2 DEF CampaignFields
<1>5. /\ \A g \in DOMAIN c.findings : g # f => d.findings[g] = c.findings[g]
      /\ f \in DOMAIN c.findings => DecisionOf(d, f) = decision
      /\ DOMAIN d.findings = DOMAIN c.findings
  <2>1. d.findings = [g \in DOMAIN c.findings |->
           IF g = f THEN Decided(c.findings[g], decision, actor) ELSE c.findings[g]]
    BY <1>2
  <2>2. \A g \in DOMAIN c.findings : c.findings[g] \in Disposition
    BY DEF Sound, WellTyped
  <2>3. \A g \in DOMAIN c.findings : Decided(c.findings[g], decision, actor).decision = decision
    BY <1>1, <2>2, DispositionTyped DEF Decisions
  <2>4. QED
    BY <2>1, <2>3 DEF DecisionOf
<1>6. SlotsOnce(d) /\ Retested(d)
  BY <1>1, <1>4, <1>5, EvidenceStays DEF Traced, DecisionOf
<1>7. CurrentFindings(d) = CurrentFindings(c)
  BY <1>4, <1>5 DEF CurrentFindings
<1>8. Accounts(c) => \A g \in CurrentFindings(d) : DecisionOf(d, g) # "Remediated"
  BY <1>1, <1>5, <1>7 DEF Accounts, DecisionOf, CurrentFindings
<1>9. Accounts(c) => Accounts(d)
  BY <1>1, <1>4, <1>7, <1>8 DEF Accounts
<1>10. WorkLeft(d)
  <2>1. /\ Pending(d) = Pending(judged) /\ Open(d) = Open(judged)
        /\ CurrentFindings(d) = CurrentFindings(judged)
    BY <1>2, <1>4 DEF Pending, Open, DecisionOf, CurrentFindings
  <2>2. QED
    BY <1>2, <1>3, <2>1 DEF WorkLeft, WorkIsCurrent
<1>11. QED
  BY <1>6, <1>9, <1>10 DEF Traced, d

LEMMA FreezeTraced ==
  ASSUME NEW c, Sound(c), Traced(c), NEW hash, CanFreeze(c)
  PROVE  Traced(Freeze(c, hash)) /\ (Accounts(c) => Accounts(Freeze(c, hash)))
<1> DEFINE d == Freeze(c, hash)
<1>1. DOMAIN c = CampaignFields /\ c.status = "ReviewPending"
  BY FreezeGuard DEF Sound, WellTyped
<1>2. /\ d.status = "Frozen" /\ d.findings = c.findings
      /\ d.points = c.points /\ d.rounds = c.rounds /\ d.currentBatch = c.currentBatch
  BY <1>1, FreezeFrame DEF CampaignFields
<1> HIDE DEF d
<1>3. SlotsOnce(d) /\ Retested(d)
  BY <1>2, EvidenceStays DEF Traced
<1>4. WorkLeft(d) /\ (Accounts(c) => Accounts(d))
  BY <1>1, <1>2 DEF Accounts, WorkLeft, CurrentFindings, DecisionOf
<1>5. QED
  BY <1>3, <1>4 DEF Traced, d

LEMMA CertifyTraced ==
  ASSUME NEW c, Sound(c), Traced(c), NEW credential, c.status = "Frozen"
  PROVE  Traced(Certify(c, credential)) /\ (Accounts(c) => Accounts(Certify(c, credential)))
<1> DEFINE d == Certify(c, credential)
<1>1. DOMAIN c = CampaignFields
  BY DEF Sound, WellTyped
<1>2. /\ d.status = "Certified" /\ d.findings = c.findings
      /\ d.points = c.points /\ d.rounds = c.rounds /\ d.currentBatch = c.currentBatch
  BY <1>1, CertifyFrame DEF CampaignFields
<1> HIDE DEF d
<1>3. SlotsOnce(d) /\ Retested(d)
  BY <1>2, EvidenceStays DEF Traced
<1>4. WorkLeft(d) /\ (Accounts(c) => Accounts(d))
  BY <1>1, <1>2 DEF Accounts, WorkLeft, CurrentFindings, DecisionOf
<1>5. QED
  BY <1>3, <1>4 DEF Traced, d

\* A new round leaves what earlier rounds remediated remediated, and what it closes
\* itself it has measured again in full.
LEMMA AddRoundTraced ==
  ASSUME NEW c, Sound(c), Intact(c), Traced(c), NEW round \in Round, NEW actor,
         CanAddRound(c, round, actor)
  PROVE  Traced(AddRound(c, round)) /\ Accounts(AddRound(c, round))
<1> DEFINE d == AddRound(c, round)
           n == Len(c.rounds) + 1
           Fresh(point) == {[sample |-> s, round |-> n] : s \in {t \in round.samples : t.point = point}}
<1>1. DOMAIN c = CampaignFields /\ c.rounds \in Seq(Round)
  BY DEF Sound, WellTyped
<1>2. /\ d.points = c.points /\ d.rounds = Append(c.rounds, round)
      /\ d.findings = [f \in DOMAIN c.findings |->
           IF f \in ClosedBy(c, round) THEN Remedied(c.findings[f], round.id) ELSE c.findings[f]]
      /\ d.status \in {"Remediation", "Executing"}
  <2>1. /\ d.points = c.points /\ d.rounds = Append(c.rounds, round)
        /\ d.findings = Closed(c, round).findings /\ d.status \in {"Remediation", "Executing"}
    BY <1>1, AddRoundFrame DEF CampaignFields
  <2>2. QED
    BY <1>1, <2>1, ClosedFrame
<1>3. SlotsOnce(d)
  BY AddRoundSlots DEF Traced
<1> HIDE DEF d
<1>4. /\ n \in Nat /\ n \in DOMAIN d.rounds /\ d.rounds[n] = round
      /\ \A i \in DOMAIN c.rounds : i \in DOMAIN d.rounds /\ d.rounds[i] = c.rounds[i] /\ i \in Nat /\ n >= i
  BY <1>1, <1>2
<1>5. \A point : Effective(d.rounds, point) =
        (IF round.kind = "Remediation" /\ Covers(round, point) THEN {}
         ELSE Effective(c.rounds, point)) \cup Fresh(point)
  BY <1>1, <1>2, EffectiveAppend
<1> HIDE DEF n
<1>6. ASSUME NEW f \in DOMAIN c.findings, NEW point, NEW e \in Fresh(point)
      PROVE  e.sample.id \notin f.samples /\ e.round = n
  <2>1. e.sample \in round.samples /\ e.round = n
    OBVIOUS
  <2>2. \A t \in SamplesOf(c.rounds) : e.sample.id # t.id
    BY <2>1 DEF CanAddRound, SamplesAdmissible
  <2>3. f.samples \subseteq {s.id : s \in SamplesOf(c.rounds)}
    BY DEF Intact, FindingsFound, FoundIn
  <2>4. QED
    BY <2>1, <2>2, <2>3
<1> HIDE DEF Fresh
<1>7. ASSUME NEW f \in DOMAIN c.findings, f \notin ClosedBy(c, round),
             DecisionOf(d, f) = "Remediated"
      PROVE  \E i \in DOMAIN d.rounds : RetestedBy(d, f, i)
  <2>1. d.findings[f] = c.findings[f]
    BY <1>2, <1>7
  <2>2. PICK i \in DOMAIN c.rounds : RetestedBy(c, f, i)
    BY <1>7, <2>1 DEF Traced, Retested, DecisionOf
  <2>3. ASSUME NEW p \in c.points, p.id = f.point, NEW e \in Effective(d.rounds, p.id)
        PROVE  e.sample.id \notin f.samples /\ e.round >= i
    <3>1. CASE e \in Fresh(p.id)
      BY <1>4, <1>6, <3>1
    <3>2. CASE e \in Effective(c.rounds, p.id)
      BY <2>2, <2>3, <3>2 DEF RetestedBy
    <3>3. QED
      BY <1>5, <3>1, <3>2
  <2>4. RetestedBy(d, f, i)
    BY <1>2, <1>4, <2>1, <2>2, <2>3 DEF RetestedBy
  <2>5. QED
    BY <1>4, <2>4
<1>8. ASSUME NEW f \in ClosedBy(c, round)
      PROVE  RetestedBy(d, f, n)
  <2>1. /\ f \in DOMAIN c.findings /\ round.kind = "Remediation"
        /\ f.round = round.supersedes /\ Covers(round, f.point)
    BY DEF ClosedBy, Open
  <2>2. d.findings[f].remediationRound = {round.id}
    <3>1. c.findings[f] \in Disposition
      BY <2>1 DEF Sound, WellTyped
    <3>2. d.findings[f] = Remedied(c.findings[f], round.id)
      BY <1>2, <2>1
    <3>3. QED
      BY <3>1, <3>2 DEF Remedied, Disposition
  <2>3. ASSUME NEW p \in c.points, p.id = f.point
        PROVE  {s.replicate : s \in {t \in round.samples : t.point = p.id}} = 1 .. p.required
    <3>1. \A r \in 1 .. p.required : \E s \in round.samples : s.point = p.id /\ s.replicate = r
      BY <2>1, <2>3 DEF CanAddRound, RemediationCoverage
    <3>2. ASSUME NEW s \in round.samples, s.point = p.id
          PROVE  s.replicate \in 1 .. p.required
      <4>1. PICK q \in c.points : s.point = q.id /\ s.replicate \in 1 .. q.required
        BY DEF CanAddRound, SamplesAdmissible, InPlan
      <4>2. q = p
        BY <3>2, <4>1 DEF Intact, PointsIntact, Compatible
      <4>3. QED
        BY <4>1, <4>2
    <3>3. QED
      BY <3>1, <3>2
  <2>4. ASSUME NEW p \in c.points, p.id = f.point, NEW e \in Effective(d.rounds, p.id)
        PROVE  e.sample.id \notin f.samples /\ e.round >= n
    BY <1>4, <1>5, <1>6, <2>1, <2>4
  <2>5. QED
    BY <1>2, <1>4, <2>1, <2>2, <2>3, <2>4 DEF RetestedBy
<1>9. Retested(d)
  <2>1. DOMAIN d.findings = DOMAIN c.findings
    BY <1>2
  <2>2. QED
    BY <1>4, <1>7, <1>8, <2>1 DEF Retested
<1>10. Accounts(d) /\ WorkLeft(d)
  BY <1>2 DEF Accounts, WorkLeft
<1>11. QED
  BY <1>3, <1>9, <1>10 DEF Traced, d

-------------------------------------------------------------------------------
(* All of it together: what every campaign is that operations have made. *)

Healthy(c) ==
    Sound(c) /\ SealHolds(c) /\ Intact(c) /\ Summed(c) /\ Traced(c) /\ Accounts(c)

\* The same without Accounts, the only part that rests on every defect having a finding.
Regular(c) == Sound(c) /\ SealHolds(c) /\ Intact(c) /\ Summed(c) /\ Traced(c)

LEMMA NewCampaignHealthy ==
  ASSUME NEW id \in CampaignIds, NEW date \in Int, NEW plan \in Seq(Point), CanCreate(plan)
  PROVE  Healthy(NewCampaign(id, date, plan))
BY NewCampaignSound, NewCampaignSeal, NewCampaignIntact, NewCampaignSummed, NewCampaignTraced
   DEF Healthy

LEMMA RegisterRegular ==
  ASSUME NEW c, Regular(c), NEW items \in Seq(Instrument), CanRegisterInstruments(c, items)
  PROVE  /\ Regular(RegisterInstruments(c, items))
         /\ Accounts(c) => Accounts(RegisterInstruments(c, items))
BY RegisterSound, RegisterSeal, RegisterIntact, RegisterSummed, RegisterTraced DEF Regular

LEMMA AddRoundRegular ==
  ASSUME NEW c, Regular(c), NEW round \in Round, NEW actor, CanAddRound(c, round, actor)
  PROVE  /\ Regular(AddRound(c, round))
         /\ Accounts(c) => Accounts(AddRound(c, round))
BY AddRoundSound, AddRoundSeal, AddRoundIntact, AddRoundSummed, AddRoundTraced DEF Regular

LEMMA SubmitRegular ==
  ASSUME NEW c, Regular(c), CanSubmitForReview(c)
  PROVE  /\ Regular(SubmitForReview(c))
         /\ Accounts(c) => Accounts(SubmitForReview(c))
BY SubmitSound, SubmitSeal, SubmitIntact, SubmitSummed, SubmitTraced DEF Regular

LEMMA DecideRegular ==
  ASSUME NEW c, Regular(c), NEW f, NEW decision, NEW noted, NEW actor \in Actors,
         CanDecideFinding(c, f, decision, noted)
  PROVE  /\ Regular(DecideFinding(c, f, decision, actor))
         /\ Accounts(c) => Accounts(DecideFinding(c, f, decision, actor))
BY DecideSound, DecideSeal, DecideIntact, DecideSummed, DecideTraced DEF Regular

LEMMA FreezeRegular ==
  ASSUME NEW c, Regular(c), CanFreeze(c)
  PROVE  /\ Regular(Freeze(c, Hash(c)))
         /\ Accounts(c) => Accounts(Freeze(c, Hash(c)))
BY FreezeSound, FreezeSeal, FreezeIntact, FreezeSummed, FreezeTraced DEF Regular

LEMMA CertifyRegular ==
  ASSUME NEW c, Regular(c), NEW issuedBy, NEW k \in Issue(c, issuedBy), CanCertify(c, k)
  PROVE  /\ Regular(Certify(c, k))
         /\ Accounts(c) => Accounts(Certify(c, k))
<1>1. c.status = "Frozen"
  BY DEF CanCertify
<1>2. QED
  BY <1>1, CertifySound, CertifySeal, CertifyIntact, CertifySummed, CertifyTraced DEF Regular

\* A regular campaign in which every finding accounts for a defect stays one.
LEMMA RegisterHealthy ==
  ASSUME NEW c, Healthy(c), NEW items \in Seq(Instrument), CanRegisterInstruments(c, items)
  PROVE  Healthy(RegisterInstruments(c, items))
BY RegisterRegular DEF Healthy, Regular

LEMMA AddRoundHealthy ==
  ASSUME NEW c, Healthy(c), NEW round \in Round, NEW actor, CanAddRound(c, round, actor)
  PROVE  Healthy(AddRound(c, round))
BY AddRoundRegular DEF Healthy, Regular

LEMMA SubmitHealthy ==
  ASSUME NEW c, Healthy(c), CanSubmitForReview(c)
  PROVE  Healthy(SubmitForReview(c))
BY SubmitRegular DEF Healthy, Regular

LEMMA DecideHealthy ==
  ASSUME NEW c, Healthy(c), NEW f, NEW decision, NEW noted, NEW actor \in Actors,
         CanDecideFinding(c, f, decision, noted)
  PROVE  Healthy(DecideFinding(c, f, decision, actor))
BY DecideRegular DEF Healthy, Regular

LEMMA FreezeHealthy ==
  ASSUME NEW c, Healthy(c), CanFreeze(c)
  PROVE  Healthy(Freeze(c, Hash(c)))
BY FreezeRegular DEF Healthy, Regular

LEMMA CertifyHealthy ==
  ASSUME NEW c, Healthy(c), NEW issuedBy, NEW k \in Issue(c, issuedBy), CanCertify(c, k)
  PROVE  Healthy(Certify(c, k))
BY CertifyRegular DEF Healthy, Regular

\* A regular campaign passes the check before every save.
LEMMA RegularValid ==
  ASSUME NEW c, Regular(c)
  PROVE  ValidateIntegrity(c)
<1>1. c.version >= 1
  BY DEF Regular, Sound, WellTyped
<1>2. ReleaseIntact(c)
  <2>1. \A k \in c.credential : GoodCredential(c, k)
    BY DEF Regular, SealHolds
  <2>2. c.status = "Certified" <=> c.credential # {}
    BY DEF Regular, SealHolds
  <2>3. QED
    BY <2>1, <2>2 DEF Regular, Summed, ReleaseFits, ReleaseIntact, GoodCredential
<1>3. QED
  BY <1>1, <1>2 DEF Regular, Intact, ValidateIntegrity

\* In a review nothing but a decision still to be taken can block the freeze.
LEMMA DecidedReviewFreezes ==
  ASSUME NEW c, Regular(c), c.status = "ReviewPending", Pending(c) \cap CurrentFindings(c) = {}
  PROVE  CanFreeze(c)
<1> DEFINE blocked ==
      [persistence_evidence_mismatch |-> FALSE,
       invalid_freeze_status |-> c.status # "ReviewPending",
       pending_finding |-> CurrentFindings(c) \cap Pending(c) # {},
       unclosed_remediation |-> Open(c) # {},
       calibration_coverage_incomplete |->
           ~Readiness(c.points, c.instruments, c.plannedDate).ready,
       sampling_plan_reference_invalid |-> ~PointsIntact(c),
       calibration_evidence_invalid |-> ~InstrumentsIntact(c),
       evidence_reference_invalid |-> ~RoundsIntact(c),
       finding_reference_invalid |-> ~FindingsIntact(c),
       check_batch_reference_invalid |-> ~BatchesIntact(c)]
<1>1. CanFreeze(c) <=> {code \in DOMAIN blocked : blocked[code]} = {}
  BY DEF CanFreeze, FreezeBlockers
<1>2. Pending(c) = {} /\ Open(c) = {}
  BY DEF Regular, Sound, WorkIsCurrent, Traced, WorkLeft
<1>3. Readiness(c.points, c.instruments, c.plannedDate).ready
  BY DEF Regular, Summed, LeftDraft
<1>4. PointsIntact(c) /\ InstrumentsIntact(c) /\ RoundsIntact(c) /\ FindingsIntact(c) /\ BatchesIntact(c)
  BY DEF Regular, Intact
<1>5. /\ DOMAIN blocked = {"persistence_evidence_mismatch", "invalid_freeze_status",
           "pending_finding", "unclosed_remediation", "calibration_coverage_incomplete",
           "sampling_plan_reference_invalid", "calibration_evidence_invalid",
           "evidence_reference_invalid", "finding_reference_invalid",
           "check_batch_reference_invalid"}
      /\ blocked["persistence_evidence_mismatch"] = FALSE
      /\ blocked["invalid_freeze_status"] = (c.status # "ReviewPending")
      /\ blocked["pending_finding"] = (CurrentFindings(c) \cap Pending(c) # {})
      /\ blocked["unclosed_remediation"] = (Open(c) # {})
      /\ blocked["calibration_coverage_incomplete"] =
           ~Readiness(c.points, c.instruments, c.plannedDate).ready
      /\ blocked["sampling_plan_reference_invalid"] = ~PointsIntact(c)
      /\ blocked["calibration_evidence_invalid"] = ~InstrumentsIntact(c)
      /\ blocked["evidence_reference_invalid"] = ~RoundsIntact(c)
      /\ blocked["finding_reference_invalid"] = ~FindingsIntact(c)
      /\ blocked["check_batch_reference_invalid"] = ~BatchesIntact(c)
  OBVIOUS
<1> HIDE DEF blocked
<1>6. \A code \in DOMAIN blocked : ~blocked[code]
  BY <1>2, <1>3, <1>4, <1>5
<1>7. QED
  BY <1>1, <1>6

-------------------------------------------------------------------------------
(* From version to version. *)

\* The two campaigns hold the same evidence.
SameEvidence(c, d) ==
    /\ d.points = c.points /\ d.instruments = c.instruments /\ d.rounds = c.rounds
    /\ d.batches = c.batches /\ d.findings = c.findings

\* What any accepted change does: the campaign's identity stays, its version moves on by
\* one, ids in use stay in use, and what is newly found waits for a decision.
Advances(c, d) ==
    /\ d.id = c.id /\ d.version = c.version + 1
    /\ d.points = c.points /\ c.instruments \subseteq d.instruments
    /\ RoundIdsOf(c.rounds) \subseteq RoundIdsOf(d.rounds)
    /\ (DOMAIN d.findings) \ (DOMAIN c.findings) \subseteq Pending(d)

LEMMA RegisterAdvances ==
  ASSUME NEW c, Healthy(c), NEW items
  PROVE  Advances(c, RegisterInstruments(c, items))
<1> DEFINE d == RegisterInstruments(c, items)
<1>1. DOMAIN c = CampaignFields
  BY DEF Healthy, Sound, WellTyped
<1>2. /\ d.version = c.version + 1 /\ d.id = c.id /\ d.points = c.points
      /\ d.instruments = c.instruments \cup {items[k] : k \in DOMAIN items}
      /\ d.rounds = c.rounds /\ d.findings = c.findings
  BY <1>1, RegisterFrame DEF CampaignFields
<1> HIDE DEF d
<1>3. Advances(c, d)
  BY <1>2 DEF Advances
<1>4. QED
  BY <1>3 DEF d

LEMMA AddRoundAdvances ==
  ASSUME NEW c, Healthy(c), NEW round \in Round
  PROVE  Advances(c, AddRound(c, round))
<1> DEFINE d == AddRound(c, round)
<1>1. DOMAIN c = CampaignFields /\ c.rounds \in Seq(Round)
  BY DEF Healthy, Sound, WellTyped
<1>2. /\ d.version = c.version + 1 /\ d.id = c.id /\ d.points = c.points
      /\ d.instruments = c.instruments /\ d.rounds = Append(c.rounds, round)
      /\ d.findings = Closed(c, round).findings
  BY <1>1, AddRoundFrame DEF CampaignFields
<1>3. Closed(c, round).findings = [f \in DOMAIN c.findings |->
           IF f \in ClosedBy(c, round) THEN Remedied(c.findings[f], round.id) ELSE c.findings[f]]
  BY <1>1, ClosedFrame
<1> HIDE DEF d
<1>4. DOMAIN d.findings = DOMAIN c.findings
  BY <1>2, <1>3
<1>5. RoundIdsOf(c.rounds) \subseteq RoundIdsOf(d.rounds)
  BY <1>1, <1>2, AppendGrows
<1>6. Advances(c, d)
  BY <1>2, <1>4, <1>5 DEF Advances
<1>7. QED
  BY <1>6 DEF d

LEMMA SubmitAdvances ==
  ASSUME NEW c, Healthy(c)
  PROVE  Advances(c, SubmitForReview(c))
<1> DEFINE d == SubmitForReview(c)
           raised == Raised(c.points, c.rounds, c.version)
<1>1. DOMAIN c = CampaignFields
  BY DEF Healthy, Sound, WellTyped
<1>2. LET x == SubmitForReview(c)
      IN /\ x.version = c.version + 1
         /\ x.findings = [f \in (DOMAIN c.findings) \cup raised |->
                            IF f \in DOMAIN c.findings THEN c.findings[f] ELSE Undecided]
         /\ \A g \in CampaignFields \ {"status", "version", "readiness", "progress",
                                       "currentBatch", "findings", "batches"} : x[g] = c[g]
  BY <1>1, SubmitFrame
<1> HIDE DEF d, raised
<1>3. /\ d.version = c.version + 1 /\ d.id = c.id /\ d.points = c.points
      /\ d.instruments = c.instruments /\ d.rounds = c.rounds
      /\ d.findings = [f \in (DOMAIN c.findings) \cup raised |->
                         IF f \in DOMAIN c.findings THEN c.findings[f] ELSE Undecided]
  BY <1>2 DEF CampaignFields, d
<1>4. (DOMAIN d.findings) \ (DOMAIN c.findings) \subseteq Pending(d)
  BY <1>3 DEF Pending, DecisionOf, Undecided
<1>5. Advances(c, d)
  BY <1>3, <1>4 DEF Advances
<1>6. QED
  BY <1>5 DEF d

LEMMA DecideAdvances ==
  ASSUME NEW c, Healthy(c), NEW f, NEW decision, NEW actor
  PROVE  Advances(c, DecideFinding(c, f, decision, actor))
<1> DEFINE d == DecideFinding(c, f, decision, actor)
           judged == Judged(c, f, decision, actor)
<1>1. DOMAIN c = CampaignFields
  BY DEF Healthy, Sound, WellTyped
<1>2. /\ d.version = c.version + 1
      /\ d.findings = judged.findings
      /\ judged.findings = [g \in DOMAIN c.findings |->
           IF g = f THEN Decided(c.findings[g], decision, actor) ELSE c.findings[g]]
      /\ \A g \in CampaignFields \ {"status", "version", "findings"} : d[g] = c[g]
  BY <1>1, DecideFrame
<1> HIDE DEF d, judged
<1>3. DOMAIN d.findings = DOMAIN c.findings
  BY <1>2
<1>4. /\ d.id = c.id /\ d.points = c.points
      /\ d.instruments = c.instruments /\ d.rounds = c.rounds
  BY <1>2 DEF CampaignFields
<1>5. Advances(c, d)
  BY <1>2, <1>3, <1>4 DEF Advances
<1>6. QED
  BY <1>5 DEF d

LEMMA FreezeAdvances ==
  ASSUME NEW c, Healthy(c), NEW hash
  PROVE  Advances(c, Freeze(c, hash)) /\ SameEvidence(c, Freeze(c, hash))
<1> DEFINE d == Freeze(c, hash)
<1>1. DOMAIN c = CampaignFields
  BY DEF Healthy, Sound, WellTyped
<1>2. /\ d.version = c.version + 1 /\ d.id = c.id /\ d.points = c.points
      /\ d.instruments = c.instruments /\ d.rounds = c.rounds /\ d.findings = c.findings
      /\ d.batches = c.batches
  BY <1>1, FreezeFrame DEF CampaignFields
<1> HIDE DEF d
<1>3. Advances(c, d) /\ SameEvidence(c, d)
  BY <1>2 DEF Advances, SameEvidence
<1>4. QED
  BY <1>3 DEF d

LEMMA CertifyAdvances ==
  ASSUME NEW c, Healthy(c), NEW credential
  PROVE  Advances(c, Certify(c, credential)) /\ SameEvidence(c, Certify(c, credential))
<1> DEFINE d == Certify(c, credential)
<1>1. DOMAIN c = CampaignFields
  BY DEF Healthy, Sound, WellTyped
<1>2. /\ d.version = c.version + 1 /\ d.id = c.id /\ d.points = c.points
      /\ d.instruments = c.instruments /\ d.rounds = c.rounds /\ d.findings = c.findings
      /\ d.batches = c.batches
  BY <1>1, CertifyFrame DEF CampaignFields
<1> HIDE DEF d
<1>3. Advances(c, d) /\ SameEvidence(c, d)
  BY <1>2 DEF Advances, SameEvidence
<1>4. QED
  BY <1>3 DEF d
===============================================================================
