---------------------------- MODULE SelfCheckProofs ----------------------------
(***************************************************************************)
(* The self check certifies its own evidence, whatever script it runs and  *)
(* whoever else works on its campaign, and passes if nobody does.          *)
(*                                                                         *)
(* The invariant of the first: the campaign's version never falls below    *)
(* the one the script saw last, and as long as it is that one, the         *)
(* campaign holds just what the script has put there; from the script's    *)
(* freeze on nobody can put anything there any more.  That of the second   *)
(* adds what status and events the campaign has by each request.           *)
(***************************************************************************)
EXTENDS SelfCheck, MonitoringProofs

Scripted == {ScriptInstruments[i] : i \in DOMAIN ScriptInstruments}

\* What the campaign holds if nobody has worked on it since the last answer.
Left(c) ==
    /\ step = "instruments" => c.instruments = {} /\ c.rounds = << >>
    /\ step = "round" => c.instruments = Scripted /\ c.rounds = << >>
    /\ step \in {"review", "preflight", "freeze"} =>
         c.instruments = Scripted /\ c.rounds = <<ScriptRound>>

ScriptSteps == {"instruments", "round", "review", "preflight", "freeze",
                "issue", "verify", "timeline"} \cup Ended

SelfInv ==
    /\ Healthy(campaign)
    /\ step \in ScriptSteps
    /\ seen \in Nat /\ seen <= campaign.version
    /\ seen = campaign.version => Left(campaign)
    /\ step \in {"issue", "verify", "timeline", "passed"} =>
         /\ IsFrozen(campaign.status)
         /\ campaign.instruments = Scripted /\ campaign.rounds = <<ScriptRound>>

LEMMA SelfInitially == SelfInit => SelfInv
<1> SUFFICES ASSUME SelfInit PROVE SelfInv
  OBVIOUS
<1>1. PICK plan \in Plans :
        CanCreate(plan.points) /\ campaign = NewCampaign(plan.id, plan.plannedDate, plan.points)
  BY DEF SelfInit, Init
<1>2. plan.id \in CampaignIds /\ plan.plannedDate \in Int /\ plan.points \in Seq(Point)
  BY RequestsAssumption
<1>3. Healthy(campaign)
  BY <1>1, <1>2, NewCampaignHealthy
<1>4. campaign.version = 1 /\ campaign.instruments = {} /\ campaign.rounds = << >>
  BY <1>1 DEF NewCampaign
<1>5. seen = 1 /\ step \in {"instruments", "failed"}
  BY DEF SelfInit
<1>6. QED
  BY <1>3, <1>4, <1>5 DEF SelfInv, Left, ScriptSteps, Ended

\* An operation of somebody else moves the version on; in a frozen campaign it leaves
\* the evidence as it is.
LEMMA OthersMove ==
  ASSUME Healthy(campaign), Next, campaign' # campaign
  PROVE  /\ Healthy(campaign') /\ campaign'.version = campaign.version + 1
         /\ IsFrozen(campaign.status) =>
              IsFrozen(campaign'.status) /\ SameEvidence(campaign, campaign')
<1>1. DOMAIN campaign = CampaignFields
  BY DEF Healthy, Sound, WellTyped
<1>2. CASE RegisterInstrumentsAction
  <2>1. PICK items \in InstrumentRequests : /\ CanRegisterInstruments(campaign, items)
                                            /\ campaign' = RegisterInstruments(campaign, items)
    BY <1>2 DEF RegisterInstrumentsAction
  <2>2. items \in Seq(Instrument)
    BY RequestsAssumption
  <2>3. Healthy(campaign') /\ Advances(campaign, campaign')
    BY <2>1, <2>2, RegisterHealthy, RegisterAdvances
  <2>4. QED
    BY <2>1, <2>3 DEF Advances, CanRegisterInstruments, IsFrozen
<1>3. CASE AddRoundAction
  <2>1. PICK round \in RoundRequests, actor \in Actors :
          CanAddRound(campaign, round, actor) /\ campaign' = AddRound(campaign, round)
    BY <1>3 DEF AddRoundAction
  <2>2. round \in Round
    BY RequestsAssumption
  <2>3. Healthy(campaign') /\ Advances(campaign, campaign')
    BY <2>1, <2>2, AddRoundHealthy, AddRoundAdvances
  <2>4. QED
    BY <2>1, <2>3 DEF Advances, CanAddRound, IsFrozen
<1>4. CASE SubmitForReviewAction
  BY <1>4, SubmitHealthy, SubmitAdvances
     DEF SubmitForReviewAction, Advances, CanSubmitForReview, IsFrozen
<1>5. CASE DecideFindingAction
  <2>1. PICK f \in DOMAIN campaign.findings, decision \in Decisions, noted \in BOOLEAN, actor \in Actors :
          /\ CanDecideFinding(campaign, f, decision, noted)
          /\ campaign' = DecideFinding(campaign, f, decision, actor)
    BY <1>5 DEF DecideFindingAction
  <2>2. Healthy(campaign') /\ Advances(campaign, campaign')
    BY <2>1, DecideHealthy, DecideAdvances
  <2>3. QED
    BY <2>1, <2>2 DEF Advances, CanDecideFinding, IsFrozen
<1>6. CASE FreezePreflightAction
  BY <1>6 DEF FreezePreflightAction
<1>7. CASE FreezeAction
  <2>1. PICK k \in candidate : /\ CanFreeze(campaign) /\ campaign' = Freeze(campaign, Hash(campaign))
    BY <1>7 DEF FreezeAction, ConfirmsCandidate
  <2>2. campaign.status = "ReviewPending"
    BY <2>1, FreezeGuard
  <2>3. Healthy(campaign') /\ Advances(campaign, campaign')
    BY <2>1, FreezeHealthy, FreezeAdvances
  <2>4. QED
    BY <2>2, <2>3 DEF Advances, IsFrozen
<1>8. CASE IssueAction
  <2>0. PICK issuedBy \in Actors : \E k \in Issue(campaign, issuedBy) :
          CanCertify(campaign, k) /\ campaign' = Certify(campaign, k)
    BY <1>8 DEF IssueAction
  <2>1. PICK k \in Issue(campaign, issuedBy) :
          CanCertify(campaign, k) /\ campaign' = Certify(campaign, k)
    BY <2>0
  <2>2. Healthy(campaign') /\ Advances(campaign, campaign') /\ SameEvidence(campaign, campaign')
    BY <2>1, CertifyHealthy, CertifyAdvances
  <2>3. campaign'.status = "Certified"
    BY <1>1, <2>1, CertifyFrame
  <2>4. QED
    BY <2>2, <2>3 DEF Advances, IsFrozen
<1>9. QED
  BY <1>2, <1>3, <1>4, <1>5, <1>6, <1>7, <1>8 DEF Next

\* A script that has come to its end claims nothing of what comes after it.
LEMMA ScriptFails ==
  ASSUME SelfInv, step' = "failed", UNCHANGED <<campaign, seen>>
  PROVE  SelfInv'
BY DEF SelfInv, Left, ScriptSteps, Ended

LEMMA ScriptKeeps ==
  ASSUME SelfInv, Script
  PROVE  SelfInv'
<1>1. CASE step' = "failed" /\ UNCHANGED <<campaign, seen>>
  BY <1>1, ScriptFails
<1>2. /\ Healthy(campaign) /\ DOMAIN campaign = CampaignFields
      /\ campaign.rounds \in Seq(Round) /\ campaign.version \in Nat /\ seen \in Nat
      /\ seen <= campaign.version
  BY DEF SelfInv, Healthy, Sound, WellTyped
<1>3. CASE PostInstruments
  <2> DEFINE c == RegisterInstruments(campaign, ScriptInstruments)
  <2>1. CASE Current /\ CanRegisterInstruments(campaign, ScriptInstruments)
    <3>1. /\ step = "instruments" /\ campaign' = c /\ seen' = c.version
          /\ step' \in {"round", "failed"} /\ seen = campaign.version
      BY <1>3, <2>1 DEF PostInstruments, Post, Goto, Current
    <3>2. Healthy(c)
      BY <1>2, <2>1, RegisterHealthy, ScriptAssumption
    <3>3. c.instruments = campaign.instruments \cup Scripted /\ c.rounds = campaign.rounds
      BY <1>2, RegisterFrame DEF CampaignFields, Scripted
    <3> HIDE DEF c
    <3>4. c.instruments = Scripted /\ c.rounds = << >>
      BY <3>1, <3>3 DEF SelfInv, Left
    <3>5. c.version \in Nat
      BY <3>2 DEF Healthy, Sound, WellTyped
    <3>6. QED
      BY <3>1, <3>2, <3>4, <3>5 DEF SelfInv, Left, ScriptSteps, Ended
  <2>2. QED
    BY <1>1, <1>3, <2>1 DEF PostInstruments, Post, Refused
<1>4. CASE PostRound
  <2> DEFINE c == AddRound(campaign, ScriptRound)
  <2>1. CASE Current /\ CanAddRound(campaign, ScriptRound, Engineer)
    <3>1. /\ step = "round" /\ campaign' = c /\ seen' = c.version
          /\ step' = "review" /\ seen = campaign.version
      BY <1>4, <2>1 DEF PostRound, Post, Goto, Current
    <3>2. Healthy(c)
      BY <1>2, <2>1, AddRoundHealthy, ScriptAssumption
    <3>3. c.instruments = campaign.instruments /\ c.rounds = Append(campaign.rounds, ScriptRound)
      BY <1>2, AddRoundFrame DEF CampaignFields
    <3> HIDE DEF c
    <3>4. c.instruments = Scripted /\ c.rounds = <<ScriptRound>>
      <4>1. campaign.instruments = Scripted /\ campaign.rounds = << >>
        BY <3>1 DEF SelfInv, Left
      <4>2. Append(<< >>, ScriptRound) = <<ScriptRound>>
        OBVIOUS
      <4>3. QED
        BY <3>3, <4>1, <4>2
    <3>5. c.version \in Nat
      BY <3>2 DEF Healthy, Sound, WellTyped
    <3>6. QED
      BY <3>1, <3>2, <3>4, <3>5 DEF SelfInv, Left, ScriptSteps, Ended
  <2>2. QED
    BY <1>1, <1>4, <2>1 DEF PostRound, Post, Refused
<1>5. CASE PostReview
  <2> DEFINE c == SubmitForReview(campaign)
  <2>1. CASE Current /\ CanSubmitForReview(campaign)
    <3>1. /\ step = "review" /\ campaign' = c /\ seen' = c.version
          /\ step' \in {"preflight", "failed"} /\ seen = campaign.version
      BY <1>5, <2>1 DEF PostReview, Post, Goto, Current
    <3>2. Healthy(c)
      BY <1>2, <2>1, SubmitHealthy
    <3>3. c.instruments = campaign.instruments /\ c.rounds = campaign.rounds
      <4>1. LET x == SubmitForReview(campaign)
            IN \A g \in CampaignFields \ {"status", "version", "readiness", "progress",
                                          "currentBatch", "findings", "batches"} : x[g] = campaign[g]
        BY <1>2, SubmitFrame
      <4>2. QED
        BY <4>1 DEF CampaignFields
    <3> HIDE DEF c
    <3>4. c.instruments = Scripted /\ c.rounds = <<ScriptRound>>
      BY <3>1, <3>3 DEF SelfInv, Left
    <3>5. c.version \in Nat
      BY <3>2 DEF Healthy, Sound, WellTyped
    <3>6. QED
      BY <3>1, <3>2, <3>4, <3>5 DEF SelfInv, Left, ScriptSteps, Ended
  <2>2. QED
    BY <1>1, <1>5, <2>1 DEF PostReview, Post, Refused
<1>6. CASE GetPreflight
  <2>1. CASE step' = "freeze" /\ UNCHANGED <<campaign, seen>> /\ step = "preflight"
    BY <2>1 DEF SelfInv, Left, ScriptSteps, Ended
  <2>2. QED
    BY <1>1, <1>6, <2>1 DEF GetPreflight, Refused
<1>7. CASE PostFreeze
  <2> DEFINE c == Freeze(campaign, Hash(campaign))
  <2>1. CASE Current /\ CanFreeze(campaign) /\ campaign' = c /\ seen' = c.version
             /\ step' \in {"issue", "failed"}
    <3>1. step = "freeze" /\ seen = campaign.version
      BY <1>7, <2>1 DEF PostFreeze, Current
    <3>2. Healthy(c) /\ SameEvidence(campaign, c)
      BY <1>2, <2>1, FreezeHealthy, FreezeAdvances
    <3>3. c.status = "Frozen"
      BY <1>2, FreezeFrame
    <3> HIDE DEF c
    <3>4. c.instruments = Scripted /\ c.rounds = <<ScriptRound>>
      BY <3>1, <3>2 DEF SelfInv, Left, SameEvidence
    <3>5. c.version \in Nat
      BY <3>2 DEF Healthy, Sound, WellTyped
    <3>6. QED
      BY <2>1, <3>2, <3>3, <3>4, <3>5 DEF SelfInv, Left, ScriptSteps, Ended, IsFrozen
  <2>2. QED
    BY <1>1, <1>7, <2>1 DEF PostFreeze, Post, Refused, Goto
<1>8. CASE PostIssue
  <2>1. PICK issuedBy \in Actors : \E k \in Issue(campaign, issuedBy) :
          LET after == Certify(campaign, k)
          IN Post(CanIssue(campaign) /\ CanCertify(campaign, k), after,
                  after.status = "Certified", "verify")
    BY <1>8 DEF PostIssue
  <2>2. PICK k \in Issue(campaign, issuedBy) :
          LET after == Certify(campaign, k)
          IN Post(CanIssue(campaign) /\ CanCertify(campaign, k), after,
                  after.status = "Certified", "verify")
    BY <2>1
  <2> DEFINE c == Certify(campaign, k)
  <2>3. CASE Current /\ CanCertify(campaign, k) /\ campaign' = c /\ seen' = c.version
             /\ step' \in {"verify", "failed"}
    <3>1. step = "issue"
      BY <1>8 DEF PostIssue
    <3>2. Healthy(c) /\ SameEvidence(campaign, c)
      BY <1>2, <2>3, CertifyHealthy, CertifyAdvances
    <3>3. c.status = "Certified"
      BY <1>2, CertifyFrame
    <3> HIDE DEF c
    <3>4. c.instruments = Scripted /\ c.rounds = <<ScriptRound>>
      BY <3>1, <3>2 DEF SelfInv, SameEvidence
    <3>5. c.version \in Nat
      BY <3>2 DEF Healthy, Sound, WellTyped
    <3>6. QED
      BY <2>3, <3>2, <3>3, <3>4, <3>5 DEF SelfInv, Left, ScriptSteps, Ended, IsFrozen
  <2>4. QED
    BY <1>1, <2>2, <2>3 DEF Post, Refused, Goto
<1>9. CASE GetVerification \/ GetTimeline
  <2>1. /\ step \in {"verify", "timeline"} /\ step' \in {"timeline", "passed", "failed"}
        /\ UNCHANGED <<campaign, seen>>
    BY <1>9 DEF GetVerification, GetTimeline, Goto
  <2>2. QED
    BY <2>1 DEF SelfInv, Left, ScriptSteps, Ended
<1>10. QED
  BY <1>3, <1>4, <1>5, <1>6, <1>7, <1>8, <1>9 DEF Script

LEMMA OthersKeep ==
  ASSUME SelfInv, Others
  PROVE  SelfInv'
<1>1. Next /\ step' = step /\ seen' = seen
  BY DEF Others
<1>2. CASE campaign' = campaign
  BY <1>1, <1>2 DEF SelfInv, Left
<1>3. CASE campaign' # campaign
  <2>1. Healthy(campaign') /\ campaign'.version = campaign.version + 1
    BY <1>1, <1>3, OthersMove DEF SelfInv
  <2>2. IsFrozen(campaign.status) => IsFrozen(campaign'.status) /\ SameEvidence(campaign, campaign')
    BY <1>1, <1>3, OthersMove DEF SelfInv
  <2>3. campaign.version \in Nat
    BY DEF SelfInv, Healthy, Sound, WellTyped
  <2>4. seen' \in Nat /\ seen' <= campaign'.version /\ seen' # campaign'.version
    BY <1>1, <2>1, <2>3 DEF SelfInv
  <2>5. step' \in {"issue", "verify", "timeline", "passed"} =>
          /\ IsFrozen(campaign'.status)
          /\ campaign'.instruments = Scripted /\ campaign'.rounds = <<ScriptRound>>
    BY <1>1, <2>2 DEF SelfInv, SameEvidence
  <2>6. QED
    BY <1>1, <2>1, <2>4, <2>5 DEF SelfInv
<1>4. QED
  BY <1>2, <1>3

LEMMA SelfStep == SelfInv /\ [SelfNext]_selfVars => SelfInv'
<1> SUFFICES ASSUME SelfInv, [SelfNext]_selfVars PROVE SelfInv'
  OBVIOUS
<1>1. CASE TimeOut
  BY <1>1, ScriptFails DEF TimeOut
<1>2. CASE UNCHANGED selfVars
  BY <1>2 DEF selfVars, SelfInv, Left
<1>3. QED
  BY <1>1, <1>2, ScriptKeeps, OthersKeep DEF SelfNext

\* Whatever the script registers and records, and whatever other clients do to the same
\* campaign in between: what the self check freezes, certifies and verifies is what it
\* recorded itself, because every post names the version of the answer before it
\* (selfcheck.go).
THEOREM SelfCheckIsItsOwn == SelfSpec => []CertifiesOwnEvidence
<1>1. SelfInv => CertifiesOwnEvidence
  BY DEF SelfInv, CertifiesOwnEvidence, Scripted
<1>2. QED
  BY <1>1, SelfInitially, SelfStep, PTL DEF SelfSpec

-------------------------------------------------------------------------------
(* That a self check which nobody disturbs passes.  The invariant: as long as *)
(* nobody did, the campaign is the one of the last answer, and each request   *)
(* of the script finds what it needs.                                         *)

Fits(c) == ScriptFits(c.plannedDate, c.points)

\* The instruments of the script cover the plan.
LEMMA ScriptRegisters ==
  ASSUME NEW c, Healthy(c), Fits(c), c.status = "Draft", c.instruments = {}
  PROVE  /\ CanRegisterInstruments(c, ScriptInstruments)
         /\ RegisterInstruments(c, ScriptInstruments).status = "Ready"
<1> DEFINE d == RegisterInstruments(c, ScriptInstruments)
<1>1. DOMAIN c = CampaignFields /\ c.points # {}
  BY DEF Healthy, Sound, WellTyped, Intact
<1>2. CanRegisterInstruments(c, ScriptInstruments)
  BY DEF Fits, ScriptFits, CanRegisterInstruments
<1>3. Healthy(d)
  BY <1>2, RegisterHealthy, ScriptAssumption
<1>4. /\ d.instruments = {ScriptInstruments[k] : k \in DOMAIN ScriptInstruments}
      /\ d.points = c.points /\ d.plannedDate = c.plannedDate
      /\ d.status \in {"Ready", c.status}
  BY <1>1, RegisterFrame DEF CampaignFields
<1> HIDE DEF d
<1>5. Readiness(d.points, d.instruments, d.plannedDate).ready
  <2> DEFINE required == {p.metric : p \in d.points}
             covered == {m \in required : \E i \in d.instruments :
                           InService(i, d.plannedDate) /\ m \in i.coveredMetrics}
  <2>1. ASSUME NEW p \in c.points
        PROVE  \E i \in d.instruments : InService(i, d.plannedDate) /\ p.metric \in i.coveredMetrics
    BY <1>4 DEF Fits, ScriptFits
  <2>2. required = covered /\ required # {}
    BY <1>1, <1>4, <2>1
  <2>3. QED
    BY <2>2 DEF Readiness
<1>6. d.status # "Draft"
  BY <1>3, <1>5 DEF Healthy, Summed, LeftDraft
<1>7. QED
  BY <1>2, <1>4, <1>6 DEF d

\* Its round is admissible as the first of the campaign.
LEMMA ScriptRecords ==
  ASSUME NEW c, Healthy(c), Fits(c), c.status = "Ready", c.rounds = << >>
  PROVE  /\ CanAddRound(c, ScriptRound, Engineer)
         /\ AddRound(c, ScriptRound).status = "Executing"
         /\ DOMAIN AddRound(c, ScriptRound).findings = {}
<1> DEFINE d == AddRound(c, ScriptRound)
<1>1. DOMAIN c = CampaignFields /\ DOMAIN c.findings = {}
  BY DEF Healthy, Sound, WellTyped, StatusFits
<1>2. RoundIdsOf(c.rounds) = {} /\ SamplesOf(c.rounds) = {} /\ Open(c) = {}
  BY <1>1 DEF RoundIdsOf, SamplesOf, Open
<1>3. CanAddRound(c, ScriptRound, Engineer)
  BY <1>2 DEF Fits, ScriptFits, CanAddRound, RemediationMode, SamplesAdmissible
<1>4. Closed(c, ScriptRound).findings =
        [f \in DOMAIN c.findings |->
           IF f \in ClosedBy(c, ScriptRound) THEN Remedied(c.findings[f], ScriptRound.id)
                                             ELSE c.findings[f]]
  BY <1>1, ClosedFrame
<1>5. DOMAIN Closed(c, ScriptRound).findings = {}
  BY <1>1, <1>4
<1>6. Open(Closed(c, ScriptRound)) = {}
  BY <1>5 DEF Open
<1>7. d.status = "Executing" /\ d.findings = Closed(c, ScriptRound).findings
  BY <1>1, <1>6, AddRoundFrame
<1>8. QED
  BY <1>3, <1>5, <1>7

\* What counts after the script's round is what it measured.
LEMMA ScriptMeasures ==
  ASSUME NEW point, ScriptRound.kind = "Routine"
  PROVE  Effective(<<ScriptRound>>, point) =
           {[sample |-> s, round |-> 1] : s \in {t \in ScriptRound.samples : t.point = point}}
<1>1. << >> \in Seq(Round) /\ ScriptRound \in Round /\ Len(<< >>) = 0
  BY ScriptAssumption
<1>2. Append(<< >>, ScriptRound) = <<ScriptRound>>
  OBVIOUS
<1>3. Effective(<< >>, point) = {}
  <2>1. ASSUME NEW e \in Effective(<< >>, point) PROVE FALSE
    <3>1. e.round \in 1 .. Len(<< >>)
      BY <1>1, EffectiveShape
    <3>2. QED
      BY <1>1, <3>1
  <2>2. QED
    BY <2>1
<1>4. LET n == Len(<< >>) + 1
          discards == ScriptRound.kind = "Remediation" /\ Covers(ScriptRound, point)
      IN Effective(Append(<< >>, ScriptRound), point) =
           (IF discards THEN {} ELSE Effective(<< >>, point))
             \cup {[sample |-> s, round |-> n] : s \in {t \in ScriptRound.samples : t.point = point}}
  BY <1>1, EffectiveAppend
<1>5. QED
  BY <1>1, <1>2, <1>3, <1>4

\* Its samples are all the plan asks for and within the limits.
LEMMA ScriptRaisesNothing ==
  ASSUME NEW date, NEW points \in SUBSET Point, NEW batch, ScriptFits(date, points)
  PROVE  Raised(points, <<ScriptRound>>, batch) = {}
<1> DEFINE rounds == <<ScriptRound>>
<1>1. ScriptRound.kind = "Routine" /\ ScriptRound.samples \subseteq Sample
  BY ScriptAssumption DEF ScriptFits, Round
<1>2. ASSUME NEW p \in points PROVE MissingFindings(rounds, p, batch) = {}
  <2>1. ASSUME NEW r \in 1 .. p.required PROVE r \in Collected(rounds, p)
    <3>1. PICK s \in ScriptRound.samples : s.point = p.id /\ s.replicate = r
      BY DEF ScriptFits
    <3>2. [sample |-> s, round |-> 1] \in Effective(rounds, p.id)
      BY <1>1, <3>1, ScriptMeasures
    <3>3. [sample |-> s, round |-> 1].sample.replicate = r
      BY <3>1
    <3>4. QED
      BY <2>1, <3>2, <3>3 DEF Collected
  <2>2. QED
    BY <2>1 DEF MissingFindings, MissingReplicates
<1>3. ASSUME NEW p \in points PROVE LimitFindings(rounds, p, batch) = {}
  <2> DEFINE checked == {x \in ByReplicate(rounds, p.id) : x.sample.replicate \in 1 .. p.required}
             Of(x) == {[batch |-> batch, point |-> p.id, code |-> code, round |-> {rounds[x.round].id},
                        samples |-> {x.sample.id}, missing |-> {}]
                         : code \in Violations(p, x.sample.value)}
  <2>1. ASSUME NEW e \in checked PROVE Violations(p, e.sample.value) = {}
    <3>1. e \in Effective(rounds, p.id)
      BY DEF ByReplicate
    <3>2. PICK s \in ScriptRound.samples : s.point = p.id /\ e = [sample |-> s, round |-> 1]
      BY <1>1, <3>1, ScriptMeasures
    <3>3. WithinLimits(p, s.value) /\ s.value \in Int
      BY <1>1, <3>2 DEF ScriptFits, Sample
    <3>4. p.lower \subseteq Int /\ p.upper \subseteq Int
      BY DEF Point, Optional
    <3>5. e.sample.value = s.value
      BY <3>2
    <3>6. ~(\E l \in p.lower : s.value < l) /\ ~(\E u \in p.upper : s.value > u)
      BY <3>3, <3>4 DEF WithinLimits
    <3>7. QED
      BY <3>5, <3>6 DEF Violations
  <2>2. LimitFindings(rounds, p, batch) = UNION {Of(x) : x \in checked}
    BY DEF LimitFindings
  <2>3. \A x \in checked : Of(x) = {}
    BY <2>1
  <2> HIDE DEF checked, Of
  <2>4. QED
    BY <2>2, <2>3
<1> HIDE DEF rounds
<1>4. Raised(points, rounds, batch) = {}
  BY <1>2, <1>3 DEF Raised
<1>5. QED
  BY <1>4 DEF rounds

LEMMA ScriptReviewed ==
  ASSUME NEW c, Healthy(c), Fits(c), c.status = "Executing", c.rounds = <<ScriptRound>>,
         DOMAIN c.findings = {}
  PROVE  /\ CanSubmitForReview(c)
         /\ SubmitForReview(c).status = "ReviewPending"
         /\ DOMAIN SubmitForReview(c).findings = {}
<1>1. DOMAIN c = CampaignFields /\ c.points \in SUBSET Point
  BY DEF Healthy, Sound, WellTyped
<1>2. CanSubmitForReview(c)
  BY DEF CanSubmitForReview, Open
<1>3. Raised(c.points, c.rounds, c.version) = {}
  BY <1>1, ScriptRaisesNothing DEF Fits
<1>4. /\ SubmitForReview(c).status = "ReviewPending"
      /\ SubmitForReview(c).findings =
           [f \in (DOMAIN c.findings) \cup Raised(c.points, c.rounds, c.version) |->
              IF f \in DOMAIN c.findings THEN c.findings[f] ELSE Undecided]
  BY <1>1, SubmitFrame
<1>5. QED
  BY <1>2, <1>3, <1>4

LEMMA ScriptFreezes ==
  ASSUME NEW c, Healthy(c), c.status = "ReviewPending", DOMAIN c.findings = {}
  PROVE  CanFreeze(c)
BY DecidedReviewFreezes DEF Pending, Healthy, Regular

LEMMA ScriptCertifies ==
  ASSUME NEW c, Healthy(c), c.status = "Frozen", NEW issuedBy, NEW k \in Issue(c, issuedBy)
  PROVE  CanIssue(c) /\ CanCertify(c, k)
<1>1. /\ c.manifestHash # {} /\ c.frozenVersion \in 1 .. c.version
      /\ c.version \in Nat /\ c.credential = {}
  BY DEF Healthy, Sound, WellTyped, Summed, ReleaseFits, IsFrozen, SealHolds
<1>2. c.manifestHash = {RecalculatedHash(c)}
  BY DEF Healthy, SealHolds, IsFrozen
<1>3. CanIssue(c)
  BY <1>1 DEF CanIssue
<1>4. QED
  BY <1>1, <1>2, <1>3 DEF Issue, CanCertify

\* What an undisturbed script has achieved by its next request.
Reached(s, status, n) == step = s => campaign.status = status /\ Len(events) = n

Quiet ==
    /\ step # "failed" /\ seen = campaign.version
    /\ Fits(campaign) /\ DOMAIN campaign.findings = {}
    /\ Reached("instruments", "Draft", 1)
    /\ Reached("round", "Ready", 2)
    /\ Reached("review", "Executing", 3)
    /\ Reached("preflight", "ReviewPending", 4)
    /\ Reached("freeze", "ReviewPending", 4)
    /\ step = "freeze" => hash = {Hash(campaign)}
    /\ Reached("issue", "Frozen", 5)
    /\ Reached("verify", "Certified", 6)
    /\ Reached("timeline", "Certified", 6)

PassInv == SelfInv /\ events \in Seq({"script", "other"}) /\ (Disturbed \/ Quiet)

LEMMA PassInitially == SelfInit => PassInv
<1> SUFFICES ASSUME SelfInit PROVE PassInv
  OBVIOUS
<1>1. PICK plan \in Plans :
        CanCreate(plan.points) /\ campaign = NewCampaign(plan.id, plan.plannedDate, plan.points)
  BY DEF SelfInit, Init
<1>2. Fits(campaign)
  <2>1. campaign.plannedDate = plan.plannedDate /\ campaign.points = PointsOf(plan)
    BY <1>1 DEF NewCampaign, PointsOf
  <2>2. QED
    BY <1>1, <2>1, ScriptFitsAssumption DEF Fits
<1>3. /\ DOMAIN campaign.findings = {}
      /\ campaign.status = "Draft" /\ campaign.version = 1
  BY <1>1 DEF NewCampaign
<1>4. PICK creator \in {"script", "other"} :
        events = <<creator>> /\ step = IF creator = "script" THEN "instruments" ELSE "failed"
  BY DEF SelfInit
<1>5. events \in Seq({"script", "other"}) /\ Len(events) = 1
  BY <1>4
<1>6. CASE creator = "script"
  <2>1. step = "instruments" /\ seen = campaign.version
    BY <1>3, <1>4, <1>6 DEF SelfInit
  <2>2. Quiet
    BY <1>2, <1>3, <1>5, <2>1 DEF Quiet, Reached
  <2>3. QED
    BY <1>5, <2>2, SelfInitially DEF PassInv
<1>7. CASE creator = "other"
  <2>1. 1 \in DOMAIN events /\ events[1] = "other"
    BY <1>4, <1>7
  <2>2. QED
    BY <1>5, <2>1, SelfInitially DEF PassInv, Disturbed
<1>8. QED
  BY <1>6, <1>7

\* What was disturbed stays so.
LEMMA StaysDisturbed ==
  ASSUME events \in Seq({"script", "other"}), SelfNext
  PROVE  /\ events' \in Seq({"script", "other"})
         /\ Disturbed => Disturbed'
<1>1. /\ events' = events \/ \E by \in {"script", "other"} : events' = Append(events, by)
      /\ late => late'
  <2>1. CASE Script
    <3>1. late' = late
      BY <2>1 DEF Script
    <3>2. events' = events \/ events' = Append(events, "script")
      BY <2>1 DEF Script, PostInstruments, PostRound, PostReview, GetPreflight, PostFreeze,
                  PostIssue, GetVerification, GetTimeline, Post, Refused
    <3>3. QED
      BY <3>1, <3>2
  <2>2. CASE TimeOut
    BY <2>2 DEF TimeOut
  <2>3. CASE Others
    <3>1. late' = late
      BY <2>3 DEF Others
    <3>2. events' = events \/ events' = Append(events, "other")
      BY <2>3 DEF Others
    <3>3. QED
      BY <3>1, <3>2
  <2>4. QED
    BY <2>1, <2>2, <2>3 DEF SelfNext
<1>2. CASE events' = events
  BY <1>1, <1>2 DEF Disturbed
<1>3. ASSUME NEW by \in {"script", "other"}, events' = Append(events, by)
      PROVE  /\ events' \in Seq({"script", "other"})
             /\ \A i \in DOMAIN events : i \in DOMAIN events' /\ events'[i] = events[i]
  <2>1. events' \in Seq({"script", "other"}) /\ Len(events') = Len(events) + 1
    BY <1>3
  <2>2. \A i \in 1 .. Len(events) : events'[i] = events[i]
    BY <1>3
  <2>3. QED
    BY <2>1, <2>2
<1>4. QED
  BY <1>1, <1>2, <1>3 DEF Disturbed

LEMMA OthersDisturb ==
  ASSUME events \in Seq({"script", "other"}), events' = Append(events, "other")
  PROVE  Disturbed'
<1>1. Len(events) + 1 \in DOMAIN events' /\ events'[Len(events) + 1] = "other"
  OBVIOUS
<1>2. QED
  BY <1>1 DEF Disturbed

\* Each request of an undisturbed script is answered as the script expects.
LEMMA ScriptAdvances ==
  ASSUME SelfInv, events \in Seq({"script", "other"}), Quiet, Script
  PROVE  Quiet'
<1> DEFINE c == campaign
<1>1. /\ Healthy(c) /\ DOMAIN c = CampaignFields /\ seen = c.version /\ Current
      /\ Fits(c) /\ DOMAIN c.findings = {} /\ Left(c)
  BY DEF SelfInv, Healthy, Sound, WellTyped, Quiet, Current
<1>2. Len(Append(events, "script")) = Len(events) + 1 /\ Len(events) \in Nat
  OBVIOUS
<1>3. CASE PostInstruments
  <2> DEFINE d == RegisterInstruments(c, ScriptInstruments)
  <2>1. step = "instruments" /\ c.status = "Draft" /\ Len(events) = 1 /\ c.instruments = {}
    BY <1>1, <1>3 DEF PostInstruments, Quiet, Reached, Left
  <2>2. CanRegisterInstruments(c, ScriptInstruments) /\ d.status = "Ready"
    BY <1>1, <2>1, ScriptRegisters
  <2>3. /\ campaign' = d /\ seen' = d.version /\ events' = Append(events, "script")
        /\ step' = "round"
    BY <1>1, <1>3, <2>2 DEF PostInstruments, Post, Goto
  <2>4. d.points = c.points /\ d.plannedDate = c.plannedDate /\ d.findings = c.findings
    BY <1>1, RegisterFrame DEF CampaignFields
  <2> HIDE DEF d, c
  <2>5. QED
    BY <1>1, <1>2, <2>1, <2>2, <2>3, <2>4 DEF Quiet, Reached, Fits
<1>4. CASE PostRound
  <2> DEFINE d == AddRound(c, ScriptRound)
  <2>1. step = "round" /\ c.status = "Ready" /\ Len(events) = 2 /\ c.rounds = << >>
    BY <1>1, <1>4 DEF PostRound, Quiet, Reached, Left
  <2>2. /\ CanAddRound(c, ScriptRound, Engineer)
        /\ d.status = "Executing" /\ DOMAIN d.findings = {}
    BY <1>1, <2>1, ScriptRecords
  <2>3. /\ campaign' = d /\ seen' = d.version /\ events' = Append(events, "script")
        /\ step' = "review"
    BY <1>1, <1>4, <2>2 DEF PostRound, Post, Goto
  <2>4. d.points = c.points /\ d.plannedDate = c.plannedDate
    BY <1>1, AddRoundFrame DEF CampaignFields
  <2> HIDE DEF d, c
  <2>5. QED
    BY <1>1, <1>2, <2>1, <2>2, <2>3, <2>4 DEF Quiet, Reached, Fits
<1>5. CASE PostReview
  <2> DEFINE d == SubmitForReview(c)
  <2>1. step = "review" /\ c.status = "Executing" /\ Len(events) = 3 /\ c.rounds = <<ScriptRound>>
    BY <1>1, <1>5 DEF PostReview, Quiet, Reached, Left
  <2>2. CanSubmitForReview(c) /\ d.status = "ReviewPending" /\ DOMAIN d.findings = {}
    BY <1>1, <2>1, ScriptReviewed
  <2>3. /\ campaign' = d /\ seen' = d.version /\ events' = Append(events, "script")
        /\ step' = "preflight"
    BY <1>1, <1>5, <2>2 DEF PostReview, Post, Goto
  <2>4. d.points = c.points /\ d.plannedDate = c.plannedDate
    <3>1. LET x == SubmitForReview(c)
          IN \A g \in CampaignFields \ {"status", "version", "readiness", "progress",
                                        "currentBatch", "findings", "batches"} : x[g] = c[g]
      BY <1>1, SubmitFrame
    <3>2. QED
      BY <3>1 DEF CampaignFields
  <2> HIDE DEF d, c
  <2>5. QED
    BY <1>1, <1>2, <2>1, <2>2, <2>3, <2>4 DEF Quiet, Reached, Fits
<1>6. CASE GetPreflight
  <2>1. step = "preflight" /\ c.status = "ReviewPending" /\ Len(events) = 4
    BY <1>6 DEF GetPreflight, Quiet, Reached
  <2>2. FreezeBlockers(c, FALSE) = {}
    BY <1>1, <2>1, ScriptFreezes DEF CanFreeze
  <2>3. hash' = {Hash(c)} /\ step' = "freeze" /\ UNCHANGED <<campaign, seen, events>>
    BY <1>1, <1>6, <2>2 DEF GetPreflight
  <2>4. QED
    BY <1>1, <2>1, <2>3 DEF Quiet, Reached, Fits
<1>7. CASE PostFreeze
  <2> DEFINE d == Freeze(c, Hash(c))
  <2>1. step = "freeze" /\ c.status = "ReviewPending" /\ Len(events) = 4 /\ hash = {Hash(c)}
    BY <1>7 DEF PostFreeze, Quiet, Reached
  <2>2. CanFreeze(c)
    BY <1>1, <2>1, ScriptFreezes
  <2>3. /\ d.status = "Frozen" /\ d.manifestHash = {Hash(c)}
        /\ d.points = c.points /\ d.plannedDate = c.plannedDate /\ d.findings = c.findings
    BY <1>1, FreezeFrame DEF CampaignFields
  <2>4. /\ campaign' = d /\ seen' = d.version /\ events' = Append(events, "script")
        /\ step' = "issue"
    BY <1>1, <1>7, <2>1, <2>2, <2>3 DEF PostFreeze, Post, Goto
  <2> HIDE DEF d, c
  <2>5. QED
    BY <1>1, <1>2, <2>1, <2>3, <2>4 DEF Quiet, Reached, Fits
<1>8. CASE PostIssue
  <2>1. step = "issue" /\ c.status = "Frozen" /\ Len(events) = 5
    BY <1>8 DEF PostIssue, Quiet, Reached
  <2>2. PICK issuedBy \in Actors : \E k \in Issue(c, issuedBy) :
          LET after == Certify(c, k)
          IN Post(CanIssue(c) /\ CanCertify(c, k), after, after.status = "Certified", "verify")
    BY <1>8 DEF PostIssue
  <2>3. PICK k \in Issue(c, issuedBy) :
          LET after == Certify(c, k)
          IN Post(CanIssue(c) /\ CanCertify(c, k), after, after.status = "Certified", "verify")
    BY <2>2
  <2> DEFINE d == Certify(c, k)
  <2>4. /\ d.status = "Certified"
        /\ d.points = c.points /\ d.plannedDate = c.plannedDate /\ d.findings = c.findings
    BY <1>1, CertifyFrame DEF CampaignFields
  <2>5. CanIssue(c) /\ CanCertify(c, k)
    BY <1>1, <2>1, ScriptCertifies
  <2>6. /\ campaign' = d /\ seen' = d.version /\ events' = Append(events, "script")
        /\ step' = "verify"
    BY <1>1, <2>3, <2>4, <2>5 DEF Post, Goto
  <2> HIDE DEF d, c
  <2>7. QED
    BY <1>1, <1>2, <2>1, <2>4, <2>6 DEF Quiet, Reached, Fits
<1>9. CASE GetVerification
  <2>1. step = "verify" /\ c.status = "Certified" /\ Len(events) = 6
    BY <1>9 DEF GetVerification, Quiet, Reached
  <2>2. VerifyDetailed(c, FALSE, FALSE) = {}
    BY <1>1, <2>1, SealedCampaignVerifies DEF Healthy, IsFrozen
  <2>3. step' = "timeline" /\ UNCHANGED <<campaign, seen, hash, events>>
    BY <1>9, <2>2 DEF GetVerification, Goto
  <2>4. QED
    BY <1>1, <2>1, <2>3 DEF Quiet, Reached, Fits
<1>10. CASE GetTimeline
  <2>1. step = "timeline" /\ Len(events) = 6
    BY <1>10 DEF GetTimeline, Quiet, Reached
  <2>2. step' = "passed" /\ UNCHANGED <<campaign, seen, hash, events>>
    BY <1>10, <2>1 DEF GetTimeline, Goto
  <2>3. QED
    BY <1>1, <2>2 DEF Quiet, Reached, Fits
<1>11. QED
  BY <1>3, <1>4, <1>5, <1>6, <1>7, <1>8, <1>9, <1>10 DEF Script

\* If nobody else works on its campaign and every answer comes in time, the self check
\* passes: the rules refuse nothing it asks for, the freeze and the credential succeed,
\* the verification is valid and the timeline has its six events (selfcheck.go).  That
\* its evidence suits its plan is ScriptFitsAssumption.
THEOREM SelfCheckPasses == SelfSpec => []FailsOnlyIfDisturbed
<1>1. PassInv /\ [SelfNext]_selfVars => PassInv'
  <2> SUFFICES ASSUME PassInv, [SelfNext]_selfVars PROVE PassInv'
    OBVIOUS
  <2>0. SelfInv /\ events \in Seq({"script", "other"})
    BY DEF PassInv
  <2>1. SelfInv'
    BY <2>0, SelfStep
  <2>2. CASE UNCHANGED selfVars
    <3>1. UNCHANGED <<Quiet, Disturbed, events>>
      BY <2>2 DEF selfVars, Quiet, Reached, Disturbed
    <3>2. QED
      BY <2>1, <3>1 DEF PassInv
  <2>3. CASE SelfNext
    <3>1. events' \in Seq({"script", "other"}) /\ (Disturbed => Disturbed')
      BY <2>0, <2>3, StaysDisturbed
    <3>2. CASE Quiet /\ TimeOut
      BY <2>1, <3>1, <3>2 DEF TimeOut, PassInv, Disturbed
    <3>3. CASE Quiet /\ Others /\ campaign' = campaign
      <4>1. UNCHANGED <<campaign, step, seen, hash, events>>
        BY <3>3 DEF Others
      <4>2. Quiet'
        BY <3>3, <4>1 DEF Quiet, Reached
      <4>3. QED
        BY <2>1, <3>1, <4>2 DEF PassInv
    <3>4. CASE Quiet /\ Others /\ campaign' # campaign
      <4>1. Disturbed'
        BY <2>0, <3>4, OthersDisturb DEF Others
      <4>2. QED
        BY <2>1, <3>1, <4>1 DEF PassInv
    <3>5. CASE Quiet /\ Script
      BY <2>0, <2>1, <3>1, <3>5, ScriptAdvances DEF PassInv
    <3>6. QED
      BY <2>1, <2>3, <3>1, <3>2, <3>3, <3>4, <3>5 DEF PassInv, SelfNext
  <2>4. QED
    BY <2>2, <2>3
<1>2. PassInv => FailsOnlyIfDisturbed
  BY DEF PassInv, Quiet, FailsOnlyIfDisturbed
<1>3. QED
  BY <1>1, <1>2, PassInitially, PTL DEF SelfSpec
===============================================================================
