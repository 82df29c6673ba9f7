------------------------------ MODULE DamageProofs ------------------------------
(***************************************************************************)
(* Verification reports what was altered behind the service's back, and    *)
(* nothing else.  The argument: every alteration takes something away that *)
(* no later alteration can bring back (a round, a measured value other     *)
(* than 0, an instrument, a row, a decision that was not an acceptance),   *)
(* so that two of them never add up to what was sealed.                    *)
(***************************************************************************)
EXTENDS Damage, MonitoringProofs, SequenceTheorems

-------------------------------------------------------------------------------
(* What an alteration takes away *)

\* Some round or some value of the earlier rounds is gone.
RoundsLost(after, before) ==
    \/ Len(after) < Len(before)
    \/ \E i \in DOMAIN after : \E s \in before[i].samples : s.value # 0 /\ s \notin after[i].samples

EvidenceLost(after, before) ==
    \/ RoundsLost(after.rounds, before.rounds)
    \/ \E i \in before.instruments : i \notin after.instruments
    \/ \E f \in DOMAIN before.findings :
         /\ f \in DOMAIN after.findings
         /\ before.findings[f].decision # "Accepted" /\ after.findings[f].decision = "Accepted"

SetTables == {"points", "instruments", "batches", "findings"}

RowsLost(after, before) ==
    \/ RoundsLost(after.rounds, before.rounds)
    \/ \E t \in SetTables : \E x \in before[t] : x \notin after[t]

LEMMA LossShows ==
  ASSUME NEW after, NEW before, RoundsLost(after, before),
         Len(after) \in Nat, Len(before) \in Nat
  PROVE  after # before
<1>1. CASE Len(after) < Len(before)
  BY <1>1
<1>2. CASE \E i \in DOMAIN after :
             \E s \in before[i].samples : s.value # 0 /\ s \notin after[i].samples
  BY <1>2
<1>3. QED
  BY <1>1, <1>2 DEF RoundsLost

LEMMA FalsifiedLoses ==
  ASSUME NEW rounds \in Seq(Round), NEW worse \in Falsified(rounds)
  PROVE  /\ worse \in Seq(Round)
         /\ Len(worse) <= Len(rounds)
         /\ RoundsLost(worse, rounds)
         /\ \A before : /\ Len(before) \in Nat /\ Len(rounds) <= Len(before)
                        /\ RoundsLost(rounds, before)
                        => RoundsLost(worse, before)
<1> DEFINE last == Len(rounds)
           shorter == SubSeq(rounds, 1, last - 1)
           false(s) == [rounds EXCEPT ![last].samples = (@ \ {s}) \cup {[s EXCEPT !.value = 0]}]
<1>1. last \in Nat /\ last # 0
  BY DEF Falsified
<1>2. CASE worse = shorter
  <2>1. worse \in Seq(Round) /\ Len(worse) = last - 1
    <3>1. 1 \in Int /\ last - 1 \in Int /\ \A i \in 1 .. last - 1 : rounds[i] \in Round
      BY <1>1
    <3>2. /\ shorter \in Seq(Round)
          /\ Len(shorter) = IF 1 <= last - 1 THEN (last - 1) - 1 + 1 ELSE 0
      BY <3>1, SubSeqProperties
    <3>3. ASSUME NEW n \in Nat, n # 0 PROVE (IF 1 <= n - 1 THEN (n - 1) - 1 + 1 ELSE 0) = n - 1
      BY <3>3
    <3>4. Len(shorter) = last - 1
      BY <1>1, <3>2, <3>3
    <3>5. QED
      BY <1>2, <3>2, <3>4
  <2>2. QED
    BY <1>1, <2>1 DEF RoundsLost
<1>3. ASSUME NEW s \in rounds[last].samples, s.value # 0, worse = false(s)
      PROVE  /\ worse \in Seq(Round)
             /\ Len(worse) <= Len(rounds)
             /\ RoundsLost(worse, rounds)
             /\ \A before : /\ Len(before) \in Nat /\ Len(rounds) <= Len(before)
                            /\ RoundsLost(rounds, before)
                            => RoundsLost(worse, before)
  <2> DEFINE zero == [s EXCEPT !.value = 0]
             left == (rounds[last].samples \ {s}) \cup {zero}
             round == [rounds[last] EXCEPT !.samples = left]
  <2>1. last \in 1 .. Len(rounds) /\ rounds[last] \in Round
    BY <1>1
  <2>2. s \in Sample
    BY <1>3, <2>1 DEF Round
  <2>3. zero \in Sample /\ zero.value = 0
    BY <2>2 DEF Sample
  <2>4. left \subseteq Sample
    BY <2>1, <2>3 DEF Round
  <2>5. round \in Round /\ round.samples = left
    BY <2>1, <2>4 DEF Round
  <2>6. worse = [rounds EXCEPT ![last] = round]
    BY <1>3, <2>1
  <2> HIDE DEF round
  <2>7. worse \in Seq(Round) /\ Len(worse) = last /\ DOMAIN worse = 1 .. last /\ DOMAIN rounds = 1 .. last
    BY <1>1, <2>5, <2>6
  <2>8. worse[last].samples = left /\ \A i \in 1 .. last : i # last => worse[i] = rounds[i]
    BY <2>1, <2>5, <2>6
  <2> HIDE DEF left
  <2>9. s \notin left /\ \A t \in left : t.value # 0 => t \in rounds[last].samples
    BY <1>3, <2>3 DEF left
  <2>10. RoundsLost(worse, rounds)
    BY <1>3, <2>1, <2>7, <2>8, <2>9 DEF RoundsLost
  <2>11. ASSUME NEW before, Len(before) \in Nat, Len(rounds) <= Len(before),
                RoundsLost(rounds, before)
         PROVE  RoundsLost(worse, before)
    <3>1. CASE Len(rounds) < Len(before)
      BY <2>7, <3>1 DEF RoundsLost
    <3>2. ASSUME NEW i \in DOMAIN rounds, NEW t \in before[i].samples,
                 t.value # 0, t \notin rounds[i].samples
          PROVE  RoundsLost(worse, before)
      <4>1. t \notin worse[i].samples
        <5>1. CASE i = last
          BY <2>8, <2>9, <3>2, <5>1
        <5>2. CASE i # last
          BY <2>7, <2>8, <3>2, <5>2
        <5>3. QED
          BY <5>1, <5>2
      <4>2. QED
        BY <2>7, <3>2, <4>1 DEF RoundsLost
    <3>3. QED
      BY <2>11, <3>1, <3>2 DEF RoundsLost
  <2>12. QED
    BY <2>7, <2>10, <2>11
<1>4. worse = shorter \/ \E s \in rounds[last].samples : s.value # 0 /\ worse = false(s)
  BY <1>1 DEF Falsified
<1> HIDE DEF shorter, false
<1>5. QED
  BY <1>2, <1>3, <1>4

-------------------------------------------------------------------------------
(* The invariant *)

Stored(c) ==
    /\ DOMAIN c = CampaignFields
    /\ c.version \in Nat
    /\ c.frozenVersion \in Nat
    /\ c.rounds \in Seq(Round)
    /\ c.findings \in [DOMAIN c.findings -> Disposition]

RowFields == SetTables \cup {"rounds", "credential"}

\* Since the freeze the aggregate is what was hashed, or has lost some of it.
SealTells(c, S) ==
    IsFrozen(c.status) =>
      \E h \in c.manifestHash :
        /\ c.manifestHash = {h}
        /\ Len(h.rounds) \in Nat /\ Len(c.rounds) <= Len(h.rounds)
        /\ IF "aggregate" \in S THEN EvidenceLost(c, h) ELSE RecalculatedHash(c) = h

\* While the aggregate is what was frozen, the rows are its rows, or have lost some.
RowsTell(c, r, S) ==
    IsFrozen(c.status) /\ "aggregate" \notin S =>
      /\ Len(r.rounds) <= Len(c.rounds)
      /\ IF "rows" \in S THEN RowsLost(r, ExpectedEvidenceRows(c))
         ELSE \A t \in SetTables \cup {"rounds"} : r[t] = ExpectedEvidenceRows(c)[t]

\* There is one since it was issued; its row is the credential, is gone, or names a version that never was frozen.
CredentialTells(c, r, S) ==
    IF c.status # "Certified" THEN c.credential = {}
    ELSE
      /\ \E k \in c.credential : c.credential = {k} /\ GoodCredential(c, k)
      /\ \A k \in r.credential : "frozenVersion" \in DOMAIN k /\ k.frozenVersion \in Nat
      /\ IF "credential" \in S THEN \A k \in r.credential : k.frozenVersion > c.frozenVersion
         ELSE r.credential = c.credential

CandidateTells(c, candidates) ==
    /\ \A k, l \in candidates : k = l
    /\ IsFrozen(c.status) => \A k \in candidates : c.manifestHash = {k.hash}

DInv ==
    /\ Stored(campaign)
    /\ DOMAIN rows = RowFields
    /\ rows.rounds \in Seq(Round)
    /\ SealTells(campaign, altered)
    /\ RowsTell(campaign, rows, altered)
    /\ CredentialTells(campaign, rows, altered)
    /\ CandidateTells(campaign, candidate)

-------------------------------------------------------------------------------
(* One alteration of the aggregate *)

\* What was altered once more: d lacks what c lacked, and more.
Worse(d, c) ==
    /\ Stored(d)
    /\ \A g \in CampaignFields \ {"rounds", "instruments", "findings"} : d[g] = c[g]
    /\ Len(d.rounds) <= Len(c.rounds)
    /\ EvidenceLost(d, c)
    /\ \A h : Len(h.rounds) \in Nat /\ Len(c.rounds) <= Len(h.rounds) /\ EvidenceLost(c, h)
                => EvidenceLost(d, h)

LEMMA RoundsWorse ==
  ASSUME NEW c, Stored(c), NEW worse \in Falsified(c.rounds)
  PROVE  Worse([c EXCEPT !.rounds = worse], c)
<1> DEFINE d == [c EXCEPT !.rounds = worse]
<1>1. /\ DOMAIN d = CampaignFields
      /\ d.rounds = worse
      /\ \A g \in CampaignFields \ {"rounds"} : d[g] = c[g]
  BY DEF Stored, CampaignFields
<1>2. /\ d.version = c.version /\ d.frozenVersion = c.frozenVersion
      /\ d.findings = c.findings /\ d.instruments = c.instruments
  BY <1>1 DEF CampaignFields
<1> HIDE DEF d
<1>3. c.rounds \in Seq(Round)
  BY DEF Stored
<1>4. /\ worse \in Seq(Round) /\ Len(worse) <= Len(c.rounds) /\ RoundsLost(worse, c.rounds)
      /\ \A before : /\ Len(before) \in Nat /\ Len(c.rounds) <= Len(before)
                     /\ RoundsLost(c.rounds, before)
                     => RoundsLost(worse, before)
  BY <1>3, FalsifiedLoses
<1>5. Stored(d)
  BY <1>1, <1>2, <1>4 DEF Stored
<1>6. ASSUME NEW h, Len(h.rounds) \in Nat, Len(c.rounds) <= Len(h.rounds), EvidenceLost(c, h)
      PROVE  EvidenceLost(d, h)
  BY <1>1, <1>2, <1>4, <1>6 DEF EvidenceLost
<1>7. EvidenceLost(d, c)
  BY <1>1, <1>4 DEF EvidenceLost
<1>8. Worse(d, c)
  BY <1>1, <1>4, <1>5, <1>6, <1>7 DEF Worse
<1>9. QED
  BY <1>8 DEF d

LEMMA InstrumentsWorse ==
  ASSUME NEW c, Stored(c), NEW worse \in OneLess(c.instruments)
  PROVE  Worse([c EXCEPT !.instruments = worse], c)
<1> DEFINE d == [c EXCEPT !.instruments = worse]
<1>1. /\ DOMAIN d = CampaignFields
      /\ d.instruments = worse
      /\ \A g \in CampaignFields \ {"instruments"} : d[g] = c[g]
  BY DEF Stored, CampaignFields
<1>2. /\ d.version = c.version /\ d.frozenVersion = c.frozenVersion
      /\ d.findings = c.findings /\ d.rounds = c.rounds
  BY <1>1 DEF CampaignFields
<1> HIDE DEF d
<1>3. PICK x \in c.instruments : worse = c.instruments \ {x}
  BY DEF OneLess
<1>4. Stored(d) /\ Len(d.rounds) <= Len(c.rounds)
  BY <1>1, <1>2 DEF Stored
<1>5. ASSUME NEW h, EvidenceLost(c, h) PROVE EvidenceLost(d, h)
  BY <1>1, <1>2, <1>3, <1>5 DEF EvidenceLost
<1>6. EvidenceLost(d, c)
  BY <1>1, <1>3 DEF EvidenceLost
<1>7. Worse(d, c)
  BY <1>1, <1>4, <1>5, <1>6 DEF Worse
<1>8. QED
  BY <1>7 DEF d

LEMMA FindingsWorse ==
  ASSUME NEW c, Stored(c), NEW f \in DOMAIN c.findings, NEW actor \in Actors,
         DecisionOf(c, f) # "Accepted",
         NEW d, d = [c EXCEPT !.findings[f].decision = "Accepted",
                              !.findings[f].decidedBy = {actor}]
  PROVE  Worse(d, c)
<1> DEFINE judged == Decided(c.findings[f], "Accepted", actor)
           findings == [c.findings EXCEPT ![f] = judged]
<1>1. c.findings \in [DOMAIN c.findings -> Disposition] /\ DOMAIN c = CampaignFields
  BY DEF Stored
<1>2. judged \in Disposition /\ judged.decision = "Accepted"
  BY <1>1, DispositionTyped DEF Decisions
<1>3. d = [c EXCEPT !.findings = findings]
  <2> DEFINE first == [c EXCEPT !.findings[f].decision = "Accepted"]
             accepted == [c.findings[f] EXCEPT !.decision = "Accepted"]
             middle == [c.findings EXCEPT ![f] = accepted]
  <2>1. first = [c EXCEPT !.findings = middle]
    OBVIOUS
  <2>2. DOMAIN first = CampaignFields /\ first.findings = middle
        /\ \A g \in CampaignFields \ {"findings"} : first[g] = c[g]
    BY <1>1, <2>1 DEF CampaignFields
  <2>3. middle[f] = accepted /\ DOMAIN middle = DOMAIN c.findings
        /\ \A g \in DOMAIN c.findings : g # f => middle[g] = c.findings[g]
    BY <1>1
  <2>4. [accepted EXCEPT !.decidedBy = {actor}] = judged
    BY DEF Decided
  <2>5. d = [first EXCEPT !.findings[f].decidedBy = {actor}]
    OBVIOUS
  <2> HIDE DEF first
  <2>6. d = [first EXCEPT !.findings = [first.findings EXCEPT ![f] =
               [first.findings[f] EXCEPT !.decidedBy = {actor}]]]
    BY <2>5
  <2>7. d = [first EXCEPT !.findings = [middle EXCEPT ![f] = judged]]
    BY <2>2, <2>3, <2>4, <2>6
  <2> HIDE DEF judged, accepted
  <2>8. [middle EXCEPT ![f] = judged] = findings
    OBVIOUS
  <2> HIDE DEF middle, findings
  <2>9. d = [first EXCEPT !.findings = findings]
    BY <2>7, <2>8
  <2>10. QED
    BY <2>1, <2>9
<1> HIDE DEF judged
<1>4. /\ findings \in [DOMAIN c.findings -> Disposition]
      /\ DOMAIN findings = DOMAIN c.findings
      /\ findings[f].decision = "Accepted"
      /\ \A g \in DOMAIN c.findings : g # f => findings[g] = c.findings[g]
  BY <1>1, <1>2
<1> HIDE DEF findings
<1>5. /\ DOMAIN d = CampaignFields
      /\ d.findings = findings
      /\ \A g \in CampaignFields \ {"findings"} : d[g] = c[g]
  BY <1>1, <1>3 DEF CampaignFields
<1>6. /\ d.version = c.version /\ d.frozenVersion = c.frozenVersion
      /\ d.instruments = c.instruments /\ d.rounds = c.rounds
  BY <1>5 DEF CampaignFields
<1>7. Stored(d) /\ Len(d.rounds) <= Len(c.rounds)
  <2>1. d.findings \in [DOMAIN d.findings -> Disposition]
    BY <1>4, <1>5
  <2>2. Len(c.rounds) \in Nat
    BY DEF Stored
  <2>3. QED
    BY <1>5, <1>6, <2>1, <2>2 DEF Stored
<1>8. ASSUME NEW h, EvidenceLost(c, h) PROVE EvidenceLost(d, h)
  <2>1. ASSUME NEW g \in DOMAIN h.findings, g \in DOMAIN c.findings,
               h.findings[g].decision # "Accepted", c.findings[g].decision = "Accepted"
        PROVE  g \in DOMAIN d.findings /\ d.findings[g].decision = "Accepted"
    BY <1>4, <1>5, <2>1
  <2>2. QED
    BY <1>6, <1>8, <2>1 DEF EvidenceLost
<1>9. EvidenceLost(d, c)
  BY <1>4, <1>5 DEF EvidenceLost, DecisionOf
<1>10. QED
  BY <1>5, <1>7, <1>8, <1>9 DEF Worse

LEMMA AggregateWorse ==
  ASSUME DamageAggregate, Stored(campaign)
  PROVE  /\ Worse(campaign', campaign)
         /\ altered' = altered \cup {"aggregate"}
         /\ UNCHANGED <<candidate, rows, stray>>
<1>1. CASE \E worse \in Falsified(campaign.rounds) :
             campaign' = [campaign EXCEPT !.rounds = worse]
  BY <1>1, RoundsWorse DEF DamageAggregate
<1>2. CASE \E worse \in OneLess(campaign.instruments) :
             campaign' = [campaign EXCEPT !.instruments = worse]
  BY <1>2, InstrumentsWorse DEF DamageAggregate
<1>3. CASE \E f \in DOMAIN campaign.findings, actor \in Actors :
             /\ DecisionOf(campaign, f) # "Accepted"
             /\ campaign' = [campaign EXCEPT !.findings[f].decision = "Accepted",
                                             !.findings[f].decidedBy = {actor}]
  BY <1>3, FindingsWorse DEF DamageAggregate
<1>4. QED
  BY <1>1, <1>2, <1>3 DEF DamageAggregate

\* What has lost evidence has another hash.
LEMMA LossChangesHash ==
  ASSUME NEW c, Stored(c), NEW h, Len(h.rounds) \in Nat, EvidenceLost(c, h)
  PROVE  RecalculatedHash(c) # h
<1>1. SUFFICES ASSUME RecalculatedHash(c) = h PROVE FALSE
  OBVIOUS
<1>2. h.rounds = c.rounds /\ h.instruments = c.instruments /\ h.findings = c.findings
  BY <1>1, RecalculatedManifest DEF Stored
<1>3. ~RoundsLost(c.rounds, h.rounds)
  BY <1>2, LossShows DEF Stored
<1>4. QED
  BY <1>2, <1>3 DEF EvidenceLost

-------------------------------------------------------------------------------
(* One alteration of the rows *)

LEMMA ExpectedRows ==
  ASSUME NEW c, NEW raised
  PROVE  /\ DOMAIN EvidenceRows(c, raised) = RowFields
         /\ EvidenceRows(c, raised).points = c.points
         /\ EvidenceRows(c, raised).instruments = c.instruments
         /\ EvidenceRows(c, raised).rounds = c.rounds
         /\ EvidenceRows(c, raised).batches = c.batches
         /\ EvidenceRows(c, raised).credential = c.credential
         /\ EvidenceRows(c, {}) = ExpectedEvidenceRows(c)
BY DEF EvidenceRows, ExpectedEvidenceRows, RowFields, SetTables

LEMMA TablesAre ==
  /\ \A i \in DOMAIN Tables : Tables[i] \in SetTables \cup {"rounds"}
  /\ \A t \in SetTables \cup {"rounds"} : \E i \in DOMAIN Tables : Tables[i] = t
<1>1. DOMAIN Tables = 1 .. 5
  BY DEF Tables
<1>2. /\ Tables[1] = "points" /\ Tables[2] = "instruments" /\ Tables[3] = "rounds"
      /\ Tables[4] = "batches" /\ Tables[5] = "findings"
  BY DEF Tables
<1>3. 1 \in 1 .. 5 /\ 2 \in 1 .. 5 /\ 3 \in 1 .. 5 /\ 4 \in 1 .. 5 /\ 5 \in 1 .. 5
  OBVIOUS
<1>4. \A i \in 1 .. 5 : i = 1 \/ i = 2 \/ i = 3 \/ i = 4 \/ i = 5
  OBVIOUS
<1>5. QED
  BY <1>1, <1>2, <1>3, <1>4 DEF SetTables

LEMMA RowsWorse ==
  ASSUME NEW r, DOMAIN r = RowFields, r.rounds \in Seq(Round),
         NEW t \in SetTables \cup {"rounds"},
         NEW worse \in IF t = "rounds" THEN Falsified(r.rounds) ELSE OneLess(r[t]),
         NEW q, q = [r EXCEPT ![t] = worse]
  PROVE  /\ DOMAIN q = RowFields /\ q.rounds \in Seq(Round) /\ q.credential = r.credential
         /\ Len(q.rounds) <= Len(r.rounds)
         /\ RowsLost(q, r)
         /\ \A e : /\ Len(e.rounds) \in Nat /\ Len(r.rounds) <= Len(e.rounds) /\ RowsLost(r, e)
                   => RowsLost(q, e)
<1>1. /\ DOMAIN q = RowFields /\ q[t] = worse
      /\ \A u \in RowFields : u # t => q[u] = r[u]
  BY DEF RowFields
<1>2. q.credential = r.credential
  BY <1>1 DEF RowFields, SetTables
<1>3. CASE t = "rounds"
  <2>1. /\ worse \in Seq(Round) /\ Len(worse) <= Len(r.rounds) /\ RoundsLost(worse, r.rounds)
        /\ \A before : /\ Len(before) \in Nat /\ Len(r.rounds) <= Len(before)
                       /\ RoundsLost(r.rounds, before)
                       => RoundsLost(worse, before)
    BY <1>3, FalsifiedLoses
  <2>2. q.rounds = worse /\ \A u \in SetTables : q[u] = r[u]
    BY <1>1, <1>3 DEF RowFields, SetTables
  <2>3. QED
    BY <1>1, <1>2, <2>1, <2>2 DEF RowsLost
<1>4. CASE t \in SetTables
  <2>1. q.rounds = r.rounds
    BY <1>1, <1>4 DEF RowFields, SetTables
  <2>2. PICK x \in r[t] : worse = r[t] \ {x}
    <3>1. t # "rounds"
      BY <1>4 DEF SetTables
    <3>2. QED
      BY <3>1 DEF OneLess
  <2>3. \A u \in SetTables : \A y : y \notin r[u] => y \notin q[u]
    <3>1. ASSUME NEW u \in SetTables, NEW y, y \notin r[u] PROVE y \notin q[u]
      <4>1. CASE u = t
        BY <1>1, <2>2, <3>1, <4>1
      <4>2. CASE u # t
        BY <1>1, <3>1, <4>2 DEF RowFields
      <4>3. QED
        BY <4>1, <4>2
    <3>2. QED
      BY <3>1
  <2>4. RowsLost(q, r)
    BY <1>1, <1>4, <2>2 DEF RowsLost
  <2>5. Len(q.rounds) <= Len(r.rounds)
    BY <2>1
  <2>6. QED
    BY <1>1, <1>2, <2>1, <2>3, <2>4, <2>5 DEF RowsLost
<1>5. QED
  BY <1>3, <1>4

\* Rows that are the expected ones, or that lost some of them: the comparison tells.
LEMMA RowsTold ==
  ASSUME NEW c, Stored(c), NEW r, r.rounds \in Seq(Round), NEW S, IsFrozen(c.status),
         "aggregate" \notin S, RowsTell(c, r, S)
  PROVE  EvidenceMismatch(c, r) <=> "rows" \in S
<1> DEFINE e == ExpectedEvidenceRows(c)
<1>1. e.rounds = c.rounds /\ c.rounds \in Seq(Round)
  BY ExpectedRows DEF Stored
<1> HIDE DEF e
<1>2. CASE "rows" \in S
  <2>1. RowsLost(r, e)
    BY <1>2 DEF RowsTell, e
  <2>2. PICK t \in SetTables \cup {"rounds"} : r[t] # e[t]
    <3>1. CASE RoundsLost(r.rounds, e.rounds)
      BY <1>1, <3>1, LossShows
    <3>2. CASE \E t \in SetTables : \E x \in e[t] : x \notin r[t]
      BY <3>2
    <3>3. QED
      BY <2>1, <3>1, <3>2 DEF RowsLost
  <2>3. QED
    BY <1>2, <2>2, TablesAre DEF EvidenceMismatch, e
<1>3. CASE "rows" \notin S
  <2>1. \A t \in SetTables \cup {"rounds"} : r[t] = e[t]
    BY <1>3 DEF RowsTell, e
  <2>2. QED
    BY <1>3, <2>1, TablesAre DEF EvidenceMismatch, e
<1>4. QED
  BY <1>2, <1>3

-------------------------------------------------------------------------------
(* Alterations preserve the invariant *)

LEMMA AlteredAggregate ==
  ASSUME DInv, DamageAggregate
  PROVE  DInv'
<1> DEFINE c == campaign
           d == campaign'
<1>1. Worse(d, c) /\ altered' = altered \cup {"aggregate"} /\ UNCHANGED <<candidate, rows, stray>>
  BY AggregateWorse DEF DInv
<1> HIDE DEF d
<1>2. /\ d.status = c.status /\ d.manifestHash = c.manifestHash
      /\ d.credential = c.credential /\ d.id = c.id /\ d.frozenVersion = c.frozenVersion
  BY <1>1 DEF Worse, CampaignFields
<1>3. Stored(c) /\ Stored(d)
  BY <1>1 DEF DInv, Worse
<1>4. SealTells(d, altered')
  <2>1. SUFFICES ASSUME IsFrozen(c.status)
                 PROVE  \E h \in c.manifestHash :
                          /\ c.manifestHash = {h}
                          /\ Len(h.rounds) \in Nat /\ Len(d.rounds) <= Len(h.rounds)
                          /\ EvidenceLost(d, h)
    BY <1>1, <1>2 DEF SealTells
  <2>2. PICK h \in c.manifestHash :
               /\ c.manifestHash = {h}
               /\ Len(h.rounds) \in Nat /\ Len(c.rounds) <= Len(h.rounds)
               /\ IF "aggregate" \in altered THEN EvidenceLost(c, h) ELSE RecalculatedHash(c) = h
    BY <2>1 DEF DInv, SealTells
  <2>3. Len(d.rounds) \in Nat /\ Len(c.rounds) \in Nat /\ Len(d.rounds) <= Len(c.rounds)
    BY <1>1, <1>3 DEF Stored, Worse
  <2>4. Len(d.rounds) <= Len(h.rounds)
    BY <2>2, <2>3
  <2>5. CASE "aggregate" \in altered
    BY <1>1, <2>2, <2>4, <2>5 DEF Worse
  <2>6. CASE "aggregate" \notin altered
    <3>1. h.rounds = c.rounds /\ h.instruments = c.instruments /\ h.findings = c.findings
      BY <1>3, <2>2, <2>6, RecalculatedManifest DEF Stored
    <3>2. EvidenceLost(d, h)
      BY <1>1, <3>1 DEF Worse, EvidenceLost
    <3>3. QED
      BY <2>2, <2>4, <3>2
  <2>7. QED
    BY <2>5, <2>6
<1>5. RowsTell(d, rows, altered')
  BY <1>1 DEF RowsTell
<1>6. CredentialTells(d, rows, altered')
  <2>1. ("credential" \in altered') <=> ("credential" \in altered)
    BY <1>1
  <2>2. \A k : GoodCredential(c, k) => GoodCredential(d, k)
    BY <1>2 DEF GoodCredential
  <2>3. QED
    BY <1>2, <2>1, <2>2 DEF DInv, CredentialTells
<1>7. CandidateTells(d, candidate)
  BY <1>2 DEF DInv, CandidateTells
<1>8. QED
  BY <1>1, <1>3, <1>4, <1>5, <1>6, <1>7 DEF DInv, d

LEMMA AlteredRows ==
  ASSUME DInv, DamageRows
  PROVE  DInv'
<1>1. /\ UNCHANGED <<campaign, candidate, stray>> /\ altered' = altered \cup {"rows"}
      /\ DOMAIN rows = RowFields /\ rows.rounds \in Seq(Round) /\ Stored(campaign)
  BY DEF DInv, DamageRows
<1>2. PICK i \in DOMAIN Tables : \E worse \in DamagedTable(Tables[i]) :
        rows' = [rows EXCEPT ![Tables[i]] = worse]
  BY DEF DamageRows
<1>3. PICK worse \in DamagedTable(Tables[i]) : rows' = [rows EXCEPT ![Tables[i]] = worse]
  BY <1>2
<1>4. PICK t \in SetTables \cup {"rounds"} : t = Tables[i]
  BY TablesAre
<1>5. worse \in IF t = "rounds" THEN Falsified(rows.rounds) ELSE OneLess(rows[t])
  BY <1>3, <1>4 DEF DamagedTable
<1>6. /\ DOMAIN rows' = RowFields /\ rows'.rounds \in Seq(Round)
      /\ rows'.credential = rows.credential
      /\ Len(rows'.rounds) <= Len(rows.rounds)
      /\ RowsLost(rows', rows)
      /\ \A e : /\ Len(e.rounds) \in Nat /\ Len(rows.rounds) <= Len(e.rounds)
                /\ RowsLost(rows, e)
                => RowsLost(rows', e)
  <2>1. rows' = [rows EXCEPT ![t] = worse]
    BY <1>3, <1>4
  <2>2. QED
    BY <1>1, <1>5, <2>1, RowsWorse
<1>7. SealTells(campaign, altered')
  BY <1>1 DEF DInv, SealTells
<1>8. RowsTell(campaign, rows', altered')
  <2> DEFINE e == ExpectedEvidenceRows(campaign)
  <2>1. SUFFICES ASSUME IsFrozen(campaign.status), "aggregate" \notin altered
                 PROVE  Len(rows'.rounds) <= Len(campaign.rounds) /\ RowsLost(rows', e)
    BY <1>1 DEF RowsTell
  <2>2. /\ Len(rows.rounds) <= Len(campaign.rounds)
        /\ IF "rows" \in altered THEN RowsLost(rows, e)
           ELSE \A u \in SetTables \cup {"rounds"} : rows[u] = e[u]
    BY <2>1 DEF DInv, RowsTell
  <2>3. e.rounds = campaign.rounds
    BY ExpectedRows
  <2> HIDE DEF e
  <2>4. Len(rows'.rounds) \in Nat /\ Len(rows.rounds) \in Nat /\ Len(campaign.rounds) \in Nat
    BY <1>1, <1>6 DEF Stored
  <2>5. Len(rows'.rounds) <= Len(campaign.rounds)
    BY <1>6, <2>2, <2>4
  <2>6. CASE "rows" \in altered
    BY <1>6, <2>2, <2>3, <2>4, <2>5, <2>6
  <2>7. CASE "rows" \notin altered
    <3>1. rows.rounds = e.rounds /\ \A u \in SetTables : rows[u] = e[u]
      BY <2>2, <2>7
    <3>2. RowsLost(rows', e)
      BY <1>6, <3>1 DEF RowsLost
    <3>3. QED
      BY <2>5, <3>2
  <2>8. QED
    BY <2>6, <2>7
<1>9. CredentialTells(campaign, rows', altered')
  <2>1. ("credential" \in altered') <=> ("credential" \in altered)
    BY <1>1
  <2>2. QED
    BY <1>1, <1>6, <2>1 DEF DInv, CredentialTells
<1>10. QED
  BY <1>1, <1>6, <1>7, <1>8, <1>9 DEF DInv

LEMMA AlteredCredentialRow ==
  ASSUME DInv, DamageCredentialRow
  PROVE  DInv'
<1>1. /\ UNCHANGED <<campaign, candidate, stray>> /\ altered' = altered \cup {"credential"}
      /\ DOMAIN rows = RowFields /\ rows.rounds \in Seq(Round) /\ Stored(campaign)
  BY DEF DInv, DamageCredentialRow
<1>2. PICK k \in rows.credential :
         \/ rows' = [rows EXCEPT !.credential = {}]
         \/ rows' = [rows EXCEPT !.credential = {[k EXCEPT !.frozenVersion = @ + 1]}]
  BY DEF DamageCredentialRow
<1>3. /\ DOMAIN rows' = RowFields /\ \A t \in SetTables \cup {"rounds"} : rows'[t] = rows[t]
      /\ rows'.credential \in {{}, {[k EXCEPT !.frozenVersion = @ + 1]}}
  BY <1>1, <1>2 DEF RowFields, SetTables
<1>4. RowsTell(campaign, rows', altered')
  <2>1. ("aggregate" \in altered' <=> "aggregate" \in altered)
        /\ ("rows" \in altered' <=> "rows" \in altered)
    BY <1>1
  <2>2. \A e : RowsLost(rows, e) => RowsLost(rows', e)
    BY <1>3 DEF RowsLost
  <2>3. rows'.rounds = rows.rounds
    BY <1>3
  <2>4. QED
    BY <1>1, <1>3, <2>1, <2>2, <2>3 DEF DInv, RowsTell
<1>5. CredentialTells(campaign, rows', altered')
  <2>1. SUFFICES ASSUME campaign.status = "Certified"
                 PROVE  \A q \in rows'.credential :
                          /\ "frozenVersion" \in DOMAIN q /\ q.frozenVersion \in Nat
                          /\ q.frozenVersion > campaign.frozenVersion
    BY <1>1 DEF DInv, CredentialTells
  <2>2. /\ \E x \in campaign.credential : campaign.credential = {x} /\ GoodCredential(campaign, x)
        /\ "frozenVersion" \in DOMAIN k /\ k.frozenVersion \in Nat
        /\ IF "credential" \in altered THEN k.frozenVersion > campaign.frozenVersion
           ELSE rows.credential = campaign.credential
    BY <2>1 DEF DInv, CredentialTells
  <2>3. k.frozenVersion >= campaign.frozenVersion /\ campaign.frozenVersion \in Nat
    BY <1>1, <2>2 DEF GoodCredential, Stored
  <2>4. SUFFICES ASSUME NEW q \in rows'.credential
                 PROVE  /\ "frozenVersion" \in DOMAIN q /\ q.frozenVersion \in Nat
                        /\ q.frozenVersion > campaign.frozenVersion
    OBVIOUS
  <2>5. q = [k EXCEPT !.frozenVersion = @ + 1]
    BY <1>3, <2>4
  <2>6. "frozenVersion" \in DOMAIN q /\ q.frozenVersion = k.frozenVersion + 1
    BY <2>2, <2>5
  <2>7. QED
    BY <2>2, <2>3, <2>6
<1>6. SealTells(campaign, altered')
  BY <1>1 DEF DInv, SealTells
<1>7. QED
  BY <1>1, <1>3, <1>4, <1>5, <1>6 DEF DInv

-------------------------------------------------------------------------------
(* Commands preserve the invariant.  Until the freeze it asks for little. *)

LEMMA RegisterStored ==
  ASSUME NEW c, Stored(c), NEW items, CanRegisterInstruments(c, items)
  PROVE  LET d == RegisterInstruments(c, items)
         IN Stored(d) /\ ~IsFrozen(d.status) /\ d.credential = c.credential
<1> DEFINE d == RegisterInstruments(c, items)
<1>1. DOMAIN c = CampaignFields /\ c.status = "Draft"
  BY DEF Stored, CanRegisterInstruments
<1>2. /\ DOMAIN d = CampaignFields /\ d.status \in {"Ready", "Draft"} /\ d.version = c.version + 1
      /\ d.frozenVersion = c.frozenVersion /\ d.rounds = c.rounds /\ d.findings = c.findings
      /\ d.credential = c.credential
  BY <1>1, RegisterFrame DEF CampaignFields
<1> HIDE DEF d
<1>3. Stored(d) /\ ~IsFrozen(d.status) /\ d.credential = c.credential
  BY <1>2 DEF Stored, IsFrozen
<1>4. QED
  BY <1>3 DEF d

LEMMA AddRoundStored ==
  ASSUME NEW c, Stored(c), NEW round \in Round
  PROVE  LET d == AddRound(c, round)
         IN Stored(d) /\ ~IsFrozen(d.status) /\ d.credential = c.credential
<1> DEFINE d == AddRound(c, round)
<1>1. DOMAIN c = CampaignFields /\ c.rounds \in Seq(Round)
  BY DEF Stored
<1>2. /\ DOMAIN d = CampaignFields /\ d.status \in {"Remediation", "Executing"}
      /\ d.version = c.version + 1
      /\ d.frozenVersion = c.frozenVersion /\ d.rounds = Append(c.rounds, round)
      /\ d.findings = Closed(c, round).findings
      /\ d.credential = c.credential
  BY <1>1, AddRoundFrame DEF CampaignFields
<1> HIDE DEF d
<1>3. d.findings = [f \in DOMAIN c.findings |->
        IF f \in ClosedBy(c, round) THEN Remedied(c.findings[f], round.id) ELSE c.findings[f]]
  BY <1>1, <1>2, ClosedFrame
<1>4. \A f \in DOMAIN c.findings :
        c.findings[f] \in Disposition /\ Remedied(c.findings[f], round.id) \in Disposition
  BY DispositionTyped DEF Stored, Round
<1>5. d.findings \in [DOMAIN d.findings -> Disposition]
  BY <1>3, <1>4
<1>6. d.rounds \in Seq(Round)
  BY <1>1, <1>2
<1>7. Stored(d) /\ ~IsFrozen(d.status) /\ d.credential = c.credential
  BY <1>2, <1>5, <1>6 DEF Stored, IsFrozen
<1>8. QED
  BY <1>7 DEF d

LEMMA SubmitStored ==
  ASSUME NEW c, Stored(c)
  PROVE  LET d == SubmitForReview(c)
         IN Stored(d) /\ ~IsFrozen(d.status) /\ d.credential = c.credential
<1> DEFINE d == SubmitForReview(c)
           raised == Raised(c.points, c.rounds, c.version)
<1>1. DOMAIN c = CampaignFields /\ c.findings \in [DOMAIN c.findings -> Disposition]
  BY DEF Stored
<1>2. /\ DOMAIN d = CampaignFields /\ d.status = "ReviewPending" /\ d.version = c.version + 1
      /\ d.frozenVersion = c.frozenVersion /\ d.rounds = c.rounds
      /\ d.findings = [f \in (DOMAIN c.findings) \cup raised |->
                         IF f \in DOMAIN c.findings THEN c.findings[f] ELSE Undecided]
      /\ d.credential = c.credential
  BY <1>1, SubmitFrame DEF CampaignFields
<1> HIDE DEF d, raised
<1>3. Undecided \in Disposition
  BY DEF Undecided, Disposition, Decisions, Optional
<1>4. d.findings \in [DOMAIN d.findings -> Disposition]
  BY <1>1, <1>2, <1>3
<1>5. Stored(d) /\ ~IsFrozen(d.status) /\ d.credential = c.credential
  BY <1>2, <1>4 DEF Stored, IsFrozen
<1>6. QED
  BY <1>5 DEF d

LEMMA DecideStored ==
  ASSUME NEW c, Stored(c), NEW f, NEW decision, NEW noted, NEW actor \in Actors,
         CanDecideFinding(c, f, decision, noted)
  PROVE  LET d == DecideFinding(c, f, decision, actor)
         IN Stored(d) /\ ~IsFrozen(d.status) /\ d.credential = c.credential
<1> DEFINE d == DecideFinding(c, f, decision, actor)
<1>1. DOMAIN c = CampaignFields /\ c.findings \in [DOMAIN c.findings -> Disposition]
      /\ c.status = "ReviewPending" /\ decision \in Decisions
  BY DEF Stored, CanDecideFinding, Decisions
<1>2. /\ DOMAIN d = CampaignFields /\ d.status \in {"Remediation", "ReviewPending"}
      /\ d.version = c.version + 1
      /\ d.frozenVersion = c.frozenVersion /\ d.rounds = c.rounds
      /\ d.findings = [g \in DOMAIN c.findings |->
           IF g = f THEN Decided(c.findings[g], decision, actor) ELSE c.findings[g]]
      /\ d.credential = c.credential
  BY <1>1, DecideFrame DEF CampaignFields
<1> HIDE DEF d
<1>3. \A g \in DOMAIN c.findings :
        c.findings[g] \in Disposition /\ Decided(c.findings[g], decision, actor) \in Disposition
  BY <1>1, DispositionTyped
<1>4. d.findings \in [DOMAIN d.findings -> Disposition]
  BY <1>2, <1>3
<1>5. Stored(d) /\ ~IsFrozen(d.status) /\ d.credential = c.credential
  BY <1>2, <1>4 DEF Stored, IsFrozen
<1>6. QED
  BY <1>5 DEF d

LEMMA WrittenOpen ==
  ASSUME DInv, Write,
         \/ RegisterInstrumentsAction \/ AddRoundAction
         \/ SubmitForReviewAction \/ DecideFindingAction
  PROVE  DInv'
<1>1. Stored(campaign)
  BY DEF DInv
<1>2. /\ Stored(campaign') /\ ~IsFrozen(campaign'.status) /\ candidate' = candidate
      /\ campaign'.credential = campaign.credential /\ campaign.status # "Certified"
  <2>1. CASE RegisterInstrumentsAction
    BY <1>1, <2>1, RegisterStored DEF RegisterInstrumentsAction, CanRegisterInstruments
  <2>2. CASE AddRoundAction
    BY <1>1, <2>2, AddRoundStored, RequestsAssumption DEF AddRoundAction, CanAddRound
  <2>3. CASE SubmitForReviewAction
    BY <1>1, <2>3, SubmitStored DEF SubmitForReviewAction, CanSubmitForReview
  <2>4. CASE DecideFindingAction
    BY <1>1, <2>4, DecideStored DEF DecideFindingAction, CanDecideFinding
  <2>5. QED
    BY <2>1, <2>2, <2>3, <2>4
<1>3. DOMAIN rows' = RowFields /\ rows'.rounds = campaign'.rounds
  BY ExpectedRows DEF Write
<1>4. campaign'.rounds \in Seq(Round) /\ campaign'.status # "Certified"
  BY <1>2 DEF Stored, IsFrozen
<1>5. campaign'.credential = {}
  BY <1>2 DEF DInv, CredentialTells
<1>6. QED
  BY <1>2, <1>3, <1>4, <1>5 DEF DInv, SealTells, RowsTell, CredentialTells, CandidateTells

\* A command that raises no finding leaves exactly the expected rows.
LEMMA WrittenRows ==
  ASSUME NEW c, NEW d, DOMAIN d.findings = DOMAIN c.findings, Stored(d)
  PROVE  LET r == EvidenceRows(d, RaisedSince(c, d))
         IN /\ DOMAIN r = RowFields /\ r.rounds \in Seq(Round) /\ r.credential = d.credential
            /\ r = ExpectedEvidenceRows(d)
            /\ Len(r.rounds) <= Len(d.rounds)
<1>1. RaisedSince(c, d) = {}
  BY DEF RaisedSince
<1>2. EvidenceRows(d, {}).rounds = d.rounds /\ d.rounds \in Seq(Round) /\ Len(d.rounds) \in Nat
  BY ExpectedRows DEF Stored
<1>3. QED
  BY <1>1, <1>2, ExpectedRows

LEMMA WrittenFreeze ==
  ASSUME DInv, Write, FreezeAction
  PROVE  DInv'
<1> DEFINE c == campaign
           d == campaign'
<1>1. PICK k \in candidate : /\ CanFreeze(c) /\ ConfirmsCandidate(c, k)
                             /\ d = Freeze(c, k.hash) /\ candidate' = candidate
  BY DEF FreezeAction
<1>2. Stored(c) /\ DOMAIN c = CampaignFields /\ c.version \in Nat /\ c.rounds \in Seq(Round)
  BY DEF DInv, Stored
<1>3. /\ DOMAIN d = CampaignFields /\ d.status = "Frozen"
      /\ d.version = c.version + 1 /\ d.frozenVersion = c.version + 1 /\ d.manifestHash = {k.hash}
      /\ d.id = c.id /\ d.plannedDate = c.plannedDate /\ d.points = c.points
      /\ d.instruments = c.instruments /\ d.rounds = c.rounds /\ d.findings = c.findings
      /\ d.credential = c.credential
  BY <1>1, <1>2, FreezeFrame DEF CampaignFields
<1> HIDE DEF d
<1>4. Stored(d)
  BY <1>2, <1>3 DEF Stored
<1>5. RecalculatedHash(d) = k.hash
  <2>1. d.frozenVersion - 1 = c.version
    BY <1>2, <1>3
  <2>2. QED
    BY <1>1, <1>3, <2>1, RecalculatedManifest DEF ConfirmsCandidate, Hash, Manifest
<1>6. k.hash.rounds = d.rounds
  BY <1>1, <1>3 DEF ConfirmsCandidate, Hash, Manifest
<1>7. ~IsFrozen(c.status)
  BY <1>1, FreezeGuard DEF IsFrozen
<1>8. altered' = {} /\ rows' = EvidenceRows(d, RaisedSince(c, d))
  BY <1>7 DEF Write, StillAltered, d
<1>9. /\ DOMAIN rows' = RowFields /\ rows'.rounds \in Seq(Round)
      /\ rows' = ExpectedEvidenceRows(d) /\ Len(rows'.rounds) <= Len(d.rounds)
  BY <1>3, <1>4, <1>8, WrittenRows
<1>10. SealTells(d, altered')
  <2>1. Len(d.rounds) \in Nat
    BY <1>4 DEF Stored
  <2>2. QED
    BY <1>3, <1>5, <1>6, <1>8, <2>1 DEF SealTells
<1>11. RowsTell(d, rows', altered')
  BY <1>8, <1>9 DEF RowsTell
<1>12. CredentialTells(d, rows', altered')
  <2>1. c.credential = {}
    BY <1>7 DEF DInv, CredentialTells, IsFrozen
  <2>2. QED
    BY <1>3, <2>1 DEF CredentialTells
<1>13. CandidateTells(d, candidate')
  BY <1>1, <1>3 DEF DInv, CandidateTells
<1>14. QED
  BY <1>4, <1>9, <1>10, <1>11, <1>12, <1>13 DEF DInv, d

LEMMA WrittenIssue ==
  ASSUME DInv, Write, IssueAction
  PROVE  DInv'
<1> DEFINE c == campaign
           d == campaign'
<1>1. PICK issuedBy \in Actors : \E credential \in Issue(c, issuedBy) :
         /\ CanIssue(c) /\ CanCertify(c, credential)
         /\ d = Certify(c, credential) /\ candidate' = candidate
  BY DEF IssueAction
<1>2. PICK k \in Issue(c, issuedBy) : /\ CanIssue(c) /\ CanCertify(c, k)
                                      /\ d = Certify(c, k) /\ candidate' = candidate
  BY <1>1
<1>3. Stored(c) /\ DOMAIN c = CampaignFields /\ c.version \in Nat /\ c.status = "Frozen"
  BY <1>2 DEF DInv, Stored, CanIssue
<1>4. /\ DOMAIN d = CampaignFields /\ d.status = "Certified"
      /\ d.version = c.version + 1 /\ d.credential = {k}
      /\ d.frozenVersion = c.frozenVersion /\ d.manifestHash = c.manifestHash
      /\ d.id = c.id /\ d.plannedDate = c.plannedDate /\ d.points = c.points
      /\ d.instruments = c.instruments /\ d.rounds = c.rounds /\ d.findings = c.findings
  BY <1>2, <1>3, CertifyFrame DEF CampaignFields
<1> HIDE DEF d
<1>5. Stored(d) /\ IsFrozen(c.status) /\ IsFrozen(d.status)
  BY <1>3, <1>4 DEF Stored, IsFrozen
<1>6. RecalculatedHash(d) = RecalculatedHash(c)
  BY <1>3, <1>4, RecalculatedManifest
<1>7. altered' = altered \cap {"aggregate"} /\ rows' = EvidenceRows(d, RaisedSince(c, d))
  BY <1>5 DEF Write, StillAltered, d
<1>8. /\ DOMAIN rows' = RowFields /\ rows'.rounds \in Seq(Round)
      /\ rows'.credential = d.credential
      /\ rows' = ExpectedEvidenceRows(d) /\ Len(rows'.rounds) <= Len(d.rounds)
  BY <1>4, <1>5, <1>7, WrittenRows
<1>9. SealTells(d, altered')
  <2>1. \A h : EvidenceLost(c, h) => EvidenceLost(d, h)
    BY <1>4 DEF EvidenceLost
  <2>2. QED
    BY <1>4, <1>5, <1>6, <1>7, <2>1 DEF DInv, SealTells
<1>10. RowsTell(d, rows', altered')
  BY <1>7, <1>8 DEF RowsTell
<1>11. CredentialTells(d, rows', altered')
  <2>1. /\ "frozenVersion" \in DOMAIN k /\ k.frozenVersion = c.frozenVersion
        /\ k.campaign = c.id /\ {k.manifestHash} = c.manifestHash /\ k.digest = Digest(k)
    BY <1>2 DEF Issue, CanCertify, Digest
  <2>2. GoodCredential(d, k)
    BY <1>4, <2>1 DEF GoodCredential
  <2>3. k.frozenVersion \in Nat
    BY <1>3, <2>1 DEF Stored
  <2>4. QED
    BY <1>4, <1>7, <1>8, <2>1, <2>2, <2>3 DEF CredentialTells
<1>12. CandidateTells(d, candidate')
  BY <1>2, <1>4, <1>5 DEF DInv, CandidateTells
<1>13. QED
  BY <1>5, <1>8, <1>9, <1>10, <1>11, <1>12 DEF DInv, d

LEMMA DamageStarts == DamageInit => DInv
<1> SUFFICES ASSUME DamageInit PROVE DInv
  OBVIOUS
<1>1. PICK plan \in Plans : campaign = NewCampaign(plan.id, plan.plannedDate, plan.points)
  BY DEF DamageInit, Init
<1>2. /\ DOMAIN campaign = CampaignFields /\ campaign.status = "Draft" /\ campaign.version = 1
      /\ campaign.frozenVersion = 0 /\ campaign.rounds = << >>
      /\ campaign.findings = [f \in {} |-> Undecided] /\ campaign.credential = {}
  BY <1>1 DEF NewCampaign, CampaignFields
<1>3. Stored(campaign)
  BY <1>2 DEF Stored
<1>4. DOMAIN rows = RowFields /\ rows.rounds \in Seq(Round)
  <2>1. DOMAIN rows = RowFields /\ rows.rounds = campaign.rounds
    BY ExpectedRows DEF DamageInit
  <2>2. QED
    BY <1>2, <2>1
<1>5. candidate = {}
  BY DEF DamageInit, Init
<1>6. QED
  BY <1>2, <1>3, <1>4, <1>5
     DEF DInv, SealTells, RowsTell, CredentialTells, CandidateTells, IsFrozen

LEMMA DamageInductively == DInv /\ [DamageNext]_damageVars => DInv'
<1> SUFFICES ASSUME DInv, [DamageNext]_damageVars PROVE DInv'
  OBVIOUS
<1>1. CASE Write
  BY <1>1, WrittenOpen, WrittenFreeze, WrittenIssue DEF Write, Command
<1>2. CASE Preflight
  <2>1. /\ UNCHANGED <<campaign, rows, altered>>
        /\ candidate' = {[version |-> campaign.version, hash |-> Hash(campaign)]}
    BY <1>2 DEF Preflight, FreezePreflightAction
  <2>2. campaign.status = "ReviewPending"
    BY <1>2, FreezeGuard DEF Preflight, FreezePreflightAction, CanFreeze
  <2>3. CandidateTells(campaign, candidate')
    BY <2>1, <2>2 DEF CandidateTells, IsFrozen
  <2>4. QED
    BY <2>1, <2>3 DEF DInv
<1>3. CASE Alteration
  <2>1. CASE StrayRow
    BY <2>1 DEF StrayRow, DInv
  <2>2. QED
    BY <1>3, <2>1, AlteredRows, AlteredCredentialRow, AlteredAggregate DEF Alteration
<1>4. CASE UNCHANGED damageVars
  BY <1>4 DEF damageVars, DInv
<1>5. QED
  BY <1>1, <1>2, <1>3, <1>4 DEF DamageNext

-------------------------------------------------------------------------------
(* What the report says *)

\* The reasons of a report on a certified campaign.
LEMMA ReportReasons ==
  ASSUME NEW c, NEW e \in BOOLEAN, NEW m \in BOOLEAN, c.status = "Certified",
         NEW k, c.credential = {k}, GoodCredential(c, k)
  PROVE  /\ ("manifest_hash_mismatch" \in VerifyDetailed(c, e, m)) <=> ~ManifestPassed(c, e)
         /\ ("credential_digest_mismatch" \in VerifyDetailed(c, e, m)) <=> m
         /\ VerifyDetailed(c, e, m) \subseteq {"manifest_hash_mismatch", "credential_digest_mismatch"}
<1> DEFINE failed(x) ==
        [campaign_binding_mismatch |-> x.campaign # c.id,
         frozen_version_mismatch |-> x.frozenVersion # c.frozenVersion,
         manifest_hash_binding_mismatch |-> {x.manifestHash} # c.manifestHash,
         manifest_hash_mismatch |-> ~ManifestPassed(c, e),
         credential_digest_mismatch |-> Digest(x) # x.digest \/ m]
           codes(x) == {code \in DOMAIN failed(x) : failed(x)[code]}
           names == {"campaign_binding_mismatch", "frozen_version_mismatch",
                     "manifest_hash_binding_mismatch", "manifest_hash_mismatch",
                     "credential_digest_mismatch"}
<1>1. VerifyDetailed(c, e, m) = UNION {codes(x) : x \in c.credential}
  BY DEF VerifyDetailed, IsFrozen
<1>2. DOMAIN failed(k) = names
  OBVIOUS
<1>3. /\ failed(k)["campaign_binding_mismatch"] = (k.campaign # c.id)
      /\ failed(k)["frozen_version_mismatch"] = (k.frozenVersion # c.frozenVersion)
      /\ failed(k)["manifest_hash_binding_mismatch"] = ({k.manifestHash} # c.manifestHash)
      /\ failed(k)["manifest_hash_mismatch"] = ~ManifestPassed(c, e)
      /\ failed(k)["credential_digest_mismatch"] = (Digest(k) # k.digest \/ m)
  OBVIOUS
<1>4. codes(k) = {code \in names : failed(k)[code]}
  BY <1>2
<1> HIDE DEF failed
<1>5. /\ ~failed(k)["campaign_binding_mismatch"]
      /\ ~failed(k)["frozen_version_mismatch"]
      /\ ~failed(k)["manifest_hash_binding_mismatch"]
      /\ failed(k)["manifest_hash_mismatch"] <=> ~ManifestPassed(c, e)
      /\ failed(k)["credential_digest_mismatch"] <=> m
  BY <1>3 DEF GoodCredential
<1> HIDE DEF codes
<1>6. VerifyDetailed(c, e, m) = codes(k)
  BY <1>1
<1>7. QED
  BY <1>4, <1>5, <1>6

\* The manifest check fails just if aggregate or rows were altered.
LEMMA ManifestTells ==
  ASSUME DInv, IsFrozen(campaign.status)
  PROVE  ManifestPassed(campaign, EvidenceMismatch(campaign, rows))
           <=> altered \cap {"aggregate", "rows"} = {}
<1> DEFINE e == EvidenceMismatch(campaign, rows)
<1>1. Stored(campaign) /\ rows.rounds \in Seq(Round)
  BY DEF DInv
<1>2. PICK h \in campaign.manifestHash :
        /\ campaign.manifestHash = {h}
        /\ Len(h.rounds) \in Nat
        /\ IF "aggregate" \in altered THEN EvidenceLost(campaign, h)
           ELSE RecalculatedHash(campaign) = h
  BY <1>1 DEF DInv, SealTells
<1>3. (RecalculatedHash(campaign) = h) <=> "aggregate" \notin altered
  BY <1>1, <1>2, LossChangesHash
<1>4. "aggregate" \notin altered => (e <=> "rows" \in altered)
  BY <1>1, RowsTold DEF DInv
<1>5. ManifestPassed(campaign, e) <=> RecalculatedHash(campaign) = h /\ ~e
  BY <1>2 DEF ManifestPassed
<1>6. QED
  BY <1>3, <1>4, <1>5

LEMMA CertifiedReport ==
  ASSUME DInv, campaign.status = "Certified"
  PROVE  /\ Report \subseteq {"manifest_hash_mismatch", "credential_digest_mismatch"}
         /\ ("manifest_hash_mismatch" \in Report) <=> altered \cap {"aggregate", "rows"} # {}
         /\ ("credential_digest_mismatch" \in Report) <=> "credential" \in altered
<1> DEFINE e == EvidenceMismatch(campaign, rows)
           m == CredentialMismatch(campaign, rows)
<1>1. IsFrozen(campaign.status) /\ Stored(campaign)
  BY DEF IsFrozen, DInv
<1>2. e \in BOOLEAN /\ m \in BOOLEAN
  BY DEF EvidenceMismatch, CredentialMismatch
<1>3. PICK k \in campaign.credential :
         campaign.credential = {k} /\ GoodCredential(campaign, k)
  BY DEF DInv, CredentialTells
<1>4. ManifestPassed(campaign, e) <=> altered \cap {"aggregate", "rows"} = {}
  BY <1>1, ManifestTells
<1>5. m <=> "credential" \in altered
  <2>1. IF "credential" \in altered
          THEN \A q \in rows.credential : q.frozenVersion > campaign.frozenVersion
          ELSE rows.credential = campaign.credential
    BY DEF DInv, CredentialTells
  <2>2. k.frozenVersion = campaign.frozenVersion /\ campaign.frozenVersion \in Nat
    BY <1>1, <1>3 DEF GoodCredential, Stored
  <2>3. ~(k.frozenVersion > campaign.frozenVersion)
    BY <2>2
  <2>4. "credential" \in altered => rows.credential # campaign.credential
    BY <1>3, <2>1, <2>3
  <2>5. QED
    BY <2>1, <2>4 DEF CredentialMismatch
<1> HIDE DEF e, m
<1>6. Report = VerifyDetailed(campaign, e, m)
  BY DEF Report, e, m
<1>7. QED
  BY <1>2, <1>3, <1>4, <1>5, <1>6, ReportReasons

LEMMA FrozenReport ==
  ASSUME DInv, campaign.status = "Frozen"
  PROVE  Report = {"credential_not_issued"} \cup
                  {code \in {"manifest_hash_mismatch"} : altered \cap {"aggregate", "rows"} # {}}
<1> DEFINE e == EvidenceMismatch(campaign, rows)
           m == CredentialMismatch(campaign, rows)
<1>1. IsFrozen(campaign.status) /\ campaign.credential = {}
  BY DEF IsFrozen, DInv, CredentialTells
<1>2. ManifestPassed(campaign, e) <=> altered \cap {"aggregate", "rows"} = {}
  BY <1>1, ManifestTells
<1> HIDE DEF e, m
<1>3. Report = VerifyDetailed(campaign, e, m)
  BY DEF Report, e, m
<1>4. QED
  BY <1>1, <1>2, <1>3 DEF VerifyDetailed

\* Verification of a frozen or certified campaign names the damage, wherever and in
\* whatever order the data was altered, and raises no alarm without it (verify.go:
\* VerifyDetailed; consistency.go: detectPersistenceMismatch).
THEOREM DamageIsLocated == DamageSpec => []DamageLocated
<1>1. DInv => DamageLocated
  <2> SUFFICES ASSUME DInv, IsFrozen(campaign.status) PROVE DamageLocated
    BY DEF DamageLocated
  <2> DEFINE codes == {"manifest_hash_mismatch", "credential_not_issued", "credential_digest_mismatch"}
             reported(code) ==
               CASE code = "manifest_hash_mismatch" -> altered \cap {"aggregate", "rows"} # {}
                 [] code = "credential_not_issued" -> campaign.status = "Frozen"
                 [] OTHER -> campaign.status = "Certified" /\ "credential" \in altered
  <2>1. /\ reported("manifest_hash_mismatch") = (altered \cap {"aggregate", "rows"} # {})
        /\ reported("credential_not_issued") = (campaign.status = "Frozen")
        /\ reported("credential_digest_mismatch") =
             (campaign.status = "Certified" /\ "credential" \in altered)
    OBVIOUS
  <2> HIDE DEF reported
  <2>2. Report \subseteq codes /\ \A code \in codes : code \in Report <=> reported(code)
    <3>1. CASE campaign.status = "Certified"
      BY <2>1, <3>1, CertifiedReport
    <3>2. CASE campaign.status = "Frozen"
      BY <2>1, <3>2, FrozenReport
    <3>3. QED
      BY <3>1, <3>2 DEF IsFrozen
  <2>3. Report = {code \in codes : reported(code)}
    BY <2>2
  <2>4. QED
    BY <2>3 DEF DamageLocated, reported
<1>2. QED
  BY <1>1, DamageStarts, DamageInductively, PTL DEF DamageSpec

\* A valid report vouches for the evidence that the reviewer confirmed, although the
\* service loads damaged aggregates without a check and seals what it loads
\* (service.go: FreezePreflight, Freeze; verify.go: VerifyDetailed).
THEOREM ValidIsConfirmed == DamageSpec => []ValidMeansConfirmed
<1>1. DInv => ValidMeansConfirmed
  <2> SUFFICES ASSUME DInv, campaign.status = "Certified", Report = {}, NEW k \in candidate
               PROVE  DossierOf(Manifest(campaign)) = DossierOf(k.hash)
    BY DEF ValidMeansConfirmed
  <2>1. IsFrozen(campaign.status) /\ DOMAIN campaign = CampaignFields
    BY DEF IsFrozen, DInv, Stored
  <2>2. "aggregate" \notin altered
    BY CertifiedReport
  <2>3. campaign.manifestHash = {RecalculatedHash(campaign)}
    BY <2>1, <2>2 DEF DInv, SealTells
  <2>4. k.hash = RecalculatedHash(campaign)
    BY <2>1, <2>3 DEF DInv, CandidateTells
  <2>5. QED
    BY <2>1, <2>4, RecalculatedManifest DEF DossierOf, Manifest
<1>2. QED
  BY <1>1, DamageStarts, DamageInductively, PTL DEF DamageSpec
===============================================================================
