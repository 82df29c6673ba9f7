------------------------------ MODULE MCCampaign ------------------------------
(***************************************************************************)
(* Small instances of Campaign.  The plan whose life is explored in full   *)
(* has two points: p1 needs one replicate and has an upper limit only, p2  *)
(* needs two between two limits.  Another plan, of a later date, has one   *)
(* point with two replicates whose limits coincide.  The other create      *)
(* requests, and most of the instrument requests, are to be refused.       *)
(***************************************************************************)
EXTENDS Campaign, TLC

CONSTANTS r1, r2, r3, r4    \* round ids

-------------------------------------------------------------------------------
(* Points and plans; the planned date is day 5 *)

APoint(id, label, metric, unit, required, lower, upper) ==
    [id |-> id, label |-> label, metric |-> metric, unit |-> unit,
     required |-> required, lower |-> lower, upper |-> upper]

inlet == APoint("p1", "inlet", "particles", "n", 1, {}, {10})
bench == APoint("p2", "bench", "pressure", "Pa", 2, {5}, {10})

door == APoint("p3", "door", "particles", "n", 2, {10}, {10})

APlan(points) == [id |-> "c1", plannedDate |-> 5, points |-> points]
ALaterPlan(points) == [id |-> "c1", plannedDate |-> 8, points |-> points]

ReviewPlans == {APlan(<<inlet, bench>>)}

CreateRequests ==
    {ALaterPlan(<<door>>)} \cup
    {APlan(points) : points \in
       {<< >>, <<inlet, bench>>,
        <<inlet, [bench EXCEPT !.id = "p1"]>>,
        <<inlet, [bench EXCEPT !.label = "inlet"]>>,
        <<inlet, [bench EXCEPT !.metric = "particles"]>>,
        <<inlet, [bench EXCEPT !.required = 0]>>,
        <<inlet, [bench EXCEPT !.required = 3]>>,
        <<inlet, [bench EXCEPT !.lower = {}, !.upper = {}]>>,
        <<inlet, [bench EXCEPT !.lower = {11}]>>,
        <<[inlet EXCEPT !.required = 2], bench>>,
        <<inlet, bench, door>>}}

-------------------------------------------------------------------------------
(* Instruments.  The counter and the gauge serve the first plan, the last pair the *)
(* later one.                                                                      *)

AnInstrument(id, serial, ref, from, until, metrics) ==
    [id |-> id, serialNumber |-> serial, certificateRef |-> ref,
     calibratedAt |-> from, expiresAt |-> until, coveredMetrics |-> metrics]

counter == AnInstrument("i1", "s1", "k1", 1, 5, {"particles"})
gauge == AnInstrument("i2", "s2", "k2", 5, 9, {"pressure"})
combined == AnInstrument("i3", "s3", "k3", 1, 9, {"particles", "pressure"})
recalibrated == AnInstrument("i1", "s1", "k1", 6, 9, {"particles"})

ReviewInstruments == {<<combined>>}

OfferedRequests ==
    {<< >>, <<counter>>, <<gauge>>,
     <<recalibrated, [recalibrated EXCEPT !.id = "i3", !.certificateRef = "k3", !.serialNumber = "s3"]>>}
    \cup {<<counter, other>> : other \in
           {[gauge EXCEPT !.id = "i1"],
            [gauge EXCEPT !.certificateRef = "k1"],
            [counter EXCEPT !.id = "i2", !.certificateRef = "k2"],
            [gauge EXCEPT !.calibratedAt = 6],
            [gauge EXCEPT !.expiresAt = 4],
            [gauge EXCEPT !.expiresAt = 5],
            [gauge EXCEPT !.coveredMetrics = {}]}}

-------------------------------------------------------------------------------
(* Rounds.  A reading is a point, a replicate and a value; the samples of a round are *)
(* any readings of distinct slots.  In the first plan p1 may fail and succeed in a    *)
(* retest, next to p2, which may be incomplete; in the later one both replicates      *)
(* fail, on either side.  Values within the limits are on them.                       *)

UnitOf == [p1 |-> "n", p2 |-> "Pa", p3 |-> "n"]

AllReadings == {<<"p1", 1, 10>>, <<"p1", 1, 11>>, <<"p2", 1, 4>>, <<"p2", 1, 7>>, <<"p2", 2, 7>>}
LimitReadings == {<<"p1", 1, 10>>, <<"p1", 1, 11>>, <<"p2", 1, 5>>, <<"p2", 2, 10>>}
DoorReadings == {<<"p3", 1, 11>>, <<"p3", 2, 9>>}

SampleSets(r, readings) ==
    {{[id |-> <<r, q[1], q[2]>>, point |-> q[1], replicate |-> q[2], value |-> q[3],
       unit |-> UnitOf[q[1]]] : q \in R}
       : R \in {T \in SUBSET readings \ {{}} :
                  \A x, y \in T : x # y => <<x[1], x[2]>> # <<y[1], y[2]>>}}

RoundsOver(ids, readings) ==
    UNION {{[id |-> r, kind |-> k, supersedes |-> z, recordedBy |-> "ann", samples |-> ss] :
              k \in RoundKinds, z \in Optional(ids), ss \in SampleSets(r, readings)}
           : r \in ids}

SampleIdsOver(ids) == {<<r, p, k>> : r \in ids, p \in {"p1", "p2", "p3"}, k \in 1 .. 2}

ThreeRoundIds == {r1, r2, r3}
ThreeRoundSamples == SampleIdsOver(ThreeRoundIds)
ThreeRounds == RoundsOver(ThreeRoundIds, AllReadings)
ThreeRoundSymmetry == Permutations(ThreeRoundIds)

FourRoundIds == {r1, r2, r3, r4}
FourRoundSamples == SampleIdsOver(FourRoundIds)
FourRounds == RoundsOver(FourRoundIds, LimitReadings) \cup RoundsOver(FourRoundIds, DoorReadings)
FourRoundSymmetry == Permutations(FourRoundIds)
===============================================================================
