------------------------------- MODULE MCWorklist -------------------------------
(***************************************************************************)
(* Small instances of Worklist: two points of one metric, measured once    *)
(* each, or a point that is measured twice, within (7) and outside (11)    *)
(* the limits.  The second point's id continues the first one's after a    *)
(* colon.                                                                  *)
(***************************************************************************)
EXTENDS Worklist

p == <<"p">>
q == <<"p", "q">>

WorkPoint(id, label, required) ==
    [id |-> id, label |-> label, metric |-> "m", unit |-> "n", required |-> required,
     lower |-> {}, upper |-> {10}]

WorkPlans ==
    {[id |-> "c", plannedDate |-> 5, points |-> points] :
       points \in {<<WorkPoint(p, "p", 1), WorkPoint(q, "q", 1)>>, <<WorkPoint(q, "q", 2)>>}}

WorkInstruments ==
    {<<[id |-> "i", serialNumber |-> "s", certificateRef |-> "k", calibratedAt |-> 1,
        expiresAt |-> 9, coveredMetrics |-> {"m"}]>>}

WorkPoints == {p, q}
WorkSamples ==
    {id \o <<ToString(number), ToString(replicate)>> :
       id \in WorkPoints, number \in 1 .. 6, replicate \in 1 .. 2}

\* What the theorems about findings and their keys suppose is true of these ids.
ASSUME WorkIdsAvoidCodes == IdsAvoidCodes
=================================================================================
