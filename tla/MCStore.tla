-------------------------------- MODULE MCStore --------------------------------
(***************************************************************************)
(* Small instances of Store: one campaign, or two that compete for the     *)
(* same ids; a plan with one point of one replicate, one instrument        *)
(* request, at most two rounds.                                            *)
(***************************************************************************)
EXTENDS Store, TLC

CONSTANTS c1, c2    \* campaign ids

OneCampaign == {c1}
TwoCampaigns == {c1, c2}
CampaignSymmetry == Permutations(TwoCampaigns)

inlet == [id |-> "p1", label |-> "inlet", metric |-> "particles", unit |-> "n",
          required |-> 1, lower |-> {}, upper |-> {10}]
OnePointPlan == {[plannedDate |-> 5, points |-> <<inlet>>]}

counter == [id |-> "i1", serialNumber |-> "s1", certificateRef |-> "k1",
            calibratedAt |-> 1, expiresAt |-> 9, coveredMetrics |-> {"particles"}]
OneInstrument == {<<counter>>}

ARound(id, kind, supersedes, value) ==
    [id |-> id, kind |-> kind, supersedes |-> supersedes, recordedBy |-> "ann",
     samples |-> {[id |-> id, point |-> "p1", replicate |-> 1, value |-> value, unit |-> "n"]}]
GoodRound == {ARound("r1", "Routine", {}, 7)}
RetestedRound == {ARound("r1", "Routine", {}, 11), ARound("r2", "Remediation", {"r1"}, 7)}
================================================================================
