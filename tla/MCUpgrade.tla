------------------------------- MODULE MCUpgrade -------------------------------
(***************************************************************************)
(* Databases to open: none yet, and of schema 1, 2 and 3, with a campaign  *)
(* that has been reviewed without a finding, or with one for a point that  *)
(* was not measured.                                                       *)
(***************************************************************************)
EXTENDS Upgrade

inlet == [id |-> "p1", label |-> "inlet", metric |-> "particles", unit |-> "n",
          required |-> 1, lower |-> {}, upper |-> {10}]
bench == [inlet EXCEPT !.id = "p2", !.label = "bench"]

counter == [id |-> "i1", serialNumber |-> "s1", certificateRef |-> "k1",
            calibratedAt |-> 1, expiresAt |-> 9, coveredMetrics |-> {"particles"}]
aRound == [id |-> "r1", kind |-> "Routine", supersedes |-> {}, recordedBy |-> "ann",
           samples |-> {[id |-> "s1", point |-> "p1", replicate |-> 1, value |-> 7, unit |-> "n"]}]

Reviewed(plan) ==
    SubmitForReview(AddRound(RegisterInstruments(NewCampaign("c1", 5, plan), <<counter>>), aRound))

Campaigns == {Reviewed(<<inlet>>), Reviewed(<<inlet, bench>>)}

Database(version, tables, columns, campaign, rows) ==
    [version |-> version, tables |-> tables, columns |-> columns, campaign |-> campaign,
     rows |-> rows]

FoundDatabases ==
    {Database(NoVersion, {}, {}, {}, {})}
    \cup {Database(1, SchemaTables \ {"inspection_batches"}, {}, {OldCampaign(c)},
                   {OldRows(OldCampaign(c))}) : c \in Campaigns}
    \cup {Database(v, SchemaTables, AllColumns, {c}, {EvidenceRows(c, {})})
            : v \in {2, 3}, c \in Campaigns}
================================================================================
