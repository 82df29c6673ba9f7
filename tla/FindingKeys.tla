------------------------------ MODULE FindingKeys ------------------------------
(***************************************************************************)
(* The keys of findings, and the deduplication by them that ends a check   *)
(* (review.go:69-77, newFinding, identity.go).  Campaign takes every       *)
(* finding of a check to be recorded; this module records those that the   *)
(* code records.                                                           *)
(*                                                                         *)
(* A key is a hash (taken to be collision free) of ids joined with ':',    *)
(* and identifierPattern lets an id contain ':' itself.  Here an id is the *)
(* sequence of what stands between its colons, so that joining is          *)
(* concatenation and what it forgets is the boundaries.                    *)
(***************************************************************************)
EXTENDS Campaign

Joined_NoSamples(f) == f.point \o <<f.code>>

\* point:code:samples.  A check never puts two samples into one finding.
Joined(f) == f.point \o <<f.code>> \o FoldSet(LAMBDA id, rest : id \o rest, << >>, f.samples)

\* The replicates that are missing end the text in brackets, which no id contains.
KeyText(f) == <<Joined(f), f.missing>>

\* The sort that precedes the deduplication is not stable: of findings with the same key
\* any one may be kept.
Deduplicated(raised) ==
    {kept \in SUBSET raised :
        /\ \A f, g \in kept : KeyText(f) = KeyText(g) => f = g
        /\ {KeyText(f) : f \in kept} = {KeyText(f) : f \in raised}}

\* SubmitForReview with the findings that are kept.
Check(c, kept) ==
    LET all == SubmitForReview(c)
        before == DOMAIN c.findings
    IN [all EXCEPT !.findings = [f \in before \cup kept |-> @[f]],
                   !.batches = {IF b.id = c.version
                                  THEN [b EXCEPT !.findingCount = Cardinality(kept)] ELSE b
                                  : b \in @}]

CheckAction ==
    /\ CanSubmitForReview(campaign)
    /\ \E kept \in Deduplicated(Raised(campaign.points, campaign.rounds, campaign.version)) :
         campaign' = Check(campaign, kept)
    /\ UNCHANGED candidate

KeysNext ==
    \/ RegisterInstrumentsAction
    \/ AddRoundAction
    \/ CheckAction
    \/ DecideFindingAction
    \/ FreezePreflightAction
    \/ FreezeAction
    \/ IssueAction

KeysSpec == Init /\ [][KeysNext]_vars

\* No id has a finding code between its colons.  identifierPattern does not ask for this;
\* ids that do not are where two findings may get one key.
IdsAvoidCodes ==
    \A id \in PointIds \cup SampleIds : id \in Seq({id[i] : i \in DOMAIN id} \ FindingCodes)

-------------------------------------------------------------------------------
(* Properties *)

\* Every defect of the evidence under review has a finding of the current batch, for
\* a reviewer to decide on (README.md:14): deduplication drops nothing but copies.
EveryDefectHasFinding ==
    campaign.status \in {"ReviewPending", "Frozen", "Certified"} =>
      \A batch \in campaign.currentBatch :
        Raised(campaign.points, campaign.rounds, batch) \subseteq DOMAIN campaign.findings
================================================================================
