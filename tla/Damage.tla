--------------------------------- MODULE Damage --------------------------------
(***************************************************************************)
(* One campaign whose stored data is altered behind the service's back, as *)
(* in the copies of a database that the persistence check is meant for     *)
(* (README.md:79).  The commands are those of Campaign; each writes the    *)
(* evidence rows anew (Run, replaceEvidence).  Damage replaces a part of   *)
(* the aggregate, of the rows of one table, or of the credential row, or   *)
(* leaves a row of a campaign that does not exist.                         *)
(*                                                                         *)
(* Here a read is one step; reads that race with commands are in Store.    *)
(***************************************************************************)
EXTENDS Campaign, Evidence

CONSTANT MaxDamages    \* bound: alterations from outside

ASSUME MaxDamagesAssumption == MaxDamages \in Nat

VARIABLES
    rows,     \* the campaign's rows in the evidence tables
    stray,    \* is there a row of a campaign that does not exist?
    altered,  \* history: what the commands have not written over or sealed since
    damages   \* how often something was altered

damageVars == <<campaign, candidate, rows, stray, altered, damages>>

RaisedSince(before, after) == DOMAIN after.findings \ DOMAIN before.findings

DamageInit ==
    /\ Init
    /\ rows = EvidenceRows(campaign, {})
    /\ stray = FALSE
    /\ altered = {}
    /\ damages = 0

-------------------------------------------------------------------------------
(* The service *)

Command ==
    \/ RegisterInstrumentsAction
    \/ AddRoundAction
    \/ SubmitForReviewAction
    \/ DecideFindingAction
    \/ FreezeAction
    \/ IssueAction

\* A command writes every row anew.  A damaged aggregate is read and written back as it
\* is; from the freeze on its hash tells.
StillAltered(before) == IF IsFrozen(before.status) THEN {"aggregate"} ELSE {}

\* Run: load without any check, change, validate, write aggregate and rows.  A command
\* fails and changes nothing if the result is not valid, or if PRAGMA foreign_key_check,
\* which looks at the whole database, finds a stray row of whatever campaign.
Write_ChangedTablesOnly ==
    /\ Command
    /\ ValidateIntegrity(campaign')
    /\ ~stray
    /\ rows' = [t \in DOMAIN rows |->
                  LET before == EvidenceRows(campaign, {})[t]
                      after == EvidenceRows(campaign', RaisedSince(campaign, campaign'))[t]
                  IN IF before = after THEN rows[t] ELSE after]
    /\ altered' = altered \cap StillAltered(campaign)
    /\ UNCHANGED <<stray, damages>>

Write ==
    /\ Command
    /\ ValidateIntegrity(campaign')
    /\ ~stray
    /\ rows' = EvidenceRows(campaign', RaisedSince(campaign, campaign'))
    /\ altered' = altered \cap StillAltered(campaign)
    /\ UNCHANGED <<stray, damages>>

Preflight ==
    /\ FreezeBlockers(campaign, EvidenceMismatch(campaign, rows)) = {}
    /\ FreezePreflightAction
    /\ UNCHANGED <<rows, stray, altered, damages>>

\* The report of a verification now.
Report ==
    VerifyDetailed(campaign, EvidenceMismatch(campaign, rows), CredentialMismatch(campaign, rows))

-------------------------------------------------------------------------------
(* Damage *)

OneLess(S) == {S \ {x} : x \in S}

\* The last round is lost, or a value it measured is another one.
Falsified(rounds) ==
    LET last == Len(rounds)
    IN IF last = 0 THEN {}
       ELSE {SubSeq(rounds, 1, last - 1)}
            \cup {[rounds EXCEPT ![last].samples = (@ \ {s}) \cup {[s EXCEPT !.value = 0]}]
                    : s \in {x \in rounds[last].samples : x.value # 0}}

DamagedTable(table) ==
    IF table = "rounds" THEN Falsified(rows.rounds) ELSE OneLess(rows[table])

DamageRows ==
    /\ \E i \in DOMAIN Tables : \E worse \in DamagedTable(Tables[i]) :
         rows' = [rows EXCEPT ![Tables[i]] = worse]
    /\ altered' = altered \cup {"rows"}
    /\ UNCHANGED <<campaign, candidate, stray>>

DamageCredentialRow ==
    /\ \E k \in rows.credential :
         \/ rows' = [rows EXCEPT !.credential = {}]
         \/ rows' = [rows EXCEPT !.credential = {[k EXCEPT !.frozenVersion = @ + 1]}]
    /\ altered' = altered \cup {"credential"}
    /\ UNCHANGED <<campaign, candidate, stray>>

\* Evidence in the aggregate: a round, an instrument, or a decision.
DamageAggregate ==
    /\ \/ \E worse \in Falsified(campaign.rounds) :
            campaign' = [campaign EXCEPT !.rounds = worse]
       \/ \E worse \in OneLess(campaign.instruments) :
            campaign' = [campaign EXCEPT !.instruments = worse]
       \/ \E f \in DOMAIN campaign.findings, actor \in Actors :
            /\ DecisionOf(campaign, f) # "Accepted"
            /\ campaign' = [campaign EXCEPT !.findings[f].decision = "Accepted",
                                            !.findings[f].decidedBy = {actor}]
    /\ altered' = altered \cup {"aggregate"}
    /\ UNCHANGED <<candidate, rows, stray>>

StrayRow ==
    /\ ~stray
    /\ stray' = TRUE
    /\ UNCHANGED <<campaign, candidate, rows, altered>>

Alteration ==
    /\ damages < MaxDamages
    /\ damages' = damages + 1
    /\ DamageRows \/ DamageCredentialRow \/ DamageAggregate \/ StrayRow

DamageNext == Write \/ Preflight \/ Alteration

DamageSpec == DamageInit /\ [][DamageNext]_damageVars

-------------------------------------------------------------------------------
(* Properties *)

\* Verification locates the damage (README.md:79): a frozen or certified campaign is
\* reported with the checks that its damage is about and with no others.  What was altered
\* in the rows before the last command has been repaired by it, unseen; what was altered
\* in the aggregate since the freeze is found although issuing the credential wrote it
\* to the rows as well.  Stray rows of others are not its business.
DamageLocated ==
    IsFrozen(campaign.status) =>
      Report = {code \in {"manifest_hash_mismatch", "credential_not_issued", "credential_digest_mismatch"} :
                  CASE code = "manifest_hash_mismatch" -> altered \cap {"aggregate", "rows"} # {}
                    [] code = "credential_not_issued" -> campaign.status = "Frozen"
                    [] OTHER -> campaign.status = "Certified" /\ "credential" \in altered}

\* A valid report vouches for the evidence that the reviewer confirmed: what the last
\* preflight hashed is what the aggregate holds now, whatever was altered in between.
ValidMeansConfirmed ==
    campaign.status = "Certified" /\ Report = {} =>
      \A k \in candidate : DossierOf(Manifest(campaign)) = DossierOf(k.hash)
================================================================================
