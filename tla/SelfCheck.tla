------------------------------- MODULE SelfCheck -------------------------------
(***************************************************************************)
(* The self check (src/cmd/server/selfcheck.go): a client that drives a    *)
(* campaign from its creation to a verified credential through the HTTP    *)
(* interface of a server it started itself, each request built from the    *)
(* answer to the one before.  The server listens on a real address, so     *)
(* that other clients may work on the same campaign meanwhile.             *)
(*                                                                         *)
(* The server's side is Campaign; here each command also compares the      *)
(* version it expects (repository.go:44-46) and leaves an audit event.     *)
(***************************************************************************)
EXTENDS Campaign

CONSTANTS
    ScriptInstruments, ScriptRound,   \* what the script registers and records
    Engineer                          \* who records the round

ASSUME ScriptAssumption ==
    /\ ScriptInstruments \in Seq(Instrument)
    /\ ScriptRound \in Round
    /\ Engineer \in Actors

\* The script's evidence is what a plan needs and nothing is wrong with it: instruments
\* that cover it, and a measurement within the limits of every replicate.
ScriptFits(date, points) ==
    /\ ScriptInstruments # << >>
    /\ \A k \in DOMAIN ScriptInstruments :
         /\ ValidCalibration(ScriptInstruments[k])
         /\ InService(ScriptInstruments[k], date)
         /\ \A l \in DOMAIN ScriptInstruments :
              k # l => Distinguishable(ScriptInstruments[k], ScriptInstruments[l])
    /\ \A p \in points : \E k \in DOMAIN ScriptInstruments :
         p.metric \in ScriptInstruments[k].coveredMetrics
    /\ ScriptRound.kind = "Routine" /\ ScriptRound.recordedBy = Engineer
    /\ ScriptRound.samples # {}
    /\ \A s \in ScriptRound.samples :
         /\ InPlan(points, s)
         /\ \A t \in ScriptRound.samples : s # t => s.id # t.id /\ ~SameSlot(s, t)
         /\ \A p \in points : s.point = p.id => WithinLimits(p, s.value)
    /\ \A p \in points : \A r \in 1 .. p.required :
         \E s \in ScriptRound.samples : s.point = p.id /\ s.replicate = r

PointsOf(plan) == {plan.points[i] : i \in DOMAIN plan.points}

ASSUME ScriptFitsAssumption ==
    \A plan \in Plans :
      CanCreate(plan.points) => ScriptFits(plan.plannedDate, PointsOf(plan))

VARIABLES
    step,     \* the next request of the script, "passed" or "failed"
    seen,     \* the version in the last answer
    hash,     \* {} or the manifest hash of the preflight's answer
    events,   \* per audit event, whose command it records
    late      \* did a request of the script time out?

selfVars == <<campaign, candidate, step, seen, hash, events, late>>

Ended == {"passed", "failed"}

\* The first post creates the campaign, unless somebody was faster.
SelfInit ==
    /\ Init
    /\ \E creator \in {"script", "other"} :
         /\ events = <<creator>>
         /\ step = IF creator = "script" THEN "instruments" ELSE "failed"
    /\ seen = 1
    /\ hash = {}
    /\ late = FALSE

-------------------------------------------------------------------------------
(* The script *)

Goto(ok, next) == step' = IF ok THEN next ELSE "failed"

Refused == step' = "failed" /\ UNCHANGED <<campaign, seen, hash, events>>

Current_Unchecked == TRUE

Current == seen = campaign.version

\* A post: applied if it is legal and expects the current version; its answer, with the
\* campaign it left, has to be what the script expects.
Post(can, after, expected, next) ==
    IF Current /\ can
      THEN /\ campaign' = after
           /\ seen' = after.version
           /\ events' = Append(events, "script")
           /\ Goto(expected, next)
           /\ UNCHANGED hash
      ELSE Refused

PostInstruments ==
    /\ step = "instruments"
    /\ LET after == RegisterInstruments(campaign, ScriptInstruments)
       IN Post(CanRegisterInstruments(campaign, ScriptInstruments), after,
               after.status = "Ready", "round")

PostRound ==
    /\ step = "round"
    /\ Post(CanAddRound(campaign, ScriptRound, Engineer), AddRound(campaign, ScriptRound),
            TRUE, "review")

PostReview ==
    /\ step = "review"
    /\ LET after == SubmitForReview(campaign)
       IN Post(CanSubmitForReview(campaign), after,
               after.status = "ReviewPending" /\ DOMAIN after.findings = {}, "preflight")

\* The preflight is asked for the version the review was answered with.
GetPreflight ==
    /\ step = "preflight"
    /\ IF Current /\ FreezeBlockers(campaign, FALSE) = {}
         THEN hash' = {Hash(campaign)} /\ step' = "freeze" /\ UNCHANGED <<campaign, seen, events>>
         ELSE Refused

PostFreeze ==
    /\ step = "freeze"
    /\ \E h \in hash :
         LET after == Freeze(campaign, h)
         IN Post(CanFreeze(campaign) /\ h = Hash(campaign), after, after.manifestHash # {}, "issue")

PostIssue ==
    /\ step = "issue"
    /\ \E issuedBy \in Actors : \E credential \in Issue(campaign, issuedBy) :
         LET after == Certify(campaign, credential)
         IN Post(CanIssue(campaign) /\ CanCertify(campaign, credential), after,
                 after.status = "Certified", "verify")

GetVerification ==
    /\ step = "verify"
    /\ Goto(VerifyDetailed(campaign, FALSE, FALSE) = {}, "timeline")
    /\ UNCHANGED <<campaign, seen, hash, events>>

GetTimeline ==
    /\ step = "timeline"
    /\ Goto(Len(events) = 6, "passed")
    /\ UNCHANGED <<campaign, seen, hash, events>>

Script ==
    /\ \/ PostInstruments \/ PostRound \/ PostReview \/ GetPreflight
       \/ PostFreeze \/ PostIssue \/ GetVerification \/ GetTimeline
    /\ UNCHANGED <<candidate, late>>

\* 3 seconds without an answer, or 20 for the whole script.  (A request that is executed
\* after the script stopped waiting is like another client's.)
TimeOut ==
    /\ step \notin Ended
    /\ step' = "failed" /\ late' = TRUE
    /\ UNCHANGED <<campaign, candidate, seen, hash, events>>

\* Other clients know the current version.
Others ==
    /\ Next
    /\ events' = IF campaign' = campaign THEN events ELSE Append(events, "other")
    /\ UNCHANGED <<step, seen, hash, late>>

SelfNext == Script \/ TimeOut \/ Others

SelfSpec == SelfInit /\ [][SelfNext]_selfVars

-------------------------------------------------------------------------------
(* Properties *)

Disturbed == late \/ \E i \in DOMAIN events : events[i] = "other"

\* A self check that nobody disturbs and that gets its answers in time passes: a failure
\* is never the script's own, nor of the rules it exercises.
FailsOnlyIfDisturbed == step = "failed" => Disturbed

\* The script never takes somebody else's work for its own: what it freezes and
\* certifies is the evidence it recorded, nothing less and nothing more.
CertifiesOwnEvidence ==
    step \in {"issue", "verify", "timeline", "passed"} =>
      /\ campaign.rounds = <<ScriptRound>>
      /\ campaign.instruments = {ScriptInstruments[i] : i \in DOMAIN ScriptInstruments}
================================================================================
