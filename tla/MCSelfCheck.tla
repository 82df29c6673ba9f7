------------------------------ MODULE MCSelfCheck ------------------------------
(***************************************************************************)
(* The script's own plan and evidence (selfcheck.go:53-82; velocities in   *)
(* hundredths, limits and days as they are), and other clients who offer   *)
(* an instrument of their own or the last of the script's, and rounds that *)
(* are incomplete or out of limits.                                        *)
(***************************************************************************)
EXTENDS SelfCheck

CheckPoint(id, metric, unit, lower, upper) ==
    [id |-> id, label |-> id, metric |-> metric, unit |-> unit, required |-> 2,
     lower |-> lower, upper |-> upper]

ScriptPlans ==
    {[id |-> "selfcheck-campaign", plannedDate |-> 1,
      points |-> <<CheckPoint("point-particle", "particle", "count/m3", {}, {3520}),
                   CheckPoint("point-velocity", "velocity", "m/s", {20}, {60}),
                   CheckPoint("point-pressure", "pressure", "Pa", {10}, {})>>]}

CheckInstrument(id, metric) ==
    [id |-> id, serialNumber |-> id, certificateRef |-> id, calibratedAt |-> -1,
     expiresAt |-> 366, coveredMetrics |-> {metric}]

InstrumentsOfScript ==
    <<CheckInstrument("inst-particle", "particle"), CheckInstrument("inst-air", "velocity"),
      CheckInstrument("inst-pressure", "pressure")>>

OtherInstruments ==
    {InstrumentsOfScript, <<InstrumentsOfScript[3]>>, <<CheckInstrument("other", "particle")>>}

Reading(id, point, replicate, value, unit) ==
    [id |-> id, point |-> point, replicate |-> replicate, value |-> value, unit |-> unit]

RoundOfScript ==
    [id |-> "round-1", kind |-> "Routine", supersedes |-> {}, recordedBy |-> "engineer",
     samples |-> {Reading("s-p-1", "point-particle", 1, 1000, "count/m3"),
                  Reading("s-p-2", "point-particle", 2, 1100, "count/m3"),
                  Reading("s-v-1", "point-velocity", 1, 35, "m/s"),
                  Reading("s-v-2", "point-velocity", 2, 36, "m/s"),
                  Reading("s-d-1", "point-pressure", 1, 15, "Pa"),
                  Reading("s-d-2", "point-pressure", 2, 16, "Pa")}]

\* What others may measure: all of it, only the pressure, or a pressure below the limit.
OtherRounds ==
    {[RoundOfScript EXCEPT !.id = i, !.kind = k, !.supersedes = z, !.samples = ss] :
       i \in {"round-1", "round-2"}, k \in RoundKinds, z \in Optional({"round-1"}),
       ss \in {RoundOfScript.samples,
               {s \in RoundOfScript.samples : s.point = "point-pressure"},
               {Reading("low", "point-pressure", 1, 9, "Pa")}}}

ScriptSamples == {s.id : s \in RoundOfScript.samples} \cup {"low"}
ScriptTexts == {"point-particle", "point-velocity", "point-pressure", "inst-particle",
                "inst-air", "inst-pressure", "other", "particle", "velocity", "pressure",
                "count/m3", "m/s", "Pa"}
================================================================================
