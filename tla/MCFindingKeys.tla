----------------------------- MODULE MCFindingKeys -----------------------------
(***************************************************************************)
(* Two points "a" and "a:below_limit", each to be measured twice, and      *)
(* samples whose ids may continue in the same way.                         *)
(***************************************************************************)
EXTENDS FindingKeys

a == <<"a">>
longer == <<"a", "below_limit">>

Names == {a, longer}
SampleNames == {<<"x">>, <<"below_limit", "x">>, <<"b">>}

KeyPoints ==
    <<[id |-> a, label |-> "a", metric |-> "m", unit |-> "n", required |-> 2,
       lower |-> {5}, upper |-> {10}],
      [id |-> longer, label |-> "longer", metric |-> "m", unit |-> "n", required |-> 2,
       lower |-> {5}, upper |-> {10}]>>

KeyPlans == {[id |-> "c", plannedDate |-> 5, points |-> KeyPoints]}

KeyInstruments ==
    {<<[id |-> "i", serialNumber |-> "s", certificateRef |-> "k", calibratedAt |-> 1,
        expiresAt |-> 9, coveredMetrics |-> {"m"}]>>}

\* One or two samples, of one or both points; the first replicate may be too low.
Measured ==
    {s \in [id : SampleNames, point : Names, replicate : {1, 2}, value : {4, 7}, unit : {"n"}] :
       s.replicate = 2 => s.value = 7}
Readings == {{s, t} : s, t \in Measured}

KeyRounds ==
    {[id |-> r, kind |-> k, supersedes |-> z, recordedBy |-> "ann", samples |-> ss] :
       r \in {"r1", "r2"}, k \in RoundKinds, z \in Optional({"r1"}), ss \in Readings}

================================================================================
