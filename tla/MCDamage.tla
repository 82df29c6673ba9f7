-------------------------------- MODULE MCDamage --------------------------------
(***************************************************************************)
(* A small instance of Damage: one point with one replicate, measured as   *)
(* good (10) or bad (11) in up to two rounds.                              *)
(***************************************************************************)
EXTENDS MCCampaign, Damage

TwoRoundIds == {r1, r2}
TwoRoundSamples == SampleIdsOver(TwoRoundIds)
TwoRounds == RoundsOver(TwoRoundIds, {<<"p1", 1, 10>>, <<"p1", 1, 11>>})
OnePointPlans == {APlan(<<inlet>>)}
OneCounter == {<<counter>>}
=================================================================================
