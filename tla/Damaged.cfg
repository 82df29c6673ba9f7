CONSTANTS
    r1 = r1
    r2 = r2
    r3 = r3
    r4 = r4
    CampaignIds = {"c1"}
    PointIds = {"p1"}
    InstrumentIds = {"i1"}
    Actors = {"ann"}
    Texts = {"inlet", "particles", "n", "s1", "k1"}
    MaxSamplingPoints = 2
    MaxRequiredReplicates = 1
    MaxCampaignSampleCount = 2
    RoundIds <- TwoRoundIds
    SampleIds <- TwoRoundSamples
    RoundRequests <- TwoRounds
    Plans <- OnePointPlans
    InstrumentRequests <- OneCounter
    MaxDamages = 3
SPECIFICATION DamageSpec
INVARIANTS
    DamageLocated
    ValidMeansConfirmed
CHECK_DEADLOCK FALSE
