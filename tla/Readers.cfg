CONSTANTS
    c1 = c1
    c2 = c2
    CampaignIds <- TwoCampaigns
    PointIds = {"p1"}
    InstrumentIds = {"i1"}
    RoundIds = {"r1", "r2"}
    SampleIds = {"r1", "r2"}
    Actors = {"ann"}
    Texts = {"inlet", "particles", "n", "s1", "k1"}
    MaxSamplingPoints = 2
    MaxRequiredReplicates = 1
    MaxCampaignSampleCount = 2
    Clients = {"a"}
    Readers = {"v"}
    MaxKeys = 9
    FreshKeys = 1
    MaxOrphans = 0
    Plans <- OnePointPlan
    InstrumentRequests <- OneInstrument
    RoundRequests <- RetestedRound
SPECIFICATION Spec
SYMMETRY CampaignSymmetry
INVARIANTS
    VerifyNeverAlarms
    EligiblePreflightNotSpoiled
    TimelineComplete
    RowsFollowAggregate
CHECK_DEADLOCK FALSE
