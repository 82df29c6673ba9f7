CONSTANTS
    CampaignIds = {"c"}
    PointIds <- Names
    InstrumentIds = {"i"}
    RoundIds = {"r1", "r2"}
    SampleIds <- SampleNames
    Actors = {"ann"}
    Texts = {"a", "longer", "m", "n", "s", "k"}
    MaxSamplingPoints = 2
    MaxRequiredReplicates = 2
    MaxCampaignSampleCount = 4
    Plans <- KeyPlans
    InstrumentRequests <- KeyInstruments
    RoundRequests <- KeyRounds
SPECIFICATION KeysSpec
INVARIANTS
    EveryDefectHasFinding
CHECK_DEADLOCK FALSE
