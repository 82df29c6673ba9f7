CONSTANTS
    CampaignIds = {"c"}
    PointIds <- WorkPoints
    InstrumentIds = {"i"}
    RoundIds = {1, 2, 3, 4, 5, 6}
    SampleIds <- WorkSamples
    Actors = {"ann"}
    Texts = {"p", "q", "m", "n", "s", "k"}
    MaxSamplingPoints = 2
    MaxRequiredReplicates = 2
    MaxCampaignSampleCount = 2
    Plans <- WorkPlans
    InstrumentRequests <- WorkInstruments
    RoundRequests = {}
    Values = {7, 11}
    MaxRemediations = 3
SPECIFICATION WorkSpec
INVARIANTS
    EveryDefectHasFinding
    ViewsAgree
PROPERTIES
    Certification
CHECK_DEADLOCK FALSE
