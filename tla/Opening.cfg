CONSTANTS
    CampaignIds = {"c1"}
    PointIds = {"p1", "p2"}
    InstrumentIds = {"i1"}
    RoundIds = {"r1"}
    SampleIds = {"s1"}
    Actors = {"ann"}
    Texts = {"inlet", "bench", "particles", "n", "s1", "k1"}
    MaxSamplingPoints = 2
    MaxRequiredReplicates = 1
    MaxCampaignSampleCount = 2
    Files <- FoundDatabases
    MaxStops = 3
SPECIFICATION Spec
INVARIANTS
    SchemaWhole
PROPERTIES
    EventuallyServes
CHECK_DEADLOCK FALSE
