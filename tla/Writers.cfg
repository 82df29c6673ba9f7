CONSTANTS
    c1 = c1
    c2 = c2
    CampaignIds <- OneCampaign
    PointIds = {"p1"}
    InstrumentIds = {"i1"}
    RoundIds = {"r1", "r2"}
    SampleIds = {"r1", "r2"}
    Actors = {"ann"}
    Texts = {"inlet", "particles", "n", "s1", "k1"}
    MaxSamplingPoints = 2
    MaxRequiredReplicates = 1
    MaxCampaignSampleCount = 2
    Clients = {"a", "b"}
    Readers = {}
    MaxKeys = 3
    FreshKeys = 2
    MaxOrphans = 2
    Plans <- OnePointPlan
    InstrumentRequests <- OneInstrument
    RoundRequests <- GoodRound
SPECIFICATION Spec
INVARIANTS
    TypeOK
    AnswersDurable
    RefusalsFinal
PROPERTIES
    LedgerPromise
CHECK_DEADLOCK FALSE
