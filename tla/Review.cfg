CONSTANTS
    r1 = r1
    r2 = r2
    r3 = r3
    r4 = r4
    CampaignIds = {"c1"}
    PointIds = {"p1", "p2", "p3"}
    InstrumentIds = {"i1", "i2", "i3"}
    Actors = {"ann"}
    Texts = {"inlet", "bench", "door", "particles", "pressure", "n", "Pa", "s1", "s2", "s3", "k1", "k2", "k3"}
    MaxSamplingPoints = 2
    MaxRequiredReplicates = 2
    MaxCampaignSampleCount = 3
    RoundIds <- FourRoundIds
    SampleIds <- FourRoundSamples
    RoundRequests <- FourRounds
    Plans <- CreateRequests
    InstrumentRequests <- OfferedRequests
SPECIFICATION Spec
SYMMETRY FourRoundSymmetry
INVARIANTS
    TypeOK
    IntegrityHolds
    OpenWorkIsCurrent
    StatusReflectsFindings
    SlotMeasuredOnce
    EffectiveMatchesLoop
    RemediatedByFullRetest
    ReviewHasExit
    MeasuredFindingsRetestable
    DerivedViewsFresh
    BatchesAccountForFindings
    PreflightStaysValid
    NoDefectEscapes
    ReleaseGate
    ManifestVerifies
PROPERTIES
    HistoryKept
    ReleasePromise
CHECK_DEADLOCK FALSE
