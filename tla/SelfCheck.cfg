CONSTANTS
    ScriptInstruments <- InstrumentsOfScript
    ScriptRound <- RoundOfScript
    Engineer = "engineer"
    CampaignIds = {"selfcheck-campaign"}
    PointIds = {"point-particle", "point-velocity", "point-pressure"}
    InstrumentIds = {"inst-particle", "inst-air", "inst-pressure", "other"}
    RoundIds = {"round-1", "round-2"}
    SampleIds <- ScriptSamples
    Actors = {"engineer"}
    Texts <- ScriptTexts
    MaxSamplingPoints = 3
    MaxRequiredReplicates = 2
    MaxCampaignSampleCount = 6
    Plans <- ScriptPlans
    InstrumentRequests <- OtherInstruments
    RoundRequests <- OtherRounds
SPECIFICATION SelfSpec
INVARIANTS
    FailsOnlyIfDisturbed
    CertifiesOwnEvidence
CHECK_DEADLOCK FALSE
