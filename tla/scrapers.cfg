\* Ten sources, each from its first request to its outcome; every request may
\* fail, every list may come, the job may be aborted at any await.
SPECIFICATION FairSpec
CONSTANTS
    a = a
    b = b
    c = c
    NoLead = NoLead
    Sources <- AllSources
    Keys <- MCKeys
    Pages <- MCPages
    BatchSize = 2
    MaxPages = 2
    MaxRounds = 2
    MaxSites = 2
INVARIANTS
    TypeOK
    StreamAccounted
    LossBounded
    OneLeadPerKey
    VisitedBeforeDelivery
    StopsSoon
PROPERTIES
    ScrapeEnds
    IsStream
CHECK_DEADLOCK FALSE
