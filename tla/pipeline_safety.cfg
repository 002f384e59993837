\* One campaign of two jobs, one API instance, two worker loops.
SPECIFICATION Spec
CONSTANTS
    None = None
    Campaigns = {c1}
    Jobs = {j1, j2}
    CampaignOf <- MCOneCampaign
    DropNoContact = {}
    UnknownSource = {}
    Workers = {w1, w2}
    Drainers = {d1}
    Watchdogs = {g1}
    Viewers = {}
    MaxAttempts = 1
    MaxRetryAttempts = 1
    DailyLimit = 1
    MaxDay = 1
    MaxLeads = 0
    MaxFaults = 1
SYMMETRY MCSymmetry
INVARIANTS
    TypeOK
    RunsAccounted
    CompletedMeansAllFinishedOnce
    NoOrphans
PROPERTIES
    FinalStatusSticks
CHECK_DEADLOCK FALSE
