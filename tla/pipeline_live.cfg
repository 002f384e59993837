\* Leads, and progress under FairSpec: one job, two worker loops, two failures.
SPECIFICATION FairSpec
CONSTANTS
    None = None
    Campaigns = {c1}
    Jobs = {j1}
    CampaignOf <- MCOneCampaign
    DropNoContact = {c1}
    UnknownSource = {}
    Workers = {w1, w2}
    Drainers = {d1}
    Watchdogs = {g1}
    Viewers = {}
    MaxAttempts = 1
    MaxRetryAttempts = 1
    DailyLimit = 1
    MaxDay = 1
    MaxLeads = 1
    MaxFaults = 2
INVARIANTS
    LeadsAccounted
    ContactlessDroppedOnce
PROPERTIES
    StalledJobsSettle
    SubmittedJobsSettle
    CampaignCompletesUnlessFailed
CHECK_DEADLOCK FALSE
