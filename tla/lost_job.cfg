\* One job, one failure: the scraper exits with a job it has not reported.
SPECIFICATION Spec
CONSTANTS
    None = None
    Campaigns = {c1}
    Jobs = {j1}
    CampaignOf <- MCOneCampaign
    DropNoContact = {}
    UnknownSource = {}
    Workers = {w1}
    Drainers = {d1}
    Watchdogs = {}
    Viewers = {}
    MaxAttempts = 1
    MaxRetryAttempts = 1
    DailyLimit = 1
    MaxDay = 1
    MaxLeads = 0
    MaxFaults = 1
INVARIANT
    CrashLosesNothing
CHECK_DEADLOCK FALSE
