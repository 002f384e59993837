\* One job that fails: its campaign stays active although nothing is left to do.
SPECIFICATION FairSpec
CONSTANTS
    None = None
    Campaigns = {c1}
    Jobs = {j1}
    CampaignOf <- MCOneCampaign
    DropNoContact = {}
    UnknownSource = {}
    Workers = {w1}
    Drainers = {d1}
    Watchdogs = {g1}
    Viewers = {}
    MaxAttempts = 1
    MaxRetryAttempts = 1
    DailyLimit = 1
    MaxDay = 1
    MaxLeads = 0
    MaxFaults = 0
PROPERTY
    FinishedCampaignCompletes
CHECK_DEADLOCK FALSE
