\* One job, no failure: a retried job pushes leads its campaign asked to drop.
SPECIFICATION Spec
CONSTANTS
    None = None
    Campaigns = {c1}
    Jobs = {j1}
    CampaignOf <- MCOneCampaign
    DropNoContact = {c1}
    UnknownSource = {}
    Workers = {w1, w2}
    Drainers = {d1}
    Watchdogs = {g1}
    Viewers = {}
    MaxAttempts = 1
    MaxRetryAttempts = 1
    DailyLimit = 1
    MaxDay = 1
    MaxLeads = 1
    MaxFaults = 0
INVARIANT
    ContactlessDropped
CHECK_DEADLOCK FALSE
