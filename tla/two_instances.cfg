\* Several API instances: two drainers and two watchdogs on one job.
SPECIFICATION Spec
CONSTANTS
    None = None
    Campaigns = {c1}
    Jobs = {j1}
    CampaignOf <- MCOneCampaign
    DropNoContact = {}
    UnknownSource = {}
    Workers = {w1, w2}
    Drainers = {d1, d2}
    Watchdogs = {g1, g2}
    Viewers = {}
    MaxAttempts = 1
    MaxRetryAttempts = 1
    DailyLimit = 1
    MaxDay = 1
    MaxLeads = 0
    MaxFaults = 1
SYMMETRY MCSymmetry
INVARIANTS
    AttemptsBounded
    AttemptsReserved
    RunsAccounted
CHECK_DEADLOCK FALSE
