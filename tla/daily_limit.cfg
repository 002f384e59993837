\* Three campaigns of one job each, a limit of one, two days, one API instance.
SPECIFICATION Spec
CONSTANTS
    None = None
    Campaigns = {c1, c2, c3}
    Jobs = {c1, c2, c3}
    CampaignOf <- MCOneJobEach
    DropNoContact = {c1, c2, c3}
    UnknownSource = {c3}
    Workers = {w1}
    Drainers = {d1}
    Watchdogs = {}
    Viewers = {v1}
    MaxAttempts = 1
    MaxRetryAttempts = 0
    DailyLimit = 1
    MaxDay = 2
    MaxLeads = 1
    MaxFaults = 0
SYMMETRY MCSymmetry
INVARIANTS
    DailyLimitHoldsUpToCarryOver
    RefundsAccounted
CHECK_DEADLOCK FALSE
