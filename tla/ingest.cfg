\* Two API instances drain three batches; two failed calls, one exit.
SPECIFICATION FairSpec
CONSTANTS
    None = None
    Leads <- MCLeads
    ContactsOf <- MCContactsOf
    Unstorable <- MCUnstorable
    Batches <- MCBatches
    LeadsOf <- MCLeadsOf
    SourceOf <- MCSourceOf
    Drainers = {d1, d2}
    MaxRetryAttempts = 1
    MaxPushes <- MCMaxPushes
    MaxFaults = 2
    MaxExits = 1
INVARIANTS
    IngestTypeOK
    OneRowPerContact
    LossesBounded
    LoneSourcesKept
PROPERTIES
    BatchesSettle
CHECK_DEADLOCK FALSE
