\* One lead: two PATCHes, a reader, a validator, a merge, lost removals and
\* one failed update.
SPECIFICATION FairSpec
CONSTANTS
    p1 = p1
    p2 = p2
    r1 = r1
    v1 = v1
    maps = maps
    yelp = yelp
    NoRow = NoRow
    Patchers <- MCPatchers
    Readers <- MCReaders
    Validators <- MCValidators
    Sources <- MCSources
    First = maps
    Statuses <- MCStatuses
    MaxFaults = 1
INVARIANTS
    RowTypeOK
PROPERTIES
    OnlyPatchOverwrites
    ValidatedInTheEnd
    CacheCatchesUp
CHECK_DEADLOCK FALSE
