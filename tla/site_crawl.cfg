\* One site, depth 2, four pages; every page may fail, hold any of the link
\* lists and a contact; the job may be aborted at any await.
SPECIFICATION FairSpec
CONSTANTS
    Hosts <- MCHosts
    DomainOf <- MCDomainOf
    Paths <- MCPaths
    PathClass <- MCPathClass
    PageLinks <- MCPageLinks
    Start <- MCStart
    MaxDepth = 2
    MaxPages = 4
INVARIANTS
    TypeOK
    FetchedOnce
    BudgetIsVisited
    BreadthFirst
    CompleteWithinLimits
PROPERTIES
    PriorityLinksFirst
    CrawlEnds
    IsSearch
CHECK_DEADLOCK FALSE
