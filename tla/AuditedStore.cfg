\* Every request appends audit entries.
CONSTANTS
    r1 = r1
    r2 = r2
    r3 = r3
    finding = finding
    settings = settings
    Requests = {r1, r2, r3}
    Rows = {finding, settings}
    Touches <- MCTouches
    Entries <- MCEntries
SPECIFICATION FairSpec
INVARIANTS
    ChainValid
    AllOrNothing
PROPERTIES
    LogFirstIsSafe
    EveryRequestEnds
