\* One finding, two periods, every permission the seeded roles have.
CONSTANTS
    branch = branch
    district = district
    ho = ho
    f1 = f1
    p1 = p1
    p2 = p2
    p3 = p3
    Users <- MCUsers
    Findings = {f1}
    Scope <- MCScope
    Periods = {p1, p2}
    Dates = {1, 2}
    MaxRows = 5
    Grants <- GrantsAll
    Totals <- CoreTotals
    Breakdowns <- SomeBreakdowns
    Tolerance = 0
    EntryBound = 2
    Repeats = 1
    NewDates <- None
    DraftFlags <- None
    MovingWindows <- None
    BankUsers = {ho}
    Approvers = {ho}
SYMMETRY PeriodSymmetry
SPECIFICATION ImportSpec
INVARIANTS
    TypeOK
    CountersOrdered
    StatusMatchesCounters
    BalanceReachable
    ResidencyAddsUp
    BooksAgree
    PagesMirrorRoutes
    QueueLeadsOn
    TotalsAddUp
PROPERTIES
    BranchSideIsFinal
    OnlyReopenUndoes
    ImplementsLifecycle
