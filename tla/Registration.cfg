\* Every registration input: zero amounts, locked periods open to drafts, submission windows, periods that are moved in the calendar.
CONSTANTS
    branch = branch
    district = district
    ho = ho
    f1 = f1
    p1 = p1
    p2 = p2
    p3 = p3
    Users <- MCUsers
    Findings = {f1}
    Scope <- MCScope
    Periods = {p1, p2}
    Dates = {1, 2}
    MaxRows = 0
    Grants <- GrantsAll
    Totals <- MixedTotals
    Breakdowns <- None
    Tolerance = 0
    EntryBound = 2
    Repeats = 1
    NewDates = {1, 2, 3}
    DraftFlags <- AnyFlag
    MovingWindows = {p1, p2}
    BankUsers = {ho}
    Approvers = {ho}
SYMMETRY PeriodSymmetry
SPECIFICATION MCSpec
PROPERTIES
    PeriodsGuardRegistration
