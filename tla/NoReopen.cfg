\* Three periods; nobody may reopen a finding.
CONSTANTS
    branch = branch
    district = district
    ho = ho
    f1 = f1
    p1 = p1
    p2 = p2
    p3 = p3
    Users <- MCUsers
    Findings = {f1}
    Scope <- MCScope
    Periods = {p1, p2, p3}
    Dates = {1, 2, 3}
    MaxRows = 6
    Grants <- GrantsNoReopen
    Totals <- CoreTotals
    Breakdowns <- None
    Tolerance = 0
    EntryBound = 2
    Repeats = 1
    NewDates <- None
    DraftFlags <- None
    MovingWindows <- None
    BankUsers = {ho}
    Approvers = {ho}
SYMMETRY PeriodSymmetry
SPECIFICATION ImportSpec
INVARIANTS
    TransfersForward
    ClosedWithinEligible
PROPERTIES
    LockedRectificationsFrozen
