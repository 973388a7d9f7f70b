\* Two controllers close the same finding.
CONSTANTS
    ho = ho
    f1 = f1
    w1 = w1
    w2 = w2
    p1 = p1
    p2 = p2
    p3 = p3
    Users = {ho}
    Findings = {f1}
    Scope <- MCScope
    Workers = {w1, w2}
    Periods = {p1, p2}
    Dates = {1, 2}
    MaxRows = 3
    Grants <- MCGrants
    Totals <- OneCase
    Breakdowns <- None
    Tolerance = 0
    EntryBound = 1
    Repeats = 1
    NewDates <- None
    DraftFlags <- None
    MovingWindows <- None
    BankUsers = {ho}
    Approvers = {ho}
SYMMETRY MCSymmetry
SPECIFICATION ConcurrentSpec
INVARIANTS
    CountersOrdered
