\* Organisation, scoring and reports: one of the three moves in each behaviour.
CONSTANTS
    d1 = d1
    d2 = d2
    b1 = b1
    x1 = x1
    u1 = u1
    f1 = f1
    c1 = c1
    ic = ic
    ia = ia
    v1 = v1
    v2 = v2
    Districts = {d1, d2}
    Branches = {b1}
    Departments = {x1}
    Staff = {u1}
    Records = {f1}
    Categories = {c1}
    Sources = {ic, ia}
    Rules = {v1, v2}
    UsedSources = {ic}
    Filters <- MCFilters
    ReportFilters <- MCReportFilters
    Findings = {f1}
    AuditSource = ia
    RuleSources <- MCRuleSources
    LastPeriod = 3
    LastDay = 2
    MaxCases = 2
SYMMETRY MCSymmetry
SPECIFICATION Spec
INVARIANTS
    OneSingledOut
    
PROPERTIES
    NothingNewInDeactivated
    StaffFitTheirPlace
    LiveVersionStands
    PastStandsStill
CHECK_DEADLOCK FALSE
