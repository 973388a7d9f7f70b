\* Two requests at a time, of one user.
CONSTANTS
    a = a
    b = b
    c = c
    admin = admin
    manager = manager
    x = x
    d1 = d1
    d2 = d2
    l1 = l1
    l2 = l2
    w1 = w1
    w2 = w2
    Users = {a}
    Roles = {admin, manager}
    Branches = {x}
    Devices = {d1, d2}
    Links = {l1, l2}
    Workers = {w1, w2}
    Admin = admin
    System = {admin}
    ScopeOf <- MCScopeOf
    Staff <- OneAdmin
    Unreferenced = {}
    GrantChoices <- OnlyAll
    PatchFields = 1
    MaxVersion = 3
    MaxPassword = 1
SPECIFICATION OverlappingSpec
INVARIANT SingleSession
CHECK_DEADLOCK FALSE
