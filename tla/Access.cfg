\* Accounts, roles, sessions and reset links, one request at a time.
CONSTANTS
    a = a
    b = b
    c = c
    admin = admin
    manager = manager
    x = x
    d1 = d1
    d2 = d2
    l1 = l1
    l2 = l2
    Users = {a, b}
    Roles = {admin, manager}
    Branches = {x}
    Devices = {d1, d2}
    Links = {l1}
    Admin = admin
    System = {admin}
    ScopeOf <- MCScopeOf
    Staff <- OneAdmin
    Unreferenced = {b}
    GrantChoices <- OnlyAll
    PatchFields = 1
    MaxVersion = 3
    MaxPassword = 2
SYMMETRY MCSymmetry
SPECIFICATION Spec
INVARIANTS
    KeepersRemain
    SingleSession
    SessionsUnderCurrentPassword
    LiveRoleActive
PROPERTIES
    RevokedStaysRevoked
CHECK_DEADLOCK FALSE
