\* A registration caught between its read and its commit, around an import and its reversal.
CONSTANTS
    f1 = f1
    f2 = f2
    n1 = n1
    n2 = n2
    u1 = u1
    u2 = u2
    q1 = q1
    q2 = q2
    i1 = i1
    i2 = i2
    a1 = a1
    home = home
    w1 = w1
    p1 = p1
    p2 = p2
    s1 = s1
    s2 = s2
    t1 = t1
    t2 = t2
    Requests = {q1, q2}
    Findings = {f1, f2}
    Imported = {f2}
    Files = {n1, n2}
    Users = {u1, u2}
    Keepers = {u1}
    Batches = {i1, i2}
    MaxNumber = 3
    MaxRows = 2
    Accounts = {a1}
    Address = home
    MaxAttempts = 2
    RateWindow = 2
    MaxFailures <- MCMaxFailures
    Window <- MCWindow
    MaxCount = 6
    Waiting = {w1}
    Pollers = {p1, p2}
    Threshold = 2
    Cooldown = 1
    MaxMessages = 4
    Admins = {s1, s2}
    Words = {t1, t2}
    MaxSent = 2
SPECIFICATION Spec
INVARIANTS
    NoNumberReissued
CHECK_DEADLOCK FALSE
