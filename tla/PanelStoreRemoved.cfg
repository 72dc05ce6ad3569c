\* A removed person's invite, or a call under way, brings access back.
SPECIFICATION Spec
CONSTANTS
    c1 = c1  c2 = c2  c3 = c3
    p1 = p1  p2 = p2  d1 = d1  a1 = a1  j1 = j1  s1 = s1  s2 = s2
    l1 = l1  l2 = l2
    Calls = {c1, c2, c3}
    Ids = {c1, c2, c3, p1, p2, d1, a1, j1, s1, s2}
    Logins = {l1, l2}
    LastEnd = 2
    Hours = {1}
    InviteLife = 1
    Opening <- Lent
    Process <- TwoProcesses
    Kinds <- TwoAsk
    Versioned = TRUE
    MaxCASRetries = 1
    MaxNow = 1
    None = None
INVARIANTS RemovedPersonHasNoAccess
CHECK_DEADLOCK FALSE
