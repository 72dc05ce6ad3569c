\* Two managers of one account, after the first was forgotten while in use.
SPECIFICATION Spec
CONSTANTS
    Members = {m1, m2}
    Pollers = {}
    Managers = {t1, t2}
    LastSignIn = 1
    Lifetime = 2
    RefreshLead = 1
    MaxNow = 4
    Events = {"failure"}
    None = None
    Gone = Gone
SYMMETRY Alike
INVARIANTS NoSelfCollision
CHECK_DEADLOCK FALSE
