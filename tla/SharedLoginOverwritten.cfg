\* A manager of the replaced sign-in overwrites the queued rotation of the new one.
SPECIFICATION Spec
CONSTANTS
    Members = {m1, m2}
    Pollers = {}
    Managers = {t1, t2}
    LastSignIn = 2
    Lifetime = 2
    RefreshLead = 1
    MaxNow = 4
    Events = {"failure"}
    None = None
    Gone = Gone
SYMMETRY Alike
INVARIANTS RotationNeverLost
CHECK_DEADLOCK FALSE
