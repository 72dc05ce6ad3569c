\* A member and the usage poller while the account is signed in to again.
SPECIFICATION Spec
CONSTANTS
    Members = {m1}
    Pollers = {p}
    Managers = {t1, t2}
    LastSignIn = 2
    Lifetime = 2
    RefreshLead = 1
    MaxNow = 3
    Events = {"failure", "end"}
    None = None
    Gone = Gone
SYMMETRY Alike
INVARIANT EndedLoginLeftAlone
PROPERTIES ManagerNeverGoesBack
CHECK_DEADLOCK FALSE
