\* The poller while the account is signed in to again and its old sign-in ends.
SPECIFICATION Spec
CONSTANTS
    Members = {}
    Pollers = {p}
    Managers = {t1}
    LastSignIn = 2
    Lifetime = 2
    RefreshLead = 1
    MaxNow = 5
    Events = {"end"}
    None = None
    Gone = Gone
INVARIANT MarkedLoginEnded
CHECK_DEADLOCK FALSE
