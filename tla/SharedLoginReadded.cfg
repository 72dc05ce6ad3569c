\* The re-added sign-in of a login the gateway is using.
SPECIFICATION Spec
CONSTANTS
    Members = {m1}
    Pollers = {}
    Managers = {t1, t2}
    LastSignIn = 2
    Lifetime = 2
    RefreshLead = 1
    MaxNow = 3
    Events = {}
    None = None
    Gone = Gone
SYMMETRY Alike
PROPERTIES NewestSignInKept
CHECK_DEADLOCK FALSE
