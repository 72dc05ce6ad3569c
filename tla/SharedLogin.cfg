\* Two members' requests and everything that can happen around one sign-in.
SPECIFICATION Spec
CONSTANTS
    Members = {m1, m2}
    Pollers = {}
    Managers = {t1, t2}
    LastSignIn = 1
    Lifetime = 2
    RefreshLead = 1
    MaxNow = 3
    Events = {"failure", "firstParty", "remove", "diagnose", "stop", "crash"}
    None = None
    Gone = Gone
SYMMETRY Alike
INVARIANTS TypeOK RotationNeverLost
PROPERTIES StoreNeverGoesBack TokenHandedOutIsAlive
CHECK_DEADLOCK FALSE
