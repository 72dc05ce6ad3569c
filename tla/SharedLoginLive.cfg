\* Liveness: requests end and rotations are stored, through failures and kills.
SPECIFICATION FairSpec
CONSTANTS
    Members = {m1, m2}
    Pollers = {}
    Managers = {t1, t2}
    LastSignIn = 1
    Lifetime = 2
    RefreshLead = 1
    MaxNow = 3
    Events = {"failure", "crash"}
    None = None
    Gone = Gone
PROPERTIES RequestEnds RotationStored
CHECK_DEADLOCK FALSE
