\* One account, one page, and two logins one after the other.
SPECIFICATION Spec
CONSTANTS
    Gets = {g1}
    Logins = {l1, l2}
    Forgetter = Forgetter
    TTL = 2
    ShortTTL = 1
    ExpireFloor = 1
    BackoffFirst = 2
    BackoffMax = 3
    RetryAfters = {0}
    MaxNow = 2
    None = None
PROPERTY ForgottenStaysForgotten
