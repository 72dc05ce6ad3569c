\* One account, two pages and two logins; time enough for a refusal to be waited
\* out and met again.
SPECIFICATION FairSpec
CONSTANTS
    Gets = {g1, g2}
    Logins = {l1, l2}
    Forgetter = Forgetter
    TTL = 2
    ShortTTL = 1
    ExpireFloor = 1
    BackoffFirst = 2
    BackoffMax = 3
    RetryAfters = {0}
    MaxNow = 2
    None = None
INVARIANT NumbersAreTheirs
PROPERTIES CallsSpaced RefusalHonoured GetReturns
