\* Each part on the smallest instance on which its hazards happen.
CONSTANTS
    Recorders = {r1, r2, r3}
    Keep = 2
    MaxRequests = 5
    Seeders = {s1, s2, s3}
    Earlier = Earlier
    Urls = {u1}
    NoUrl = NoUrl
    Trades = {t1, t2}
    Accounts = {a1}
    Times = {1}
    Calls = {c1, c2}
    NoTrade = NoTrade
    NoCall = NoCall
    MaxAttempts = 1
    MaxTrail = 1
    MaxDeaths = 1
    MaxForged = 1
    Ids = {1, 2, 3}
    Instants = {1, 2}
    PageSize = 1
    Projects = {p1, p2}
    Names = {n1}
    NoName = NoName
    ApiKeys = {k1, k2}
    Requests = {q1, q2}
    NoKey = NoKey
    Rotations = {w1, w2}
    MaxAge = 2
    Skew = 1
    MaxSecrets = 4
    MaxClock = 6
    Forces = {f1, f2}
    ForceAttempts = 2
    PoolSize = 2
    ForceTrail = 3
SPECIFICATION ServicesSpec
INVARIANTS InboxShowsNewest InboxBounded SeededOnce NaiveAsClaimed QuietViewRight WalkComplete
PROPERTIES RevocationHolds GenuineAccepted TrailKept ForcedSettles EveryForceEnds
CHECK_DEADLOCK FALSE
