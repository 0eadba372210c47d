\* Two trades of one account, in either order of time, with a retry each, two calls
\* at once, timeouts and a redrive.
CONSTANTS
    Trades = {t1, t2}
    Accounts = {a1}
    Times = {1, 2}
    Calls = {c1, c2}
    NoTrade = NoTrade
    NoCall = NoCall
    MaxAttempts = 2
    MaxTrail = 3
    MaxDeaths = 0
SPECIFICATION FairSpec
INVARIANTS TypeOK CreditedOnce StatusIsLatest AckedIsApplied
PROPERTIES ImplementsLedger EveryCallEnds
