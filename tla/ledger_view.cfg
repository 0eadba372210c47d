\* Two trades of one account, two attempts each, while the dashboard reads.
CONSTANTS
    Trades = {t1, t2}
    Accounts = {a1}
    Times = {1}
    Calls = {c1, c2}
    NoTrade = NoTrade
    NoCall = NoCall
    MaxAttempts = 2
    MaxTrail = 2
    MaxDeaths = 0
SPECIFICATION ViewSpec
PROPERTIES DriftIsLoss
