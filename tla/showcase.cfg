\* Two claim loops, a delivery, a LISTEN that breaks, a tick that raises, two visits, and
\* a failed call of the watchdog or a crash of the app; or a producer of two symbols and
\* a visitor who can hold the single thread of the app.
CONSTANTS
    Loops = {l1, l2}
    Deliveries = {d1}
    NoLoop = NoLoop
    BatchSize = 2
    MaxBreaks = 1
    MaxErrors = 1
    MaxHiccups = 1
    NumSymbols = 2
    Prices = {2, 3}
    ThresholdPct = 50
    BurstCount = 1
    TradeBurstCount = 2
    Visitors = {v1}
    AppThreads = 1
    MaxRestarts = 1
SPECIFICATION ShowcaseSpec
INVARIANTS TypeOK NoLostWakeup
PROPERTIES DueWorkFound UnwatchedSleeps ProducerAsClaimed
