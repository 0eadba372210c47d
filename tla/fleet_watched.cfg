\* A visitor may come back at any time; nothing fails.
CONSTANTS
    Loops = {l1}
    Deliveries = {d1}
    NoLoop = NoLoop
    BatchSize = 2
    MaxBreaks = 0
    MaxErrors = 0
    MaxHiccups = 0
SPECIFICATION FairSpec
PROPERTIES WatchedIsServed
