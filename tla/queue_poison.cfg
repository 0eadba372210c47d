\* A delivery whose answer cannot be stored shares the only worker's batch.
CONSTANTS
    Deliveries = {d1, d2}
    Workers = {w1}
    Redrivers = {}
    NoWorker = NoWorker
    NoDelivery = NoDelivery
    MaxAttempts = 2
    BatchSize = 2
    Undecryptable = {}
    Unstorable = {d2}
    MaxCrashes = 0
    MaxHangs = 0
    MaxRedrives = 0
    MaxPosts = 0
SPECIFICATION FairSpec
PROPERTIES HealthySettled
