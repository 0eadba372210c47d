\* One of the two workers may hang with its transaction open.
CONSTANTS
    Deliveries = {d1, d2}
    Workers = {w1, w2}
    Redrivers = {}
    NoWorker = NoWorker
    NoDelivery = NoDelivery
    MaxAttempts = 2
    BatchSize = 2
    Undecryptable = {}
    Unstorable = {}
    MaxCrashes = 0
    MaxHangs = 1
    MaxRedrives = 0
    MaxPosts = 0
SPECIFICATION FairSpec
PROPERTIES EventuallySettled
