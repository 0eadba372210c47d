\* Two redrive requests for one dead-lettered delivery.
CONSTANTS
    Deliveries = {d1}
    Workers = {w1}
    Redrivers = {r1, r2}
    NoWorker = NoWorker
    NoDelivery = NoDelivery
    MaxAttempts = 2
    BatchSize = 2
    Undecryptable = {}
    Unstorable = {}
    MaxCrashes = 0
    MaxHangs = 0
    MaxRedrives = 1
    MaxPosts = 0
SPECIFICATION Spec
PROPERTIES FollowsLifecycle
