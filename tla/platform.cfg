\* A queue of a delivery whose secret cannot be decrypted, one whose answer cannot be
\* stored and a healthy one, with a crash, a hang and a redrive of each; a queue of two
\* healthy deliveries with a crash and redrives; or two requests, either of which may
\* carry the key, with one of two bodies, while endpoints are edited three times.
CONSTANTS
    Deliveries = {d1, d2, d3}
    Sound = {d1, d4}
    Workers = {w1, w2}
    Redrivers = {r1}
    NoWorker = NoWorker
    NoDelivery = NoDelivery
    MaxAttempts = 2
    BatchSize = 2
    Undecryptable = {d2}
    Unstorable = {d3}
    MaxCrashes = 1
    MaxHangs = 1
    MaxRedrives = 1
    MaxPosts = 3
    Requests = {q1, q2}
    Endpoints = {e1, e2}
    Bodies = {b1, b2}
    Keys = {k1}
    NoKey = NoKey
    NoEvent = NoEvent
    NoBody = NoBody
    MaxEdits = 3
SPECIFICATION PlatformSpec
INVARIANTS TypeOK NoClaimCommitted NoLostUpdate ClaimsDisjoint AttemptsNumbered
           AttemptBudget OutcomeJustified DuplicatesBounded
           IngestTypeOK KeyPublishesOnce FanOutExact SameKeySameAnswer LoserLeavesNothing
PROPERTIES FollowsLifecycle ImplementsContract SoundQueueSettles
           ImplementsIngestion IngestionAnswers
