\* One delivery: the worker, the receiver and the request that forces it.
CONSTANTS
    Forces = {f1}
    ForceAttempts = 2
    PoolSize = 2
    ForceTrail = 3
SPECIFICATION ForceSpec
PROPERTY SucceededIsFinal
