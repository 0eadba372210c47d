\* One request with a key while the endpoint it fans out to may be deleted.
CONSTANTS
    Requests = {r1}
    Endpoints = {e1}
    Bodies = {b1}
    Keys = {k1}
    NoKey = NoKey
    NoEvent = NoEvent
    NoBody = NoBody
    MaxEdits = 2
SPECIFICATION IngestSpec
INVARIANTS RefusalHasWinner
CHECK_DEADLOCK FALSE
