\* A part is tried again before its first try has ended.
CONSTANTS
    Request = {r1, r2}
    Upload = {u1}
    PartNo = {1}
    BodyLen = {0, 1, 3}
    ChunkBytes = 2
    DirectBytes = 0
    UploadLease = 5
    HeartbeatInterval = 1
    BodyIdle = 1
    Slack = 1
    MaxAge = 0
    SqlSequence = {}
    Overlap = TRUE
    None = None
SPECIFICATION Spec
INVARIANTS ObjectIsWhatWasSent
CHECK_DEADLOCK FALSE
