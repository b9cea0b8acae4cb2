\* Two requests, one after the other, for a PutObject or for one part, whose
\* bodies arrive as slowly as the idle timeout allows, while a SQL session of
\* the tenant replaces a staged chunk.
CONSTANTS
    Request = {r1, r2}
    Upload = {u1}
    PartNo = {1}
    BodyLen = {0, 2, 3, 4}
    ChunkBytes = 2
    DirectBytes = 0
    UploadLease = 5
    HeartbeatInterval = 1
    BodyIdle = 1
    Slack = 1
    MaxAge = 0
    SqlSequence = {0}
    Overlap = FALSE
    None = None
SPECIFICATION LiveSpec
INVARIANTS TypeOK AnsweredPartKept ObjectIsWhatWasSent LeaseHeld
PROPERTIES UploadsReclaimed
CHECK_DEADLOCK FALSE
