CONSTANTS
    b1 = b1
    b2 = b2
    k1 = k1
    r1 = r1
    x = x
    u1 = u1
    BucketName = {b1, b2}
    Key = {k1}
    Role = {r1}
    Usage <- MCUsage
    Body <- MCBody
    Piece <- MCPiece
    PartBody = {}
    UploadId = {u1}
    PartNo = {}
    Cond <- MCCond
    Expected <- MCExpected
    MaxParts = 2
    MaxVersion = 3
    MaxBucketId = 3
    MaxChunkSeq = 0
    InlineThreshold = 1
    ChunkSize = 1
    MinPartSize = 1
    MaxObjectSize = 4
    MaxDepth = 64
    GcLimit = 2
SPECIFICATION Spec
SYMMETRY MCSymmetry
INVARIANTS TypeOK LatestIsNewest RefcountExact
PROPERTIES HistoryAppendOnly CreateOnlyNeverCovers KeepsPromises
CHECK_DEADLOCK FALSE
