CONSTANTS
    b1 = b1
    k1 = k1
    r1 = r1
    u1 = u1
    x = x
    y = y
    BucketName = {b1}
    Key = {k1}
    Role = {r1}
    Usage <- MCUsage
    Body = {}
    Piece <- MCPiece
    PartBody <- MCPartBody
    UploadId = {u1}
    PartNo = {1, 2}
    Cond <- MCCond
    Expected <- MCExpected
    MaxParts = 2
    MaxVersion = 2
    MaxBucketId = 1
    MaxChunkSeq = 1
    InlineThreshold = 1
    ChunkSize = 1
    MinPartSize = 2
    MaxObjectSize = 4
    MaxDepth = 64
    GcLimit = 1
SPECIFICATION FairSpec
INVARIANTS RefcountExact NoDangling ReadsBack
PROPERTIES BlobsImmutable GarbageDrains
CHECK_DEADLOCK FALSE
